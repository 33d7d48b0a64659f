----------------------------- MODULE MCMinerDebug -----------------------------
(***************************************************************************)
(* MinerDebug on a calendar of four days and three letters.               *)
(***************************************************************************)
EXTENDS MinerDebug
===============================================================================
