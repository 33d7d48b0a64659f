---------------------------- MODULE MCMinerRelease ----------------------------
(***************************************************************************)
(* MinerRelease on a calendar of five days and three letters.             *)
(***************************************************************************)
EXTENDS MinerRelease
===============================================================================
