------------------------------ MODULE MCEmrPool ------------------------------
(***************************************************************************)
(* EmrPool with two runners, one of them with a job of two steps, a cron   *)
(* job and a job flow.                                                     *)
(***************************************************************************)
EXTENDS EmrPool

MCRunner == {"r1", "r2"}
MCTerminator == {"t"}
MCFlow == {"f"}
MCPoolWaits == [r \in MCRunner |-> IF r = "r1" THEN 0 ELSE 1]
MCNumSteps == [r \in MCRunner |-> IF r = "r1" THEN 1 ELSE 2]
===============================================================================
