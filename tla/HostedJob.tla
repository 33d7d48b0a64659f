------------------------------ MODULE HostedJob ------------------------------
(***************************************************************************)
(* What an analysis job is to the process it runs in, whatever it counts   *)
(* and whatever runs beside it.  It lists its files and starts callbacks;  *)
(* it writes its output at most once and is then disposed of; it may fail  *)
(* until it writes, and then writes nothing; the callbacks it leaves       *)
(* behind end one by one, at any time; and the process may end at any step.*)
(***************************************************************************)
EXTENDS Integers

CONSTANTS FileCounts   \* how many callbacks a job may leave behind

VARIABLES
    phase,    \* starting, tallying, closing, ended or failed
    late,     \* the callbacks left behind that have not ended
    output,   \* old, or new once the job has written it
    exited    \* whether the process has ended

vars == <<phase, late, output, exited>>

Init ==
    /\ phase = "starting"
    /\ late = 0
    /\ output = "old"
    /\ exited = FALSE

\* The inner Parallel.ForEach returns, with callbacks that have not ended.
StartCallbacks ==
    /\ phase = "starting"
    /\ phase' = "tallying"
    /\ late' \in FileCounts
    /\ UNCHANGED output

\* The write may fail, which the job does not notice.
Write ==
    /\ phase = "tallying"
    /\ phase' = "closing"
    /\ output' \in {"new", output}
    /\ UNCHANGED late

Close ==
    /\ phase = "closing"
    /\ phase' = "ended"
    /\ UNCHANGED <<late, output>>

Fail ==
    /\ phase \in {"starting", "tallying"}
    /\ phase' = "failed"
    /\ UNCHANGED <<late, output>>

CallbackEnds ==
    /\ late > 0
    /\ late' = late - 1
    /\ UNCHANGED <<phase, output>>

ProcessEnds == exited' = TRUE /\ UNCHANGED <<phase, late, output>>

Next ==
    /\ ~ exited
    /\ \/ UNCHANGED exited /\ (StartCallbacks \/ Write \/ Close \/ Fail \/ CallbackEnds)
       \/ ProcessEnds

Spec == Init /\ [][Next]_vars
==============================================================================
