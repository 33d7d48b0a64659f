----------------------------- MODULE AtomicTally -----------------------------
(***************************************************************************)
(* What an analysis job promises of its output, without threads, lock or   *)
(* enumerator: a tally only grows; at one instant the whole of it is taken *)
(* down, and that is what is published, if anything is.  Tallying may go   *)
(* on after the cut: the promise does not say that everything is counted.  *)
(***************************************************************************)
EXTENDS Counts

CONSTANTS Key, NoOutput

VARIABLES phase, tally, cut, output

vars == <<phase, tally, cut, output>>

Init ==
    /\ phase = "tallying"
    /\ tally = NoCounts
    /\ cut = NoCounts
    /\ output = NoOutput

NewKey(k) ==
    /\ k \notin DOMAIN tally
    /\ tally' = Put(tally, k, 0)
    /\ UNCHANGED <<phase, cut, output>>

Tally(k) ==
    /\ k \in DOMAIN tally
    /\ tally' = Put(tally, k, tally[k] + 1)
    /\ UNCHANGED <<phase, cut, output>>

Cut ==
    /\ phase = "tallying"
    /\ phase' = "cut"
    /\ cut' = tally
    /\ UNCHANGED <<tally, output>>

Fail ==
    /\ phase = "tallying"
    /\ phase' = "failed"
    /\ UNCHANGED <<tally, cut, output>>

\* The write to the output may fail, and nobody is told.
Publish ==
    /\ phase = "cut"
    /\ phase' = "closing"
    /\ output' \in {cut, output}
    /\ UNCHANGED <<tally, cut>>

Close ==
    /\ phase = "closing"
    /\ phase' = "ended"
    /\ UNCHANGED <<tally, cut, output>>

Next ==
    \/ Cut \/ Fail \/ Publish \/ Close
    \/ \E k \in Key : NewKey(k) \/ Tally(k)

Spec == Init /\ [][Next]_vars
==============================================================================
