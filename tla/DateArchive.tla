----------------------------- MODULE DateArchive -----------------------------
(***************************************************************************)
(* What the New York Times miner promises of its archive, without process, *)
(* network or restart: a log of days.  A file is added only behind all the *)
(* files there are, for a day that has begun, and none is changed or taken *)
(* away.  Days may be left out, and then stay out: the promise does not    *)
(* say that every day is there.                                            *)
(***************************************************************************)
EXTENDS Counts

CONSTANTS Date

VARIABLES
    archive,   \* archive[d]: the day the file of date d was asked for
    today

Latest(d) == \A e \in DOMAIN archive : e < d

Init == IsCounts(archive, Date) /\ today \in Date

Append(d, asked) ==
    /\ Latest(d)
    /\ d <= asked
    /\ asked <= today
    /\ archive' = Put(archive, d, asked)
    /\ UNCHANGED today

DayPasses == today' = today + 1 /\ UNCHANGED archive

Next == DayPasses \/ \E d, asked \in Date : Append(d, asked)

Spec == Init /\ [][Next]_<<archive, today>>
==============================================================================
