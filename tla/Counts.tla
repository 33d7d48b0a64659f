-------------------------------- MODULE Counts --------------------------------
(***************************************************************************)
(* The .NET Dictionary<string, int> an analysis job counts in: a function  *)
(* from the keys it holds to their counts.  The enumerator's view of it    *)
(* (the version number) is a variable of the job.                          *)
(***************************************************************************)
EXTENDS Integers, FiniteSets

\* new Dictionary<string, int>()
NoCounts == [k \in {} |-> 0]

\* d.Add(k, n) of a new key, and the indexer's d[k] = n of any key.
Put(d, k, n) == [x \in DOMAIN d \cup {k} |-> IF x = k THEN n ELSE d[x]]

\* The count of a key; one that the dictionary does not hold has none.
CountOf(d, k) == IF k \in DOMAIN d THEN d[k] ELSE 0

IsCounts(d, Key) == DOMAIN d \subseteq Key /\ d \in [DOMAIN d -> Nat]

\* A part of e: every entry of d is the entry of e under the same key.
PartOf(d, e) == \A k \in DOMAIN d : k \in DOMAIN e /\ d[k] = e[k]
===============================================================================
