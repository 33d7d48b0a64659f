------------------------------ MODULE AwsStorage ------------------------------
(***************************************************************************)
(* AWSStorageClient of MovieMiner, the storage of the release build, as    *)
(* the New York Times miner uses it: one object per date, the latest date  *)
(* found when the client is constructed.                                   *)
(***************************************************************************)
EXTENDS Counts

CONSTANTS MinDate   \* _minDate, 1930-01-01

\* DateTime.MinValue
MinValue == 0

ASSUME MinDateAssumption == MinDate \in Nat /\ MinDate > MinValue

VARIABLES
    archive,   \* S3: archive[d] is the day the object of date d was asked for
    strays,    \* S3: which kinds of names other than a date's there are
    latest     \* _latestDate

awsVars == <<archive, strays, latest>>

StrayKinds == {"noDate", "noDot"}

\* The dates the constructor finds: a name that is no date counts as MinValue.
FoundDates == DOMAIN archive \cup (IF "noDate" \in strays THEN {MinValue} ELSE {})

\* fileName.Substring(0, index) throws for a name without a dot.
OpenThrows == "noDot" \in strays

BugNextAfter(d) == d
\* Max(...).AddDays(1)
NextAfter(d) == d + 1

\* Max
IsLatest(d) == \A e \in FoundDates : e <= d

\* The constructor.
OpenStorage ==
    /\ ~ OpenThrows
    /\ IF FoundDates = {}
         THEN latest' = MinDate
         ELSE \E d \in FoundDates : IsLatest(d) /\ latest' = NextAfter(d)
    /\ UNCHANGED <<archive, strays>>

\* The object is there, and WriteFileToStorageAsync returns true.
WriteStored(d, asked) ==
    /\ archive' = Put(archive, d, asked)
    /\ latest' = d + 1
    /\ UNCHANGED strays

\* The object is there, but the answer to the request is lost: false.
WriteUnconfirmed(d, asked) ==
    /\ archive' = Put(archive, d, asked)
    /\ UNCHANGED <<strays, latest>>

\* The object is not there: false.
WriteLost == UNCHANGED awsVars
==============================================================================
