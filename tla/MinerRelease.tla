----------------------------- MODULE MinerRelease -----------------------------
(***************************************************************************)
(* The MovieMiner of the release build: the host, its two miners and the   *)
(* S3 storage, with crashes and restarts of the process, answers that fail *)
(* or are refused, writes that fail with or without effect, and a clock    *)
(* that passes midnight at any step.                                       *)
(***************************************************************************)
EXTENDS NytMiner, RottenTomatoesMiner, MinerHost, AwsStorage

VARIABLES rtFiles    \* S3: the letters that have an object

vars == <<nytVars, rtVars, hostVars, awsVars, rtFiles>>

ASSUME MinDateIsPast == MinDate <= FirstDay

Date == 0 .. LastDay

\* The archives an earlier life of the program can have left on FirstDay.
EarlierArchives ==
    {a \in UNION {[S -> MinDate .. FirstDay] : S \in SUBSET (MinDate .. FirstDay)} :
        \A d \in DOMAIN a : d <= a[d]}

\* The dates before the last object that have none.
Gaps == {d \in MinDate .. LastDay :
            d \notin DOMAIN archive /\ \E e \in DOMAIN archive : d < e}

Init ==
    /\ HostInit
    /\ archive \in EarlierArchives
    /\ strays \in SUBSET StrayKinds
    /\ latest = MinValue
    /\ nyt = "idle" /\ date = MinValue /\ answered = MinValue
    /\ today = FirstDay
    /\ failed = Gaps
    /\ rt = "idle" /\ letter = 1 /\ rtFailed = {}
    /\ rtFiles = {}
-------------------------------------------------------------------------------
(***************************************************************************)
(* The host.                                                               *)
(***************************************************************************)

LaunchProcess == Launch /\ UNCHANGED <<nytVars, rtVars, awsVars, rtFiles>>

OpenNyt ==
    /\ Resolved("nyt")
    /\ OpenStorage
    /\ StartNyt(latest')
    /\ UNCHANGED <<rtVars, rtFiles>>

\* The directory of the letters has no name without a dot.
OpenRt ==
    /\ Resolved("rt")
    /\ StartRt
    /\ UNCHANGED <<nytVars, awsVars, rtFiles>>

NytDone ==
    /\ ModuleDone("nyt")
    /\ DisposeNyt
    /\ UNCHANGED <<rtVars, awsVars, rtFiles>>

RtDone ==
    /\ ModuleDone("rt")
    /\ DisposeRt
    /\ UNCHANGED <<nytVars, awsVars, rtFiles>>

NextPass == PassAgain /\ UNCHANGED <<nytVars, rtVars, awsVars, rtFiles>>

ProcessEnds ==
    /\ Die
    /\ NytDies
    /\ RtDies
    /\ UNCHANGED <<awsVars, rtFiles>>

\* The constructor of a storage client throws, or a module's task has faulted.
Fault ==
    /\ host = "resolving" \/ nyt = "faulted" \/ rt = "faulted"
    /\ ProcessEnds

Crash == ProcessEnds
-------------------------------------------------------------------------------
(***************************************************************************)
(* The miners.                                                             *)
(***************************************************************************)

NytLoop ==
    /\ Running("nyt")
    /\ AskDate \/ LoopEnds \/ AnswerThrows \/ AnswerRefused \/ AnswerArrives
    /\ UNCHANGED <<rtVars, hostVars, awsVars, rtFiles>>

NytWrite ==
    /\ Running("nyt")
    /\ \/ WriteStored(date, answered) /\ WriteReturns(TRUE)
       \/ WriteUnconfirmed(date, answered) /\ WriteReturns(FALSE)
       \/ WriteLost /\ WriteReturns(FALSE)
    /\ UNCHANGED <<rtVars, hostVars, rtFiles>>

RtLoop ==
    /\ Running("rt")
    /\ RtAnswerThrows \/ RtAnswerRefused \/ RtAnswerArrives
    /\ UNCHANGED <<nytVars, hostVars, awsVars, rtFiles>>

\* A letter's object of an earlier pass is overwritten.
RtWrite ==
    /\ Running("rt")
    /\ \/ rtFiles' = rtFiles \cup {letter} /\ RtWriteReturns(TRUE)
       \/ rtFiles' = rtFiles \cup {letter} /\ RtWriteReturns(FALSE)
       \/ UNCHANGED rtFiles /\ RtWriteReturns(FALSE)
    /\ UNCHANGED <<nytVars, hostVars, awsVars>>

ClockTicks == Midnight /\ UNCHANGED <<rtVars, hostVars, awsVars, rtFiles>>
-------------------------------------------------------------------------------
ProcessStep ==
    \/ OpenNyt \/ OpenRt \/ NytDone \/ RtDone \/ NextPass \/ Fault
    \/ NytLoop \/ NytWrite \/ RtLoop \/ RtWrite

Next == LaunchProcess \/ ProcessStep \/ Crash \/ ClockTicks

Spec == Init /\ [][Next]_vars

\* A process goes on while it lasts: requests end by the time-out of HttpClient,
\* the sleep ends.  Nobody has to start it, or to end it, and the clock may stop.
FairSpec == Spec /\ WF_vars(ProcessStep)
-------------------------------------------------------------------------------
TypeOK ==
    /\ host \in HostStates /\ order \in Orders /\ turn \in 1 .. 2
    /\ nyt \in NytStates
    /\ date \in 0 .. LastDay + 1
    /\ answered \in Date
    /\ today \in FirstDay .. LastDay
    /\ failed \subseteq Date
    /\ IsCounts(archive, Date) /\ \A d \in DOMAIN archive : archive[d] \in Date
    /\ strays \subseteq StrayKinds
    /\ latest \in 0 .. LastDay + 1
    /\ rt \in RtStates
    /\ letter \in 1 .. Letters
    /\ rtFailed \subseteq 1 .. Letters
    /\ rtFiles \subseteq 1 .. Letters

Promise == INSTANCE DateArchive

\* The archive is a log of days: whatever crashes, is lost, or is answered late,
\* a file is only ever added behind all others, never before its day, and none is
\* written twice, although the position in the log (line 30 of the miner) is found
\* anew from the names in S3 at each start.
ImplementsDateArchive == Promise!Spec

\* A crash, a restart or a midnight never costs a date: one before the last object
\* that has none was refused by the service or not written by S3 (lines 39 and 42 of the
\* miner, which go on to the next date for both).
GapsAreFailures == Gaps \subseteq failed

\* A date that has an object is never asked for again (line 34), and every date the
\* loop has passed has an object or has failed, in this life of the process or an
\* earlier one: the loop's position, which a crash forgets, and what S3 holds agree.
AsksOnlyBehindArchive ==
    nyt \in {"checking", "asking", "writing"} =>
        /\ \A d \in DOMAIN archive : d < date
        /\ \A d \in MinDate .. date - 1 : d \in DOMAIN archive \/ d \in failed

\* A run over the letters that has ended has an object, of this pass or an earlier
\* one, or a failure for every letter but the last: the loop (line 42) ends before
\* it asks for 'Z', which never has an object.
LettersButTheLast ==
    /\ rt = "ended" => 1 .. Letters - 1 = (rtFiles \cup rtFailed)
    /\ Letters \notin rtFiles

\* A process that is not ended from outside for ever brings the archive up to date:
\* every date up to today is stored, or has failed.
CatchesUp ==
    \/ []<>(host = "down")
    \/ <>[](\A d \in MinDate .. today : d \in DOMAIN archive \/ d \in failed)
===============================================================================
