------------------------------ MODULE MinerDebug ------------------------------
(***************************************************************************)
(* The MovieMiner of the debug build: the host and the New York Times      *)
(* miner with the local storage, beside the RottenTomatoes miner, whose    *)
(* writes this storage does not implement.  As in MinerRelease the process *)
(* may crash and restart, and the clock passes midnight, at any step.      *)
(***************************************************************************)
EXTENDS NytMiner, RottenTomatoesMiner, MinerHost, LocalStorage

vars == <<nytVars, rtVars, hostVars, localVars>>

ASSUME MinDateIsPast == MinDate <= FirstDay

Date == MinDate .. LastDay

Init ==
    /\ HostInit
    /\ disk = NoCounts /\ cache = NoCounts /\ number = 0 /\ write = "idle"
    /\ nyt = "idle" /\ date = MinDate /\ answered = FirstDay
    /\ today = FirstDay
    /\ failed = {}
    /\ rt = "idle" /\ letter = 1 /\ rtFailed = {}
-------------------------------------------------------------------------------
LaunchProcess == Launch /\ UNCHANGED <<nytVars, rtVars, localVars>>

OpenNyt ==
    /\ Resolved("nyt")
    /\ OpenStorage
    /\ \E d \in Date : IsLatestDate(d) /\ StartNyt(d)
    /\ UNCHANGED rtVars

\* The folder of this miner never gets a date folder.
OpenRt ==
    /\ Resolved("rt")
    /\ StartRt
    /\ UNCHANGED <<nytVars, localVars>>

NytDone ==
    /\ ModuleDone("nyt")
    /\ DisposeNyt
    /\ UNCHANGED <<rtVars, localVars>>

RtDone ==
    /\ ModuleDone("rt")
    /\ DisposeRt
    /\ UNCHANGED <<nytVars, localVars>>

NextPass == PassAgain /\ UNCHANGED <<nytVars, rtVars, localVars>>

ProcessEnds ==
    /\ Die
    /\ NytDies
    /\ RtDies
    /\ LocalDies

\* The constructor of a storage client throws, or a module's task has faulted.
Fault ==
    /\ host = "resolving" \/ nyt = "faulted" \/ rt = "faulted"
    /\ ProcessEnds

Crash == ProcessEnds

NytLoop ==
    /\ Running("nyt")
    /\ AskDate \/ LoopEnds \/ AnswerThrows \/ AnswerRefused \/ AnswerArrives
    /\ UNCHANGED <<rtVars, hostVars, localVars>>

\* WriteFileToStorageAsync, up to the step that returns.
NytWrites ==
    /\ Running("nyt")
    /\ nyt = "writing"
    /\ EnsureFolder(date) \/ TakeNumber(date) \/ CreateFile(date)
    /\ UNCHANGED <<nytVars, rtVars, hostVars>>

NytWritten ==
    /\ Running("nyt")
    /\ \/ FileWritten(date) /\ WriteReturns(TRUE)
       \/ WriteFails(date) /\ WriteReturns(FALSE)
    /\ UNCHANGED <<rtVars, hostVars>>

RtLoop ==
    /\ Running("rt")
    /\ RtAnswerThrows \/ RtAnswerRefused \/ RtAnswerArrives
    /\ UNCHANGED <<nytVars, hostVars, localVars>>

\* throw new NotImplementedException()
RtWrite ==
    /\ Running("rt")
    /\ RtWriteThrows
    /\ UNCHANGED <<nytVars, hostVars, localVars>>

ClockTicks == Midnight /\ UNCHANGED <<rtVars, hostVars, localVars>>

ProcessStep ==
    \/ OpenNyt \/ OpenRt \/ NytDone \/ RtDone \/ NextPass \/ Fault
    \/ NytLoop \/ NytWrites \/ NytWritten \/ RtLoop \/ RtWrite

Next == LaunchProcess \/ ProcessStep \/ Crash \/ ClockTicks

Spec == Init /\ [][Next]_vars
-------------------------------------------------------------------------------
TypeOK ==
    /\ host \in HostStates /\ order \in Orders /\ turn \in 1 .. 2
    /\ nyt \in NytStates
    /\ date \in MinDate .. LastDay + 1
    /\ answered \in FirstDay .. LastDay /\ today \in FirstDay .. LastDay
    /\ failed \subseteq Date
    /\ rt \in RtStates
    /\ letter \in 1 .. Letters
    /\ rtFailed \subseteq 1 .. Letters
    /\ DOMAIN disk \subseteq Date /\ disk = [d \in DOMAIN disk |-> disk[d]]
    /\ \A d \in DOMAIN disk :
          DOMAIN disk[d] \subseteq Nat /\ disk[d] \in [DOMAIN disk[d] -> Contents]
    /\ IsCounts(cache, Date)
    /\ number \in Nat
    /\ write \in WriteStates

\* No file is ever lost or replaced, and one that a crash or a failed write left torn
\* is never repaired: only the write that created a file, in the same process, completes
\* it.  The date is asked for again (line 85: the latest folder), in vain.
FilesFinal ==
    [][\A d \in DOMAIN disk : \A n \in DOMAIN disk[d] :
          /\ d \in DOMAIN disk' /\ n \in DOMAIN disk'[d]
          /\ disk'[d][n] # disk[d][n] =>
                write = "streaming" /\ nyt = "writing" /\ d = date /\ n = number]_vars

\* A folder never gets a second file: the numbers of lines 55-62 are always 1.  Within
\* a pass a date is written once, and after a restart the number of the latest one,
\* which is asked for again, is taken already.
OneFilePerFolder == \A d \in DOMAIN disk : DOMAIN disk[d] \subseteq {1}

\* An empty folder, which a crash or a failure between lines 51 and 67 leaves, stops the
\* miner for ever: from the next pass on no constructor gets past line 33.
Blocked == EmptyFolders # {} /\ nyt = "idle"
EmptyFolderBlocks == [][Blocked => Blocked']_vars

\* If MEF lists the RottenTomatoes miner first, the New York Times miner runs only in
\* passes in which every letter was refused: the first answer faults the pass.
FirstAnswerStopsPass ==
    (order = <<"rt", "nyt">> /\ nyt # "idle") => rtFailed = 1 .. Letters - 1

\* The archive of this build: a folder is named by the date alone, so the day the file
\* was asked for cannot be told, and stands as the date.
FileDates == DOMAIN disk \ EmptyFolders

Promise == INSTANCE DateArchive WITH archive <- [d \in FileDates |-> d]

\* The debug build keeps the promise of the release build's archive, with another storage:
\* files are added behind all there are, for days that have begun, although the search
\* starts at the latest folder, which has a file already (line 85), and although a crash
\* may leave the folder without one.
ImplementsDateArchive == Promise!Spec
-------------------------------------------------------------------------------
\* Line 55: "Get the next filename and increment".  The name taken for a file is not
\* the name of a file that is there.
NextNumberIsFree == write = "opening" => number \notin DOMAIN disk[date]
===============================================================================
