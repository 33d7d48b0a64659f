------------------------------- MODULE GenreJob -------------------------------
(***************************************************************************)
(* GenreAnalyzerJob.BeginJobModule, run as a task by DiscoverModules.Start *)
(* of MovieAnalyzer, and the callbacks it starts.                          *)
(*                                                                         *)
(* The lambda given to Parallel.ForEach is async void: ForEach waits until *)
(* every body has RETURNED, which a body does at its first await, the read *)
(* from S3.  The rest of each body (parse, lock, count) runs later on the  *)
(* thread pool, at any time: also while the job enumerates the dictionary, *)
(* without the lock, and after it has written the output and disposed of   *)
(* the storage client.                                                     *)
(*                                                                         *)
(* One process is the job's task, with the program counter job.  The other *)
(* processes are the callbacks, one for each listed file.  A step is what  *)
(* another thread can interleave with: the key check and Add, the read and *)
(* the write of dict[genre]++, one MoveNext of the enumerator.             *)
(***************************************************************************)
EXTENDS AnalyzerStorage, Counts

CONSTANTS
    Genre,        \* the genres that occur
    MaxGenres,    \* no file lists more genres than this
    Directories,  \* the contents the RottenTomatoes directory may have: each
                  \* maps a file name to the movie.genres read from it, <<>>
                  \* for a file that has no genres, no movie or no text
    NoOutput      \* AnalysisOutput/genre_analysis.json as it was before

IsDirectory(d) ==
    /\ IsFiniteSet(DOMAIN d)
    /\ \A f \in DOMAIN d : f # <<>> /\ d[f] \in Seq(Genre) /\ Len(d[f]) <= MaxGenres

ASSUME MaxGenresAssumption == MaxGenres \in Nat
ASSUME DirectoriesAssumption == \A d \in Directories : IsDirectory(d)

VARIABLES
    dir,         \* the directory of this run
    job,         \* where the job's task is
    callback,    \* callback[f]: where the callback of listed file f is
    counted,     \* counted[f]: how many of its genres it has counted
    loaded,      \* loaded[f]: the value dict[genre]++ read and will increment
    lock,        \* the callback that holds lockObject, or <<>>
    dict,        \* _genreCountDictionary
    version,     \* the version number the Dictionary keeps for enumerators
    enumVersion, \* the version the enumerator was created at
    json,        \* the JObject being built
    stored,      \* the output object in S3
    exited       \* whether the process has ended

jobVars == <<dir, job, callback, counted, loaded, lock, dict, version,
             enumVersion, json, stored>>
vars == <<jobVars, exited>>

Files == DOMAIN dir

Unlocked == <<>>

\* The genres the callback of f counts, if its read succeeds.
Genres(f) == GetFileContents(dir, f)

\* The genre the callback is at, in movie.genres.ForEach.
Current(f) == Genres(f)[counted[f] + 1]

JobStates == {"listing", "dispatching", "enumerating", "writing",
              "disposing", "done", "unlisted", "faulted"}
JobEnded == job \in {"done", "unlisted", "faulted"}

CallbackStates == {"waiting", "reading", "locking", "ensuring", "loading",
                   "storing", "counted", "skipped"}
InLock == {"ensuring", "loading", "storing"}
Ended(f) == callback[f] \in {"counted", "skipped"}

Init ==
    /\ dir \in Directories
    /\ job = "listing"
    /\ callback = [f \in Files |-> "waiting"]
    /\ counted = [f \in Files |-> 0]
    /\ loaded = [f \in Files |-> 0]
    /\ lock = Unlocked
    /\ dict = NoCounts
    /\ version = 0
    /\ enumVersion = 0
    /\ json = NoCounts
    /\ stored = NoOutput
    /\ exited = FALSE

callbackVars == <<callback, counted, loaded, lock, dict, version>>
outputVars == <<enumVersion, json, stored>>
-------------------------------------------------------------------------------
(***************************************************************************)
(* The conditions and values the steps are made of.  A definition named    *)
(* Bug... is a mistake one could make in the definition after it; no       *)
(* action uses it, it is put in that definition's place to see which       *)
(* property notices.                                                       *)
(***************************************************************************)

BugLockFree == TRUE
\* lock (lockObject): a callback waits until no other is in the block.
LockFree == lock = Unlocked

\* if (!_genreCountDictionary.ContainsKey(genre))
KeyMissing(f) == Current(f) \notin DOMAIN dict

BugFirstCountNegative == -1
\* _genreCountDictionary.Add(genre, 0)
FirstCount == 0

\* The version after _genreCountDictionary[genre] was set.
VersionAfterStore == version + 1

BugLockAfterStore(f) == lock
\* movie.genres.ForEach is at the last genre: the block ends, and the lock with it.
LastGenre(f) == counted[f] + 1 = Len(Genres(f))
LockAfterStore(f) == IF LastGenre(f) THEN Unlocked ELSE lock

BugNotModified == TRUE
\* What MoveNext checks first: the dictionary is as it was when foreach began.
NotModified == version = enumVersion

BugNoMoreEntries == Cardinality(DOMAIN json) + 1 >= Cardinality(DOMAIN dict)
\* MoveNext has returned every entry.
NoMoreEntries == DOMAIN json = DOMAIN dict

BugAfterThrow == "enumerating"
\* Where the job's task is after MoveNext threw.
AfterThrow == "faulted"

BugMayWrite == job \in {"writing", "faulted"}
\* The write comes after the enumeration has ended, and not after it has thrown.
MayWrite == job = "writing"

BugAfterFailedWrite == "faulted"
\* The result of the write is not looked at.
AfterFailedWrite == "disposing"
-------------------------------------------------------------------------------
(***************************************************************************)
(* The job's task.                                                         *)
(***************************************************************************)

ListFiles ==
    /\ job = "listing"
    /\ ~ ListingThrows(dir)
    /\ job' = "dispatching"
    /\ UNCHANGED <<dir, callbackVars, outputVars>>

\* A name without a dot, or a request to S3 that fails, when the directory is
\* opened or listed: no exception is caught, the awaiting task faults, and the
\* job is never disposed of.
ListFilesThrows ==
    /\ job = "listing"
    /\ job' = "unlisted"
    /\ UNCHANGED <<dir, callbackVars, outputVars>>

\* A worker of Parallel.ForEach runs the body of f up to its first await.
StartCallback(f) ==
    /\ job = "dispatching"
    /\ callback[f] = "waiting"
    /\ callback' = [callback EXCEPT ![f] = "reading"]
    /\ UNCHANGED <<dir, job, counted, loaded, lock, dict, version, outputVars>>

\* Every body has been started: ForEach returns, and foreach takes the
\* enumerator of the dictionary as it is now.
ForEachReturns ==
    /\ job = "dispatching"
    /\ \A f \in Files : callback[f] # "waiting"
    /\ job' = "enumerating"
    /\ enumVersion' = version
    /\ json' = NoCounts
    /\ UNCHANGED <<dir, callbackVars, stored>>

\* MoveNext finds an entry it has not returned yet.  The order of the entries
\* does not show in the output and is left open.
MoveNext(g) ==
    /\ job = "enumerating"
    /\ NotModified
    /\ g \in DOMAIN dict \ DOMAIN json
    /\ json' = Put(json, g, dict[g])
    /\ UNCHANGED <<dir, job, callbackVars, enumVersion, stored>>

\* MoveNext checks the version before it says there are no more entries.
MoveNextEnds ==
    /\ job = "enumerating"
    /\ NotModified
    /\ NoMoreEntries
    /\ job' = "writing"
    /\ UNCHANGED <<dir, callbackVars, outputVars>>

\* InvalidOperationException: the dictionary changed under the enumerator.
MoveNextThrows ==
    /\ job = "enumerating"
    /\ ~ NotModified
    /\ job' = AfterThrow
    /\ UNCHANGED <<dir, callbackVars, outputVars>>

WriteOutput ==
    /\ MayWrite
    /\ stored' = json
    /\ job' = "disposing"
    /\ UNCHANGED <<dir, callbackVars, enumVersion, json>>

\* WriteFileToStorageAsync catches everything and returns false; the job
\* does not look at what it returns.
WriteFails ==
    /\ job = "writing"
    /\ job' = AfterFailedWrite
    /\ UNCHANGED <<dir, callbackVars, outputVars>>

\* closureSafeModule.Dispose(): reads still in flight may fail after this, as
\* they may at any time, and find String.Empty.
DisposeModule ==
    /\ job = "disposing"
    /\ job' = "done"
    /\ UNCHANGED <<dir, callbackVars, outputVars>>
-------------------------------------------------------------------------------
(***************************************************************************)
(* The callback of listed file f, after its await.                         *)
(***************************************************************************)

\* The text arrived and is parsed; with no genres there is nothing to do.
ReadArrives(f) ==
    /\ callback[f] = "reading"
    /\ callback' = [callback EXCEPT
                      ![f] = IF Genres(f) = <<>> THEN "skipped" ELSE "locking"]
    /\ UNCHANGED <<dir, job, counted, loaded, lock, dict, version, outputVars>>

\* The read failed: GetFileContents returns String.Empty and the body returns.
ReadFails(f) ==
    /\ callback[f] = "reading"
    /\ callback' = [callback EXCEPT ![f] = "skipped"]
    /\ UNCHANGED <<dir, job, counted, loaded, lock, dict, version, outputVars>>

EnterLock(f) ==
    /\ callback[f] = "locking"
    /\ LockFree
    /\ lock' = f
    /\ callback' = [callback EXCEPT ![f] = "ensuring"]
    /\ UNCHANGED <<dir, job, counted, loaded, dict, version, outputVars>>

\* if (!ContainsKey(genre)) Add(genre, 0)
EnsureKey(f) ==
    /\ callback[f] = "ensuring"
    /\ IF KeyMissing(f)
         THEN dict' = Put(dict, Current(f), FirstCount) /\ version' = version + 1
         ELSE UNCHANGED <<dict, version>>
    /\ callback' = [callback EXCEPT ![f] = "loading"]
    /\ UNCHANGED <<dir, job, counted, loaded, lock, outputVars>>

\* The read of dict[genre]++
LoadCount(f) ==
    /\ callback[f] = "loading"
    /\ loaded' = [loaded EXCEPT ![f] = dict[Current(f)]]
    /\ callback' = [callback EXCEPT ![f] = "storing"]
    /\ UNCHANGED <<dir, job, counted, lock, dict, version, outputVars>>

\* The write of dict[genre]++; after the last genre the lock is released.
StoreCount(f) ==
    /\ callback[f] = "storing"
    /\ dict' = Put(dict, Current(f), loaded[f] + 1)
    /\ version' = VersionAfterStore
    /\ counted' = [counted EXCEPT ![f] = @ + 1]
    /\ lock' = LockAfterStore(f)
    /\ callback' = [callback EXCEPT
                      ![f] = IF LastGenre(f) THEN "counted" ELSE "ensuring"]
    /\ UNCHANGED <<dir, job, loaded, outputVars>>
-------------------------------------------------------------------------------
JobStep ==
    /\ ~ exited
    /\ UNCHANGED exited
    /\ \/ ListFiles
       \/ ListFilesThrows
       \/ \E f \in Files : StartCallback(f)
       \/ ForEachReturns
       \/ \E g \in Genre : MoveNext(g)
       \/ MoveNextEnds
       \/ MoveNextThrows
       \/ WriteOutput
       \/ WriteFails
       \/ DisposeModule

CallbackStep(f) ==
    /\ ~ exited
    /\ UNCHANGED exited
    /\ \/ ReadArrives(f)
       \/ ReadFails(f)
       \/ EnterLock(f)
       \/ EnsureKey(f)
       \/ LoadCount(f)
       \/ StoreCount(f)

\* After the jobs have ended Main waits for Enter, which may never come, or dies
\* of the exception; before that a callback of another job may end the process
\* (AnalyzerHost).  The callbacks that are still running go with it.
Exit ==
    /\ ~ exited
    /\ exited' = TRUE
    /\ UNCHANGED jobVars

Terminated == exited /\ UNCHANGED vars

Next ==
    \/ JobStep
    \/ \E f \in Files : CallbackStep(f)
    \/ Exit
    \/ Terminated

Spec == Init /\ [][Next]_vars

\* The task and the callbacks run on the thread pool, which lets each of them
\* go on; a read from S3 ends, with the text or with a failure (time-out).
\* Files is a state function, so the callbacks' fairness ranges over the names
\* of all possible directories.
AllNames == UNION {DOMAIN d : d \in Directories}

Fairness ==
    /\ WF_vars(JobStep)
    /\ \A f \in AllNames : WF_vars(f \in Files /\ CallbackStep(f))

FairSpec == Spec /\ Fairness
-------------------------------------------------------------------------------
TypeOK ==
    /\ dir \in Directories
    /\ job \in JobStates
    /\ callback \in [Files -> CallbackStates]
    /\ counted \in [Files -> Nat]
    /\ loaded \in [Files -> Nat]
    /\ lock \in Files \cup {Unlocked}
    /\ IsCounts(dict, Genre)
    /\ version \in Nat
    /\ enumVersion \in Nat
    /\ IsCounts(json, Genre)
    /\ stored # NoOutput => IsCounts(stored, Genre)
    /\ exited \in BOOLEAN

\* Every place in the genres of a listed file where g occurs.
Occurrences(g) ==
    {o \in Files \X (1 .. MaxGenres) :
        o[2] <= Len(Genres(o[1])) /\ Genres(o[1])[o[2]] = g}

\* Those that the callbacks have counted so far.
CountedOccurrences(g) == {o \in Occurrences(g) : o[2] <= counted[o[1]]}

\* The dictionary holds, for every genre, exactly the number of occurrences the
\* callbacks have counted: no increment is lost or made twice, although the
\* check, the Add, the read and the write of dict[genre]++ (lines 46-50) are
\* separate steps that the lock alone keeps together.
CountsExact ==
    \A g \in Genre : CountOf(dict, g) = Cardinality(CountedOccurrences(g))

\* As long as the enumerator has not seen a version change, what it has copied
\* agrees with the dictionary, and once it has ended it has copied all of it:
\* the output is the dictionary of one instant, although foreach (lines 56-59)
\* takes many steps and holds no lock.
SnapshotFaithful ==
    version = enumVersion =>
        /\ job = "enumerating" => PartOf(json, dict)
        /\ job \in {"writing", "disposing", "done"} => json = dict

\* The written counts never exceed what is in the files, however late the
\* callbacks are.
OutputBounded ==
    stored # NoOutput =>
        \A g \in DOMAIN stored : stored[g] <= Cardinality(Occurrences(g))

\* If no callback came late, the written counts are those of all the files whose
\* read succeeded: BeginJobModule has done what it is for.
ExactWhenNoneLate ==
    (stored # NoOutput /\ version = enumVersion /\ \A f \in Files : Ended(f)) =>
        \A g \in Genre :
            CountOf(stored, g) =
                Cardinality({o \in Occurrences(g) : callback[o[1]] = "counted"})

\* A count in the dictionary never goes down, and no key is ever taken out,
\* whatever the callbacks interleave.
CountsGrow ==
    [][\A g \in Genre : CountOf(dict', g) >= CountOf(dict, g)
                        /\ (g \in DOMAIN dict => g \in DOMAIN dict')]_vars

Phase ==
    CASE job = "writing" -> "cut"
      [] job = "disposing" -> "closing"
      [] job = "done" -> "ended"
      [] job \in {"unlisted", "faulted"} -> "failed"
      [] OTHER -> "tallying"

CutTaken == IF job \in {"writing", "disposing", "done"} THEN json ELSE NoCounts

Promise ==
    INSTANCE AtomicTally WITH
        Key <- Genre, phase <- Phase, tally <- dict, cut <- CutTaken, output <- stored

\* The job implements the promise of AtomicTally: the output is the dictionary of
\* one instant, the last MoveNext (line 56), and it is written at most once, after
\* that, although copying it takes many steps, holds no lock, and the callbacks
\* count before, during and after it.
ImplementsAtomicTally == Promise!Spec

InFlight == {f \in Files : ~ Ended(f)}

HostPhase ==
    IF job \in {"listing", "dispatching"} THEN "starting"
    ELSE IF job \in {"enumerating", "writing"} THEN "tallying"
    ELSE IF job = "disposing" THEN "closing"
    ELSE IF job = "done" THEN "ended" ELSE "failed"

\* The callbacks left behind, once Parallel.ForEach has returned.
HostLate ==
    IF job \in {"listing", "dispatching", "unlisted"} THEN 0 ELSE Cardinality(InFlight)

HostOutput == IF stored = NoOutput THEN "old" ELSE "new"

Hosted ==
    INSTANCE HostedJob WITH
        FileCounts <- UNION {0 .. Cardinality(DOMAIN d) : d \in Directories},
        phase <- HostPhase, late <- HostLate, output <- HostOutput

\* To its host the job is what AnalyzerHost takes it for: it writes at most once, never
\* after a fault, and the callbacks it leaves behind (line 28) only become fewer.
ImplementsHostedJob == Hosted!Spec

\* The steps of the task, and of a callback per genre, before it has ended.
TaskSteps == [listing |-> 5, dispatching |-> 4, enumerating |-> 3, writing |-> 2,
              disposing |-> 1, done |-> 0, unlisted |-> 0, faulted |-> 0]
GenreSteps == [waiting |-> 6, reading |-> 5, locking |-> 4, ensuring |-> 3, loading |-> 2,
               storing |-> 1, counted |-> 0, skipped |-> 0]

\* What the task has still to go through where it is: bodies to start, entries to copy.
TaskLeft ==
    IF job = "dispatching" THEN {f \in Files : callback[f] = "waiting"}
    ELSE IF job = "enumerating" /\ version = enumVersion THEN DOMAIN dict \ DOMAIN json
    ELSE {}

\* The task gets nearer to its end with each step of its own, and no step of a callback
\* gives it more to do: the keys that callbacks add under its enumerator (line 56) end the
\* enumeration and do not prolong it.
TaskShortens ==
    \/ TaskSteps[job'] < TaskSteps[job]
    \/ /\ job' = job
       /\ TaskLeft' \subseteq TaskLeft
       /\ JobStep => TaskLeft' # TaskLeft

\* A callback gets nearer to its end with each step of its own, and no other's takes it back.
CallbackShortens(f) ==
    \/ counted[f] < counted'[f] /\ counted'[f] <= Len(Genres(f))
    \/ counted'[f] = counted[f] /\ GenreSteps[callback'[f]] < GenreSteps[callback[f]]
    \/ UNCHANGED <<counted[f], callback[f]>> /\ ~ CallbackStep(f)

\* A run has only so many steps, in whatever order they come: the task and the callbacks
\* cannot keep each other going, nor wait for each other in a circle of retries.
EveryStepShortens == [][TaskShortens /\ \A f \in Files : CallbackShortens(f)]_vars

\* Nobody waits in vain, so that the steps there are lead to the end: the lock is only held
\* by a callback inside the block (lines 42-52), the increment of line 50 finds the key that
\* line 46 saw or added, and an enumerator that is not outdated (line 56) has an entry to
\* return or has returned them all.
NobodyWaitsInVain ==
    /\ lock # Unlocked => callback[lock] \in InLock
    /\ \A f \in Files : callback[f] \in {"loading", "storing"} => Current(f) \in DOMAIN dict
    /\ job = "enumerating" /\ version = enumVersion => DOMAIN json \subseteq DOMAIN dict

\* The job's task always ends, done or with an exception, if the process lasts: nothing it
\* waits for can be held up by the callbacks.
JobEnds == <>(JobEnded \/ exited)

\* Every callback that was started ends, if the process lasts: it gets the lock in
\* the end, also when the job faulted or is done.
CallbacksEnd ==
    \A f \in AllNames :
        (f \in Files /\ callback[f] = "reading") ~> ((f \in Files => Ended(f)) \/ exited)

\* A job whose callbacks have all ended when it takes the enumerator completes, in a
\* process that lasts:
\* the InvalidOperationException of foreach (line 56) only comes of a late callback.
QuietJobCompletes ==
    (/\ job = "enumerating" /\ version = enumVersion
     /\ \A f \in Files : Ended(f)) ~> (job = "done" \/ exited)
-------------------------------------------------------------------------------
\* Line 25 and the loop over the listed names: "Get every file name in the main
\* directory".  When the job is done, no listed file is still to be counted.
DoneMeansEveryFileCounted == job = "done" => \A f \in Files : Ended(f)

\* Line 41 of AWSStorageClientClient: "Get the fully qualified file name".  The
\* name opened for a listed file is the name of that file.
OpensListedFile ==
    \A f \in Files : callback[f] # "waiting" => FullFileName(Stem(f)) = f
===============================================================================
