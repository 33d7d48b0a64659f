-------------------------------- MODULE NytJob --------------------------------
(***************************************************************************)
(* BeginJobModule of the two New York Times jobs, MPAAAnalyzerJob and      *)
(* ThousandsListAnalyzerJob, which differ only in the columns they count.  *)
(*                                                                         *)
(* As in GenreJob the callbacks of Parallel.ForEach are async void and run *)
(* on after ForEach has returned.  Two things differ.  The lock is taken   *)
(* for each movie, not for each file.  And the dictionary holds objects    *)
(* whose counters are incremented in place, which the dictionary's version *)
(* does not show: JsonConvert.SerializeObject notices only a new year, and *)
(* reads the counters one by one while they move.                          *)
(***************************************************************************)
EXTENDS AnalyzerStorage, Counts

CONSTANTS
    Year,         \* the years of publication dates, the keys
    MaxMovies,    \* no file lists more movies than this
    Tasks,        \* what a job may be run on: the number of counters of a year
                  \* (G, PG, PG13, R, None, or Yes, No), and the NewYorkTimes
                  \* directory, which maps a file name to the movies the loop
                  \* does not pass over, each with its year and the counter of
                  \* its case, 0 for none
    NoOutput      \* the output object as it was before

Movie(n) == [year : Year, column : 0 .. n]

IsTask(t) ==
    /\ t.columns \in Nat \ {0}
    /\ IsFiniteSet(DOMAIN t.dir)
    /\ \A f \in DOMAIN t.dir :
          f # <<>> /\ t.dir[f] \in Seq(Movie(t.columns)) /\ Len(t.dir[f]) <= MaxMovies

ASSUME MaxMoviesAssumption == MaxMovies \in Nat
ASSUME TasksAssumption == \A t \in Tasks : IsTask(t)

VARIABLES
    task,        \* which job this is, and on what
    job,         \* where the job's task is
    callback,    \* callback[f]: where the callback of listed file f is
    counted,     \* counted[f]: how many of its movies it is through with
    loaded,      \* loaded[f]: the value Count++ read and will increment
    lock,        \* the callback that holds lockObject, or <<>>
    dict,        \* _mpaaList or _thousandsLists: dict[year][column]
    version,     \* the version number the Dictionary keeps for enumerators
    enumVersion, \* the version the serializer's enumerator was created at
    json,        \* json[year]: the counters serialized so far, in their order
    stored,      \* the output object in S3
    begun,       \* history: dict when the serializer began
    exited       \* whether the process has ended

jobVars == <<task, job, callback, counted, loaded, lock, dict, version,
             enumVersion, json, stored, begun>>
vars == <<jobVars, exited>>

callbackVars == <<callback, counted, loaded, lock, dict, version>>
outputVars == <<enumVersion, json, stored, begun>>

dir == task.dir
Column == 1 .. task.columns
Files == DOMAIN dir
Unlocked == <<>>
Movies(f) == GetFileContents(dir, f)
Current(f) == Movies(f)[counted[f] + 1]

JobStates == {"listing", "dispatching", "serializing", "writing",
              "disposing", "done", "unlisted", "faulted"}
JobEnded == job \in {"done", "unlisted", "faulted"}
CallbackStates == {"waiting", "reading", "locking", "ensuring", "loading",
                   "storing", "counted", "skipped"}
Ended(f) == callback[f] \in {"counted", "skipped"}

IsTable(d) == DOMAIN d \subseteq Year /\ d \in [DOMAIN d -> [Column -> Nat]]

Init ==
    /\ task \in Tasks
    /\ job = "listing"
    /\ callback = [f \in Files |-> "waiting"]
    /\ counted = [f \in Files |-> 0]
    /\ loaded = [f \in Files |-> 0]
    /\ lock = Unlocked
    /\ dict = NoCounts
    /\ version = 0
    /\ enumVersion = 0
    /\ json = NoCounts
    /\ stored = NoOutput
    /\ begun = NoCounts
    /\ exited = FALSE
-------------------------------------------------------------------------------
(***************************************************************************)
(* The conditions and values the steps are made of, each after the mistake *)
(* (Bug...) that is put in its place to see which property notices.        *)
(***************************************************************************)

BugLockFree == TRUE
\* lock (lockObject)
LockFree == lock = Unlocked

\* if (!ContainsKey(key))
KeyMissing(f) == Current(f).year \notin DOMAIN dict

BugFirstCount == -1
\* The new object's counters: Count = 0
FirstCount == 0

BugLockAfterMovie == lock
\* The lock is released after each movie.
LockAfterMovie == Unlocked

BugNotModified == TRUE
\* The serializer's enumerator: no year was added since it began.
NotModified == version = enumVersion

BugVersionAfterStore == version + 1
\* Count++ changes an object in the dictionary, not the dictionary.
VersionAfterStore == version

BugCounterRead(y) == dict[y][task.columns]
\* The value serialized for a counter.
CounterRead(y) == dict[y][Len(json[y]) + 1]

BugAfterThrow == "serializing"
\* Where the job's task is after MoveNext threw.
AfterThrow == "faulted"

BugMayWrite == job \in {"writing", "faulted"}
\* The write comes after SerializeObject has returned, and not after it has thrown.
MayWrite == job = "writing"

BugAfterFailedWrite == "faulted"
\* The result of the write is not looked at.
AfterFailedWrite == "disposing"

\* What is left of a year between two counters: at most one year is open.
OpenYears == {y \in DOMAIN json : Len(json[y]) < task.columns}
-------------------------------------------------------------------------------
(***************************************************************************)
(* The job's task.                                                         *)
(***************************************************************************)

ListFiles ==
    /\ job = "listing"
    /\ ~ ListingThrows(dir)
    /\ job' = "dispatching"
    /\ UNCHANGED <<task, callbackVars, outputVars>>

\* A name without a dot, or a request to S3 that fails.
ListFilesThrows ==
    /\ job = "listing"
    /\ job' = "unlisted"
    /\ UNCHANGED <<task, callbackVars, outputVars>>

\* A worker of Parallel.ForEach runs the body of f up to its first await.
StartCallback(f) ==
    /\ job = "dispatching"
    /\ callback[f] = "waiting"
    /\ callback' = [callback EXCEPT ![f] = "reading"]
    /\ UNCHANGED <<task, job, counted, loaded, lock, dict, version, outputVars>>

\* Every body has been started: ForEach returns, and SerializeObject takes the
\* enumerator of the dictionary as it is now.
ForEachReturns ==
    /\ job = "dispatching"
    /\ \A f \in Files : callback[f] # "waiting"
    /\ job' = "serializing"
    /\ enumVersion' = version
    /\ json' = NoCounts
    /\ begun' = dict
    /\ UNCHANGED <<task, callbackVars, stored>>

\* The enumerator moves to a year that is not serialized yet.
MoveNext(y) ==
    /\ job = "serializing"
    /\ OpenYears = {}
    /\ NotModified
    /\ y \in DOMAIN dict \ DOMAIN json
    /\ json' = Put(json, y, <<>>)
    /\ UNCHANGED <<task, job, callbackVars, enumVersion, stored, begun>>

\* The next counter of the open year is read, without the lock.
ReadCounter(y) ==
    /\ job = "serializing"
    /\ y \in OpenYears
    /\ json' = Put(json, y, Append(json[y], CounterRead(y)))
    /\ UNCHANGED <<task, job, callbackVars, enumVersion, stored, begun>>

MoveNextEnds ==
    /\ job = "serializing"
    /\ OpenYears = {}
    /\ NotModified
    /\ DOMAIN json = DOMAIN dict
    /\ job' = "writing"
    /\ UNCHANGED <<task, callbackVars, outputVars>>

\* InvalidOperationException: a year was added under the enumerator.
MoveNextThrows ==
    /\ job = "serializing"
    /\ OpenYears = {}
    /\ ~ NotModified
    /\ job' = AfterThrow
    /\ UNCHANGED <<task, callbackVars, outputVars>>

WriteOutput ==
    /\ MayWrite
    /\ stored' = json
    /\ job' = "disposing"
    /\ UNCHANGED <<task, callbackVars, enumVersion, json, begun>>

\* The write fails and returns false, which the job does not look at.
WriteFails ==
    /\ job = "writing"
    /\ job' = AfterFailedWrite
    /\ UNCHANGED <<task, callbackVars, outputVars>>

DisposeModule ==
    /\ job = "disposing"
    /\ job' = "done"
    /\ UNCHANGED <<task, callbackVars, outputVars>>
-------------------------------------------------------------------------------
(***************************************************************************)
(* The callback of listed file f, after its await.                         *)
(***************************************************************************)

ReadArrives(f) ==
    /\ callback[f] = "reading"
    /\ callback' = [callback EXCEPT
                      ![f] = IF Movies(f) = <<>> THEN "skipped" ELSE "locking"]
    /\ UNCHANGED <<task, job, counted, loaded, lock, dict, version, outputVars>>

ReadFails(f) ==
    /\ callback[f] = "reading"
    /\ callback' = [callback EXCEPT ![f] = "skipped"]
    /\ UNCHANGED <<task, job, counted, loaded, lock, dict, version, outputVars>>

EnterLock(f) ==
    /\ callback[f] = "locking"
    /\ LockFree
    /\ lock' = f
    /\ callback' = [callback EXCEPT ![f] = "ensuring"]
    /\ UNCHANGED <<task, job, counted, loaded, dict, version, outputVars>>

\* if (!ContainsKey(key)) Add(key, new object with all counters 0)
EnsureKey(f) ==
    /\ callback[f] = "ensuring"
    /\ IF KeyMissing(f)
         THEN /\ dict' = Put(dict, Current(f).year, [c \in Column |-> FirstCount])
              /\ version' = version + 1
         ELSE UNCHANGED <<dict, version>>
    /\ callback' = [callback EXCEPT ![f] = "loading"]
    /\ UNCHANGED <<task, job, counted, loaded, lock, outputVars>>

\* The end of the loop's body, for one movie.
NextMovie(f) ==
    /\ counted' = [counted EXCEPT ![f] = @ + 1]
    /\ lock' = LockAfterMovie
    /\ callback' = [callback EXCEPT
                      ![f] = IF counted[f] + 1 = Len(Movies(f))
                               THEN "counted" ELSE "locking"]

\* The read of Count++
LoadCount(f) ==
    /\ callback[f] = "loading"
    /\ Current(f).column # 0
    /\ loaded' = [loaded EXCEPT ![f] = dict[Current(f).year][Current(f).column]]
    /\ callback' = [callback EXCEPT ![f] = "storing"]
    /\ UNCHANGED <<task, job, counted, lock, dict, version, outputVars>>

\* No case of the switch matches.
NoCase(f) ==
    /\ callback[f] = "loading"
    /\ Current(f).column = 0
    /\ NextMovie(f)
    /\ UNCHANGED <<task, job, loaded, dict, version, outputVars>>

\* The write of Count++, in place: the version stays.
StoreCount(f) ==
    /\ callback[f] = "storing"
    /\ dict' = [dict EXCEPT ![Current(f).year][Current(f).column] = loaded[f] + 1]
    /\ version' = VersionAfterStore
    /\ NextMovie(f)
    /\ UNCHANGED <<task, job, loaded, outputVars>>
-------------------------------------------------------------------------------
JobStep ==
    /\ ~ exited
    /\ UNCHANGED exited
    /\ \/ ListFiles
       \/ ListFilesThrows
       \/ \E f \in Files : StartCallback(f)
       \/ ForEachReturns
       \/ \E y \in Year : MoveNext(y) \/ ReadCounter(y)
       \/ MoveNextEnds
       \/ MoveNextThrows
       \/ WriteOutput
       \/ WriteFails
       \/ DisposeModule

CallbackStep(f) ==
    /\ ~ exited
    /\ UNCHANGED exited
    /\ \/ ReadArrives(f)
       \/ ReadFails(f)
       \/ EnterLock(f)
       \/ EnsureKey(f)
       \/ LoadCount(f)
       \/ NoCase(f)
       \/ StoreCount(f)

\* After the jobs have ended Main waits for Enter, which may never come, or dies
\* of the exception; before that a callback of another job may end the process
\* (AnalyzerHost).  The callbacks that are still running go with it.
Exit ==
    /\ ~ exited
    /\ exited' = TRUE
    /\ UNCHANGED jobVars

Terminated == exited /\ UNCHANGED vars

Next ==
    \/ JobStep
    \/ \E f \in Files : CallbackStep(f)
    \/ Exit
    \/ Terminated

Spec == Init /\ [][Next]_vars

AllNames == UNION {DOMAIN t.dir : t \in Tasks}

\* As in GenreJob.  A callback takes the lock once for each movie and competes
\* with finitely many others for it.
Fairness ==
    /\ WF_vars(JobStep)
    /\ \A f \in AllNames : WF_vars(f \in Files /\ CallbackStep(f))

FairSpec == Spec /\ Fairness
-------------------------------------------------------------------------------
TypeOK ==
    /\ task \in Tasks
    /\ job \in JobStates
    /\ callback \in [Files -> CallbackStates]
    /\ counted \in [Files -> Nat]
    /\ loaded \in [Files -> Nat]
    /\ lock \in Files \cup {Unlocked}
    /\ IsTable(dict)
    /\ version \in Nat
    /\ enumVersion \in Nat
    /\ DOMAIN json \subseteq Year /\ \A y \in DOMAIN json : json[y] \in Seq(Nat)
    /\ IsTable(begun)
    /\ exited \in BOOLEAN

\* The movies of year y counted in column c, in the files whose names are in S.
Listed(S, y, c) ==
    {o \in S \X (1 .. MaxMovies) :
        o[2] <= Len(Movies(o[1])) /\ Movies(o[1])[o[2]] = [year |-> y, column |-> c]}

CountOfCell(d, y, c) == IF y \in DOMAIN d THEN d[y][c] ELSE 0

\* Every counter is the number of its movies that the callbacks are through with:
\* no Count++ (MPAA lines 63-80, Thousands 68-76) is lost, although the lock is
\* taken anew for each movie and the check, the Add, the read and the write of the
\* increment are separate steps.
CountsExact ==
    \A y \in Year, c \in Column :
        CountOfCell(dict, y, c) =
            Cardinality({o \in Listed(Files, y, c) : o[2] <= counted[o[1]]})

\* The output may mix counters of different instants, which no version check
\* notices.  It is still bounded on both sides: it has the years there were when
\* the serializer began, and each of its counters lies between what it was then
\* and what it is now.
WrittenBetweenBeginAndNow ==
    stored # NoOutput =>
        /\ DOMAIN stored = DOMAIN begun
        /\ \A y \in DOMAIN stored, c \in Column :
              begun[y][c] <= stored[y][c] /\ stored[y][c] <= dict[y][c]

\* If nothing was counted after the serializer began, the output holds exactly
\* the movies of the files whose read succeeded.
ExactWhenNoneLate ==
    (stored # NoOutput /\ dict = begun /\ \A f \in Files : Ended(f)) =>
        \A y \in Year, c \in Column :
            CountOfCell(stored, y, c) =
                Cardinality(Listed({f \in Files : callback[f] = "counted"}, y, c))

\* A job that listed its files faults only because a late callback met a year
\* that no earlier one had: late increments alone never fault it.
FaultMeansNewYear ==
    job = "faulted" => DOMAIN begun # DOMAIN dict

\* No counter ever goes down and no year is taken out.
CountsGrow ==
    [][\A y \in DOMAIN dict : y \in DOMAIN dict'
                              /\ \A c \in Column : dict'[y][c] >= dict[y][c]]_vars

InFlight == {f \in Files : ~ Ended(f)}

HostPhase ==
    IF job \in {"listing", "dispatching"} THEN "starting"
    ELSE IF job \in {"serializing", "writing"} THEN "tallying"
    ELSE IF job = "disposing" THEN "closing"
    ELSE IF job = "done" THEN "ended" ELSE "failed"

\* The callbacks left behind, once Parallel.ForEach has returned.
HostLate ==
    IF job \in {"listing", "dispatching", "unlisted"} THEN 0 ELSE Cardinality(InFlight)

HostOutput == IF stored = NoOutput THEN "old" ELSE "new"

Hosted ==
    INSTANCE HostedJob WITH
        FileCounts <- UNION {0 .. Cardinality(DOMAIN t.dir) : t \in Tasks},
        phase <- HostPhase, late <- HostLate, output <- HostOutput

\* To its host each of these jobs is what AnalyzerHost takes it for, as GenreJob is.
ImplementsHostedJob == Hosted!Spec

\* The steps of the task, and of a callback per movie, before it has ended.
TaskSteps == [listing |-> 5, dispatching |-> 4, serializing |-> 3, writing |-> 2,
              disposing |-> 1, done |-> 0, unlisted |-> 0, faulted |-> 0]
MovieSteps == [waiting |-> 6, reading |-> 5, locking |-> 4, ensuring |-> 3, loading |-> 2,
               storing |-> 1, counted |-> 0, skipped |-> 0]

\* What the task has still to go through where it is: bodies to start, or years to
\* serialize, and the counters of an open year.
TaskLeft ==
    IF job = "dispatching" THEN {f \in Files : callback[f] = "waiting"}
    ELSE IF job = "serializing" /\ version = enumVersion THEN DOMAIN dict \ DOMAIN json
    ELSE {}
CountersLeft == {o \in (DOMAIN json) \X Column : Len(json[o[1]]) < o[2]}

\* The task gets nearer to its end with each step of its own, and a year that a callback
\* adds under the serializer (MPAA line 86) does not give it more to do.
TaskShortens ==
    \/ TaskSteps[job'] < TaskSteps[job]
    \/ /\ job' = job
       /\ \/ TaskLeft' \subseteq TaskLeft /\ TaskLeft' # TaskLeft
          \/ /\ TaskLeft' \subseteq TaskLeft
             /\ CountersLeft' \subseteq CountersLeft
             /\ JobStep => CountersLeft' # CountersLeft

\* A callback gets nearer to its end with each step of its own, and no other's takes it back.
CallbackShortens(f) ==
    \/ counted[f] < counted'[f] /\ counted'[f] <= Len(Movies(f))
    \/ counted'[f] = counted[f] /\ MovieSteps[callback'[f]] < MovieSteps[callback[f]]
    \/ UNCHANGED <<counted[f], callback[f]>> /\ ~ CallbackStep(f)

\* A run has only so many steps, in whatever order they come, although callbacks take the
\* lock again and again (for each movie) and change what the serializer is reading.
EveryStepShortens == [][TaskShortens /\ \A f \in Files : CallbackShortens(f)]_vars

\* Nobody waits in vain: the lock is only held by a callback inside the block (MPAA lines
\* 50-81), also between the movies of a file; the counter it increments is there, whatever
\* others added; and the serializer (line 86) has serialized no year that is not there.
NobodyWaitsInVain ==
    /\ lock # Unlocked => callback[lock] \in {"ensuring", "loading", "storing"}
    /\ \A f \in Files :
           callback[f] \in {"loading", "storing"} => Current(f).year \in DOMAIN dict
    /\ job = "serializing" => DOMAIN json \subseteq DOMAIN dict

\* The job's task always ends, done or with an exception, if the process lasts.
JobEnds == <>(JobEnded \/ exited)

\* Every callback that was started gets the lock for each of its movies and ends,
\* if the process lasts.
CallbacksEnd ==
    \A f \in AllNames :
        (f \in Files /\ callback[f] = "reading") ~> ((f \in Files => Ended(f)) \/ exited)

\* A job all of whose years are known when the serializer begins, and stay so, is
\* done in the end, in a process that lasts: whatever callbacks count late in those years.
KnownYearsComplete ==
    []((job = "serializing" /\ \A f \in Files : \A i \in 1 .. Len(Movies(f)) :
                                  Movies(f)[i].year \in DOMAIN begun)
         => <>(job = "done" \/ exited))
===============================================================================
