----------------------------- MODULE NytJobProofs -----------------------------
(***************************************************************************)
(* Proofs about NytJob, for every number of counters, set of years and     *)
(* directory: the counters are exact under a lock that is taken for each   *)
(* movie, and the output, which may mix counters of different instants, is *)
(* bounded by the counters at the two ends of the serialization.           *)
(*                                                                         *)
(* Three layers, as in GenreJobProofs: Structure, CountsExact, Output.     *)
(***************************************************************************)
EXTENDS NytJob, FiniteSetTheorems, TLAPS

\* The conditions and values the actions are made of are always expanded.
USE DEF LockFree, KeyMissing, FirstCount, LockAfterMovie, NotModified,
        VersionAfterStore, CounterRead, MayWrite, AfterThrow, AfterFailedWrite

InLock == {"ensuring", "loading", "storing"}

\* The holder of the lock is the one callback that is inside it, at a movie of
\* its file; the movie's year is in the dictionary from EnsureKey on, and what
\* was loaded of the counter is still its value.
LockDiscipline ==
    \A f \in Files :
        /\ callback[f] \in InLock <=> lock = f
        /\ callback[f] \in InLock \cup {"locking"} => counted[f] < Len(Movies(f))
        /\ callback[f] \in {"loading", "storing"} => Current(f).year \in DOMAIN dict
        /\ callback[f] = "storing" =>
              /\ Current(f).column \in Column
              /\ loaded[f] = dict[Current(f).year][Current(f).column]

\* How far a callback has counted before its first movie and after its last.
CountedSoFar ==
    \A f \in Files :
        /\ callback[f] \in {"waiting", "reading", "skipped"} => counted[f] = 0
        /\ callback[f] = "counted" => counted[f] = Len(Movies(f))

Core == TypeOK /\ LockDiscipline /\ CountedSoFar

\* Only years of the dictionary are serialized.
Structure == Core /\ DOMAIN json \subseteq DOMAIN dict

\* The serializer has taken its enumerator.
Began == job \in {"serializing", "writing", "disposing", "done", "faulted"}

\* Since the serializer began, counters have only grown, and the version tells
\* whether years were added.
GrownSinceBegin ==
    Began =>
        /\ enumVersion <= version
        /\ DOMAIN begun \subseteq DOMAIN dict
        /\ \A y \in DOMAIN begun, c \in Column : begun[y][c] <= dict[y][c]
        /\ version = enumVersion <=> DOMAIN begun = DOMAIN dict

\* Each counter that was serialized was read between then and now.
SerializedBetween ==
    \A y \in DOMAIN json :
        /\ y \in DOMAIN begun
        /\ Len(json[y]) <= task.columns
        /\ \A c \in 1 .. Len(json[y]) : begun[y][c] <= json[y][c] /\ json[y][c] <= dict[y][c]

Output ==
    /\ GrownSinceBegin
    /\ SerializedBetween
    /\ ~ Began => json = NoCounts
    /\ job \in {"writing", "disposing", "done"} =>
          DOMAIN json = DOMAIN begun /\ \A y \in DOMAIN json : Len(json[y]) = task.columns
    /\ job = "faulted" => version # enumVersion
    /\ stored # NoOutput => job \in {"disposing", "done"} /\ stored = json
-------------------------------------------------------------------------------
(***************************************************************************)
(* Data.                                                                   *)
(***************************************************************************)

\* What a callback reads is a sequence of movies of this task.
LEMMA MoviesType ==
    ASSUME task \in Tasks, NEW f \in Files
    PROVE  /\ Movies(f) \in Seq(Movie(task.columns))
           /\ Len(Movies(f)) \in Nat
           /\ Len(Movies(f)) <= MaxMovies
           /\ Movies(f) = <<>> <=> Len(Movies(f)) = 0
           /\ f # Unlocked
           /\ task.columns \in Nat \ {0}
<1>1. IsTask(task)
  BY TasksAssumption
<1>2. CASE FullFileName(Stem(f)) \in DOMAIN dir
  BY <1>1, <1>2 DEF IsTask, Movies, GetFileContents, Files, Unlocked, dir
<1>3. CASE FullFileName(Stem(f)) \notin DOMAIN dir
  BY <1>1, <1>3, MaxMoviesAssumption DEF IsTask, Movies, GetFileContents, Files, Unlocked, dir
<1> QED BY <1>2, <1>3

\* The movie a callback is at, while it is at one.
LEMMA CurrentType ==
    ASSUME task \in Tasks, NEW f \in Files, counted[f] \in Nat,
           counted[f] < Len(Movies(f))
    PROVE  /\ Current(f).year \in Year
           /\ Current(f).column \in 0 .. task.columns
           /\ Current(f).column # 0 => Current(f).column \in Column
           /\ Current(f) = [year |-> Current(f).year, column |-> Current(f).column]
<1>1. Current(f) \in Movie(task.columns)
  BY MoviesType DEF Current
<1>2. task.columns \in Nat
  BY MoviesType
<1> QED BY <1>1, <1>2 DEF Movie, Column

\* The movies of a year and column are finitely many.
LEMMA ListedFinite ==
    ASSUME task \in Tasks, NEW y, NEW c
    PROVE  IsFiniteSet(Listed(Files, y, c))
<1>1. IsFiniteSet(Files)
  BY TasksAssumption DEF IsTask, Files, dir
<1>2. IsFiniteSet(1 .. MaxMovies)
  BY MaxMoviesAssumption, FS_Interval
<1>3. IsFiniteSet(Files \X (1 .. MaxMovies))
  BY <1>1, <1>2, FS_Product
<1>4. Listed(Files, y, c) \in SUBSET (Files \X (1 .. MaxMovies))
  BY DEF Listed
<1> QED BY <1>3, <1>4, FS_Subset
-------------------------------------------------------------------------------
(***************************************************************************)
(* Structure: types and the lock.                                          *)
(***************************************************************************)

\* Initially no callback has started and nothing holds the lock.
LEMMA StructureInit == Init => Structure
<1> SUFFICES ASSUME Init PROVE Structure
  OBVIOUS
<1>1. task \in Tasks
  BY DEF Init
<1>2. TypeOK
  BY <1>1 DEF Init, TypeOK, IsTable, NoCounts, JobStates, CallbackStates
<1>3. LockDiscipline
  BY <1>1, MoviesType DEF Init, LockDiscipline, InLock
<1>4. CountedSoFar
  BY DEF Init, CountedSoFar
<1> QED BY <1>2, <1>3, <1>4 DEF Init, NoCounts, Structure, Core

\* Every step keeps the task, and with it the files and their movies.
LEMMA TaskKept ==
    ASSUME [Next]_vars
    PROVE  /\ task' = task /\ dir' = dir /\ Files' = Files /\ Column' = Column
           /\ \A f : Movies(f)' = Movies(f)
<1>1. task' = task
  BY DEF Next, JobStep, CallbackStep, Exit, Terminated, vars, jobVars, ListFiles,
         ListFilesThrows,
         StartCallback, ForEachReturns, MoveNext, ReadCounter, MoveNextEnds,
         MoveNextThrows, WriteOutput, WriteFails, DisposeModule, ReadArrives,
         ReadFails, EnterLock, EnsureKey, LoadCount, NoCase, StoreCount
<1> QED BY <1>1 DEF dir, Files, Column, Movies

\* A step that leaves the callbacks' variables alone keeps what is known of them.
LEMMA CallbacksUntouched ==
    ASSUME LockDiscipline, CountedSoFar, [Next]_vars, UNCHANGED callbackVars
    PROVE  LockDiscipline' /\ CountedSoFar'
<1>1. /\ callback' = callback /\ counted' = counted /\ loaded' = loaded
      /\ lock' = lock /\ dict' = dict
  BY DEF callbackVars
<1>2. \A f : Current(f)' = Current(f)
  BY <1>1, TaskKept DEF Current
<1> QED BY <1>1, <1>2, TaskKept DEF LockDiscipline, CountedSoFar

\* Types, lock and progress are kept by every step.
LEMMA CoreNext == Structure /\ [Next]_vars => Core'
<1> SUFFICES ASSUME Structure, [Next]_vars PROVE Core'
  OBVIOUS
<1> USE DEF Structure, Core
<1>x. exited' \in BOOLEAN
  BY DEF Next, JobStep, CallbackStep, Exit, Terminated, vars, TypeOK
<1>d. /\ task' = task /\ Files' = Files /\ Column' = Column
      /\ \A f : Movies(f)' = Movies(f)
      /\ exited' \in BOOLEAN
  BY TaskKept, <1>x
<1>g. \A f \in Files : Len(Movies(f)) \in Nat /\ f # Unlocked
                       /\ (Movies(f) = <<>> <=> Len(Movies(f)) = 0)
  BY MoviesType DEF TypeOK
<1>e. \A d : IsTable(d)' <=> IsTable(d')
  BY <1>d DEF IsTable
<1>1. CASE ListFiles
  <2>1. TypeOK'
    BY <1>1, <1>d DEF ListFiles, TypeOK, callbackVars, outputVars, JobStates, IsTable
  <2> QED BY <1>1, <2>1, CallbacksUntouched DEF ListFiles
<1>2. CASE ListFilesThrows
  <2>1. TypeOK'
    BY <1>2, <1>d DEF ListFilesThrows, TypeOK, callbackVars, outputVars, JobStates, IsTable
  <2> QED BY <1>2, <2>1, CallbacksUntouched DEF ListFilesThrows
<1>3. ASSUME NEW f \in Files, StartCallback(f)
      PROVE  Core'
  <2> USE <1>3 DEF StartCallback
  <2>1. TypeOK' BY <1>d DEF TypeOK, outputVars, CallbackStates, IsTable
  <2>2. LockDiscipline' BY <1>d DEF TypeOK, LockDiscipline, InLock, Current, outputVars
  <2>3. CountedSoFar' BY <1>d DEF TypeOK, CountedSoFar, outputVars
  <2> QED BY <2>1, <2>2, <2>3
<1>4. CASE ForEachReturns
  <2>1. TypeOK'
    BY <1>4, <1>d DEF ForEachReturns, TypeOK, callbackVars, JobStates, IsTable, NoCounts
  <2> QED BY <1>4, <2>1, CallbacksUntouched DEF ForEachReturns
<1>5. ASSUME NEW y \in Year, MoveNext(y)
      PROVE  Core'
  <2>1. <<>> \in Seq(Nat)
    OBVIOUS
  <2>2. DOMAIN json' \subseteq Year /\ \A x \in DOMAIN json' : json'[x] \in Seq(Nat)
    BY <1>5, <2>1 DEF MoveNext, TypeOK, Put
  <2>3. TypeOK' BY <1>5, <1>d, <2>2 DEF MoveNext, TypeOK, callbackVars, IsTable
  <2> QED BY <1>5, <2>3, CallbacksUntouched DEF MoveNext
<1>6. ASSUME NEW y \in Year, ReadCounter(y)
      PROVE  Core'
  <2>1. /\ y \in DOMAIN json /\ json[y] \in Seq(Nat) /\ y \in Year
    BY <1>6 DEF ReadCounter, OpenYears, TypeOK
  <2>2. y \in DOMAIN dict /\ Len(json[y]) + 1 \in Column
    BY <1>6, <2>1, TasksAssumption DEF ReadCounter, OpenYears, TypeOK, Column, IsTask
  <2>3. dict[y][Len(json[y]) + 1] \in Nat
    BY <2>2 DEF TypeOK, IsTable
  <2>4. Append(json[y], dict[y][Len(json[y]) + 1]) \in Seq(Nat)
    BY <2>1, <2>3
  <2>5. DOMAIN json' \subseteq Year /\ \A x \in DOMAIN json' : json'[x] \in Seq(Nat)
    BY <1>6, <2>4 DEF ReadCounter, TypeOK, Put
  <2>6. TypeOK' BY <1>6, <1>d, <2>5 DEF ReadCounter, TypeOK, callbackVars, IsTable
  <2> QED BY <1>6, <2>6, CallbacksUntouched DEF ReadCounter
<1>7. CASE MoveNextEnds
  <2>1. TypeOK'
    BY <1>7, <1>d DEF MoveNextEnds, TypeOK, callbackVars, outputVars, JobStates, IsTable
  <2> QED BY <1>7, <2>1, CallbacksUntouched DEF MoveNextEnds
<1>8. CASE MoveNextThrows
  <2>1. TypeOK'
    BY <1>8, <1>d DEF MoveNextThrows, TypeOK, callbackVars, outputVars, JobStates, IsTable
  <2> QED BY <1>8, <2>1, CallbacksUntouched DEF MoveNextThrows
<1>9. CASE WriteOutput
  <2>1. TypeOK'
    BY <1>9, <1>d DEF WriteOutput, TypeOK, callbackVars, JobStates, IsTable
  <2> QED BY <1>9, <2>1, CallbacksUntouched DEF WriteOutput
<1>10. CASE WriteFails
  <2>1. TypeOK'
    BY <1>10, <1>d DEF WriteFails, TypeOK, callbackVars, outputVars, JobStates, IsTable
  <2> QED BY <1>10, <2>1, CallbacksUntouched DEF WriteFails
<1>11. CASE DisposeModule
  <2>1. TypeOK'
    BY <1>11, <1>d DEF DisposeModule, TypeOK, callbackVars, outputVars, JobStates, IsTable
  <2> QED BY <1>11, <2>1, CallbacksUntouched DEF DisposeModule
<1>12. ASSUME NEW f \in Files, ReadArrives(f)
       PROVE  Core'
  <2> USE <1>12 DEF ReadArrives
  <2>1. TypeOK' BY <1>d DEF TypeOK, outputVars, CallbackStates, IsTable
  <2>2. LockDiscipline'
    BY <1>d, <1>g DEF TypeOK, LockDiscipline, CountedSoFar, InLock, Current, outputVars
  <2>3. CountedSoFar' BY <1>d DEF TypeOK, CountedSoFar, outputVars
  <2> QED BY <2>1, <2>2, <2>3
<1>13. ASSUME NEW f \in Files, ReadFails(f)
       PROVE  Core'
  <2> USE <1>13 DEF ReadFails
  <2>1. TypeOK' BY <1>d DEF TypeOK, outputVars, CallbackStates, IsTable
  <2>2. LockDiscipline' BY <1>d DEF TypeOK, LockDiscipline, InLock, Current, outputVars
  <2>3. CountedSoFar' BY <1>d DEF TypeOK, CountedSoFar, outputVars
  <2> QED BY <2>1, <2>2, <2>3
<1>14. ASSUME NEW f \in Files, EnterLock(f)
       PROVE  Core'
  <2> USE <1>14 DEF EnterLock
  <2>1. TypeOK' BY <1>d DEF TypeOK, outputVars, CallbackStates, IsTable
  <2>2. LockDiscipline' BY <1>d, <1>g DEF TypeOK, LockDiscipline, InLock, Current, outputVars
  <2>3. CountedSoFar' BY <1>d DEF TypeOK, CountedSoFar, outputVars
  <2> QED BY <2>1, <2>2, <2>3
<1>15. ASSUME NEW f \in Files, EnsureKey(f)
       PROVE  Core'
  <2>0. /\ counted[f] < Len(Movies(f)) /\ lock = f
        /\ \A e \in Files : e # f => callback[e] \notin InLock
        /\ \A e \in Files : Current(e)' = Current(e)
    BY <1>15, <1>d DEF EnsureKey, LockDiscipline, InLock, Current
  <2>1. Current(f).year \in Year
    BY <2>0, CurrentType DEF TypeOK
  <2>2. IsTable(dict') /\ Current(f).year \in DOMAIN dict'
    <3>1. CASE Current(f).year \in DOMAIN dict
      BY <1>15, <3>1 DEF EnsureKey, TypeOK
    <3>2. CASE Current(f).year \notin DOMAIN dict
      BY <1>15, <2>1, <3>2 DEF EnsureKey, TypeOK, IsTable, Put
    <3> QED BY <3>1, <3>2
  <2>3. TypeOK'
    BY <1>15, <1>d, <2>2 DEF EnsureKey, TypeOK, outputVars, CallbackStates, IsTable
  <2>4. LockDiscipline'
    BY <1>15, <1>d, <2>0, <2>2 DEF EnsureKey, TypeOK, LockDiscipline, InLock
  <2>5. CountedSoFar' BY <1>15, <1>d DEF EnsureKey, TypeOK, CountedSoFar
  <2> QED BY <2>3, <2>4, <2>5
<1>16. ASSUME NEW f \in Files, LoadCount(f)
       PROVE  Core'
  <2>0. /\ Current(f).year \in DOMAIN dict /\ counted[f] < Len(Movies(f))
        /\ \A e \in Files : Current(e)' = Current(e)
    BY <1>16, <1>d DEF LoadCount, LockDiscipline, InLock, Current
  <2>1. Current(f).column \in Column
    BY <1>16, <2>0, CurrentType DEF LoadCount, TypeOK
  <2>2. dict[Current(f).year][Current(f).column] \in Nat
    BY <2>0, <2>1 DEF TypeOK, IsTable
  <2>3. TypeOK' BY <1>16, <1>d, <2>2 DEF LoadCount, TypeOK, outputVars, CallbackStates, IsTable
  <2>4. LockDiscipline' BY <1>16, <1>d, <2>0, <2>1 DEF LoadCount, TypeOK, LockDiscipline, InLock
  <2>5. CountedSoFar' BY <1>16, <1>d DEF LoadCount, TypeOK, CountedSoFar
  <2> QED BY <2>3, <2>4, <2>5
<1>17. ASSUME NEW f \in Files, callback[f] \in {"loading", "storing"}, NextMovie(f),
              UNCHANGED <<task, job, loaded, outputVars>>, version' = version,
              IsTable(dict'), DOMAIN dict' = DOMAIN dict
       PROVE  Core'
  <2>0. /\ counted[f] < Len(Movies(f)) /\ lock = f
        /\ \A e \in Files : e # f => callback[e] \notin InLock
    BY <1>17 DEF LockDiscipline, InLock
  <2>1. TypeOK'
    <3>1. callback' \in [Files -> CallbackStates]
      BY <1>17 DEF NextMovie, TypeOK, CallbackStates
    <3>2. counted' \in [Files -> Nat]
      BY <1>17 DEF NextMovie, TypeOK
    <3> QED BY <1>17, <1>d, <3>1, <3>2 DEF NextMovie, TypeOK, outputVars, IsTable
  <2>2. LockDiscipline'
    BY <1>17, <1>d, <1>g, <2>0 DEF NextMovie, TypeOK, LockDiscipline, InLock
  <2>3. CountedSoFar'
    BY <1>17, <1>d, <1>g, <2>0 DEF NextMovie, TypeOK, CountedSoFar, InLock
  <2> QED BY <2>1, <2>2, <2>3
<1>18. ASSUME NEW f \in Files, NoCase(f)
       PROVE  Core'
  BY <1>17, <1>18 DEF NoCase, TypeOK
<1>19. ASSUME NEW f \in Files, StoreCount(f)
       PROVE  Core'
  <2>1. /\ Current(f).year \in DOMAIN dict /\ Current(f).column \in Column
        /\ counted[f] < Len(Movies(f)) /\ loaded[f] + 1 \in Nat
    BY <1>19 DEF StoreCount, LockDiscipline, InLock, TypeOK
  <2>2. IsTable(dict') /\ DOMAIN dict' = DOMAIN dict
    BY <1>19, <2>1 DEF StoreCount, TypeOK, IsTable
  <2> QED BY <1>17, <1>19, <2>2 DEF StoreCount
<1>20. CASE UNCHANGED jobVars
  <2>1. TypeOK' BY <1>20, <1>d DEF TypeOK, jobVars, IsTable
  <2> QED BY <1>20, <2>1, CallbacksUntouched DEF jobVars, callbackVars
<1> QED
  BY <1>1, <1>2, <1>3, <1>4, <1>5, <1>6, <1>7, <1>8, <1>9, <1>10, <1>11, <1>12,
     <1>13, <1>14, <1>15, <1>16, <1>18, <1>19, <1>20
  DEF Next, JobStep, CallbackStep, Exit, Terminated, vars

\* The serializer only starts years that are in the dictionary, and none is taken
\* out.
LEMMA StructureNext == Structure /\ [Next]_vars => Structure'
<1> SUFFICES ASSUME Structure, [Next]_vars
             PROVE  DOMAIN json' \subseteq DOMAIN dict'
  BY CoreNext DEF Structure
<1>1. DOMAIN dict \subseteq DOMAIN dict'
  BY DEF Next, JobStep, CallbackStep, Exit, Terminated, vars, jobVars, callbackVars, ListFiles,
         ListFilesThrows, StartCallback, ForEachReturns, MoveNext, ReadCounter,
         MoveNextEnds, MoveNextThrows, WriteOutput, WriteFails, DisposeModule,
         ReadArrives, ReadFails, EnterLock, EnsureKey, LoadCount, NoCase, StoreCount, Put
<1>2. \/ DOMAIN json' \subseteq DOMAIN json
      \/ \E y \in Year : MoveNext(y)
  BY DEF Next, JobStep, CallbackStep, Exit, Terminated, vars, jobVars, outputVars, ListFiles,
         ListFilesThrows, StartCallback, ForEachReturns, ReadCounter, OpenYears,
         MoveNextEnds, MoveNextThrows, WriteOutput, WriteFails, DisposeModule,
         ReadArrives, ReadFails, EnterLock, EnsureKey, LoadCount, NoCase, StoreCount,
         Put, NoCounts
<1>3. ASSUME NEW y \in Year, MoveNext(y)
      PROVE  DOMAIN json' \subseteq DOMAIN dict'
  BY <1>1, <1>3 DEF MoveNext, Put, Structure
<1> QED BY <1>1, <1>2, <1>3 DEF Structure
-------------------------------------------------------------------------------
(***************************************************************************)
(* CountsExact: with a lock for each movie, no Count++ is lost.            *)
(***************************************************************************)

\* The movies of a cell that the callbacks are through with.
CountedMovies(y, c) == {o \in Listed(Files, y, c) : o[2] <= counted[o[1]]}

\* Only three actions touch the dictionary or move a callback on.
LEMMA StepShape ==
    ASSUME [Next]_vars
    PROVE  \/ dict' = dict /\ counted' = counted /\ version' = version
           \/ \E f \in Files : EnsureKey(f) \/ NoCase(f) \/ StoreCount(f)
  BY DEF Next, JobStep, CallbackStep, Exit, Terminated, vars, jobVars, callbackVars, ListFiles,
         ListFilesThrows, StartCallback, ForEachReturns, MoveNext, ReadCounter,
         MoveNextEnds, MoveNextThrows, WriteOutput, WriteFails, DisposeModule,
         ReadArrives, ReadFails, EnterLock, LoadCount

\* The files do not change, so neither do the movies listed in them.
LEMMA SameListed ==
    ASSUME [Next]_vars, NEW y, NEW c
    PROVE  /\ Listed(Files, y, c)' = Listed(Files, y, c)
           /\ counted' = counted => CountedMovies(y, c)' = CountedMovies(y, c)
  BY TaskKept DEF Listed, CountedMovies

\* NextMovie is through with one movie more, the current one.
LEMMA OneMovieMore ==
    ASSUME Structure, [Next]_vars, NEW f \in Files, callback[f] \in InLock,
           NextMovie(f), NEW y \in Year, NEW c \in Column
    PROVE  LET o == <<f, counted[f] + 1>>
               here == y = Current(f).year /\ c = Current(f).column
           IN  /\ o \notin CountedMovies(y, c)
               /\ CountedMovies(y, c)' =
                    IF here THEN CountedMovies(y, c) \cup {o} ELSE CountedMovies(y, c)
<1> DEFINE o == <<f, counted[f] + 1>>
           here == y = Current(f).year /\ c = Current(f).column
           L == Listed(Files, y, c)
<1>1. /\ counted \in [Files -> Nat]
      /\ counted[f] < Len(Movies(f))
      /\ counted' = [counted EXCEPT ![f] = @ + 1]
  BY DEF Structure, Core, TypeOK, LockDiscipline, NextMovie
<1>2. Len(Movies(f)) \in Nat /\ Len(Movies(f)) <= MaxMovies /\ MaxMovies \in Nat
  BY MoviesType, MaxMoviesAssumption DEF Structure, Core, TypeOK
<1>3. o \in L <=> here
  <2>1. Current(f) = [year |-> Current(f).year, column |-> Current(f).column]
    BY <1>1, CurrentType DEF Structure, Core, TypeOK
  <2>2. o \in L <=> Current(f) = [year |-> y, column |-> c]
    BY <1>1, <1>2 DEF Listed, Current
  <2> QED BY <2>1, <2>2
<1>4. o \notin CountedMovies(y, c)
  BY <1>1 DEF CountedMovies
<1>5. \A x \in L : x[2] <= counted'[x[1]] <=> x[2] <= counted[x[1]] \/ x = o
  <2> SUFFICES ASSUME NEW e \in Files, NEW i \in 1 .. MaxMovies
               PROVE  i <= counted'[e] <=> i <= counted[e] \/ <<e, i>> = o
    BY DEF Listed
  <2>1. CASE e = f
    BY <1>1, <1>2, <2>1
  <2>2. CASE e # f
    BY <1>1, <2>2
  <2> QED BY <2>1, <2>2
<1>6. CountedMovies(y, c)' = {x \in L : x[2] <= counted'[x[1]]}
  BY SameListed DEF CountedMovies
<1>7. CountedMovies(y, c)' = {x \in L : x[2] <= counted[x[1]] \/ x = o}
  BY <1>5, <1>6
<1>a. CountedMovies(y, c) = {x \in L : x[2] <= counted[x[1]]}
  BY DEF CountedMovies
<1> HIDE DEF here, o, L
<1>8. here => CountedMovies(y, c)' = CountedMovies(y, c) \cup {o}
  BY <1>3, <1>a, <1>7
<1>9. ~ here => CountedMovies(y, c)' = CountedMovies(y, c)
  BY <1>3, <1>a, <1>7
<1> QED BY <1>4, <1>8, <1>9 DEF here, o

\* Nothing is in the dictionary and no movie has been counted.
LEMMA CountsExactInit == Init => CountsExact
<1> SUFFICES ASSUME Init, NEW y \in Year, NEW c \in Column
             PROVE  CountOfCell(dict, y, c) = Cardinality(CountedMovies(y, c))
  BY DEF CountsExact, CountedMovies
<1>1. CountOfCell(dict, y, c) = 0
  BY DEF Init, CountOfCell, NoCounts
<1>2. CountedMovies(y, c) = {}
  BY DEF Init, CountedMovies, Listed
<1> QED BY <1>1, <1>2, FS_EmptySet

\* EnsureKey adds a year none of whose movies was counted, NoCase passes a movie
\* that no counter is for, and StoreCount moves a counter and its movies on by one.
LEMMA CountsExactNext ==
    Structure /\ CountsExact /\ [Next]_vars => CountsExact'
<1> SUFFICES ASSUME Structure, CountsExact, [Next]_vars, NEW y \in Year, NEW c \in Column
             PROVE  CountOfCell(dict', y, c) = Cardinality(CountedMovies(y, c)')
  BY TaskKept DEF CountsExact, CountOfCell, CountedMovies
<1>1. CountOfCell(dict, y, c) = Cardinality(CountedMovies(y, c))
  BY DEF CountsExact, CountedMovies
<1>2. CASE dict' = dict /\ counted' = counted
  BY <1>1, <1>2, SameListed
<1>3. ASSUME NEW f \in Files, EnsureKey(f)
      PROVE  CountOfCell(dict', y, c) = Cardinality(CountedMovies(y, c)')
  <2>1. CountOfCell(dict', y, c) = CountOfCell(dict, y, c)
    BY <1>3 DEF EnsureKey, CountOfCell, Put
  <2>2. CountedMovies(y, c)' = CountedMovies(y, c)
    BY <1>3, SameListed DEF EnsureKey
  <2> QED BY <1>1, <2>1, <2>2
<1>4. ASSUME NEW f \in Files, NoCase(f)
      PROVE  CountOfCell(dict', y, c) = Cardinality(CountedMovies(y, c)')
  <2>1. c # Current(f).column /\ dict' = dict
    BY <1>4, TasksAssumption DEF NoCase, Column
  <2>2. CountedMovies(y, c)' = CountedMovies(y, c)
    BY <1>4, <2>1, OneMovieMore DEF NoCase, InLock
  <2> QED BY <1>1, <2>1, <2>2
<1>5. ASSUME NEW f \in Files, StoreCount(f)
      PROVE  CountOfCell(dict', y, c) = Cardinality(CountedMovies(y, c)')
  <2> DEFINE o == <<f, counted[f] + 1>>
             here == y = Current(f).year /\ c = Current(f).column
  <2>1. /\ o \notin CountedMovies(y, c)
        /\ CountedMovies(y, c)' =
             IF here THEN CountedMovies(y, c) \cup {o} ELSE CountedMovies(y, c)
    BY <1>5, OneMovieMore DEF StoreCount, InLock
  <2>2. IsFiniteSet(CountedMovies(y, c))
    <3>1. IsFiniteSet(Listed(Files, y, c))
      BY ListedFinite DEF Structure, Core, TypeOK
    <3>2. CountedMovies(y, c) \in SUBSET Listed(Files, y, c)
      BY DEF CountedMovies
    <3> QED BY <3>1, <3>2, FS_Subset
  <2>3. /\ Current(f).year \in DOMAIN dict /\ Current(f).column \in Column
        /\ loaded[f] = dict[Current(f).year][Current(f).column]
        /\ IsTable(dict)
    BY <1>5 DEF StoreCount, Structure, Core, TypeOK, LockDiscipline
  <2>4. CASE here
    <3>1. CountOfCell(dict', y, c) = CountOfCell(dict, y, c) + 1
      BY <1>5, <2>3, <2>4 DEF StoreCount, CountOfCell, IsTable
    <3>2. Cardinality(CountedMovies(y, c) \cup {o}) = Cardinality(CountedMovies(y, c)) + 1
      BY <2>1, <2>2, FS_AddElement
    <3> QED BY <1>1, <2>1, <2>4, <3>1, <3>2
  <2>5. CASE ~ here
    <3>1. CountOfCell(dict', y, c) = CountOfCell(dict, y, c)
      BY <1>5, <2>3, <2>5 DEF StoreCount, CountOfCell, IsTable
    <3> QED BY <1>1, <2>1, <2>5, <3>1
  <2> QED BY <2>4, <2>5
<1> QED BY <1>2, <1>3, <1>4, <1>5, StepShape
-------------------------------------------------------------------------------
(***************************************************************************)
(* Output: what is serialized and stored.                                  *)
(***************************************************************************)

\* Counters and years only grow, and the version moves on with the years.
Growth ==
    /\ DOMAIN dict \subseteq DOMAIN dict'
    /\ \A y \in DOMAIN dict, c \in Column :
          dict[y][c] \in Nat /\ dict'[y][c] \in Nat /\ dict[y][c] <= dict'[y][c]
    /\ \/ version' = version /\ DOMAIN dict' = DOMAIN dict
       \/ version' = version + 1 /\ DOMAIN dict' # DOMAIN dict
    /\ dict' = dict \/ UNCHANGED <<job, outputVars>>

\* A step adds years or increments counters, and the version tells which.
LEMMA DictGrows == Structure /\ [Next]_vars => Growth
<1> SUFFICES ASSUME Structure, [Next]_vars PROVE Growth
  OBVIOUS
<1> USE DEF Growth
<1>1. IsTable(dict)
  BY DEF Structure, Core, TypeOK
<1>2. CASE dict' = dict /\ version' = version
  BY <1>1, <1>2 DEF IsTable
<1>3. ASSUME NEW f \in Files, EnsureKey(f)
      PROVE  Growth
  BY <1>1, <1>3 DEF EnsureKey, IsTable, Put
<1>4. ASSUME NEW f \in Files, StoreCount(f)
      PROVE  Growth
  <2>1. /\ Current(f).year \in DOMAIN dict /\ Current(f).column \in Column
        /\ loaded[f] = dict[Current(f).year][Current(f).column]
    BY <1>4 DEF StoreCount, Structure, Core, LockDiscipline
  <2> QED BY <1>1, <1>4, <2>1 DEF StoreCount, IsTable
<1>5. ASSUME NEW f \in Files, NoCase(f)
      PROVE  dict' = dict /\ version' = version
  BY <1>5 DEF NoCase
<1> QED BY <1>2, <1>3, <1>4, <1>5, StepShape

\* Nothing has been serialized or stored.
LEMMA OutputInit == Init => Output
  BY DEF Init, Output, Began, GrownSinceBegin, SerializedBetween, NoCounts

\* A counter is read between the serializer's beginning and now, and goes on
\* growing after that; only a version change, hence a new year, faults the job.
LEMMA OutputNext == Structure /\ Structure' /\ Output /\ [Next]_vars => Output'
<1> SUFFICES ASSUME Structure, Structure', Output, [Next]_vars PROVE Output'
  OBVIOUS
<1>d. /\ task' = task /\ dir' = dir /\ Column' = Column
  BY TaskKept
<1>g. Growth
  BY DictGrows
<1>t. /\ version \in Nat /\ enumVersion \in Nat /\ version' \in Nat
      /\ task.columns \in Nat \ {0} /\ Column = 1 .. task.columns
      /\ \A y \in DOMAIN json : json[y] \in Seq(Nat)
      /\ IsTable(dict) /\ IsTable(begun) /\ DOMAIN json \subseteq DOMAIN dict
  BY TasksAssumption DEF Structure, Core, TypeOK, IsTask, Column
<1>1. CASE UNCHANGED <<job, outputVars>>
  <2>1. /\ job' = job /\ enumVersion' = enumVersion /\ json' = json
        /\ stored' = stored /\ begun' = begun /\ (Began' <=> Began)
    BY <1>1, <1>d DEF outputVars, Began
  <2>2. GrownSinceBegin'
    <3> SUFFICES ASSUME Began
                 PROVE  /\ enumVersion <= version'
                        /\ DOMAIN begun \subseteq DOMAIN dict'
                        /\ \A y \in DOMAIN begun, c \in Column : begun[y][c] <= dict'[y][c]
                        /\ version' = enumVersion <=> DOMAIN begun = DOMAIN dict'
      BY <1>d, <2>1 DEF GrownSinceBegin
    <3>1. /\ enumVersion <= version /\ DOMAIN begun \subseteq DOMAIN dict
          /\ \A y \in DOMAIN begun, c \in Column : begun[y][c] <= dict[y][c]
          /\ version = enumVersion <=> DOMAIN begun = DOMAIN dict
      BY DEF Output, GrownSinceBegin
    <3>2. \A y \in DOMAIN begun, c \in Column : begun[y][c] <= dict'[y][c]
      BY <1>g, <1>t, <3>1 DEF Growth, IsTable
    <3>3. CASE version' = version /\ DOMAIN dict' = DOMAIN dict
      BY <3>1, <3>2, <3>3
    <3>4. CASE version' = version + 1 /\ DOMAIN dict' # DOMAIN dict
      <4>1. enumVersion <= version' /\ version' # enumVersion
        BY <1>t, <3>1, <3>4
      <4>2. DOMAIN begun \subseteq DOMAIN dict' /\ DOMAIN begun # DOMAIN dict'
        BY <1>g, <3>1, <3>4 DEF Growth
      <4> QED BY <3>2, <4>1, <4>2
    <3> QED BY <1>g, <3>3, <3>4 DEF Growth
  <2>3. SerializedBetween'
    <3> SUFFICES ASSUME NEW y \in DOMAIN json, NEW c \in 1 .. Len(json[y])
                 PROVE  json[y][c] <= dict'[y][c]
      BY <1>d, <2>1 DEF Output, SerializedBetween
    <3>1. y \in DOMAIN dict /\ c \in Column /\ json[y][c] <= dict[y][c] /\ json[y][c] \in Nat
      BY <1>t DEF Output, SerializedBetween
    <3> QED BY <1>g, <3>1 DEF Growth
  <2>4. job = "faulted" => version' # enumVersion
    BY <1>g, <1>t DEF Output, GrownSinceBegin, Growth, Began
  <2> QED BY <1>d, <2>1, <2>2, <2>3, <2>4 DEF Output
<1>2. CASE ForEachReturns
  <2>1. /\ job = "dispatching" /\ job' = "serializing" /\ enumVersion' = version
        /\ json' = NoCounts /\ begun' = dict /\ stored' = stored
        /\ dict' = dict /\ version' = version
    BY <1>2 DEF ForEachReturns, callbackVars
  <2>2. GrownSinceBegin'
    BY <1>d, <1>t, <2>1 DEF GrownSinceBegin, IsTable
  <2>3. SerializedBetween'
    BY <2>1 DEF SerializedBetween, NoCounts
  <2> QED BY <1>d, <2>1, <2>2, <2>3 DEF Output, Began
<1>3. ASSUME NEW y \in Year, MoveNext(y)
      PROVE  Output'
  <2>1. /\ job = "serializing" /\ version = enumVersion /\ y \in DOMAIN dict
        /\ job' = job /\ enumVersion' = enumVersion /\ begun' = begun /\ stored' = stored
        /\ dict' = dict /\ version' = version /\ json' = Put(json, y, <<>>)
    BY <1>3 DEF MoveNext, callbackVars
  <2>2. y \in DOMAIN begun
    BY <2>1 DEF Output, GrownSinceBegin, Began
  <2>3. SerializedBetween'
    BY <1>d, <1>t, <2>1, <2>2 DEF Output, SerializedBetween, Put
  <2>4. GrownSinceBegin'
    BY <1>d, <2>1 DEF Output, GrownSinceBegin, Began
  <2> QED BY <1>d, <2>1, <2>3, <2>4 DEF Output, Began
<1>4. ASSUME NEW y \in Year, ReadCounter(y)
      PROVE  Output'
  <2>1. /\ job = "serializing" /\ y \in DOMAIN json /\ Len(json[y]) < task.columns
        /\ job' = job /\ enumVersion' = enumVersion /\ begun' = begun /\ stored' = stored
        /\ dict' = dict /\ version' = version
        /\ json' = Put(json, y, Append(json[y], dict[y][Len(json[y]) + 1]))
    BY <1>4 DEF ReadCounter, OpenYears, callbackVars
  <2>2. /\ json[y] \in Seq(Nat) /\ Len(json[y]) \in Nat /\ Len(json[y]) + 1 \in Column
        /\ y \in DOMAIN dict /\ y \in DOMAIN begun
    BY <1>t, <2>1 DEF Output, SerializedBetween
  <2> DEFINE n == dict[y][Len(json[y]) + 1]
  <2>3. n \in Nat /\ begun[y][Len(json[y]) + 1] <= n
    BY <1>t, <2>1, <2>2 DEF Output, GrownSinceBegin, Began, IsTable
  <2>4. /\ Len(Append(json[y], n)) = Len(json[y]) + 1
        /\ Append(json[y], n)[Len(json[y]) + 1] = n
        /\ \A c \in 1 .. Len(json[y]) : Append(json[y], n)[c] = json[y][c]
    BY <2>2, <2>3
  <2>5. /\ DOMAIN json' = DOMAIN json /\ json'[y] = Append(json[y], n)
        /\ \A x \in DOMAIN json : x # y => json'[x] = json[x]
    BY <2>1 DEF Put
  <2>6. SerializedBetween'
    <3> SUFFICES ASSUME NEW x \in DOMAIN json'
                 PROVE  /\ x \in DOMAIN begun
                        /\ Len(json'[x]) <= task.columns
                        /\ \A c \in 1 .. Len(json'[x]) :
                              begun[x][c] <= json'[x][c] /\ json'[x][c] <= dict[x][c]
      BY <1>d, <2>1 DEF SerializedBetween
    <3>1. CASE x # y
      BY <2>5, <3>1 DEF Output, SerializedBetween
    <3>2. CASE x = y
      <4>1. \A c \in 1 .. Len(json[y]) :
               begun[y][c] <= json[y][c] /\ json[y][c] <= dict[y][c]
        BY <2>1 DEF Output, SerializedBetween
      <4>2. \A c \in 1 .. Len(json[y]) + 1 : c \in 1 .. Len(json[y]) \/ c = Len(json[y]) + 1
        BY <2>2
      <4> HIDE DEF n
      <4>3. \A c \in 1 .. Len(json[y]) + 1 :
               begun[y][c] <= json'[y][c] /\ json'[y][c] <= dict[y][c]
        BY <2>3, <2>4, <2>5, <4>1, <4>2 DEF n
      <4>4. Len(json'[y]) = Len(json[y]) + 1 /\ Len(json'[y]) <= task.columns
        BY <1>t, <2>2, <2>4, <2>5
      <4> QED BY <2>2, <3>2, <4>3, <4>4
    <3> QED BY <3>1, <3>2
  <2>7. GrownSinceBegin'
    BY <1>d, <2>1 DEF Output, GrownSinceBegin, Began
  <2> QED BY <1>d, <2>1, <2>6, <2>7 DEF Output, Began
<1>5. CASE MoveNextEnds
  <2>1. /\ job = "serializing" /\ version = enumVersion /\ DOMAIN json = DOMAIN dict
        /\ \A y \in DOMAIN json : ~ (Len(json[y]) < task.columns)
        /\ job' = "writing" /\ enumVersion' = enumVersion /\ begun' = begun
        /\ stored' = stored /\ json' = json /\ dict' = dict /\ version' = version
    BY <1>5 DEF MoveNextEnds, OpenYears, callbackVars, outputVars
  <2>2. DOMAIN json = DOMAIN begun
    BY <2>1 DEF Output, GrownSinceBegin, Began
  <2>3. \A y \in DOMAIN json : Len(json[y]) = task.columns
    BY <1>t, <2>1 DEF Output, SerializedBetween
  <2>4. GrownSinceBegin' /\ SerializedBetween'
    BY <1>d, <2>1 DEF Output, GrownSinceBegin, Began, SerializedBetween
  <2> QED BY <1>d, <2>1, <2>2, <2>3, <2>4 DEF Output, Began
<1>6. CASE ListFiles \/ ListFilesThrows \/ MoveNextThrows \/ WriteFails \/ DisposeModule
  <2>1. /\ enumVersion' = enumVersion /\ json' = json /\ stored' = stored
        /\ begun' = begun /\ dict' = dict /\ version' = version
    BY <1>6 DEF ListFiles, ListFilesThrows, MoveNextThrows, WriteFails, DisposeModule,
                callbackVars, outputVars
  <2>2. \/ /\ job = "listing" /\ job' = "dispatching"
        \/ /\ job = "listing" /\ job' = "unlisted"
        \/ /\ job = "serializing" /\ job' = "faulted" /\ version # enumVersion
        \/ /\ job = "writing" /\ job' = "disposing"
        \/ /\ job = "disposing" /\ job' = "done"
    BY <1>6 DEF ListFiles, ListFilesThrows, MoveNextThrows, WriteFails, DisposeModule
  <2>3. Began' <=> Began
    BY <1>d, <2>2 DEF Began, Output
  <2>4. GrownSinceBegin' /\ SerializedBetween'
    BY <1>d, <2>1, <2>3 DEF Output, GrownSinceBegin, SerializedBetween
  <2>5. stored # NoOutput => job' \in {"disposing", "done"}
    BY <2>2 DEF Output
  <2>6. job' = "faulted" => version # enumVersion
    BY <2>2 DEF Output, Began
  <2>7. job' \in {"writing", "disposing", "done"} =>
          DOMAIN json = DOMAIN begun /\ \A y \in DOMAIN json : Len(json[y]) = task.columns
    BY <2>2 DEF Output
  <2> QED BY <1>d, <2>1, <2>3, <2>4, <2>5, <2>6, <2>7 DEF Output
<1>7. CASE WriteOutput
  <2>1. /\ enumVersion' = enumVersion /\ json' = json /\ stored' = json
        /\ begun' = begun /\ dict' = dict /\ version' = version
        /\ job = "writing" /\ job' = "disposing"
    BY <1>7 DEF WriteOutput, callbackVars
  <2>2. GrownSinceBegin' /\ SerializedBetween'
    BY <1>d, <2>1 DEF Output, GrownSinceBegin, SerializedBetween, Began
  <2> QED BY <1>d, <2>1, <2>2 DEF Output, Began
<1>8. ASSUME NEW f \in Files, StartCallback(f) \/ CallbackStep(f)
      PROVE  UNCHANGED <<job, outputVars>>
  BY <1>8 DEF StartCallback, CallbackStep, ReadArrives, ReadFails, EnterLock,
              EnsureKey, LoadCount, NoCase, StoreCount
<1>9. ASSUME UNCHANGED jobVars
      PROVE  UNCHANGED <<job, outputVars>>
  BY <1>9 DEF jobVars, outputVars
<1> QED
  BY <1>1, <1>2, <1>3, <1>4, <1>5, <1>6, <1>7, <1>8, <1>9 DEF Next, JobStep, Exit, Terminated, vars
-------------------------------------------------------------------------------
(***************************************************************************)
(* The theorems.                                                           *)
(***************************************************************************)

IInv == Structure /\ CountsExact /\ Output

\* The three layers together are an inductive invariant of the job.
THEOREM Invariance == Spec => []IInv
<1>1. Init => IInv
  BY StructureInit, CountsExactInit, OutputInit DEF IInv
<1>2. IInv /\ [Next]_vars => IInv'
  BY StructureNext, CountsExactNext, OutputNext DEF IInv
<1> QED BY <1>1, <1>2, PTL DEF Spec

\* Type correctness of the job, its callbacks and what it serializes.
THEOREM TypeCorrect == Spec => []TypeOK
<1>1. IInv => TypeOK
  BY DEF IInv, Structure, Core
<1> QED BY <1>1, Invariance, PTL

\* No Count++ is lost or doubled, whatever the interleaving of the callbacks.
THEOREM NoIncrementLost == Spec => []CountsExact
<1>1. IInv => CountsExact
  BY DEF IInv
<1> QED BY <1>1, Invariance, PTL

\* The output has the years of the serializer's beginning, and each counter lies
\* between its value then and its value now, however torn the output is.
THEOREM OutputIsBetween == Spec => []WrittenBetweenBeginAndNow
<1>1. ASSUME IInv PROVE WrittenBetweenBeginAndNow
  <2> SUFFICES ASSUME stored # NoOutput
               PROVE  /\ DOMAIN stored = DOMAIN begun
                      /\ \A y \in DOMAIN stored, c \in Column :
                            begun[y][c] <= stored[y][c] /\ stored[y][c] <= dict[y][c]
    BY DEF WrittenBetweenBeginAndNow
  <2>1. /\ stored = json /\ DOMAIN json = DOMAIN begun
        /\ \A y \in DOMAIN json : Len(json[y]) = task.columns
    BY <1>1 DEF IInv, Output
  <2>2. \A y \in DOMAIN json, c \in 1 .. task.columns :
           begun[y][c] <= json[y][c] /\ json[y][c] <= dict[y][c]
    BY <1>1, <2>1 DEF IInv, Output, SerializedBetween
  <2> QED BY <2>1, <2>2 DEF Column
<1>2. IInv => WrittenBetweenBeginAndNow
  BY <1>1
<1> QED BY <1>2, Invariance, PTL

\* A job that could list its files faults only because of a late new year.
THEOREM FaultNeedsNewYear == Spec => []FaultMeansNewYear
<1>1. IInv => FaultMeansNewYear
  BY DEF IInv, Output, GrownSinceBegin, Began, FaultMeansNewYear
<1> QED BY <1>1, Invariance, PTL

\* No counter goes down and no year disappears.
THEOREM CountsOnlyGrow == Spec => CountsGrow
<1> DEFINE Grow == \A y \in DOMAIN dict : y \in DOMAIN dict'
                              /\ \A c \in Column : dict'[y][c] >= dict[y][c]
<1>1. IInv /\ [Next]_vars => [Grow]_vars
  BY DictGrows DEF IInv, Growth
<1> QED BY <1>1, Invariance, PTL DEF Spec, CountsGrow

\* If nothing was counted after the serializer began, the output is exact.
THEOREM ExactUnlessLate == Spec => []ExactWhenNoneLate
<1>1. ASSUME IInv PROVE ExactWhenNoneLate
  <2> DEFINE Read == {f \in Files : callback[f] = "counted"}
  <2> SUFFICES ASSUME stored # NoOutput, dict = begun, \A f \in Files : Ended(f),
                      NEW y \in Year, NEW c \in Column
               PROVE  CountOfCell(stored, y, c) = Cardinality(Listed(Read, y, c))
    BY DEF ExactWhenNoneLate
  <2>1. CountOfCell(dict, y, c) = Cardinality(CountedMovies(y, c))
    BY <1>1 DEF IInv, CountsExact, CountedMovies
  <2>2. CountOfCell(stored, y, c) = CountOfCell(dict, y, c)
    <3>1. /\ stored = json /\ DOMAIN json = DOMAIN dict
          /\ \A x \in DOMAIN json : Len(json[x]) = task.columns
      BY <1>1 DEF IInv, Output
    <3>2. \A x \in DOMAIN json :
             dict[x][c] <= json[x][c] /\ json[x][c] <= dict[x][c]
      BY <1>1, <3>1 DEF IInv, Output, SerializedBetween, Column
    <3>3. \A x \in DOMAIN json : json[x][c] \in Nat /\ dict[x][c] \in Nat
      BY <1>1, <3>1 DEF IInv, Structure, Core, TypeOK, IsTable, Column
    <3> QED BY <3>1, <3>2, <3>3 DEF CountOfCell
  <2>3. \A f \in Files : \A i \in 1 .. MaxMovies :
          i <= Len(Movies(f)) => (i <= counted[f] <=> f \in Read)
    <3> SUFFICES ASSUME NEW f \in Files, NEW i \in 1 .. MaxMovies, i <= Len(Movies(f))
                 PROVE  i <= counted[f] <=> f \in Read
      OBVIOUS
    <3>1. /\ callback[f] = "skipped" => counted[f] = 0
          /\ callback[f] = "counted" => counted[f] = Len(Movies(f))
          /\ callback[f] \in {"counted", "skipped"}
      BY <1>1 DEF IInv, Structure, Core, CountedSoFar, Ended
    <3> QED BY <3>1, MaxMoviesAssumption
  <2>4. CountedMovies(y, c) = Listed(Read, y, c)
    BY <2>3 DEF CountedMovies, Listed
  <2> QED BY <2>1, <2>2, <2>4
<1>2. IInv => ExactWhenNoneLate
  BY <1>1
<1> QED BY <1>2, Invariance, PTL
-------------------------------------------------------------------------------
(***************************************************************************)
(* Refinement: to its host each of the two jobs is a HostedJob.            *)
(***************************************************************************)

\* How many callbacks are in flight is a number that a job may leave behind.
LEMMA InFlightFinite ==
    ASSUME task \in Tasks
    PROVE  /\ IsFiniteSet(InFlight)
           /\ Cardinality(InFlight) \in Nat
           /\ \E t \in Tasks : Cardinality(InFlight) \in 0 .. Cardinality(DOMAIN t.dir)
<1>1. IsFiniteSet(Files)
  BY TasksAssumption DEF IsTask, Files, dir
<1>2. InFlight \in SUBSET Files
  BY DEF InFlight
<1>3. IsFiniteSet(InFlight) /\ Cardinality(InFlight) <= Cardinality(Files)
  BY <1>1, <1>2, FS_Subset
<1>4. Cardinality(InFlight) \in Nat /\ Cardinality(Files) \in Nat
  BY <1>1, <1>3, FS_CardinalityType
<1>5. Cardinality(InFlight) \in 0 .. Cardinality(DOMAIN task.dir)
  BY <1>3, <1>4 DEF Files, dir
<1> QED BY <1>3, <1>4, <1>5

\* Who is in flight is a matter of the callbacks' states.
LEMMA SameInFlight ==
    ASSUME [Next]_vars, UNCHANGED callback
    PROVE  InFlight' = InFlight
  BY TaskKept DEF InFlight, Ended

\* A callback's step ends it, or none.
LEMMA InFlightShrinks ==
    ASSUME Structure, [Next]_vars, NEW f \in Files, CallbackStep(f)
    PROVE  \/ InFlight' = InFlight
           \/ f \in InFlight /\ InFlight' = InFlight \ {f}
<1>1. Files' = Files
  BY TaskKept
<1>2. \E c \in CallbackStates : callback' = [callback EXCEPT ![f] = c]
  BY DEF CallbackStep, ReadArrives, ReadFails, EnterLock, EnsureKey, LoadCount, NoCase,
         StoreCount, NextMovie, CallbackStates
<1>3. callback[f] \notin {"counted", "skipped"}
  BY DEF CallbackStep, ReadArrives, ReadFails, EnterLock, EnsureKey, LoadCount, NoCase,
         StoreCount
<1>4. f \in InFlight
  BY <1>3 DEF InFlight, Ended
<1>5. \A e \in Files : e # f => callback'[e] = callback[e]
  BY <1>2 DEF Structure, Core, TypeOK
<1> QED BY <1>1, <1>4, <1>5 DEF InFlight, Ended

\* The job starts where HostedJob starts.
LEMMA HostedInit == Init => Hosted!Init
  BY DEF Init, Hosted!Init, HostPhase, HostLate, HostOutput

\* A step of the task is one of HostedJob, or the host does not see it.
LEMMA HostedTask ==
    ASSUME IInv, [Next]_vars, JobStep
    PROVE  Hosted!Next \/ UNCHANGED Hosted!vars
<1>0. ~ exited /\ exited' = exited
  BY DEF JobStep
<1>1. CASE ListFiles \/ \E f \in Files : StartCallback(f)
  BY <1>0, <1>1 DEF ListFiles, StartCallback, outputVars, Hosted!vars, HostPhase, HostLate,
                    HostOutput
<1>2. CASE (\E y \in Year : MoveNext(y) \/ ReadCounter(y)) \/ MoveNextEnds
  <2>1. /\ callback' = callback /\ stored' = stored
        /\ job = "serializing" /\ job' \in {"serializing", "writing"}
    BY <1>2 DEF MoveNext, ReadCounter, MoveNextEnds, callbackVars, outputVars
  <2> QED BY <1>0, <2>1, SameInFlight DEF Hosted!vars, HostPhase, HostLate, HostOutput
<1>3. CASE ForEachReturns
  <2>1. HostLate' = Cardinality(InFlight)
    BY <1>3, SameInFlight DEF ForEachReturns, callbackVars, HostLate
  <2>2. HostLate' \in UNION {0 .. Cardinality(DOMAIN t.dir) : t \in Tasks}
    BY <2>1, InFlightFinite DEF IInv, Structure, Core, TypeOK
  <2>3. Hosted!StartCallbacks
    BY <1>3, <2>2 DEF ForEachReturns, Hosted!StartCallbacks, HostPhase, HostOutput
  <2> QED BY <1>0, <2>3 DEF Hosted!Next
<1>4. CASE WriteOutput \/ WriteFails
  <2>1. stored = NoOutput
    BY <1>4 DEF IInv, Output, WriteOutput, WriteFails
  <2>2. Hosted!Write
    BY <1>4, <2>1, SameInFlight
    DEF WriteOutput, WriteFails, callbackVars, outputVars, Hosted!Write, HostPhase,
        HostLate, HostOutput
  <2> QED BY <1>0, <2>2 DEF Hosted!Next
<1>5. CASE DisposeModule
  <2>1. Hosted!Close
    BY <1>5, SameInFlight
    DEF DisposeModule, callbackVars, outputVars, Hosted!Close, HostPhase, HostLate, HostOutput
  <2> QED BY <1>0, <2>1 DEF Hosted!Next
<1>6. CASE ListFilesThrows \/ MoveNextThrows
  <2>1. Hosted!Fail
    BY <1>6, SameInFlight
    DEF ListFilesThrows, MoveNextThrows, callbackVars, outputVars, Hosted!Fail, HostPhase,
        HostLate, HostOutput
  <2> QED BY <1>0, <2>1 DEF Hosted!Next
<1> QED BY <1>1, <1>2, <1>3, <1>4, <1>5, <1>6 DEF JobStep

\* A callback's step is the end of one of those left behind, or the host does not see it.
LEMMA HostedCallback ==
    ASSUME IInv, [Next]_vars, NEW f \in Files, CallbackStep(f)
    PROVE  Hosted!Next \/ UNCHANGED Hosted!vars
<1>0. /\ ~ exited /\ exited' = exited /\ job' = job /\ stored' = stored
      /\ HostPhase' = HostPhase /\ HostOutput' = HostOutput
  BY DEF CallbackStep, ReadArrives, ReadFails, EnterLock, EnsureKey, LoadCount, NoCase,
         StoreCount, outputVars, HostPhase, HostOutput
<1>1. CASE InFlight' = InFlight \/ job \in {"listing", "dispatching", "unlisted"}
  BY <1>0, <1>1 DEF HostLate, Hosted!vars
<1>2. CASE /\ f \in InFlight /\ InFlight' = InFlight \ {f}
           /\ job \notin {"listing", "dispatching", "unlisted"}
  <2>1. IsFiniteSet(InFlight) /\ Cardinality(InFlight) \in Nat
    BY InFlightFinite DEF IInv, Structure, Core, TypeOK
  <2>2. /\ Cardinality(InFlight \ {f}) = Cardinality(InFlight) - 1
        /\ IsFiniteSet(InFlight \ {f})
    BY <1>2, <2>1, FS_RemoveElement
  <2>3. Cardinality(InFlight \ {f}) \in Nat
    BY <2>2, FS_CardinalityType
  <2>4. Hosted!CallbackEnds
    BY <1>0, <1>2, <2>1, <2>2, <2>3 DEF HostLate, Hosted!CallbackEnds
  <2> QED BY <1>0, <2>4 DEF Hosted!Next
<1> QED BY <1>1, <1>2, InFlightShrinks DEF IInv

\* Every step of the job is a step of HostedJob or changes nothing the host sees.
LEMMA HostedNext == IInv /\ [Next]_vars => [Hosted!Next]_(Hosted!vars)
<1> SUFFICES ASSUME IInv, [Next]_vars
             PROVE  Hosted!Next \/ UNCHANGED Hosted!vars
  OBVIOUS
<1>1. CASE Exit
  <2>1. InFlight' = InFlight
    BY <1>1, SameInFlight DEF Exit, jobVars
  <2>2. Hosted!ProcessEnds
    BY <1>1, <2>1 DEF Exit, jobVars, Hosted!ProcessEnds, HostPhase, HostLate, HostOutput
  <2> QED BY <1>1, <2>2 DEF Exit, Hosted!Next
<1>2. CASE UNCHANGED vars
  <2>1. InFlight' = InFlight
    BY <1>2, SameInFlight DEF vars, jobVars
  <2> QED BY <1>2, <2>1 DEF vars, jobVars, Hosted!vars, HostPhase, HostLate, HostOutput
<1> QED BY <1>1, <1>2, HostedTask, HostedCallback DEF Next, Terminated

\* Each job keeps the contract that AnalyzerHost's jobs keep.
THEOREM KeepsHostContract == Spec => ImplementsHostedJob
<1> QED
  BY HostedInit, HostedNext, Invariance, PTL DEF Spec, ImplementsHostedJob, Hosted!Spec
-------------------------------------------------------------------------------
(***************************************************************************)
(* Every step shortens the run.                                            *)
(***************************************************************************)

\* The task's own step ends a stage, or leaves fewer years, or the same years and fewer
\* counters.
LEMMA TaskShortensItself ==
    ASSUME IInv, [Next]_vars, JobStep
    PROVE  TaskShortens
<1>k. Files' = Files /\ Column' = Column
  BY TaskKept
<1>1. CASE ListFiles \/ ListFilesThrows \/ ForEachReturns \/ MoveNextEnds \/ MoveNextThrows
           \/ WriteOutput \/ WriteFails \/ DisposeModule
  <2>1. TaskSteps[job'] < TaskSteps[job]
    BY <1>1 DEF ListFiles, ListFilesThrows, ForEachReturns, MoveNextEnds, MoveNextThrows,
                WriteOutput, WriteFails, DisposeModule, TaskSteps
  <2> QED BY <2>1 DEF TaskShortens
<1>2. ASSUME NEW f \in Files, StartCallback(f)
      PROVE  TaskShortens
  <2>1. /\ job = "dispatching" /\ job' = job /\ callback[f] = "waiting"
        /\ callback' = [callback EXCEPT ![f] = "reading"]
    BY <1>2 DEF StartCallback
  <2>2. \A e \in Files : callback'[e] = IF e = f THEN "reading" ELSE callback[e]
    BY <2>1 DEF IInv, Structure, Core, TypeOK
  <2>3. f \in TaskLeft /\ TaskLeft' = TaskLeft \ {f}
    BY <1>k, <2>1, <2>2 DEF TaskLeft
  <2> QED BY <2>1, <2>3 DEF TaskShortens
<1>3. ASSUME NEW y \in Year, MoveNext(y)
      PROVE  TaskShortens
  <2>1. /\ job = "serializing" /\ job' = job /\ version = enumVersion
        /\ version' = version /\ enumVersion' = enumVersion /\ dict' = dict
        /\ y \in DOMAIN dict \ DOMAIN json /\ DOMAIN json' = DOMAIN json \cup {y}
    BY <1>3 DEF MoveNext, callbackVars, Put
  <2>2. y \in TaskLeft /\ TaskLeft' = TaskLeft \ {y}
    BY <2>1 DEF TaskLeft
  <2> QED BY <2>1, <2>2 DEF TaskShortens
<1>4. ASSUME NEW y \in Year, ReadCounter(y)
      PROVE  TaskShortens
  <2>1. /\ job = "serializing" /\ job' = job /\ version' = version
        /\ enumVersion' = enumVersion /\ dict' = dict
        /\ y \in DOMAIN json /\ Len(json[y]) < task.columns
        /\ json' = Put(json, y, Append(json[y], dict[y][Len(json[y]) + 1]))
    BY <1>4 DEF ReadCounter, OpenYears, callbackVars
  <2>2. json[y] \in Seq(Nat) /\ task.columns \in Nat
    BY <2>1, TasksAssumption DEF IInv, Structure, Core, TypeOK, IsTask
  <2>3. /\ DOMAIN json' = DOMAIN json
        /\ Len(json'[y]) = Len(json[y]) + 1
        /\ \A x \in DOMAIN json : x # y => json'[x] = json[x]
    <3>1. /\ DOMAIN json' = DOMAIN json
          /\ json'[y] = Append(json[y], dict[y][Len(json[y]) + 1])
          /\ \A x \in DOMAIN json : x # y => json'[x] = json[x]
      BY <2>1 DEF Put
    <3>2. Len(json[y]) + 1 \in Column /\ y \in DOMAIN dict
      BY <2>1, <2>2 DEF IInv, Structure, Column
    <3>3. dict[y][Len(json[y]) + 1] \in Nat
      BY <3>2 DEF IInv, Structure, Core, TypeOK, IsTable
    <3> QED BY <2>2, <3>1, <3>3
  <2>4. TaskLeft' = TaskLeft
    BY <2>1, <2>3 DEF TaskLeft
  <2>5. CountersLeft' \subseteq CountersLeft
    <3> SUFFICES ASSUME NEW x \in DOMAIN json, NEW c \in Column, Len(json'[x]) < c
                 PROVE  Len(json[x]) < c
      BY <1>k, <2>3 DEF CountersLeft
    <3> QED BY <2>2, <2>3 DEF Column
  <2>6. <<y, Len(json[y]) + 1>> \in CountersLeft
    BY <2>1, <2>2 DEF CountersLeft, Column
  <2>7. <<y, Len(json[y]) + 1>> \notin CountersLeft'
    BY <2>2, <2>3 DEF CountersLeft
  <2> QED BY <2>1, <2>4, <2>5, <2>6, <2>7 DEF TaskShortens
<1> QED BY <1>1, <1>2, <1>3, <1>4 DEF JobStep

\* Another's step does not lengthen it: a new year moves the version on, and then none is
\* left to open; a count in place leaves the years and the counters to read as they are.
LEMMA TaskShortensOtherwise ==
    ASSUME IInv, [Next]_vars, ~ JobStep
    PROVE  TaskShortens
<1>k. Files' = Files /\ Column' = Column
  BY TaskKept
<1>1. job' = job /\ UNCHANGED outputVars
  BY DEF Next, CallbackStep, ReadArrives, ReadFails, EnterLock, EnsureKey, LoadCount,
         NoCase, StoreCount, Exit, Terminated, vars, jobVars, outputVars
<1>2. \A f \in Files : callback'[f] = "waiting" => callback[f] = "waiting"
  BY DEF IInv, Structure, Core, TypeOK, Next, CallbackStep, ReadArrives, ReadFails,
         EnterLock, EnsureKey, LoadCount, NoCase, StoreCount, NextMovie, Exit, Terminated,
         vars, jobVars
<1>3. TaskLeft' \subseteq TaskLeft
  <2>1. CASE job = "dispatching"
    BY <1>k, <1>1, <1>2, <2>1 DEF TaskLeft
  <2>2. CASE job = "serializing" /\ DOMAIN dict' = DOMAIN dict /\ version' = version
    BY <1>1, <2>2 DEF TaskLeft, outputVars
  <2>3. CASE job = "serializing" /\ version' = version + 1
    <3>1. version' # enumVersion'
      BY <1>1, <2>3
      DEF IInv, Structure, Core, TypeOK, Output, GrownSinceBegin, Began, outputVars
    <3> QED BY <1>1, <2>3, <3>1 DEF TaskLeft
  <2>4. CASE job \notin {"dispatching", "serializing"}
    BY <1>1, <2>4 DEF TaskLeft
  <2> QED BY <2>1, <2>2, <2>3, <2>4, DictGrows DEF IInv, Growth
<1>4. CountersLeft' = CountersLeft
  BY <1>k, <1>1 DEF CountersLeft, outputVars
<1> QED BY <1>1, <1>3, <1>4 DEF TaskShortens

\* A callback's own step goes on to the next movie or gets nearer to that; no other step
\* touches it, but for the one that starts it.
LEMMA CallbackShortensNext ==
    ASSUME IInv, [Next]_vars, NEW f \in Files
    PROVE  CallbackShortens(f)
<1>t. /\ callback \in [Files -> CallbackStates] /\ counted \in [Files -> Nat]
      /\ Len(Movies(f)) \in Nat
  BY MoviesType DEF IInv, Structure, Core, TypeOK
<1>1. CASE CallbackStep(f)
  <2>1. CASE NoCase(f) \/ StoreCount(f)
    <3>1. counted[f] < Len(Movies(f))
      BY <2>1 DEF IInv, Structure, Core, LockDiscipline, InLock, NoCase, StoreCount
    <3>2. counted'[f] = counted[f] + 1
      BY <1>t, <2>1 DEF NoCase, StoreCount, NextMovie
    <3> QED BY <1>t, <3>1, <3>2 DEF CallbackShortens
  <2>2. CASE ReadArrives(f) \/ ReadFails(f) \/ EnterLock(f) \/ EnsureKey(f) \/ LoadCount(f)
    <3>1. counted'[f] = counted[f]
      BY <2>2 DEF ReadArrives, ReadFails, EnterLock, EnsureKey, LoadCount
    <3>2. MovieSteps[callback'[f]] < MovieSteps[callback[f]]
      BY <1>t, <2>2 DEF ReadArrives, ReadFails, EnterLock, EnsureKey, LoadCount, MovieSteps
    <3> QED BY <3>1, <3>2 DEF CallbackShortens
  <2> QED BY <1>1, <2>1, <2>2 DEF CallbackStep
<1>2. CASE ~ CallbackStep(f)
  <2>1. CASE StartCallback(f)
    <3>1. /\ counted'[f] = counted[f]
          /\ callback[f] = "waiting" /\ callback'[f] = "reading"
      BY <1>t, <2>1 DEF StartCallback
    <3> QED BY <3>1 DEF CallbackShortens, MovieSteps
  <2>2. CASE ~ StartCallback(f)
    <3>1. callback'[f] = callback[f] /\ counted'[f] = counted[f]
      <4>1. ASSUME NEW e \in Files, e # f, StartCallback(e) \/ CallbackStep(e)
            PROVE  callback'[f] = callback[f] /\ counted'[f] = counted[f]
        BY <1>t, <4>1 DEF StartCallback, CallbackStep, ReadArrives, ReadFails, EnterLock,
                          EnsureKey, LoadCount, NoCase, StoreCount, NextMovie
      <4>2. CASE UNCHANGED callbackVars
        BY <4>2 DEF callbackVars
      <4>3. CASE UNCHANGED jobVars
        BY <4>3 DEF jobVars
      <4> QED
        BY <1>2, <2>2, <4>1, <4>2, <4>3
        DEF Next, JobStep, ListFiles, ListFilesThrows, ForEachReturns, MoveNext,
            ReadCounter, MoveNextEnds, MoveNextThrows, WriteOutput, WriteFails,
            DisposeModule, Exit, Terminated, vars
    <3> QED BY <1>2, <3>1 DEF CallbackShortens
  <2> QED BY <2>1, <2>2
<1> QED BY <1>1, <1>2

\* Whatever the number of files, a callback that waits for the lock waits for one inside
\* the block, none finds its year gone, and the serializer goes on, ends or throws: a run
\* stops only when all have ended or its process has.
THEOREM NoVainWait == Spec => []NobodyWaitsInVain
  <1>1. IInv => NobodyWaitsInVain
    <2>. SUFFICES ASSUME IInv
                  PROVE  NobodyWaitsInVain
      OBVIOUS
    <2>1. lock # Unlocked => callback[lock] \in {"ensuring", "loading", "storing"}
      BY DEF IInv, Structure, Core, TypeOK, LockDiscipline, InLock
    <2>2. \A f \in Files :
             callback[f] \in {"loading", "storing"} => Current(f).year \in DOMAIN dict
      BY DEF IInv, Structure, Core, LockDiscipline
    <2>3. job = "serializing" => DOMAIN json \subseteq DOMAIN dict
      BY DEF IInv, Structure
    <2>. QED  BY <2>1, <2>2, <2>3 DEF NobodyWaitsInVain
  <1>. QED  BY <1>1, Invariance, PTL

\* No run of the task and its callbacks, of any number, has more steps than its files and
\* counters give it; what is left to fairness is that enabled steps are taken.
THEOREM RunsAreFinite == Spec => EveryStepShortens
<1>1. ASSUME IInv, [Next]_vars
      PROVE  TaskShortens /\ \A f \in Files : CallbackShortens(f)
  <2>1. TaskShortens
    BY <1>1, TaskShortensItself, TaskShortensOtherwise
  <2> QED BY <1>1, <2>1, CallbackShortensNext
<1>2. IInv /\ [Next]_vars => [TaskShortens /\ \A f \in Files : CallbackShortens(f)]_vars
  BY <1>1
<1> QED BY <1>2, Invariance, PTL DEF Spec, EveryStepShortens
===============================================================================
