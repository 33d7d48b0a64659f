---------------------------- MODULE GenreJobProofs ----------------------------
(***************************************************************************)
(* Proofs about GenreJob, for every set of genres and every directory:     *)
(* type correctness, the exactness of the counts under the lock, and what  *)
(* the written output can be.                                              *)
(*                                                                         *)
(* The invariants are proved in three layers, each relative to the one     *)
(* below: Structure (types, and who holds the lock at which point of the   *)
(* body), CountsExact, and Output (the enumeration and what is stored).    *)
(***************************************************************************)
EXTENDS GenreJob, FiniteSetTheorems, TLAPS

\* The conditions and values the actions are made of are always expanded.
USE DEF LockFree, KeyMissing, FirstCount, VersionAfterStore, LastGenre, LockAfterStore,
        NotModified, NoMoreEntries, MayWrite, AfterThrow, AfterFailedWrite

\* The callback between EnterLock and its last StoreCount is the lock's holder,
\* it is at a genre of its file, and from EnsureKey on the key is there; what
\* it has loaded is still the value of the dictionary.
LockDiscipline ==
    \A f \in Files :
        /\ callback[f] \in InLock <=> lock = f
        /\ callback[f] \in InLock => counted[f] < Len(Genres(f))
        /\ callback[f] \in {"loading", "storing"} => Current(f) \in DOMAIN dict
        /\ callback[f] = "storing" => loaded[f] = dict[Current(f)]

\* How far a callback outside the lock has counted: not at all before it,
\* everything after it.
CountedSoFar ==
    \A f \in Files :
        /\ counted[f] <= Len(Genres(f))
        /\ callback[f] \in {"waiting", "reading", "locking", "skipped"} => counted[f] = 0
        /\ callback[f] = "locking" => 0 < Len(Genres(f))
        /\ callback[f] = "counted" => counted[f] = Len(Genres(f))

Structure == TypeOK /\ LockDiscipline /\ CountedSoFar

\* What has been copied was in the dictionary, hence in the files, and what is
\* stored is what has been copied.
Output ==
    /\ enumVersion <= version
    /\ SnapshotFaithful
    /\ \A g \in DOMAIN json : json[g] <= Cardinality(Occurrences(g))
    /\ stored # NoOutput => job \in {"disposing", "done"} /\ stored = json
-------------------------------------------------------------------------------
(***************************************************************************)
(* Data.                                                                   *)
(***************************************************************************)

\* Put keeps the counts counts.
LEMMA PutType ==
    ASSUME NEW Key, NEW d, IsCounts(d, Key), NEW k \in Key, NEW n \in Nat
    PROVE  /\ IsCounts(Put(d, k, n), Key)
           /\ DOMAIN Put(d, k, n) = DOMAIN d \cup {k}
           /\ Put(d, k, n)[k] = n
           /\ \A x \in DOMAIN d : x # k => Put(d, k, n)[x] = d[x]
  BY DEF IsCounts, Put

\* What a callback reads is a sequence of genres, no longer than MaxGenres.
LEMMA GenresType ==
    ASSUME dir \in Directories, NEW f \in Files
    PROVE  /\ Genres(f) \in Seq(Genre)
           /\ Len(Genres(f)) \in Nat
           /\ Len(Genres(f)) <= MaxGenres
           /\ Genres(f) = <<>> <=> Len(Genres(f)) = 0
           /\ f # Unlocked
<1>1. IsDirectory(dir)
  BY DirectoriesAssumption
<1>2. CASE FullFileName(Stem(f)) \in DOMAIN dir
  BY <1>1, <1>2 DEF IsDirectory, Genres, GetFileContents, Files, Unlocked
<1>3. CASE FullFileName(Stem(f)) \notin DOMAIN dir
  BY <1>1, <1>3, MaxGenresAssumption DEF IsDirectory, Genres, GetFileContents, Files, Unlocked
<1> QED BY <1>2, <1>3

\* The genre a callback is at, while it is at one.
LEMMA CurrentType ==
    ASSUME dir \in Directories, NEW f \in Files, counted[f] \in Nat,
           counted[f] < Len(Genres(f))
    PROVE  Current(f) \in Genre
  BY GenresType DEF Current

\* The occurrences of a genre are finitely many.
LEMMA OccurrencesFinite ==
    ASSUME dir \in Directories, NEW g
    PROVE  /\ IsFiniteSet(Occurrences(g))
           /\ Cardinality(Occurrences(g)) \in Nat
           /\ IsFiniteSet(CountedOccurrences(g))
           /\ Cardinality(CountedOccurrences(g)) \in Nat
           /\ Cardinality(CountedOccurrences(g)) <= Cardinality(Occurrences(g))
<1>1. IsFiniteSet(Files)
  BY DirectoriesAssumption DEF IsDirectory, Files
<1>2. IsFiniteSet(1 .. MaxGenres)
  BY MaxGenresAssumption, FS_Interval
<1>3. IsFiniteSet(Files \X (1 .. MaxGenres))
  BY <1>1, <1>2, FS_Product
<1>4. IsFiniteSet(Occurrences(g))
  <2>1. Occurrences(g) \in SUBSET (Files \X (1 .. MaxGenres))
    BY DEF Occurrences
  <2> QED BY <1>3, <2>1, FS_Subset
<1>5. CountedOccurrences(g) \in SUBSET Occurrences(g)
  BY DEF CountedOccurrences
<1>6. /\ IsFiniteSet(CountedOccurrences(g))
      /\ Cardinality(CountedOccurrences(g)) <= Cardinality(Occurrences(g))
  BY <1>4, <1>5, FS_Subset
<1> QED BY <1>4, <1>6, FS_CardinalityType
-------------------------------------------------------------------------------
(***************************************************************************)
(* Structure: types and the lock.                                          *)
(***************************************************************************)

\* Initially no callback has started and nothing holds the lock.
LEMMA StructureInit == Init => Structure
<1> SUFFICES ASSUME Init PROVE Structure
  OBVIOUS
<1>1. dir \in Directories
  BY DEF Init
<1>2. TypeOK
  BY <1>1 DEF Init, TypeOK, IsCounts, NoCounts, JobStates, CallbackStates
<1>3. LockDiscipline
  BY <1>1, GenresType DEF Init, LockDiscipline, InLock
<1>4. CountedSoFar
  BY <1>1, GenresType DEF Init, CountedSoFar
<1> QED BY <1>2, <1>3, <1>4 DEF Structure

\* The genres of a file do not change during a run.
LEMMA SameDirectory ==
    ASSUME dir' = dir
    PROVE  /\ Files' = Files
           /\ \A f : Genres(f)' = Genres(f)
  BY DEF Files, Genres

\* A step that leaves the callbacks' variables alone keeps what is known of them.
LEMMA CallbacksUntouched ==
    ASSUME LockDiscipline, CountedSoFar, dir' = dir, UNCHANGED callbackVars
    PROVE  LockDiscipline' /\ CountedSoFar'
<1>1. /\ callback' = callback /\ counted' = counted /\ loaded' = loaded
      /\ lock' = lock /\ dict' = dict
  BY DEF callbackVars
<1>2. \A f : Current(f)' = Current(f)
  BY <1>1, SameDirectory DEF Current
<1> QED BY <1>1, <1>2, SameDirectory DEF LockDiscipline, CountedSoFar

\* Types and the discipline of lock (lockObject) are kept by every step: only
\* the holder moves inside the block, and it alone changes the dictionary.
LEMMA StructureNext == Structure /\ [Next]_vars => Structure'
<1> SUFFICES ASSUME Structure, [Next]_vars PROVE Structure'
  OBVIOUS
<1> USE DEF Structure
<1>0. dir' = dir
  BY DEF Next, JobStep, CallbackStep, Exit, Terminated, vars, jobVars, ListFiles,
         ListFilesThrows,
         StartCallback, ForEachReturns, MoveNext, MoveNextEnds, MoveNextThrows,
         WriteOutput, WriteFails, DisposeModule, ReadArrives, ReadFails, EnterLock,
         EnsureKey, LoadCount, StoreCount
<1>e. exited' \in BOOLEAN
  BY DEF Next, JobStep, CallbackStep, Exit, Terminated, vars, TypeOK
<1>d. /\ Files' = Files
      /\ \A f : Genres(f)' = Genres(f)
      /\ exited' \in BOOLEAN
  BY <1>0, <1>e, SameDirectory
<1>g. \A f \in Files : Len(Genres(f)) \in Nat /\ f # Unlocked
                       /\ (Genres(f) = <<>> <=> Len(Genres(f)) = 0)
  BY GenresType DEF TypeOK
<1>1. CASE ListFiles
  <2>1. TypeOK' BY <1>1, <1>d DEF ListFiles, TypeOK, callbackVars, outputVars, JobStates
  <2> QED BY <1>1, <2>1, CallbacksUntouched DEF ListFiles
<1>2. CASE ListFilesThrows
  <2>1. TypeOK' BY <1>2, <1>d DEF ListFilesThrows, TypeOK, callbackVars, outputVars, JobStates
  <2> QED BY <1>2, <2>1, CallbacksUntouched DEF ListFilesThrows
<1>3. ASSUME NEW f \in Files, StartCallback(f)
      PROVE  Structure'
  <2> USE <1>3 DEF StartCallback
  <2>1. TypeOK' BY <1>d DEF TypeOK, outputVars, CallbackStates
  <2>2. LockDiscipline' BY <1>d DEF TypeOK, LockDiscipline, InLock, Current, outputVars
  <2>3. CountedSoFar' BY <1>d DEF TypeOK, CountedSoFar, outputVars
  <2> QED BY <2>1, <2>2, <2>3
<1>4. CASE ForEachReturns
  <2>1. TypeOK' BY <1>4, <1>d DEF ForEachReturns, TypeOK, callbackVars, JobStates, IsCounts, NoCounts
  <2> QED BY <1>4, <2>1, CallbacksUntouched DEF ForEachReturns
<1>5. ASSUME NEW g \in Genre, MoveNext(g)
      PROVE  Structure'
  <2>1. dict[g] \in Nat BY <1>5 DEF MoveNext, TypeOK, IsCounts
  <2>2. IsCounts(json', Genre) BY <1>5, <2>1, PutType DEF MoveNext, TypeOK
  <2>3. TypeOK' BY <1>5, <1>d, <2>2 DEF MoveNext, TypeOK, callbackVars
  <2> QED BY <1>5, <2>3, CallbacksUntouched DEF MoveNext
<1>6. CASE MoveNextEnds
  <2>1. TypeOK' BY <1>6, <1>d DEF MoveNextEnds, TypeOK, callbackVars, outputVars, JobStates
  <2> QED BY <1>6, <2>1, CallbacksUntouched DEF MoveNextEnds
<1>7. CASE MoveNextThrows
  <2>1. TypeOK' BY <1>7, <1>d DEF MoveNextThrows, TypeOK, callbackVars, outputVars, JobStates
  <2> QED BY <1>7, <2>1, CallbacksUntouched DEF MoveNextThrows
<1>8. CASE WriteOutput
  <2>1. TypeOK' BY <1>8, <1>d DEF WriteOutput, TypeOK, callbackVars, JobStates
  <2> QED BY <1>8, <2>1, CallbacksUntouched DEF WriteOutput
<1>9. CASE WriteFails
  <2>1. TypeOK' BY <1>9, <1>d DEF WriteFails, TypeOK, callbackVars, outputVars, JobStates
  <2> QED BY <1>9, <2>1, CallbacksUntouched DEF WriteFails
<1>10. CASE DisposeModule
  <2>1. TypeOK' BY <1>10, <1>d DEF DisposeModule, TypeOK, callbackVars, outputVars, JobStates
  <2> QED BY <1>10, <2>1, CallbacksUntouched DEF DisposeModule
<1>11. ASSUME NEW f \in Files, ReadArrives(f)
       PROVE  Structure'
  <2> USE <1>11 DEF ReadArrives
  <2>1. TypeOK' BY <1>d DEF TypeOK, outputVars, CallbackStates
  <2>2. LockDiscipline' BY <1>d DEF TypeOK, LockDiscipline, InLock, Current, outputVars
  <2>3. CountedSoFar' BY <1>d, <1>g DEF TypeOK, CountedSoFar, outputVars
  <2> QED BY <2>1, <2>2, <2>3
<1>12. ASSUME NEW f \in Files, ReadFails(f)
       PROVE  Structure'
  <2> USE <1>12 DEF ReadFails
  <2>1. TypeOK' BY <1>d DEF TypeOK, outputVars, CallbackStates
  <2>2. LockDiscipline' BY <1>d DEF TypeOK, LockDiscipline, InLock, Current, outputVars
  <2>3. CountedSoFar' BY <1>d DEF TypeOK, CountedSoFar, outputVars
  <2> QED BY <2>1, <2>2, <2>3
<1>13. ASSUME NEW f \in Files, EnterLock(f)
       PROVE  Structure'
  <2> USE <1>13 DEF EnterLock
  <2>1. TypeOK' BY <1>d DEF TypeOK, outputVars, CallbackStates
  <2>2. LockDiscipline' BY <1>d, <1>g DEF TypeOK, LockDiscipline, CountedSoFar, InLock, Current, outputVars
  <2>3. CountedSoFar' BY <1>d DEF TypeOK, CountedSoFar, outputVars
  <2> QED BY <2>1, <2>2, <2>3
<1>14. ASSUME NEW f \in Files, EnsureKey(f)
       PROVE  Structure'
  <2>0. /\ counted[f] < Len(Genres(f)) /\ lock = f
        /\ \A e \in Files : e # f => callback[e] \notin InLock
    BY <1>14 DEF EnsureKey, LockDiscipline, InLock
  <2>1. Current(f) \in Genre
    BY <2>0, CurrentType DEF TypeOK
  <2>2. /\ IsCounts(dict', Genre)
        /\ Current(f) \in DOMAIN dict'
        /\ \A e \in Files : Current(e)' = Current(e)
    <3>1. CASE Current(f) \in DOMAIN dict
      BY <1>14, <1>d, <3>1 DEF EnsureKey, TypeOK, Current
    <3>2. CASE Current(f) \notin DOMAIN dict
      <4>1. dict' = Put(dict, Current(f), 0)
        BY <1>14, <3>2 DEF EnsureKey
      <4>2. IsCounts(dict, Genre)
        BY DEF TypeOK
      <4>3. /\ IsCounts(Put(dict, Current(f), 0), Genre)
            /\ DOMAIN Put(dict, Current(f), 0) = DOMAIN dict \cup {Current(f)}
        BY <2>1, <4>2 DEF Put, IsCounts
      <4>4. Current(f) \in DOMAIN dict' /\ IsCounts(dict', Genre)
        BY <4>1, <4>3
      <4> QED BY <1>14, <1>d, <4>4 DEF EnsureKey, Current
    <3> QED BY <3>1, <3>2
  <2>3. TypeOK'
    BY <1>14, <1>d, <2>2 DEF EnsureKey, TypeOK, outputVars, CallbackStates
  <2>4. LockDiscipline'
    BY <1>14, <1>d, <2>0, <2>2 DEF EnsureKey, TypeOK, LockDiscipline, InLock
  <2>5. CountedSoFar' BY <1>14, <1>d DEF EnsureKey, TypeOK, CountedSoFar
  <2> QED BY <2>3, <2>4, <2>5
<1>15. ASSUME NEW f \in Files, LoadCount(f)
       PROVE  Structure'
  <2>0. /\ Current(f) \in DOMAIN dict
        /\ \A e \in Files : Current(e)' = Current(e)
    BY <1>15, <1>d DEF LoadCount, LockDiscipline, Current
  <2>1. dict[Current(f)] \in Nat
    BY <2>0 DEF TypeOK, IsCounts
  <2>2. TypeOK' BY <1>15, <1>d, <2>1 DEF LoadCount, TypeOK, outputVars, CallbackStates
  <2>3. LockDiscipline' BY <1>15, <1>d, <2>0 DEF LoadCount, TypeOK, LockDiscipline, InLock
  <2>4. CountedSoFar' BY <1>15, <1>d DEF LoadCount, TypeOK, CountedSoFar
  <2> QED BY <2>2, <2>3, <2>4
<1>16. ASSUME NEW f \in Files, StoreCount(f)
       PROVE  Structure'
  <2>0. /\ counted[f] < Len(Genres(f)) /\ lock = f
        /\ Current(f) \in DOMAIN dict
        /\ \A e \in Files : e # f => callback[e] \notin InLock
    BY <1>16 DEF StoreCount, LockDiscipline, InLock
  <2>1. IsCounts(dict', Genre)
    <3>1. Current(f) \in Genre BY <2>0, CurrentType DEF TypeOK
    <3>2. loaded[f] + 1 \in Nat BY DEF TypeOK
    <3> QED BY <1>16, <3>1, <3>2, PutType DEF StoreCount, TypeOK
  <2>2. TypeOK'
    <3>1. /\ callback' \in [Files -> CallbackStates]
          /\ lock' \in Files \cup {Unlocked}
      BY <1>16 DEF StoreCount, TypeOK, CallbackStates
    <3>2. counted' \in [Files -> Nat]
      BY <1>16 DEF StoreCount, TypeOK
    <3> QED BY <1>16, <1>d, <2>1, <3>1, <3>2 DEF StoreCount, TypeOK, outputVars
  <2>3. LockDiscipline'
    BY <1>16, <1>d, <1>g, <2>0 DEF StoreCount, TypeOK, LockDiscipline, InLock
  <2>4. CountedSoFar'
    BY <1>16, <1>d, <1>g, <2>0 DEF StoreCount, TypeOK, CountedSoFar, InLock
  <2> QED BY <2>2, <2>3, <2>4
<1>17. CASE UNCHANGED jobVars
  <2>1. TypeOK' BY <1>17, <1>d DEF TypeOK, jobVars
  <2> QED BY <1>17, <2>1, CallbacksUntouched DEF jobVars, callbackVars
<1> QED
  BY <1>1, <1>2, <1>3, <1>4, <1>5, <1>6, <1>7, <1>8, <1>9, <1>10, <1>11, <1>12,
     <1>13, <1>14, <1>15, <1>16, <1>17
  DEF Next, JobStep, CallbackStep, Exit, Terminated, vars
-------------------------------------------------------------------------------
(***************************************************************************)
(* CountsExact: under the lock, no increment is lost.                      *)
(***************************************************************************)

\* Only EnsureKey and StoreCount touch the dictionary or move a callback on.
LEMMA StepShape ==
    ASSUME [Next]_vars
    PROVE  \/ dict' = dict /\ counted' = counted /\ version' = version
           \/ \E f \in Files : EnsureKey(f) \/ StoreCount(f)
  BY DEF Next, JobStep, CallbackStep, Exit, Terminated, vars, jobVars, callbackVars, ListFiles,
         ListFilesThrows, StartCallback, ForEachReturns, MoveNext, MoveNextEnds,
         MoveNextThrows, WriteOutput, WriteFails, DisposeModule, ReadArrives,
         ReadFails, EnterLock, LoadCount

\* Every step keeps the directory.
LEMMA DirectoryKept ==
    ASSUME [Next]_vars
    PROVE  dir' = dir
  BY DEF Next, JobStep, CallbackStep, Exit, Terminated, vars, jobVars, ListFiles,
         ListFilesThrows,
         StartCallback, ForEachReturns, MoveNext, MoveNextEnds, MoveNextThrows,
         WriteOutput, WriteFails, DisposeModule, ReadArrives, ReadFails, EnterLock,
         EnsureKey, LoadCount, StoreCount

\* The files do not change, so neither do the occurrences of a genre in them.
LEMMA SameOccurrences ==
    ASSUME dir' = dir
    PROVE  /\ \A g : Occurrences(g)' = Occurrences(g)
           /\ counted' = counted =>
                \A g : CountedOccurrences(g)' = CountedOccurrences(g)
  BY SameDirectory DEF Occurrences, CountedOccurrences

\* StoreCount counts one occurrence more, of the current genre.
LEMMA OneOccurrenceMore ==
    ASSUME Structure, dir' = dir, NEW f \in Files, StoreCount(f), NEW g
    PROVE  LET o == <<f, counted[f] + 1>>
           IN  /\ o \notin CountedOccurrences(g)
               /\ CountedOccurrences(g)' =
                    IF g = Current(f) THEN CountedOccurrences(g) \cup {o}
                                      ELSE CountedOccurrences(g)
<1> DEFINE o == <<f, counted[f] + 1>>
<1>1. /\ counted \in [Files -> Nat]
      /\ counted[f] < Len(Genres(f))
      /\ counted' = [counted EXCEPT ![f] = @ + 1]
  BY DEF Structure, TypeOK, LockDiscipline, InLock, StoreCount
<1>2. Len(Genres(f)) \in Nat /\ Len(Genres(f)) <= MaxGenres /\ MaxGenres \in Nat
  BY GenresType, MaxGenresAssumption DEF Structure, TypeOK
<1>3. o \in Occurrences(g) <=> g = Current(f)
  BY <1>1, <1>2 DEF Occurrences, Current
<1>4. o \notin CountedOccurrences(g)
  BY <1>1 DEF CountedOccurrences
<1>5. \A x \in Occurrences(g) :
        x[2] <= counted'[x[1]] <=> x[2] <= counted[x[1]] \/ x = o
  <2> SUFFICES ASSUME NEW e \in Files, NEW i \in 1 .. MaxGenres
               PROVE  i <= counted'[e] <=> i <= counted[e] \/ <<e, i>> = o
    BY DEF Occurrences
  <2>1. CASE e = f
    BY <1>1, <1>2, <2>1
  <2>2. CASE e # f
    BY <1>1, <2>2
  <2> QED BY <2>1, <2>2
<1>6. CountedOccurrences(g)' = {x \in Occurrences(g) : x[2] <= counted'[x[1]]}
  BY SameOccurrences DEF CountedOccurrences
<1>7. CountedOccurrences(g)' =
        {x \in Occurrences(g) : x[2] <= counted[x[1]] \/ x = o}
  BY <1>5, <1>6
<1>8. CASE g = Current(f)
  BY <1>3, <1>7, <1>8, <1>4 DEF CountedOccurrences
<1>9. CASE g # Current(f)
  BY <1>3, <1>7, <1>9, <1>4 DEF CountedOccurrences
<1> QED BY <1>4, <1>8, <1>9

\* Nothing is in the dictionary and nothing has been counted.
LEMMA CountsExactInit == Init => CountsExact
<1> SUFFICES ASSUME Init, NEW g \in Genre
             PROVE  CountOf(dict, g) = Cardinality(CountedOccurrences(g))
  BY DEF CountsExact
<1>1. CountOf(dict, g) = 0
  BY DEF Init, CountOf, NoCounts
<1>2. CountedOccurrences(g) = {}
  BY DEF Init, CountedOccurrences, Occurrences
<1> QED BY <1>1, <1>2, FS_EmptySet

\* EnsureKey adds a genre that nobody has counted, and StoreCount moves the count
\* and the set of counted occurrences on by one, together.
LEMMA CountsExactNext ==
    Structure /\ CountsExact /\ [Next]_vars => CountsExact'
<1> SUFFICES ASSUME Structure, CountsExact, [Next]_vars, NEW g \in Genre
             PROVE  CountOf(dict', g) = Cardinality(CountedOccurrences(g)')
  BY DEF CountsExact, CountOf
<1>0. dir' = dir
  BY DirectoryKept
<1>1. CountOf(dict, g) = Cardinality(CountedOccurrences(g))
  BY DEF CountsExact
<1>2. CASE dict' = dict /\ counted' = counted
  BY <1>0, <1>1, <1>2, SameOccurrences
<1>3. ASSUME NEW f \in Files, EnsureKey(f)
      PROVE  CountOf(dict', g) = Cardinality(CountedOccurrences(g)')
  <2>1. CountOf(dict', g) = CountOf(dict, g)
    BY <1>3 DEF EnsureKey, CountOf, Put
  <2>2. CountedOccurrences(g)' = CountedOccurrences(g)
    BY <1>0, <1>3, SameOccurrences DEF EnsureKey
  <2> QED BY <1>1, <2>1, <2>2
<1>4. ASSUME NEW f \in Files, StoreCount(f)
      PROVE  CountOf(dict', g) = Cardinality(CountedOccurrences(g)')
  <2> DEFINE o == <<f, counted[f] + 1>>
  <2>1. /\ o \notin CountedOccurrences(g)
        /\ CountedOccurrences(g)' =
             IF g = Current(f) THEN CountedOccurrences(g) \cup {o}
                               ELSE CountedOccurrences(g)
    BY <1>0, <1>4, OneOccurrenceMore
  <2>2. IsFiniteSet(CountedOccurrences(g))
    BY OccurrencesFinite DEF Structure, TypeOK
  <2>3. Current(f) \in DOMAIN dict /\ loaded[f] = dict[Current(f)]
    BY <1>4 DEF StoreCount, Structure, LockDiscipline
  <2>4. CASE g = Current(f)
    <3>1. CountOf(dict', g) = CountOf(dict, g) + 1
      BY <1>4, <2>3, <2>4 DEF StoreCount, CountOf, Put
    <3>2. Cardinality(CountedOccurrences(g) \cup {o}) =
            Cardinality(CountedOccurrences(g)) + 1
      BY <2>1, <2>2, FS_AddElement
    <3> QED BY <1>1, <2>1, <2>4, <3>1, <3>2
  <2>5. CASE g # Current(f)
    <3>1. CountOf(dict', g) = CountOf(dict, g)
      BY <1>4, <2>5 DEF StoreCount, CountOf, Put
    <3> QED BY <1>1, <2>1, <2>5, <3>1
  <2> QED BY <2>4, <2>5
<1> QED BY <1>2, <1>3, <1>4, StepShape
-------------------------------------------------------------------------------
(***************************************************************************)
(* Output: what the enumeration copies and what is stored.                 *)
(***************************************************************************)

\* A change of the dictionary moves the version on: a version that the
\* enumerator still agrees with means an unchanged dictionary.
LEMMA VersionTells ==
    ASSUME Structure, [Next]_vars
    PROVE  \/ dict' = dict /\ version' = version
           \/ version' = version + 1 /\ UNCHANGED <<job, outputVars>>
  BY StepShape DEF EnsureKey, StoreCount

\* Nothing has been copied or stored.
LEMMA OutputInit == Init => Output
  BY DEF Init, Output, SnapshotFaithful, NoCounts

\* The enumeration copies only what is in the dictionary, and only what it has
\* copied is stored.
LEMMA OutputNext ==
    Structure /\ CountsExact /\ Output /\ [Next]_vars => Output'
<1> SUFFICES ASSUME Structure, CountsExact, Output, [Next]_vars
             PROVE  Output'
  OBVIOUS
<1>0. dir' = dir /\ \A g : Occurrences(g)' = Occurrences(g)
  BY DirectoryKept, SameOccurrences
<1>t. /\ version \in Nat /\ enumVersion \in Nat /\ json \in [DOMAIN json -> Nat]
      /\ dict \in [DOMAIN dict -> Nat]
  BY DEF Structure, TypeOK, IsCounts
<1>1. CASE version' = version + 1 /\ UNCHANGED <<job, outputVars>>
  <2>1. /\ enumVersion' = enumVersion /\ json' = json /\ stored' = stored
        /\ job' = job /\ enumVersion <= version
    BY <1>1 DEF outputVars, Output
  <2>2. enumVersion' <= version' /\ version' # enumVersion'
    BY <1>1, <1>t, <2>1
  <2>3. SnapshotFaithful'
    BY <2>2 DEF SnapshotFaithful
  <2> QED BY <1>0, <2>1, <2>2, <2>3 DEF Output
<1>2. CASE dict' = dict /\ version' = version
  <2>1. CASE ForEachReturns
    <3>1. /\ job' = "enumerating" /\ enumVersion' = version /\ stored' = stored
          /\ json' = NoCounts /\ job = "dispatching"
      BY <2>1 DEF ForEachReturns
    <3>2. DOMAIN json' = {}
      BY <3>1 DEF NoCounts
    <3>3. SnapshotFaithful'
      BY <3>1, <3>2 DEF SnapshotFaithful, PartOf
    <3> QED BY <1>t, <1>2, <3>1, <3>2, <3>3 DEF Output
  <2>2. ASSUME NEW g \in Genre, MoveNext(g)
        PROVE  Output'
    <3>1. /\ job = "enumerating" /\ version = enumVersion /\ g \in DOMAIN dict
          /\ job' = job /\ enumVersion' = enumVersion /\ stored' = stored
          /\ json' = Put(json, g, dict[g])
      BY <2>2 DEF MoveNext
    <3>2. dict[g] <= Cardinality(Occurrences(g))
      <4>1. dict[g] = Cardinality(CountedOccurrences(g))
        BY <3>1 DEF CountsExact, CountOf
      <4> QED BY <4>1, OccurrencesFinite DEF Structure, TypeOK
    <3>3. \A x \in DOMAIN json' : json'[x] <= Cardinality(Occurrences(x))
      BY <3>1, <3>2 DEF Output, Put
    <3>4. PartOf(json', dict')
      BY <1>2, <3>1 DEF Output, SnapshotFaithful, PartOf, Put
    <3>5. SnapshotFaithful'
      BY <3>1, <3>4 DEF SnapshotFaithful
    <3>6. stored' = NoOutput
      BY <3>1 DEF Output
    <3> QED BY <1>0, <1>2, <3>1, <3>3, <3>5, <3>6 DEF Output
  <2>3. CASE MoveNextEnds
    <3>1. /\ job = "enumerating" /\ version = enumVersion /\ DOMAIN json = DOMAIN dict
          /\ job' = "writing" /\ enumVersion' = enumVersion /\ stored' = stored
          /\ json' = json
      BY <2>3 DEF MoveNextEnds, outputVars
    <3>2. PartOf(json, dict)
      BY <3>1 DEF Output, SnapshotFaithful
    <3>3. json = dict
      BY <1>t, <3>1, <3>2 DEF PartOf
    <3>4. SnapshotFaithful'
      BY <1>2, <3>1, <3>3 DEF SnapshotFaithful
    <3> QED BY <1>0, <1>2, <3>1, <3>4 DEF Output
  <2>4. CASE WriteOutput
    <3>1. /\ job = "writing" /\ job' = "disposing" /\ stored' = json
          /\ enumVersion' = enumVersion /\ json' = json
      BY <2>4 DEF WriteOutput
    <3> QED BY <1>0, <1>2, <3>1 DEF Output, SnapshotFaithful
  <2>5. CASE UNCHANGED outputVars
             /\ \/ job' = job
                \/ job' \notin {"enumerating", "writing", "disposing", "done"}
                      /\ job \notin {"disposing", "done"}
                \/ job = "writing" /\ job' = "disposing"
                \/ job = "disposing" /\ job' = "done"
    <3>1. enumVersion' = enumVersion /\ json' = json /\ stored' = stored
      BY <2>5 DEF outputVars
    <3> QED BY <1>0, <1>2, <2>5, <3>1 DEF Output, SnapshotFaithful
  <2>6. CASE ListFiles \/ ListFilesThrows \/ MoveNextThrows \/ WriteFails \/ DisposeModule
    BY <2>5, <2>6
    DEF ListFiles, ListFilesThrows, MoveNextThrows, WriteFails, DisposeModule
  <2>7. CASE UNCHANGED <<job, outputVars>>
    BY <2>5, <2>7
  <2>8. ASSUME NEW f \in Files, StartCallback(f) \/ CallbackStep(f)
        PROVE  UNCHANGED <<job, outputVars>>
    BY <2>8 DEF StartCallback, CallbackStep, ReadArrives, ReadFails, EnterLock,
                EnsureKey, LoadCount, StoreCount
  <2>9. ASSUME UNCHANGED jobVars
        PROVE  UNCHANGED <<job, outputVars>>
    BY <2>9 DEF jobVars, outputVars
  <2> QED
    BY <2>1, <2>2, <2>3, <2>4, <2>6, <2>7, <2>8, <2>9 DEF Next, JobStep, Exit, Terminated, vars
<1> QED BY <1>1, <1>2, VersionTells
-------------------------------------------------------------------------------
(***************************************************************************)
(* The theorems.                                                           *)
(***************************************************************************)

IInv == Structure /\ CountsExact /\ Output

\* The three layers together are an inductive invariant of the job.
THEOREM Invariance == Spec => []IInv
<1>1. Init => IInv
  BY StructureInit, CountsExactInit, OutputInit DEF IInv
<1>2. IInv /\ [Next]_vars => IInv'
  BY StructureNext, CountsExactNext, OutputNext DEF IInv
<1> QED BY <1>1, <1>2, PTL DEF Spec

\* Type correctness of the job, its callbacks and its output.
THEOREM TypeCorrect == Spec => []TypeOK
<1>1. IInv => TypeOK
  BY DEF IInv, Structure
<1> QED BY <1>1, Invariance, PTL

\* No increment of dict[genre]++ is lost or doubled, whatever the interleaving.
THEOREM NoIncrementLost == Spec => []CountsExact
<1>1. IInv => CountsExact
  BY DEF IInv
<1> QED BY <1>1, Invariance, PTL

\* What foreach has copied without the lock is the dictionary of one instant.
THEOREM SnapshotIsFaithful == Spec => []SnapshotFaithful
<1>1. IInv => SnapshotFaithful
  BY DEF IInv, Output
<1> QED BY <1>1, Invariance, PTL

\* The written counts never exceed what is in the files.
THEOREM NeverOvercounts == Spec => []OutputBounded
<1>1. IInv => OutputBounded
  BY DEF IInv, Output, OutputBounded
<1> QED BY <1>1, Invariance, PTL

\* No count goes down and no genre disappears.
THEOREM CountsOnlyGrow == Spec => CountsGrow
<1> DEFINE Grow == \A g \in Genre : CountOf(dict', g) >= CountOf(dict, g)
                                    /\ (g \in DOMAIN dict => g \in DOMAIN dict')
<1>1. ASSUME IInv, [Next]_vars PROVE Grow
  <2>1. CASE dict' = dict
    BY <1>1, <2>1 DEF IInv, Structure, TypeOK, IsCounts, CountOf
  <2>2. ASSUME NEW f \in Files, EnsureKey(f) PROVE Grow
    BY <1>1, <2>2 DEF IInv, Structure, TypeOK, IsCounts, CountOf, EnsureKey, Put
  <2>3. ASSUME NEW f \in Files, StoreCount(f) PROVE Grow
    <3>1. Current(f) \in DOMAIN dict /\ loaded[f] = dict[Current(f)]
      BY <1>1, <2>3 DEF IInv, Structure, LockDiscipline, StoreCount
    <3> QED
      BY <1>1, <2>3, <3>1 DEF IInv, Structure, TypeOK, IsCounts, CountOf, StoreCount, Put
  <2> QED BY <1>1, <2>1, <2>2, <2>3, StepShape
<1>2. IInv /\ [Next]_vars => [Grow]_vars
  BY <1>1
<1> QED BY <1>2, Invariance, PTL DEF Spec, CountsGrow

\* A job none of whose callbacks came late has written the exact counts.
THEOREM ExactUnlessLate == Spec => []ExactWhenNoneLate
<1>1. ASSUME IInv PROVE ExactWhenNoneLate
  <2> SUFFICES ASSUME stored # NoOutput, version = enumVersion,
                      \A f \in Files : Ended(f), NEW g \in Genre
               PROVE  CountOf(stored, g) =
                        Cardinality({o \in Occurrences(g) : callback[o[1]] = "counted"})
    BY DEF ExactWhenNoneLate
  <2>1. stored = dict
    BY <1>1 DEF IInv, Output, SnapshotFaithful
  <2>2. CountOf(dict, g) = Cardinality(CountedOccurrences(g))
    BY <1>1 DEF IInv, CountsExact
  <2>3. \A o \in Occurrences(g) :
          o[2] <= counted[o[1]] <=> callback[o[1]] = "counted"
    <3> SUFFICES ASSUME NEW o \in Occurrences(g)
                 PROVE  o[2] <= counted[o[1]] <=> callback[o[1]] = "counted"
      OBVIOUS
    <3>1. /\ o[1] \in Files /\ o[2] \in 1 .. MaxGenres
          /\ o[2] <= Len(Genres(o[1]))
      BY DEF Occurrences
    <3>2. callback[o[1]] \in {"counted", "skipped"}
      BY <3>1 DEF Ended
    <3>3. /\ callback[o[1]] = "skipped" => counted[o[1]] = 0
          /\ callback[o[1]] = "counted" => counted[o[1]] = Len(Genres(o[1]))
      BY <1>1, <3>1 DEF IInv, Structure, CountedSoFar
    <3> QED BY <3>1, <3>2, <3>3, MaxGenresAssumption
  <2>4. CountedOccurrences(g) = {o \in Occurrences(g) : callback[o[1]] = "counted"}
    BY <2>3 DEF CountedOccurrences
  <2> QED BY <2>1, <2>2, <2>4
<1>2. IInv => ExactWhenNoneLate
  BY <1>1
<1> QED BY <1>2, Invariance, PTL
-------------------------------------------------------------------------------
(***************************************************************************)
(* Refinement: every step of the job is a step of AtomicTally or a stutter.*)
(***************************************************************************)

\* The job starts where its promise starts.
LEMMA RefinementInit == Init => Promise!Init
  BY DEF Init, Promise!Init, Phase, CutTaken, NoCounts, Promise!NoCounts

\* Every step of the job is a step of the promise or changes nothing it sees: the
\* cut is the last MoveNext, whose copy is then the whole dictionary.
LEMMA RefinementNext == IInv /\ IInv' /\ [Next]_vars => [Promise!Next]_(Promise!vars)
<1> SUFFICES ASSUME IInv, IInv', [Next]_vars
             PROVE  Promise!Next \/ UNCHANGED <<Phase, dict, CutTaken, stored>>
  BY DEF Promise!vars
<1>1. CASE ListFiles \/ ForEachReturns \/ UNCHANGED jobVars
  BY <1>1 DEF ListFiles, ForEachReturns, jobVars, callbackVars, outputVars, Phase, CutTaken
<1>2. CASE ListFilesThrows \/ MoveNextThrows
  <2>1. Promise!Fail
    BY <1>2 DEF ListFilesThrows, MoveNextThrows, callbackVars, outputVars, Phase,
                CutTaken, Promise!Fail
  <2> QED BY <2>1 DEF Promise!Next
<1>3. ASSUME NEW g \in Genre, MoveNext(g)
      PROVE  UNCHANGED <<Phase, dict, CutTaken, stored>>
  BY <1>3 DEF MoveNext, callbackVars, Phase, CutTaken
<1>4. CASE MoveNextEnds
  <2>1. json' = dict'
    BY <1>4 DEF IInv, Output, SnapshotFaithful, MoveNextEnds, callbackVars, outputVars
  <2>2. Promise!Cut
    BY <1>4, <2>1 DEF MoveNextEnds, callbackVars, outputVars, Phase, CutTaken, Promise!Cut
  <2> QED BY <2>2 DEF Promise!Next
<1>5. CASE WriteOutput \/ WriteFails
  <2>1. Promise!Publish
    BY <1>5 DEF WriteOutput, WriteFails, callbackVars, outputVars, Phase, CutTaken,
                Promise!Publish
  <2> QED BY <2>1 DEF Promise!Next
<1>6. CASE DisposeModule
  <2>1. Promise!Close
    BY <1>6 DEF DisposeModule, callbackVars, outputVars, Phase, CutTaken, Promise!Close
  <2> QED BY <2>1 DEF Promise!Next
<1>7. ASSUME NEW f \in Files,
             \/ StartCallback(f) \/ ReadArrives(f) \/ ReadFails(f)
             \/ EnterLock(f) \/ LoadCount(f)
      PROVE  UNCHANGED <<Phase, dict, CutTaken, stored>>
  BY <1>7 DEF StartCallback, ReadArrives, ReadFails, EnterLock, LoadCount,
              outputVars, Phase, CutTaken
<1>8. ASSUME NEW f \in Files, EnsureKey(f) \/ StoreCount(f)
      PROVE  Promise!Next \/ UNCHANGED <<Phase, dict, CutTaken, stored>>
  <2>1. UNCHANGED <<Phase, CutTaken, stored>>
    BY <1>8 DEF EnsureKey, StoreCount, outputVars, Phase, CutTaken
  <2>2. Current(f) \in Genre
    BY <1>8, CurrentType
    DEF IInv, Structure, TypeOK, LockDiscipline, InLock, EnsureKey, StoreCount
  <2>3. CASE EnsureKey(f) /\ Current(f) \notin DOMAIN dict
    BY <2>1, <2>2, <2>3
    DEF EnsureKey, Put, Promise!Put, Promise!NewKey, Promise!Next
  <2>4. CASE EnsureKey(f) /\ Current(f) \in DOMAIN dict
    BY <2>1, <2>4 DEF EnsureKey
  <2>5. CASE StoreCount(f)
    <3>1. Current(f) \in DOMAIN dict /\ loaded[f] = dict[Current(f)]
      BY <2>5 DEF IInv, Structure, LockDiscipline, StoreCount
    <3> QED
      BY <2>1, <2>2, <2>5, <3>1
      DEF StoreCount, Put, Promise!Put, Promise!Tally, Promise!Next
  <2> QED BY <1>8, <2>3, <2>4, <2>5
<1> QED
  BY <1>1, <1>2, <1>3, <1>4, <1>5, <1>6, <1>7, <1>8
  DEF Next, JobStep, CallbackStep, Exit, Terminated, vars

\* The job's output is an atomic cut of a growing tally, published at most once.
THEOREM Refinement == Spec => ImplementsAtomicTally
<1>1. Spec => []IInv
  BY Invariance
<1> QED BY <1>1, RefinementInit, RefinementNext, PTL DEF Spec, ImplementsAtomicTally, Promise!Spec
-------------------------------------------------------------------------------
(***************************************************************************)
(* Refinement: to its host the job is a HostedJob.                         *)
(***************************************************************************)

\* How many callbacks are in flight is a number that a job may leave behind.
LEMMA InFlightFinite ==
    ASSUME dir \in Directories
    PROVE  /\ IsFiniteSet(InFlight)
           /\ Cardinality(InFlight) \in Nat
           /\ \E d \in Directories : Cardinality(InFlight) \in 0 .. Cardinality(DOMAIN d)
<1>1. IsFiniteSet(Files)
  BY DirectoriesAssumption DEF IsDirectory, Files
<1>2. InFlight \in SUBSET Files
  BY DEF InFlight
<1>3. IsFiniteSet(InFlight) /\ Cardinality(InFlight) <= Cardinality(Files)
  BY <1>1, <1>2, FS_Subset
<1>4. Cardinality(InFlight) \in Nat /\ Cardinality(Files) \in Nat
  BY <1>1, <1>3, FS_CardinalityType
<1>5. Cardinality(InFlight) \in 0 .. Cardinality(DOMAIN dir)
  BY <1>3, <1>4 DEF Files
<1> QED BY <1>3, <1>4, <1>5

\* A callback's step ends it, or none.
LEMMA InFlightShrinks ==
    ASSUME Structure, dir' = dir, NEW f \in Files, CallbackStep(f)
    PROVE  \/ InFlight' = InFlight
           \/ f \in InFlight /\ InFlight' = InFlight \ {f}
<1>1. Files' = Files
  BY SameDirectory
<1>2. \E c \in CallbackStates : callback' = [callback EXCEPT ![f] = c]
  BY DEF CallbackStep, ReadArrives, ReadFails, EnterLock, EnsureKey, LoadCount, StoreCount,
         CallbackStates
<1>3. callback[f] \notin {"counted", "skipped"}
  BY DEF CallbackStep, ReadArrives, ReadFails, EnterLock, EnsureKey, LoadCount, StoreCount
<1>4. f \in InFlight
  BY <1>3 DEF InFlight, Ended
<1>5. \A e \in Files : e # f => callback'[e] = callback[e]
  BY <1>2 DEF Structure, TypeOK
<1> QED BY <1>1, <1>4, <1>5 DEF InFlight, Ended

\* The job starts where HostedJob starts.
LEMMA HostedInit == Init => Hosted!Init
  BY DEF Init, Hosted!Init, HostPhase, HostLate, HostOutput

\* A step of the task is one of HostedJob, or the host does not see it.
LEMMA HostedTask ==
    ASSUME IInv, dir' = dir, JobStep
    PROVE  Hosted!Next \/ UNCHANGED Hosted!vars
<1>0. ~ exited /\ exited' = exited
  BY DEF JobStep
<1>1. ASSUME UNCHANGED callback
      PROVE  InFlight' = InFlight
  BY <1>1, SameDirectory DEF InFlight, Ended
<1>2. CASE ListFiles \/ \E f \in Files : StartCallback(f)
  BY <1>0, <1>2 DEF ListFiles, StartCallback, outputVars, Hosted!vars, HostPhase, HostLate,
                    HostOutput
<1>3. CASE \/ \E g \in Genre : MoveNext(g)
           \/ MoveNextEnds
  BY <1>0, <1>1, <1>3
  DEF MoveNext, MoveNextEnds, callbackVars, outputVars, Hosted!vars, HostPhase, HostLate,
      HostOutput
<1>4. CASE ForEachReturns
  <2>1. HostLate' = Cardinality(InFlight)
    BY <1>1, <1>4 DEF ForEachReturns, callbackVars, HostLate
  <2>2. HostLate' \in UNION {0 .. Cardinality(DOMAIN d) : d \in Directories}
    BY <2>1, InFlightFinite DEF IInv, Structure, TypeOK
  <2>3. Hosted!StartCallbacks
    BY <1>4, <2>2 DEF ForEachReturns, Hosted!StartCallbacks, HostPhase, HostOutput
  <2> QED BY <1>0, <2>3 DEF Hosted!Next
<1>5. CASE WriteOutput \/ WriteFails
  <2>1. stored = NoOutput
    BY <1>5 DEF IInv, Output, WriteOutput, WriteFails
  <2>2. Hosted!Write
    BY <1>1, <1>5, <2>1 DEF WriteOutput, WriteFails, callbackVars, outputVars, Hosted!Write,
                            HostPhase, HostLate, HostOutput
  <2> QED BY <1>0, <2>2 DEF Hosted!Next
<1>6. CASE DisposeModule
  <2>1. Hosted!Close
    BY <1>1, <1>6 DEF DisposeModule, callbackVars, outputVars, Hosted!Close, HostPhase,
                      HostLate, HostOutput
  <2> QED BY <1>0, <2>1 DEF Hosted!Next
<1>7. CASE ListFilesThrows \/ MoveNextThrows
  <2>1. Hosted!Fail
    BY <1>1, <1>7 DEF ListFilesThrows, MoveNextThrows, callbackVars, outputVars, Hosted!Fail,
                      HostPhase, HostLate, HostOutput
  <2> QED BY <1>0, <2>1 DEF Hosted!Next
<1> QED BY <1>2, <1>3, <1>4, <1>5, <1>6, <1>7 DEF JobStep

\* A callback's step is the end of one of those left behind, or the host does not see it.
LEMMA HostedCallback ==
    ASSUME IInv, dir' = dir, NEW f \in Files, CallbackStep(f)
    PROVE  Hosted!Next \/ UNCHANGED Hosted!vars
<1>0. /\ ~ exited /\ exited' = exited /\ job' = job /\ stored' = stored
      /\ HostPhase' = HostPhase /\ HostOutput' = HostOutput
  BY DEF CallbackStep, ReadArrives, ReadFails, EnterLock, EnsureKey, LoadCount, StoreCount,
         outputVars, HostPhase, HostOutput
<1>1. CASE InFlight' = InFlight \/ job \in {"listing", "dispatching", "unlisted"}
  BY <1>0, <1>1 DEF HostLate, Hosted!vars
<1>2. CASE /\ f \in InFlight /\ InFlight' = InFlight \ {f}
           /\ job \notin {"listing", "dispatching", "unlisted"}
  <2>1. IsFiniteSet(InFlight) /\ Cardinality(InFlight) \in Nat
    BY InFlightFinite DEF IInv, Structure, TypeOK
  <2>2. /\ Cardinality(InFlight \ {f}) = Cardinality(InFlight) - 1
        /\ IsFiniteSet(InFlight \ {f})
    BY <1>2, <2>1, FS_RemoveElement
  <2>3. Cardinality(InFlight \ {f}) \in Nat
    BY <2>2, FS_CardinalityType
  <2>4. Hosted!CallbackEnds
    BY <1>0, <1>2, <2>1, <2>2, <2>3 DEF HostLate, Hosted!CallbackEnds
  <2> QED BY <1>0, <2>4 DEF Hosted!Next
<1> QED BY <1>1, <1>2, InFlightShrinks DEF IInv

\* Every step of the job is a step of HostedJob or changes nothing the host sees.
LEMMA HostedNext == IInv /\ [Next]_vars => [Hosted!Next]_(Hosted!vars)
<1> SUFFICES ASSUME IInv, [Next]_vars
             PROVE  Hosted!Next \/ UNCHANGED Hosted!vars
  OBVIOUS
<1>0. dir' = dir
  BY DirectoryKept
<1>1. CASE Exit
  <2>1. InFlight' = InFlight
    BY <1>1, SameDirectory DEF Exit, jobVars, InFlight, Ended
  <2>2. Hosted!ProcessEnds
    BY <1>1, <2>1 DEF Exit, jobVars, Hosted!ProcessEnds, HostPhase, HostLate, HostOutput
  <2> QED BY <1>1, <2>2 DEF Exit, Hosted!Next
<1>2. CASE UNCHANGED vars
  <2>1. InFlight' = InFlight
    BY <1>2, SameDirectory DEF vars, jobVars, InFlight, Ended
  <2> QED BY <1>2, <2>1 DEF vars, jobVars, Hosted!vars, HostPhase, HostLate, HostOutput
<1> QED BY <1>0, <1>1, <1>2, HostedTask, HostedCallback DEF Next, Terminated

\* The job keeps the contract that AnalyzerHost's jobs keep.
THEOREM KeepsHostContract == Spec => ImplementsHostedJob
<1> QED
  BY HostedInit, HostedNext, Invariance, PTL DEF Spec, ImplementsHostedJob, Hosted!Spec
-------------------------------------------------------------------------------
(***************************************************************************)
(* Every step shortens the run.                                            *)
(***************************************************************************)

\* The task's own step ends a stage, or leaves less to do in it.
LEMMA TaskShortensItself ==
    ASSUME IInv, dir' = dir, JobStep
    PROVE  TaskShortens
<1>1. CASE ListFiles \/ ListFilesThrows \/ ForEachReturns \/ MoveNextEnds \/ MoveNextThrows
           \/ WriteOutput \/ WriteFails \/ DisposeModule
  <2>1. TaskSteps[job'] < TaskSteps[job]
    BY <1>1 DEF ListFiles, ListFilesThrows, ForEachReturns, MoveNextEnds, MoveNextThrows,
                WriteOutput, WriteFails, DisposeModule, TaskSteps
  <2> QED BY <2>1 DEF TaskShortens
<1>2. ASSUME NEW f \in Files, StartCallback(f)
      PROVE  TaskShortens
  <2>1. /\ job = "dispatching" /\ job' = job /\ callback[f] = "waiting"
        /\ callback' = [callback EXCEPT ![f] = "reading"]
    BY <1>2 DEF StartCallback
  <2>2. \A e \in Files : callback'[e] = IF e = f THEN "reading" ELSE callback[e]
    BY <2>1 DEF IInv, Structure, TypeOK
  <2>3. f \in TaskLeft /\ TaskLeft' = TaskLeft \ {f}
    BY <2>1, <2>2, SameDirectory DEF TaskLeft
  <2> QED BY <2>1, <2>3 DEF TaskShortens
<1>3. ASSUME NEW g \in Genre, MoveNext(g)
      PROVE  TaskShortens
  <2>1. /\ job = "enumerating" /\ job' = job /\ version = enumVersion
        /\ version' = version /\ enumVersion' = enumVersion /\ dict' = dict
        /\ g \in DOMAIN dict \ DOMAIN json /\ DOMAIN json' = DOMAIN json \cup {g}
    BY <1>3 DEF MoveNext, callbackVars, Put
  <2>2. g \in TaskLeft /\ TaskLeft' = TaskLeft \ {g}
    BY <2>1 DEF TaskLeft
  <2> QED BY <2>1, <2>2 DEF TaskShortens
<1> QED BY <1>1, <1>2, <1>3 DEF JobStep

\* Another's step does not lengthen it: a new key or count moves the version on, and then
\* nothing is left to copy.
LEMMA TaskShortensOtherwise ==
    ASSUME IInv, [Next]_vars, ~ JobStep
    PROVE  TaskShortens
<1>1. job' = job /\ UNCHANGED outputVars
  BY DEF Next, CallbackStep, ReadArrives, ReadFails, EnterLock, EnsureKey, LoadCount,
         StoreCount, Exit, Terminated, vars, jobVars, outputVars
<1>2. \A f \in Files : callback'[f] = "waiting" => callback[f] = "waiting"
  BY DEF IInv, Structure, TypeOK, Next, CallbackStep, ReadArrives, ReadFails, EnterLock,
         EnsureKey, LoadCount, StoreCount, Exit, Terminated, vars, jobVars
<1>3. TaskLeft' \subseteq TaskLeft
  <2>1. CASE job = "dispatching"
    BY <1>1, <1>2, <2>1, DirectoryKept, SameDirectory DEF TaskLeft
  <2>2. CASE job = "enumerating" /\ dict' = dict /\ version' = version
    BY <1>1, <2>2 DEF TaskLeft, outputVars
  <2>3. CASE job = "enumerating" /\ version' = version + 1
    <3>1. version' # enumVersion'
      BY <1>1, <2>3 DEF IInv, Structure, TypeOK, Output, outputVars
    <3> QED BY <1>1, <2>3, <3>1 DEF TaskLeft
  <2>4. CASE job \notin {"dispatching", "enumerating"}
    BY <1>1, <2>4 DEF TaskLeft
  <2> QED BY <2>1, <2>2, <2>3, <2>4, VersionTells DEF IInv
<1> QED BY <1>1, <1>3 DEF TaskShortens

\* A callback's own step counts a genre or gets nearer to that; no other step touches it,
\* but for the one that starts it.
LEMMA CallbackShortensNext ==
    ASSUME IInv, [Next]_vars, NEW f \in Files
    PROVE  CallbackShortens(f)
<1>t. /\ callback \in [Files -> CallbackStates] /\ counted \in [Files -> Nat]
      /\ Len(Genres(f)) \in Nat
  BY GenresType DEF IInv, Structure, TypeOK
<1>1. CASE CallbackStep(f)
  <2>1. CASE StoreCount(f)
    <3>1. counted[f] < Len(Genres(f))
      BY <2>1 DEF IInv, Structure, LockDiscipline, InLock, StoreCount
    <3>2. counted'[f] = counted[f] + 1
      BY <1>t, <2>1 DEF StoreCount
    <3> QED BY <1>t, <3>1, <3>2 DEF CallbackShortens
  <2>2. CASE ReadArrives(f) \/ ReadFails(f) \/ EnterLock(f) \/ EnsureKey(f) \/ LoadCount(f)
    <3>1. counted'[f] = counted[f]
      BY <2>2 DEF ReadArrives, ReadFails, EnterLock, EnsureKey, LoadCount
    <3>2. GenreSteps[callback'[f]] < GenreSteps[callback[f]]
      BY <1>t, <2>2 DEF ReadArrives, ReadFails, EnterLock, EnsureKey, LoadCount, GenreSteps
    <3> QED BY <3>1, <3>2 DEF CallbackShortens
  <2> QED BY <1>1, <2>1, <2>2 DEF CallbackStep
<1>2. CASE ~ CallbackStep(f)
  <2>1. CASE StartCallback(f)
    <3>1. /\ counted'[f] = counted[f]
          /\ callback[f] = "waiting" /\ callback'[f] = "reading"
      BY <1>t, <2>1 DEF StartCallback
    <3> QED BY <3>1 DEF CallbackShortens, GenreSteps
  <2>2. CASE ~ StartCallback(f)
    <3>1. callback'[f] = callback[f] /\ counted'[f] = counted[f]
      <4>1. ASSUME NEW e \in Files, e # f, StartCallback(e) \/ CallbackStep(e)
            PROVE  callback'[f] = callback[f] /\ counted'[f] = counted[f]
        BY <1>t, <4>1 DEF StartCallback, CallbackStep, ReadArrives, ReadFails, EnterLock,
                          EnsureKey, LoadCount, StoreCount
      <4>2. CASE UNCHANGED callbackVars
        BY <4>2 DEF callbackVars
      <4>3. CASE UNCHANGED jobVars
        BY <4>3 DEF jobVars
      <4> QED
        BY <1>2, <2>2, <4>1, <4>2, <4>3
        DEF Next, JobStep, ListFiles, ListFilesThrows, ForEachReturns, MoveNext,
            MoveNextEnds, MoveNextThrows, WriteOutput, WriteFails, DisposeModule, Exit,
            Terminated, vars
    <3> QED BY <1>2, <3>1 DEF CallbackShortens
  <2> QED BY <2>1, <2>2
<1> QED BY <1>1, <1>2

\* Whatever the number of files, a callback that waits for the lock waits for one inside
\* the block, none finds its key gone, and an enumerator that is not outdated goes on or
\* ends: a run stops only when all have ended or its process has.
THEOREM NoVainWait == Spec => []NobodyWaitsInVain
  <1>1. IInv => NobodyWaitsInVain
    <2>. SUFFICES ASSUME IInv
                  PROVE  NobodyWaitsInVain
      OBVIOUS
    <2>1. lock # Unlocked => callback[lock] \in InLock
      BY DEF IInv, Structure, TypeOK, LockDiscipline
    <2>2. \A f \in Files : callback[f] \in {"loading", "storing"} => Current(f) \in DOMAIN dict
      BY DEF IInv, Structure, LockDiscipline
    <2>3. job = "enumerating" /\ version = enumVersion => DOMAIN json \subseteq DOMAIN dict
      BY DEF IInv, Output, SnapshotFaithful, PartOf
    <2>. QED  BY <2>1, <2>2, <2>3 DEF NobodyWaitsInVain
  <1>. QED  BY <1>1, Invariance, PTL

\* No run of the task and its callbacks, of any number, has more steps than its files give
\* it; what is left to fairness is that enabled steps are taken.
THEOREM RunsAreFinite == Spec => EveryStepShortens
<1>1. ASSUME IInv, [Next]_vars
      PROVE  TaskShortens /\ \A f \in Files : CallbackShortens(f)
  <2>1. TaskShortens
    BY <1>1, DirectoryKept, TaskShortensItself, TaskShortensOtherwise
  <2> QED BY <1>1, <2>1, CallbackShortensNext
<1>2. IInv /\ [Next]_vars => [TaskShortens /\ \A f \in Files : CallbackShortens(f)]_vars
  BY <1>1
<1> QED BY <1>2, Invariance, PTL DEF Spec, EveryStepShortens
===============================================================================
