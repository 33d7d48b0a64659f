--------------------------- MODULE MinerDebugProofs ---------------------------
(***************************************************************************)
(* Proofs about MinerDebug, for every calendar and every alphabet: what is *)
(* on the disk stays as it is, numbering never happens, an empty folder is *)
(* the end, and the first answer for a letter stops a pass.                *)
(***************************************************************************)
EXTENDS MinerDebug, TLAPS

\* The conditions and values the actions are made of are always expanded.
USE DEF StillToAsk, DateAfter, MoreLetters, AfterWriteThrows, MayCreate, Date

\* A miner only has something to do while its task runs, and a write is part of it.
InTurn ==
    /\ nyt # "idle" => Running("nyt")
    /\ rt # "idle" => Running("rt")
    /\ write # "idle" => nyt = "writing" /\ HasFolder(date)
    /\ nyt \in {"asking", "writing"} => date <= today

\* The loop is at the latest folder or behind it, and the number it will take for its
\* date is 1: the constructor found 1 or nothing there.  The file that is being written
\* is there.
Numbers ==
    /\ OneFilePerFolder
    /\ nyt \in {"checking", "asking", "writing"} =>
          /\ \A d \in DOMAIN disk : d <= date
          /\ \A d \in DOMAIN cache :
                d <= date /\ (d = date /\ write \in {"idle", "naming"} => cache[d] = 1)
    /\ write \in {"opening", "streaming"} => number = 1
    /\ write = "streaming" => 1 \in DOMAIN disk[date]

\* All letters asked for so far were refused, or the miner is about to write, and fault.
Refusals ==
    /\ rt \in {"asking", "writing"} => letter < Letters /\ rtFailed = 1 .. letter - 1
    /\ rt = "ended" => rtFailed = 1 .. Letters - 1
    /\ (order = <<"rt", "nyt">> /\ host \in {"resolving", "running"} /\ turn = 2) =>
          rtFailed = 1 .. Letters - 1

IInv == TypeOK /\ InTurn /\ Numbers /\ Refusals

\* What is assumed of the constants, in one place.
LEMMA Constants ==
    /\ FirstDay \in Nat /\ LastDay \in Nat /\ MinDate \in Nat /\ Letters \in Nat
    /\ FirstDay <= LastDay /\ MinDate <= FirstDay /\ 2 <= Letters
  BY DaysAssumption, MinDateAssumption, LettersAssumption, MinDateIsPast

\* Nothing is on the disk and nothing has begun.
LEMMA IInvInit == Init => IInv
<1> SUFFICES ASSUME Init PROVE IInv
  OBVIOUS
<1> USE DEF Init, HostInit, NoCounts
<1>1. TypeOK
  BY Constants DEF TypeOK, HostStates, NytStates, RtStates, WriteStates, IsCounts
<1>2. InTurn /\ Numbers /\ Refusals
  BY Constants DEF InTurn, Numbers, OneFilePerFolder, Refusals, Orders
<1> QED BY <1>1, <1>2 DEF IInv
-------------------------------------------------------------------------------
\* The cache with another entry is a cache.
LEMMA PutCounts ==
    ASSUME NEW a, IsCounts(a, Date), NEW d \in Date, NEW n \in Nat
    PROVE  IsCounts(Put(a, d, n), Date)
  BY DEF IsCounts, Put

\* The end of the process leaves no miner at work and no cache; the disk stays.
LEMMA EndsStep == ASSUME IInv, ProcessEnds PROVE IInv'
<1> USE DEF ProcessEnds, Die, NytDies, RtDies, LocalDies
<1>1. TypeOK'
  BY DEF IInv, TypeOK, HostStates, NytStates, RtStates, WriteStates, IsCounts, NoCounts
<1>2. InTurn' /\ Numbers' /\ Refusals'
  BY DEF IInv, InTurn, Numbers, OneFilePerFolder, Refusals
<1> QED BY <1>1, <1>2 DEF IInv

\* Every folder the constructor finds has file 1 and no other: 1 is what it caches.
LEMMA OpenStep == ASSUME IInv, OpenNyt PROVE IInv'
<1> USE DEF OpenNyt, Resolved, OpenStorage, StartNyt, rtVars
<1>0. PICK d \in Date : IsLatestDate(d) /\ StartNyt(d)
  OBVIOUS
<1>1. nyt' = "checking" /\ date' = d /\ nyt = "idle" /\ UNCHANGED <<answered, today, failed>>
  BY <1>0
<1>2. write = "idle" /\ UNCHANGED <<disk, number, write>>
  BY <1>1 DEF IInv, InTurn
<1>3. \A e \in DOMAIN disk : DOMAIN disk[e] = {1} /\ NumberFound(e) = 1
  <2> SUFFICES ASSUME NEW e \in DOMAIN disk PROVE DOMAIN disk[e] = {1} /\ NumberFound(e) = 1
    OBVIOUS
  <2>1. DOMAIN disk[e] = {1}
    BY DEF OpenThrows, EmptyFolders, IInv, Numbers, OneFilePerFolder
  <2>2. Highest({1}) = 1
    BY DEF Highest
  <2> QED BY <2>1, <2>2 DEF NumberFound
<1>4. DOMAIN cache' = DOMAIN disk /\ \A e \in DOMAIN cache' : cache'[e] = 1
  BY <1>3
<1>5. \A e \in DOMAIN disk : e \in Date /\ e <= d
  BY <1>0 DEF IsLatestDate, IInv, TypeOK, NoCounts
<1>6. TypeOK'
  <2>1. IsCounts(cache', Date)
    BY <1>4, <1>5 DEF IsCounts
  <2> QED BY <1>0, <1>1, <1>2, <2>1, Constants DEF IInv, TypeOK, HostStates, NytStates
<1>7. InTurn' /\ Refusals'
  BY <1>1, <1>2 DEF IInv, TypeOK, InTurn, Refusals, Running, At
<1>8. Numbers'
  BY <1>1, <1>2, <1>4, <1>5 DEF IInv, Numbers, OneFilePerFolder
<1> QED BY <1>6, <1>7, <1>8 DEF IInv

\* The loop moves on from a date, which is behind it then.
LEMMA MovesOn ==
    ASSUME IInv, nyt \in {"asking", "writing"}, nyt' = "checking", date' = date + 1, write' = "idle",
           UNCHANGED <<cache, number, today>>,
           DOMAIN disk' = DOMAIN disk, \A d \in DOMAIN disk : DOMAIN disk'[d] = DOMAIN disk[d]
    PROVE  Numbers' /\ date' \in MinDate .. LastDay + 1 /\ date \in Date
<1>1. date \in Date
  BY Constants DEF IInv, TypeOK, InTurn
<1>2. \A d \in DOMAIN disk : d \in Date /\ d <= date
  BY DEF IInv, TypeOK, Numbers
<1>3. \A d \in DOMAIN cache : d \in Date /\ d <= date
  BY DEF IInv, TypeOK, Numbers, IsCounts
<1> QED BY <1>1, <1>2, <1>3, Constants DEF IInv, Numbers, OneFilePerFolder

\* The loop of the miner, between the writes.
LEMMA LoopStep == ASSUME IInv, NytLoop PROVE IInv'
<1> USE DEF NytLoop, hostVars, rtVars, localVars
<1>a. date \in MinDate .. LastDay + 1 /\ today \in FirstDay .. LastDay /\ failed \subseteq Date
  BY DEF IInv, TypeOK
<1>b. write = "idle" \/ nyt = "writing"
  BY DEF IInv, InTurn
<1>r. Refusals'
  BY DEF IInv, Refusals
<1>1. CASE AskDate \/ LoopEnds \/ AnswerThrows \/ AnswerArrives
  <2>1. /\ UNCHANGED <<date, today, failed>>
        /\ nyt' \in NytStates \ {"idle", "checking"}
        /\ nyt \in {"checking", "asking"}
        /\ nyt' \in {"asking", "writing"} => date <= today
        /\ answered' \in {answered, today}
    BY <1>1 DEF AskDate, LoopEnds, AnswerThrows, AnswerArrives, NytStates, IInv, InTurn
  <2>2. TypeOK'
    BY <2>1 DEF IInv, TypeOK
  <2>3. InTurn'
    BY <1>b, <2>1 DEF IInv, InTurn, Running, At, HasFolder
  <2>4. Numbers'
    BY <2>1 DEF IInv, Numbers, OneFilePerFolder
  <2> QED BY <1>r, <2>2, <2>3, <2>4 DEF IInv
<1>2. CASE AnswerRefused
  <2>1. /\ nyt = "asking" /\ nyt' = "checking" /\ date' = date + 1 /\ write = "idle"
        /\ failed' = failed \cup {date} /\ UNCHANGED <<answered, today>>
    BY <1>2, <1>b DEF AnswerRefused
  <2>2. Numbers' /\ date' \in MinDate .. LastDay + 1 /\ date \in Date
    BY <2>1, MovesOn
  <2>3. TypeOK'
    BY <1>a, <2>1, <2>2 DEF IInv, TypeOK, NytStates
  <2>4. InTurn'
    BY <2>1 DEF IInv, InTurn, Running, At
  <2> QED BY <1>r, <2>2, <2>3, <2>4 DEF IInv
<1> QED BY <1>1, <1>2

\* The steps of a write up to its end: folder, number, file.
LEMMA WritesStep == ASSUME IInv, NytWrites PROVE IInv'
<1> USE DEF NytWrites, nytVars, rtVars, hostVars
<1>a. nyt = "writing" /\ date \in Date /\ date <= today
  BY Constants DEF IInv, TypeOK, InTurn
<1>r. Refusals'
  BY DEF IInv, Refusals
<1>t. /\ DOMAIN disk \subseteq Date
      /\ \A d \in DOMAIN disk :
            DOMAIN disk[d] \subseteq Nat /\ disk[d] \in [DOMAIN disk[d] -> Contents]
      /\ \A d \in DOMAIN disk : d <= date /\ DOMAIN disk[d] \subseteq {1}
      /\ IsCounts(cache, Date)
      /\ \A d \in DOMAIN cache : d <= date
  BY <1>a DEF IInv, TypeOK, Numbers, OneFilePerFolder
<1>1. CASE EnsureFolder(date)
  <2>1. /\ DOMAIN disk' = DOMAIN disk \cup {date}
        /\ disk' = [d \in DOMAIN disk' |-> disk'[d]]
        /\ \A d \in DOMAIN disk : disk'[d] = disk[d]
        /\ date \notin DOMAIN disk => disk'[date] = NoCounts
    <3>1. CASE HasFolder(date)
      BY <1>1, <3>1 DEF EnsureFolder, HasFolder, IInv, TypeOK
    <3>2. CASE ~ HasFolder(date)
      <4>1. disk' = Put(disk, date, NoCounts) /\ date \notin DOMAIN disk
        BY <1>1, <3>2 DEF EnsureFolder, HasFolder
      <4> QED BY <4>1 DEF Put
    <3> QED BY <3>1, <3>2
  <2>2. DOMAIN NoCounts = {} /\ NoCounts \in [{} -> Contents]
    BY DEF NoCounts
  <2>3. write = "idle" /\ write' = "naming" /\ UNCHANGED <<cache, number>>
    BY <1>1 DEF EnsureFolder
  <2>4. \A d \in DOMAIN disk' : DOMAIN disk'[d] \subseteq {1}
                                 /\ disk'[d] \in [DOMAIN disk'[d] -> Contents]
    BY <1>t, <2>1, <2>2
  <2>5. TypeOK'
    BY <1>a, <1>t, <2>1, <2>3, <2>4 DEF IInv, TypeOK, WriteStates
  <2>6. InTurn'
    BY <1>a, <2>1, <2>3 DEF IInv, InTurn, Running, At, HasFolder
  <2>7. Numbers'
    BY <1>a, <1>t, <2>1, <2>3, <2>4 DEF IInv, Numbers, OneFilePerFolder
  <2> QED BY <1>r, <2>5, <2>6, <2>7 DEF IInv
<1>2. CASE TakeNumber(date)
  <2>1. number' = 1 /\ cache' = Put(cache, date, 2) /\ write' = "opening" /\ write = "naming"
        /\ disk' = disk
    BY <1>2, <1>a DEF TakeNumber, IInv, Numbers
  <2>2. IsCounts(cache', Date) /\ \A d \in DOMAIN cache' : d <= date
    <3>1. DOMAIN cache' = DOMAIN cache \cup {date} /\ cache'[date] = 2
          /\ \A d \in DOMAIN cache : d # date => cache'[d] = cache[d]
      BY <2>1 DEF Put
    <3>2. \A d \in DOMAIN cache : d \in Date /\ d <= date /\ cache[d] \in Nat
      BY <1>t DEF IsCounts
    <3>3. \A d \in DOMAIN cache' : d \in Date /\ d <= date /\ cache'[d] \in Nat
      <4> SUFFICES ASSUME NEW d \in DOMAIN cache'
                   PROVE  d \in Date /\ d <= date /\ cache'[d] \in Nat
        OBVIOUS
      <4>1. CASE d = date
        BY <1>a, <3>1, <4>1, Constants
      <4>2. CASE d # date
        BY <3>1, <3>2, <4>2
      <4> QED BY <4>1, <4>2
    <3>4. IsCounts(Put(cache, date, 2), Date)
      BY <1>a, <1>t, PutCounts
    <3> QED BY <2>1, <3>3, <3>4
  <2>3. TypeOK' /\ InTurn'
    BY <1>a, <2>1, <2>2 DEF IInv, TypeOK, WriteStates, InTurn, Running, At, HasFolder
  <2>4. Numbers'
    BY <1>a, <1>t, <2>1, <2>2 DEF Numbers, OneFilePerFolder
  <2> QED BY <1>r, <2>3, <2>4 DEF IInv
<1>3. CASE CreateFile(date)
  <2>1. /\ write = "opening" /\ write' = "streaming" /\ UNCHANGED <<cache, number>> /\ number = 1
        /\ date \in DOMAIN disk
        /\ disk' = [disk EXCEPT ![date] = Put(@, number, "torn")]
    BY <1>3 DEF CreateFile, IInv, Numbers, InTurn, HasFolder
  <2>2. /\ DOMAIN disk' = DOMAIN disk /\ disk' = [d \in DOMAIN disk' |-> disk'[d]]
        /\ \A d \in DOMAIN disk : d # date => disk'[d] = disk[d]
        /\ disk'[date] = Put(disk[date], 1, "torn")
    BY <2>1 DEF IInv, TypeOK
  <2>3. DOMAIN disk'[date] = DOMAIN disk[date] \cup {1}
        /\ disk'[date] \in [DOMAIN disk'[date] -> Contents]
    BY <1>t, <2>1, <2>2 DEF Put, Contents
  <2>4. \A d \in DOMAIN disk' : DOMAIN disk'[d] \subseteq {1}
                                 /\ disk'[d] \in [DOMAIN disk'[d] -> Contents]
    BY <1>t, <2>2, <2>3
  <2>5. TypeOK' /\ InTurn'
    BY <1>a, <1>t, <2>1, <2>2, <2>4
       DEF IInv, TypeOK, WriteStates, InTurn, Running, At, HasFolder
  <2>6. Numbers'
    BY <1>a, <1>t, <2>1, <2>2, <2>3, <2>4 DEF Numbers, OneFilePerFolder
  <2> QED BY <1>r, <2>5, <2>6 DEF IInv
<1> QED BY <1>1, <1>2, <1>3

\* The end of a write, with the whole file or without it: no folder or file is added.
LEMMA WrittenStep == ASSUME IInv, NytWritten PROVE IInv'
<1> USE DEF NytWritten, WriteReturns, rtVars, hostVars
<1>1. /\ nyt = "writing" /\ nyt' = "checking" /\ date' = date + 1
      /\ failed' \in {failed, failed \cup {date}}
      /\ write' = "idle" /\ UNCHANGED <<answered, today, cache, number>>
  BY DEF FileWritten, WriteFails
<1>2. /\ DOMAIN disk' = DOMAIN disk /\ disk' = [d \in DOMAIN disk' |-> disk'[d]]
      /\ \A d \in DOMAIN disk :
            /\ DOMAIN disk'[d] \subseteq Nat /\ disk'[d] \in [DOMAIN disk'[d] -> Contents]
            /\ DOMAIN disk'[d] \subseteq {1}
  <2>t. /\ disk = [d \in DOMAIN disk |-> disk[d]]
        /\ \A d \in DOMAIN disk : disk[d] \in [DOMAIN disk[d] -> Contents]
                                  /\ DOMAIN disk[d] \subseteq {1}
    BY DEF IInv, TypeOK, Numbers, OneFilePerFolder
  <2>1. CASE disk' = disk
    BY <2>1, <2>t
  <2>2. CASE FileWritten(date)
    <3>1. /\ number = 1 /\ date \in DOMAIN disk
          /\ disk' = [disk EXCEPT ![date] = Put(@, number, "whole")]
      BY <2>2 DEF FileWritten, IInv, Numbers, InTurn, HasFolder
    <3>2. /\ DOMAIN disk' = DOMAIN disk /\ disk' = [d \in DOMAIN disk' |-> disk'[d]]
          /\ \A d \in DOMAIN disk : d # date => disk'[d] = disk[d]
          /\ disk'[date] = Put(disk[date], 1, "whole")
      BY <2>t, <3>1
    <3>3. disk'[date] \in [DOMAIN disk'[date] -> Contents] /\ DOMAIN disk'[date] \subseteq {1}
      BY <2>t, <3>1, <3>2 DEF Put, Contents
    <3> QED BY <2>t, <3>2, <3>3
  <2> QED BY <2>1, <2>2 DEF WriteFails
<1>3. date \in Date /\ date' \in MinDate .. LastDay + 1
  BY <1>1, Constants DEF IInv, TypeOK, InTurn
<1>4. Numbers'
  <2>1. \A d \in DOMAIN disk : d \in Date /\ d <= date
    BY <1>1 DEF IInv, TypeOK, Numbers
  <2>2. \A d \in DOMAIN cache : d \in Date /\ d <= date
    BY <1>1 DEF IInv, TypeOK, Numbers, IsCounts
  <2> QED BY <1>1, <1>2, <1>3, <2>1, <2>2, Constants DEF Numbers, OneFilePerFolder
<1>5. TypeOK'
  BY <1>1, <1>2, <1>3 DEF IInv, TypeOK, NytStates, WriteStates
<1>6. InTurn' /\ Refusals'
  BY <1>1 DEF IInv, InTurn, Running, At, Refusals
<1> QED BY <1>4, <1>5, <1>6 DEF IInv

\* A refusal is noted and the loop moves on; an answer leads to the exception.
LEMMA LetterStep == ASSUME IInv, RtLoop \/ RtWrite PROVE IInv'
<1> USE DEF RtLoop, RtWrite, nytVars, localVars, hostVars
<1>1. Numbers'
  BY DEF IInv, Numbers, OneFilePerFolder
<1>2. letter \in 1 .. Letters /\ (rt \in {"asking", "writing"} => letter < Letters)
      /\ rt # "idle" /\ Running("rt")
  BY DEF IInv, TypeOK, InTurn, Refusals, RtAnswerThrows, RtAnswerRefused, RtAnswerArrives,
         RtWriteThrows
<1>3. CASE RtAnswerThrows \/ RtAnswerArrives \/ RtWriteThrows
  BY <1>1, <1>2, <1>3
     DEF IInv, TypeOK, InTurn, Refusals, RtStates, RtAnswerThrows, RtAnswerArrives,
         RtWriteThrows, Running, At, HasFolder
<1>4. CASE RtAnswerRefused
  <2>1. /\ letter' = letter + 1 /\ rt' \in {"asking", "ended"} /\ letter < Letters
        /\ (rt' = "asking" => letter' < Letters) /\ (rt' = "ended" => letter' = Letters)
        /\ rtFailed' = (1 .. letter - 1) \cup {letter}
    BY <1>2, <1>4, Constants DEF RtAnswerRefused, NextLetter, IInv, Refusals
  <2>2. rtFailed' = 1 .. letter' - 1
    BY <1>2, <2>1
  <2>3. ~ (order = <<"rt", "nyt">> /\ turn = 2)
    BY <1>2 DEF Running, At
  <2>4. Refusals'
    BY <2>1, <2>2, <2>3 DEF Refusals
  <2>5. TypeOK'
    BY <1>2, <2>1, <2>2, Constants DEF IInv, TypeOK, RtStates
  <2>6. InTurn'
    BY <1>2, <1>4 DEF IInv, InTurn, Running, At, HasFolder
  <2> QED BY <1>1, <2>4, <2>5, <2>6 DEF IInv
<1> QED BY <1>3, <1>4

\* The host's own steps.
LEMMA HostStep ==
    ASSUME IInv, LaunchProcess \/ OpenRt \/ NytDone \/ RtDone \/ NextPass
    PROVE  IInv'
<1> USE DEF nytVars, rtVars, localVars
<1>1. CASE LaunchProcess \/ NextPass
  <2>1. /\ UNCHANGED <<nytVars, rtVars, localVars, order>>
        /\ host \in {"down", "sleeping"} /\ host' = "resolving" /\ turn' = 1
    BY <1>1 DEF LaunchProcess, NextPass, Launch, PassAgain
  <2>2. TypeOK' /\ InTurn'
    BY <2>1 DEF IInv, TypeOK, InTurn, Running, HostStates, HasFolder
  <2>3. Numbers' /\ Refusals'
    BY <2>1 DEF IInv, Numbers, OneFilePerFolder, Refusals
  <2> QED BY <2>2, <2>3 DEF IInv
<1>2. CASE OpenRt
  <2>1. Refusals'
    <3>1. ~ (order = <<"rt", "nyt">> /\ turn = 2)
      BY <1>2 DEF OpenRt, Resolved, At
    <3> QED BY <1>2, <3>1, Constants DEF OpenRt, StartRt, Resolved, Refusals
  <2>2. TypeOK' /\ InTurn'
    BY <1>2, Constants
       DEF OpenRt, StartRt, Resolved, IInv, TypeOK, InTurn, Running, At, HostStates, RtStates, HasFolder
  <2>3. Numbers'
    BY <1>2 DEF OpenRt, IInv, Numbers, OneFilePerFolder
  <2> QED BY <2>1, <2>2, <2>3 DEF IInv
<1>3. CASE NytDone
  <2>1. Refusals'
    <3>1. ~ (order = <<"rt", "nyt">> /\ turn = 1)
      BY <1>3 DEF NytDone, ModuleDone, Running, At
    <3> QED BY <1>3, <3>1 DEF NytDone, ModuleDone, IInv, TypeOK, Refusals
  <2>2. TypeOK' /\ InTurn'
    BY <1>3
       DEF NytDone, ModuleDone, DisposeNyt, IInv, TypeOK, InTurn, Running, At, HostStates,
           NytStates, HasFolder
  <2>3. Numbers'
    BY <1>3 DEF NytDone, DisposeNyt, IInv, Numbers, OneFilePerFolder
  <2> QED BY <2>1, <2>2, <2>3 DEF IInv
<1>4. CASE RtDone
  <2>1. Refusals'
    BY <1>4 DEF RtDone, DisposeRt, IInv, Refusals
  <2>2. TypeOK' /\ InTurn'
    BY <1>4
       DEF RtDone, ModuleDone, DisposeRt, IInv, TypeOK, InTurn, Running, At, HostStates,
           RtStates, HasFolder
  <2>3. Numbers'
    BY <1>4 DEF RtDone, IInv, Numbers, OneFilePerFolder
  <2> QED BY <2>1, <2>2, <2>3 DEF IInv
<1> QED BY <1>1, <1>2, <1>3, <1>4

\* The clock only moves on.
LEMMA TickStep == ASSUME IInv, ClockTicks PROVE IInv'
<1> USE DEF ClockTicks, Midnight, hostVars, rtVars, localVars
<1>1. today \in Int /\ today < today' /\ today' \in FirstDay .. LastDay
  BY Constants DEF IInv, TypeOK
<1>2. TypeOK' /\ Numbers' /\ Refusals'
  BY <1>1 DEF IInv, TypeOK, Numbers, OneFilePerFolder, Refusals
<1>3. InTurn'
  BY <1>1, Constants DEF IInv, TypeOK, InTurn, Running, At, HasFolder
<1> QED BY <1>2, <1>3 DEF IInv

\* Every step keeps the invariant.
LEMMA IInvNext == IInv /\ [Next]_vars => IInv'
<1> SUFFICES ASSUME IInv, [Next]_vars PROVE IInv'
  OBVIOUS
<1>1. CASE UNCHANGED vars
  BY <1>1 DEF vars, nytVars, rtVars, hostVars, localVars, IInv, TypeOK, InTurn, Running, At,
              HasFolder, Numbers, OneFilePerFolder, Refusals
<1>2. CASE Next
  BY <1>2, EndsStep, OpenStep, LoopStep, WritesStep, WrittenStep, LetterStep, HostStep, TickStep
     DEF Next, ProcessStep, Fault, Crash
<1> QED BY <1>1, <1>2
-------------------------------------------------------------------------------
\* The invariant is inductive.
THEOREM Invariance == Spec => []IInv
  BY IInvInit, IInvNext, PTL DEF Spec

\* Type correctness of the miners, the host and the disk.
THEOREM TypeCorrect == Spec => []TypeOK
  BY Invariance, PTL DEF IInv

\* The numbering of files is never used.
THEOREM NumberIsAlwaysOne == Spec => []OneFilePerFolder
  BY Invariance, PTL DEF IInv, Numbers

\* The first answer for a letter keeps the New York Times miner from running.
THEOREM AnswerStopsPass == Spec => []FirstAnswerStopsPass
<1>1. IInv => FirstAnswerStopsPass
  BY DEF IInv, TypeOK, InTurn, Refusals, FirstAnswerStopsPass, Running, At
<1> QED BY <1>1, Invariance, PTL

\* The disk changes only in the steps of a write.
LEMMA DiskSteps ==
    ASSUME [Next]_vars, ~ (NytWrites \/ NytWritten)
    PROVE  disk' = disk
  BY DEF vars, Next, ProcessStep, LaunchProcess, OpenNyt, OpenStorage, OpenRt, NytDone, RtDone,
         NextPass, Fault, Crash, ProcessEnds, LocalDies, NytLoop, RtLoop, RtWrite, ClockTicks,
         localVars

\* A file that is on the disk stays, and is completed only by the write that created it.
THEOREM FilesStay == Spec => FilesFinal
<1> DEFINE Kept(d, n) ==
        /\ d \in DOMAIN disk' /\ n \in DOMAIN disk'[d]
        /\ disk'[d][n] # disk[d][n] =>
              write = "streaming" /\ nyt = "writing" /\ d = date /\ n = number
<1>1. ASSUME IInv, [Next]_vars, NEW d \in DOMAIN disk, NEW n \in DOMAIN disk[d]
      PROVE  Kept(d, n)
  <2>1. CASE disk' = disk
    BY <1>1, <2>1
  <2>2. CASE EnsureFolder(date)
    BY <1>1, <2>2 DEF EnsureFolder, HasFolder, Put
  <2>3. CASE CreateFile(date)
    <3>1. disk' = [disk EXCEPT ![date] = Put(@, number, "torn")] /\ number \notin DOMAIN disk[date]
      BY <2>3 DEF CreateFile
    <3>2. CASE d = date
      <4>1. disk'[d] = Put(disk[d], number, "torn") /\ n # number /\ d \in DOMAIN disk'
        BY <1>1, <3>1, <3>2 DEF IInv, TypeOK
      <4> QED BY <1>1, <4>1 DEF Put
    <3>3. CASE d # date
      BY <1>1, <3>1, <3>3
    <3> QED BY <3>2, <3>3
  <2>4. CASE FileWritten(date) /\ nyt = "writing"
    <3>1. disk' = [disk EXCEPT ![date] = Put(@, number, "whole")] /\ write = "streaming"
      BY <2>4 DEF FileWritten
    <3>2. CASE d = date
      <4>1. disk'[d] = Put(disk[d], number, "whole") /\ d \in DOMAIN disk'
        BY <1>1, <3>1, <3>2
      <4> QED BY <1>1, <2>4, <3>1, <3>2, <4>1 DEF Put
    <3>3. CASE d # date
      BY <1>1, <3>1, <3>3
    <3> QED BY <3>2, <3>3
  <2> QED BY <1>1, <2>1, <2>2, <2>3, <2>4, DiskSteps
             DEF NytWrites, NytWritten, TakeNumber, WriteFails, WriteReturns
<1>2. IInv /\ [Next]_vars => [\A d \in DOMAIN disk : \A n \in DOMAIN disk[d] : Kept(d, n)]_vars
  BY <1>1
<1> QED BY <1>2, Invariance, PTL DEF Spec, FilesFinal

\* No step gets a miner started beside an empty folder, and none fills it.
THEOREM EmptyFolderIsTheEnd == Spec => EmptyFolderBlocks
<1>1. [Next]_vars => [Blocked => Blocked']_vars
  <2> SUFFICES ASSUME [Next]_vars, Blocked PROVE Blocked'
    OBVIOUS
  <2>1. nyt = "idle" /\ EmptyFolders # {}
    BY DEF Blocked
  <2>2. disk' = disk
    BY <2>1, DiskSteps DEF NytWrites, NytWritten, WriteReturns
  <2>3. nyt' = "idle"
    BY <2>1 DEF vars, Next, ProcessStep, LaunchProcess, OpenNyt, OpenStorage, OpenThrows, OpenRt,
                NytDone, DisposeNyt, RtDone, NextPass, Fault, Crash, ProcessEnds, NytDies, NytLoop,
                AskDate, LoopEnds, AnswerThrows, AnswerRefused, AnswerArrives, NytWrites,
                NytWritten, WriteReturns, RtLoop, RtWrite, ClockTicks, Midnight, nytVars
  <2> QED BY <2>1, <2>2, <2>3 DEF Blocked, EmptyFolders
<1> QED BY <1>1, PTL DEF Spec, EmptyFolderBlocks
-------------------------------------------------------------------------------
(***************************************************************************)
(* Refinement: the dates that have a file are a log of days.               *)
(***************************************************************************)

Archive == [d \in FileDates |-> d]

\* Nothing is on the disk, and an empty log is a log.
LEMMA RefinementInit == Init => Promise!Init
  BY Constants DEF Init, NoCounts, FileDates, Promise!Init, Promise!IsCounts

\* A step that adds no file to the disk leaves the log as it is.
LEMMA SameArchive ==
    ASSUME DOMAIN disk' \ EmptyFolders' = DOMAIN disk \ EmptyFolders
    PROVE  Archive' = Archive
  BY DEF Archive, FileDates

\* A file is created for the date the loop is at, which is behind all folders that are not
\* empty: the one of that date would be in the way of file 1.
LEMMA CreateAppends ==
    ASSUME IInv, nyt = "writing", CreateFile(date)
    PROVE  /\ date \in Date /\ date <= today
           /\ \A e \in FileDates : e < date
           /\ Archive' = Put(Archive, date, date)
<1>1. date \in Date /\ date <= today /\ date \in Nat
  BY Constants DEF IInv, TypeOK, InTurn
<1>2. /\ number = 1 /\ date \in DOMAIN disk /\ 1 \notin DOMAIN disk[date]
      /\ disk' = [disk EXCEPT ![date] = Put(@, 1, "torn")]
  BY DEF CreateFile, IInv, Numbers, InTurn, HasFolder
<1>3. DOMAIN disk[date] = {}
  BY <1>2 DEF IInv, Numbers, OneFilePerFolder
<1>4. \A e \in FileDates : e < date
  <2> SUFFICES ASSUME NEW e \in FileDates PROVE e < date
    OBVIOUS
  <2>1. e \in DOMAIN disk /\ DOMAIN disk[e] # {}
    BY DEF FileDates, EmptyFolders
  <2>2. e \in Nat /\ e <= date /\ e # date
    BY <1>3, <2>1, Constants DEF IInv, TypeOK, Numbers
  <2> QED BY <1>1, <2>2
<1>5. FileDates' = FileDates \cup {date}
  <2>1. DOMAIN disk' = DOMAIN disk /\ \A e \in DOMAIN disk : e # date => disk'[e] = disk[e]
    BY <1>2
  <2>2. DOMAIN disk'[date] = {1}
    BY <1>2, <1>3 DEF Put
  <2> QED BY <1>2, <1>3, <2>1, <2>2 DEF FileDates, EmptyFolders
<1>6. Archive' = Put(Archive, date, date)
  BY <1>5 DEF Archive, Put
<1> QED BY <1>1, <1>4, <1>6

\* Only the creation of a file adds to the log, and only the clock moves the day.
LEMMA RefinementNext == IInv /\ [Next]_vars => [Promise!Next]_<<Archive, today>>
<1> SUFFICES ASSUME IInv, [Next]_vars
             PROVE  Promise!Next \/ UNCHANGED <<Archive, today>>
  OBVIOUS
<1>1. CASE ClockTicks
  <2>1. today' = today + 1 /\ disk' = disk
    BY <1>1 DEF ClockTicks, Midnight, localVars
  <2>2. FileDates' = FileDates
    BY <2>1 DEF FileDates, EmptyFolders
  <2>3. Archive' = Archive
    BY <2>2 DEF Archive
  <2>4. Promise!DayPasses
    BY <2>1, <2>3 DEF Archive, Promise!DayPasses
  <2> QED BY <2>4 DEF Promise!Next
<1>2. CASE nyt = "writing" /\ CreateFile(date) /\ UNCHANGED nytVars
  <2>1. /\ date \in Date /\ date <= today /\ \A e \in FileDates : e < date
        /\ Archive' = Put(Archive, date, date)
    BY <1>2, CreateAppends
  <2>2. today' = today
    BY <1>2 DEF nytVars
  <2>3. Promise!Latest(date)
    BY <2>1 DEF Promise!Latest
  <2> QED
    BY <2>1, <2>2, <2>3, Constants
    DEF Archive, Promise!Next, Promise!Append, Promise!Put, Put
<1>3. CASE /\ nyt = "writing"
           /\ EnsureFolder(date) \/ TakeNumber(date) \/ FileWritten(date) \/ WriteFails(date)
           /\ today' = today
  <2>1. DOMAIN disk' \ EmptyFolders' = DOMAIN disk \ EmptyFolders
    <3>1. CASE disk' = disk
      BY <3>1 DEF EmptyFolders
    <3>2. CASE EnsureFolder(date)
      BY <3>2 DEF EnsureFolder, HasFolder, Put, NoCounts, EmptyFolders
    <3>3. CASE FileWritten(date)
      <4>1. /\ number = 1 /\ date \in DOMAIN disk
            /\ disk' = [disk EXCEPT ![date] = Put(@, number, "whole")]
        BY <3>3 DEF FileWritten, IInv, Numbers, InTurn, HasFolder
      <4>2. /\ DOMAIN disk' = DOMAIN disk /\ \A d \in DOMAIN disk : d # date => disk'[d] = disk[d]
            /\ disk'[date] = Put(disk[date], 1, "whole")
        BY <4>1
      <4>3. DOMAIN disk'[date] = DOMAIN disk[date] \cup {1}
        BY <4>2 DEF Put
      <4>4. date \notin EmptyFolders
        BY <3>3, <4>1 DEF FileWritten, IInv, Numbers, EmptyFolders
      <4> QED BY <4>2, <4>3, <4>4 DEF EmptyFolders
    <3> QED BY <1>3, <3>1, <3>2, <3>3 DEF TakeNumber, WriteFails
  <2> QED BY <1>3, <2>1, SameArchive
<1>4. CASE ~ (NytWrites \/ NytWritten \/ ClockTicks)
  <2>1. disk' = disk
    BY <1>4, DiskSteps
  <2>2. today' = today
    BY <1>4
    DEF vars, Next, ProcessStep, LaunchProcess, OpenNyt, StartNyt, OpenRt, NytDone, DisposeNyt,
        RtDone, NextPass, Fault, Crash, ProcessEnds, NytDies, NytLoop, AskDate, LoopEnds,
        AnswerThrows, AnswerRefused, AnswerArrives, RtLoop, RtWrite, nytVars
  <2> QED BY <2>1, <2>2 DEF Archive, FileDates, EmptyFolders
<1>5. ASSUME NytWrites \/ NytWritten
      PROVE  /\ nyt = "writing" /\ today' = today
             /\ \/ CreateFile(date) /\ UNCHANGED nytVars
                \/ EnsureFolder(date) \/ TakeNumber(date) \/ FileWritten(date) \/ WriteFails(date)
  BY <1>5 DEF NytWrites, NytWritten, WriteReturns, nytVars
<1> QED BY <1>1, <1>2, <1>3, <1>4, <1>5

\* The debug build implements DateArchive too, through crashes between the steps of a write.
THEOREM Refinement == Spec => ImplementsDateArchive
<1>1. IInv /\ [Next]_vars => [Promise!Next]_<<[d \in FileDates |-> d], today>>
  BY RefinementNext DEF Archive
<1> QED
  BY <1>1, RefinementInit, Invariance, PTL DEF Spec, ImplementsDateArchive, Promise!Spec
===============================================================================
