-------------------------- MODULE MinerReleaseProofs --------------------------
(***************************************************************************)
(* Proofs about MinerRelease, for every calendar and every alphabet.       *)
(*                                                                         *)
(* The heart is Covered: it ties the position of the loop, which a crash   *)
(* forgets, to the archive and to the failures, which last.  OpenNyt finds *)
(* the position anew, and GapsAreFailures is what makes it find one before *)
(* which nothing is missing.                                               *)
(***************************************************************************)
EXTENDS MinerRelease, TLAPS

\* The conditions and values the actions are made of are always expanded.
USE DEF StillToAsk, DateAfter, MoreLetters, NextAfter, MinValue, Date

\* A miner only has something to do while its task runs.
InTurn ==
    /\ nyt # "idle" => Running("nyt")
    /\ rt # "idle" => Running("rt")

\* Nothing is asked for, or stored, before its day.
InTime ==
    /\ \A d \in DOMAIN archive : d <= archive[d] /\ archive[d] <= today
    /\ nyt \in {"asking", "writing"} => date <= today
    /\ nyt = "writing" => date <= answered /\ answered <= today

Covered == AsksOnlyBehindArchive /\ GapsAreFailures

\* Every letter before the one the loop is at has an object or a failure.
LettersSoFar ==
    /\ rtFiles \subseteq 1 .. Letters - 1
    /\ rtFailed \subseteq 1 .. Letters - 1
    /\ rt \in {"asking", "writing"} =>
          letter < Letters /\ 1 .. letter - 1 \subseteq (rtFiles \cup rtFailed)
    /\ rt = "ended" => 1 .. Letters - 1 \subseteq (rtFiles \cup rtFailed)

IInv == TypeOK /\ InTurn /\ InTime /\ Covered /\ LettersSoFar

\* What is assumed of the constants, in one place.
LEMMA Constants ==
    /\ FirstDay \in Nat /\ LastDay \in Nat /\ MinDate \in Nat /\ Letters \in Nat
    /\ FirstDay <= LastDay /\ 0 < MinDate /\ MinDate <= FirstDay /\ 2 <= Letters
  BY DaysAssumption, MinDateAssumption, LettersAssumption, MinDateIsPast

\* Every archive that Init chooses is well typed, and in time.
LEMMA EarlierArchiveType ==
    ASSUME NEW a \in EarlierArchives
    PROVE  /\ IsCounts(a, Date)
           /\ \A d \in DOMAIN a : d \in Date /\ a[d] \in Date /\ d <= a[d] /\ a[d] <= FirstDay
<1>1. PICK S \in SUBSET (MinDate .. FirstDay) : a \in [S -> MinDate .. FirstDay]
  BY DEF EarlierArchives
<1>2. \A d \in DOMAIN a : d <= a[d]
  BY DEF EarlierArchives
<1> QED BY <1>1, <1>2, Constants DEF IsCounts

\* Every missing date before an earlier object is taken for a failed one at first.
LEMMA IInvInit == Init => IInv
<1> SUFFICES ASSUME Init PROVE IInv
  OBVIOUS
<1>1. /\ IsCounts(archive, Date)
      /\ \A d \in DOMAIN archive :
            d \in Date /\ archive[d] \in Date /\ d <= archive[d] /\ archive[d] <= FirstDay
  BY EarlierArchiveType DEF Init
<1>2. TypeOK
  BY <1>1, Constants DEF Init, TypeOK, HostInit, HostStates, NytStates, RtStates, Gaps
<1>3. InTurn /\ InTime /\ LettersSoFar
  BY <1>1, Constants DEF Init, InTurn, InTime, LettersSoFar, HostInit
<1>4. Covered
  BY DEF Init, Covered, AsksOnlyBehindArchive, GapsAreFailures
<1> QED BY <1>2, <1>3, <1>4 DEF IInv
-------------------------------------------------------------------------------
\* What the actions leave alone, grouped: a step changes either the archive's side
\* (a write), or the loop's, or only the host's and the letters'.
nytUnchanged == UNCHANGED <<nytVars, awsVars>>

\* A step of the host or the letters keeps everything that is said of the dates.
LEMMA DatesKept ==
    ASSUME IInv, nytUnchanged
    PROVE  InTime' /\ Covered'
  BY DEF IInv, nytUnchanged, nytVars, awsVars, InTime, Covered, AsksOnlyBehindArchive,
         GapsAreFailures, Gaps

\* So does one of the dates with the letters.
LEMMA LettersKept ==
    ASSUME IInv, UNCHANGED <<rtVars, rtFiles>>
    PROVE  LettersSoFar'
  BY DEF IInv, rtVars, LettersSoFar

\* The end of the process leaves no miner at work, and what lasts is as it was.
LEMMA EndsStep == ASSUME IInv, ProcessEnds PROVE IInv'
<1> USE DEF ProcessEnds, Die, NytDies, RtDies, awsVars
<1>1. TypeOK'
  BY DEF IInv, TypeOK, HostStates, NytStates, RtStates
<1>2. InTurn' /\ InTime' /\ LettersSoFar'
  BY DEF IInv, InTurn, InTime, LettersSoFar
<1>3. Covered'
  BY DEF IInv, Covered, AsksOnlyBehindArchive, GapsAreFailures, Gaps
<1> QED BY <1>1, <1>2, <1>3 DEF IInv

\* The constructor finds the position behind the archive; whatever is missing before
\* it is a gap, hence a failure.
LEMMA OpenStep == ASSUME IInv, OpenNyt PROVE IInv'
<1> USE DEF OpenNyt, Resolved, OpenStorage, StartNyt, rtVars, hostVars
<1>1. /\ latest' \in 0 .. LastDay + 1 /\ date' = latest' /\ nyt' = "checking"
      /\ \A d \in DOMAIN archive : d < latest'
      /\ \A d \in MinDate .. latest' - 1 : d \in DOMAIN archive \/ d \in failed
  <2>1. CASE FoundDates = {}
    BY <2>1, Constants DEF FoundDates
  <2>2. CASE FoundDates # {}
    <3>1. PICK m \in FoundDates : IsLatest(m) /\ latest' = m + 1
      BY <2>2
    <3>2. m \in Date /\ \A d \in DOMAIN archive : d \in Date /\ d <= m
      BY <3>1, Constants DEF IsLatest, FoundDates, IInv, TypeOK, IsCounts
    <3>3. \A d \in MinDate .. m : d = m \/ d < m
      BY <3>2, Constants
    <3>4. \A d \in MinDate .. m : d \in DOMAIN archive \/ d \in failed
      <4>1. CASE m \in DOMAIN archive
        BY <3>2, <3>3, <4>1, Constants DEF IInv, Covered, GapsAreFailures, Gaps
      <4>2. CASE m \notin DOMAIN archive
        BY <3>1, <4>2, Constants DEF FoundDates
      <4> QED BY <4>1, <4>2
    <3> QED BY <3>1, <3>2, <3>4, Constants
  <2> QED BY <2>1, <2>2
<1>2. TypeOK'
  BY <1>1 DEF IInv, TypeOK, HostStates, NytStates
<1>3. InTurn' /\ InTime'
  BY DEF IInv, TypeOK, InTurn, InTime, Running, At
<1>4. Covered'
  BY <1>1 DEF IInv, Covered, AsksOnlyBehindArchive, GapsAreFailures, Gaps
<1> QED BY <1>2, <1>3, <1>4, LettersKept DEF IInv

\* A date that is refused fails, and the loop moves behind it.
LEMMA LoopStep == ASSUME IInv, NytLoop PROVE IInv'
<1> USE DEF NytLoop, awsVars, hostVars, rtVars
<1>a. date \in 0 .. LastDay + 1 /\ today \in FirstDay .. LastDay
  BY DEF IInv, TypeOK
<1>1. CASE AskDate \/ LoopEnds \/ AnswerThrows
  BY <1>1, <1>a, Constants, LettersKept
     DEF IInv, TypeOK, InTurn, Running, At, InTime, Covered, AsksOnlyBehindArchive,
         GapsAreFailures, Gaps, AskDate, LoopEnds, AnswerThrows, NytStates
<1>2. CASE AnswerRefused
  <2>1. date <= today /\ date \in Date /\ date' = date + 1 /\ failed' = failed \cup {date}
    BY <1>2, <1>a, Constants DEF IInv, InTime, AnswerRefused
  <2>2. TypeOK'
    BY <1>2, <2>1, <1>a, Constants DEF IInv, TypeOK, AnswerRefused, NytStates
  <2>3. InTurn' /\ InTime'
    BY <1>2 DEF IInv, InTurn, Running, At, InTime, AnswerRefused
  <2>4. AsksOnlyBehindArchive'
    <3>1. \A d \in DOMAIN archive : d \in Date
      BY DEF IInv, TypeOK, IsCounts
    <3> QED BY <1>2, <2>1, <3>1, Constants
               DEF IInv, Covered, AsksOnlyBehindArchive, AnswerRefused
  <2>5. GapsAreFailures'
    BY <1>2 DEF IInv, Covered, GapsAreFailures, Gaps, AnswerRefused
  <2> QED BY <2>2, <2>3, <2>4, <2>5, LettersKept DEF IInv, Covered
<1>3. CASE AnswerArrives
  BY <1>3, <1>a, Constants, LettersKept
     DEF IInv, TypeOK, InTurn, Running, At, InTime, Covered, AsksOnlyBehindArchive,
         GapsAreFailures, Gaps, AnswerArrives, NytStates
<1> QED BY <1>1, <1>2, <1>3

\* What a write does to the dates: an object behind all others, or a failure.
LEMMA WriteShape ==
    ASSUME IInv, NytWrite
    PROVE  /\ nyt = "writing" /\ nyt' = "checking" /\ date' = date + 1
           /\ date \in Date /\ answered \in Date
           /\ date <= answered /\ answered <= today
           /\ \/ archive' = Put(archive, date, answered) /\ failed' = failed
              \/ archive' = Put(archive, date, answered) /\ failed' = failed \cup {date}
              \/ archive' = archive /\ failed' = failed \cup {date}
           /\ latest' \in {latest, date + 1}
           /\ UNCHANGED <<answered, today, strays>>
<1>1. /\ nyt = "writing" /\ nyt' = "checking" /\ date' = date + 1
      /\ UNCHANGED <<answered, today, strays>>
  BY DEF NytWrite, WriteReturns, WriteStored, WriteUnconfirmed, WriteLost, awsVars
<1>2. date <= answered /\ answered <= today /\ date \in Date /\ answered \in Date
  BY <1>1, Constants DEF IInv, InTime, TypeOK
<1>3. /\ \/ archive' = Put(archive, date, answered) /\ failed' = failed
         \/ archive' = Put(archive, date, answered) /\ failed' = failed \cup {date}
         \/ archive' = archive /\ failed' = failed \cup {date}
      /\ latest' \in {latest, date + 1}
  BY DEF NytWrite, WriteReturns, WriteStored, WriteUnconfirmed, WriteLost, awsVars
<1> QED BY <1>1, <1>2, <1>3

\* The new object, or the failure, is at the loop's position, and everything before
\* that was covered.
LEMMA WriteStep == ASSUME IInv, NytWrite PROVE IInv'
<1>1. /\ nyt = "writing" /\ nyt' = "checking" /\ date' = date + 1
      /\ date \in Date /\ answered \in Date
      /\ date <= answered /\ answered <= today
      /\ latest' \in {latest, date + 1}
      /\ UNCHANGED <<answered, today, strays>>
  BY WriteShape
<1>2. UNCHANGED <<rtVars, rtFiles, hostVars>>
  BY DEF NytWrite
<1>3. /\ IsCounts(archive, Date)
      /\ \A d \in DOMAIN archive : d \in Date /\ d < date /\ archive[d] \in Date
                                   /\ d <= archive[d] /\ archive[d] <= today
      /\ \A d \in MinDate .. date - 1 : d \in DOMAIN archive \/ d \in failed
      /\ failed \subseteq Date
      /\ latest \in 0 .. LastDay + 1 /\ today \in FirstDay .. LastDay
  BY <1>1 DEF IInv, TypeOK, IsCounts, InTime, Covered, AsksOnlyBehindArchive
<1>4. /\ IsCounts(archive', Date)
      /\ \A d \in DOMAIN archive' : d \in Date /\ d <= date /\ archive'[d] \in Date
                                    /\ d <= archive'[d] /\ archive'[d] <= today
      /\ DOMAIN archive \subseteq DOMAIN archive'
      /\ failed \subseteq failed' /\ failed' \subseteq Date
      /\ date \in DOMAIN archive' \/ date \in failed'
  <2>1. CASE archive' = archive /\ failed' = failed \cup {date}
    BY <1>1, <1>3, <2>1
  <2>2. CASE archive' = Put(archive, date, answered) /\ failed' \in {failed, failed \cup {date}}
    <3>0. \A d \in DOMAIN archive : d # date
      BY <1>1, <1>3, Constants
    <3>1. /\ IsCounts(archive', Date)
          /\ DOMAIN archive' = DOMAIN archive \cup {date}
          /\ archive'[date] = answered
          /\ \A d \in DOMAIN archive : archive'[d] = archive[d]
      <4>1. IsCounts(archive, Date) /\ \A d \in DOMAIN archive : archive[d] \in Date
        BY <1>3
      <4>2. /\ IsCounts(Put(archive, date, answered), Date)
            /\ DOMAIN Put(archive, date, answered) = DOMAIN archive \cup {date}
            /\ Put(archive, date, answered)[date] = answered
            /\ \A d \in DOMAIN archive : d # date => Put(archive, date, answered)[d] = archive[d]
        <5>1. date \in Date /\ answered \in Date /\ answered \in Nat
          BY <1>1, Constants
        <5> QED BY <4>1, <5>1 DEF IsCounts, Put
      <4> QED BY <2>2, <3>0, <4>2
    <3>2. \A d \in DOMAIN archive : d <= date
      BY <1>1, <1>3, Constants
    <3>3. \A d \in DOMAIN archive' : d \in Date /\ d <= date /\ archive'[d] \in Date
                                     /\ d <= archive'[d] /\ archive'[d] <= today
      BY <1>1, <1>3, <3>1, <3>2
    <3> QED BY <1>1, <1>3, <2>2, <3>1, <3>3
  <2> QED BY <2>1, <2>2, WriteShape
<1>5. \A d \in MinDate .. date : d = date \/ d \in MinDate .. date - 1
  BY <1>1, Constants
<1>6. TypeOK'
  BY <1>1, <1>2, <1>3, <1>4, Constants DEF IInv, TypeOK, NytStates, rtVars, hostVars
<1>7. InTurn' /\ InTime'
  BY <1>1, <1>2, <1>4 DEF IInv, InTurn, InTime, Running, At, rtVars, hostVars
<1>8. Covered'
  <2>1. \A d \in MinDate .. date : d \in DOMAIN archive' \/ d \in failed'
    BY <1>3, <1>4, <1>5
  <2>2. AsksOnlyBehindArchive'
    BY <1>1, <1>4, <2>1, Constants DEF AsksOnlyBehindArchive
  <2>3. GapsAreFailures'
    BY <1>1, <1>4, <2>1, Constants DEF GapsAreFailures, Gaps
  <2> QED BY <2>2, <2>3 DEF Covered
<1> QED BY <1>2, <1>6, <1>7, <1>8, LettersKept DEF IInv

\* A letter gets its object or its failure, and the loop moves behind it.
LEMMA LetterStep == ASSUME IInv, RtLoop \/ RtWrite PROVE IInv'
<1> USE DEF RtLoop, RtWrite, rtVars, hostVars
<1>1. InTime' /\ Covered'
  BY DatesKept DEF nytUnchanged
<1>2. UNCHANGED <<nytVars, awsVars, hostVars>>
  OBVIOUS
<1>3. letter \in 1 .. Letters /\ (rt \in {"asking", "writing"} => letter < Letters)
  BY DEF IInv, TypeOK, LettersSoFar
<1>4. CASE RtAnswerThrows \/ RtAnswerArrives
  <2>1. rt = "asking" /\ rt' \in {"faulted", "writing"} /\ UNCHANGED <<letter, rtFailed, rtFiles>>
    BY <1>4 DEF RtAnswerThrows, RtAnswerArrives, RtWriteReturns
  <2>2. LettersSoFar'
    BY <2>1 DEF IInv, LettersSoFar
  <2>3. TypeOK' /\ InTurn'
    BY <1>2, <2>1 DEF IInv, TypeOK, InTurn, Running, At, RtStates, nytVars, awsVars
  <2> QED BY <1>1, <2>2, <2>3 DEF IInv
<1>5. ASSUME rt \in {"asking", "writing"}, NextLetter,
             rtFiles' \in {rtFiles, rtFiles \cup {letter}},
             rtFailed' \in {rtFailed, rtFailed \cup {letter}},
             letter \in rtFiles' \cup rtFailed'
      PROVE  IInv'
  <2>1. letter' = letter + 1 /\ rt' \in {"asking", "ended"} /\ letter < Letters
        /\ (rt' = "asking" => letter' < Letters) /\ (rt' = "ended" => letter' = Letters)
    BY <1>3, <1>5, Constants DEF NextLetter
  <2>2. 1 .. letter' - 1 \subseteq (rtFiles' \cup rtFailed')
    BY <1>3, <1>5, <2>1, Constants DEF IInv, LettersSoFar
  <2>3. rtFiles' \subseteq 1 .. Letters - 1 /\ rtFailed' \subseteq 1 .. Letters - 1
    BY <1>3, <1>5, <2>1, Constants DEF IInv, LettersSoFar
  <2>4. LettersSoFar'
    BY <2>1, <2>2, <2>3 DEF LettersSoFar
  <2>5. TypeOK'
    BY <1>2, <1>3, <2>1, <2>3, Constants DEF IInv, TypeOK, RtStates, nytVars, awsVars
  <2>6. InTurn'
    BY <1>2, <1>5 DEF IInv, InTurn, Running, At, nytVars
  <2> QED BY <1>1, <2>4, <2>5, <2>6 DEF IInv
<1>6. CASE RtAnswerRefused /\ UNCHANGED rtFiles
  BY <1>5, <1>6 DEF RtAnswerRefused
<1>7. CASE RtWrite
  BY <1>5, <1>7 DEF RtWriteReturns
<1> QED BY <1>4, <1>6, <1>7

\* The other steps of the host.
LEMMA HostStep ==
    ASSUME IInv, LaunchProcess \/ OpenRt \/ NytDone \/ RtDone \/ NextPass
    PROVE  IInv'
<1> USE DEF nytUnchanged, nytVars, awsVars, rtVars
<1>1. CASE LaunchProcess \/ NextPass
  <2>1. /\ UNCHANGED <<nytVars, rtVars, awsVars, rtFiles, order>>
        /\ host \in {"down", "sleeping"} /\ host' = "resolving" /\ turn' = 1
    BY <1>1 DEF LaunchProcess, NextPass, Launch, PassAgain
  <2>2. TypeOK' /\ InTurn'
    BY <2>1 DEF IInv, TypeOK, InTurn, Running, HostStates
  <2>3. InTime' /\ Covered'
    BY <2>1, DatesKept
  <2> QED BY <2>1, <2>2, <2>3, LettersKept DEF IInv
<1>2. CASE OpenRt
  <2>1. LettersSoFar'
    BY <1>2, Constants DEF OpenRt, StartRt, IInv, LettersSoFar
  <2> QED BY <1>2, <2>1, DatesKept, Constants
             DEF OpenRt, StartRt, Resolved, IInv, TypeOK, InTurn, Running, At, HostStates, RtStates
<1>3. CASE NytDone
  BY <1>3, LettersKept
     DEF NytDone, ModuleDone, DisposeNyt, IInv, TypeOK, InTurn, Running, At, HostStates,
         NytStates, InTime, Covered, AsksOnlyBehindArchive, GapsAreFailures, Gaps
<1>4. CASE RtDone
  <2>1. LettersSoFar'
    BY <1>4 DEF RtDone, DisposeRt, IInv, LettersSoFar
  <2> QED BY <1>4, <2>1, DatesKept
             DEF RtDone, ModuleDone, DisposeRt, IInv, TypeOK, InTurn, Running, At, HostStates,
                 RtStates
<1> QED BY <1>1, <1>2, <1>3, <1>4

\* The clock only moves on.
LEMMA TickStep == ASSUME IInv, ClockTicks PROVE IInv'
<1> USE DEF ClockTicks, Midnight, hostVars, rtVars, awsVars
<1>1. today \in Int /\ today < today' /\ today' \in FirstDay .. LastDay
  BY Constants DEF IInv, TypeOK
<1>2. TypeOK' /\ InTurn'
  BY <1>1 DEF IInv, TypeOK, InTurn, Running, At
<1>3. InTime'
  BY <1>1, Constants DEF IInv, TypeOK, InTime
<1>4. Covered'
  BY DEF IInv, Covered, AsksOnlyBehindArchive, GapsAreFailures, Gaps
<1> QED BY <1>2, <1>3, <1>4, LettersKept DEF IInv

\* Every step keeps the invariant.
LEMMA IInvNext == IInv /\ [Next]_vars => IInv'
<1> SUFFICES ASSUME IInv, [Next]_vars PROVE IInv'
  OBVIOUS
<1>1. CASE UNCHANGED vars
  BY <1>1 DEF vars, nytVars, rtVars, hostVars, awsVars, IInv, TypeOK, InTurn, Running, At,
              InTime, Covered, AsksOnlyBehindArchive, GapsAreFailures, Gaps, LettersSoFar
<1>2. CASE Next
  BY <1>2, EndsStep, OpenStep, LoopStep, WriteStep, LetterStep, HostStep, TickStep
     DEF Next, ProcessStep, Fault, Crash
<1> QED BY <1>1, <1>2

\* The invariant is inductive.
THEOREM Invariance == Spec => []IInv
  BY IInvInit, IInvNext, PTL DEF Spec

\* Type correctness of the host, its miners and their storage.
THEOREM TypeCorrect == Spec => []TypeOK
  BY Invariance, PTL DEF IInv

\* A crash, a restart or a midnight never costs a date.
THEOREM CrashesCostNothing == Spec => []GapsAreFailures
  BY Invariance, PTL DEF IInv, Covered

\* The loop is always behind the archive, and nothing before it is unaccounted for.
THEOREM LoopIsBehindArchive == Spec => []AsksOnlyBehindArchive
  BY Invariance, PTL DEF IInv, Covered

\* All letters but the last are asked for, and the last one never has an object.
THEOREM LettersAsked == Spec => []LettersButTheLast
<1>1. IInv => LettersButTheLast
  <2>1. Letters \notin 1 .. Letters - 1
    BY Constants
  <2> QED BY <2>1 DEF IInv, LettersSoFar, LettersButTheLast
<1> QED BY <1>1, Invariance, PTL
-------------------------------------------------------------------------------
\* Init leaves a log of days.
LEMMA RefinementInit == Init => Promise!Init
  BY EarlierArchiveType, Constants DEF Init, Promise!Init, Promise!IsCounts, IsCounts

\* Only a write that reaches S3 adds to the log, and only the clock moves the day.
LEMMA RefinementNext ==
    IInv /\ [Next]_vars => [Promise!Next]_<<archive, today>>
<1> SUFFICES ASSUME IInv, [Next]_vars,
                    ~ UNCHANGED <<archive, today>>
             PROVE  Promise!Next
  OBVIOUS
<1>1. NytWrite \/ ClockTicks
  BY DEF vars, Next, ProcessStep, LaunchProcess, OpenNyt, OpenRt, NytDone, RtDone, NextPass,
         Fault, Crash, ProcessEnds, NytDies, NytLoop, AskDate, LoopEnds, AnswerThrows,
         AnswerRefused, AnswerArrives, RtLoop, RtWrite, OpenStorage, StartNyt, DisposeNyt,
         nytVars, awsVars
<1>2. CASE NytWrite
  <2>1. /\ archive' = Put(archive, date, answered) /\ today' = today
        /\ date \in Date /\ answered \in Date /\ date <= answered /\ answered <= today
    BY <1>2, WriteShape
  <2>2. Promise!Latest(date)
    BY <1>2, WriteShape DEF IInv, Covered, AsksOnlyBehindArchive, Promise!Latest
  <2> QED BY <2>1, <2>2 DEF Promise!Next, Promise!Append, Promise!Put, Put
<1>3. CASE ClockTicks
  BY <1>3 DEF ClockTicks, Midnight, awsVars, Promise!Next, Promise!DayPasses
<1> QED BY <1>1, <1>2, <1>3

\* The release build implements DateArchive, through crashes and lost writes.
THEOREM Refinement == Spec => ImplementsDateArchive
<1>1. Init => Promise!Init
  BY RefinementInit
<1>2. IInv /\ [Next]_vars => [Promise!Next]_<<archive, today>>
  BY RefinementNext
<1> QED BY <1>1, <1>2, Invariance, PTL DEF Spec, ImplementsDateArchive, Promise!Spec
===============================================================================
