--------------------------- MODULE AnalyzerHostProofs ---------------------------
(***************************************************************************)
(* AnalyzerHost for every set of jobs and any number of workers: the type  *)
(* invariant, what is settled when the loop is over, that each job is what *)
(* it would be alone, and that the loop has only so many steps.            *)
(***************************************************************************)
EXTENDS AnalyzerHost, TLAPS

\* What a job has touched, by where it is: nothing before its task begins, and its client
\* is open only between Resolve and Dispose or if it faulted.
Touched(j) ==
    /\ job[j] = "pending" => output[j] = "old"
    /\ job[j] \in {"pending", "claimed"} => client[j] = "none"
    /\ client[j] = "open" =>
           job[j] \in {"listing", "tallying", "disposing", "faulted", "rethrown"}

\* Once the loop is over no job moves, and Main knows whether one was rethrown.
Over ==
    /\ main # "looping" => \A j \in Job : ~ Busy(j)
    /\ main = "waiting" => \A j \in Job : job[j] = "ended"
    /\ main = "threw" => \E j \in Job : job[j] = "rethrown"

IInv == TypeOK /\ (\A j \in Job : Touched(j)) /\ Over
-------------------------------------------------------------------------------
\* Init establishes the inductive invariant.
LEMMA InitIInv == Init => IInv
  <1>. SUFFICES ASSUME Init
                PROVE  IInv
    OBVIOUS
  <1>2. TypeOK
    BY DEF Init, TypeOK, JobStates
  <1>3. \A j \in Job : Touched(j)
    BY DEF Init, Touched
  <1>4. Over
    BY DEF Init, Over
  <1>. QED  BY <1>2, <1>3, <1>4 DEF IInv

\* A step of one job's body or task keeps it: such a job is busy or pending while the
\* loop runs, and touches nothing of the others.
LEMMA JobStepIInv ==
    ASSUME IInv, NEW j \in Job, JobStep(j), UNCHANGED exited
    PROVE  IInv'
  <1>1. main = "looping"
    <2>1. CASE Claim(j)
      BY <2>1 DEF Claim
    <2>2. CASE Begin(j) \/ StartCallbacks(j) \/ Write(j) \/ DisposeModule(j)
               \/ TaskFaults(j) \/ Rethrow(j)
      <3>1. Busy(j)
        BY <2>2 DEF Begin, StartCallbacks, Write, DisposeModule, TaskFaults, Rethrow, Busy
      <3>. QED  BY <3>1 DEF IInv, Over
    <2>. QED  BY <2>1, <2>2 DEF JobStep
  <1>2. main' = main
    BY DEF JobStep, Claim, Begin, StartCallbacks, Write, DisposeModule, TaskFaults, Rethrow
  <1>3. Over'
    BY <1>1, <1>2 DEF Over
  <1>4. TypeOK' /\ \A i \in Job : Touched(i)'
    <2>1. CASE Claim(j)
      BY <2>1 DEF Claim, IInv, TypeOK, JobStates, Touched
    <2>2. CASE Begin(j)
      BY <2>2 DEF Begin, IInv, TypeOK, JobStates, Touched
    <2>3. CASE StartCallbacks(j)
      BY <2>3, BoundsAssumption DEF StartCallbacks, IInv, TypeOK, JobStates, Touched
    <2>4. CASE Write(j)
      BY <2>4 DEF Write, IInv, TypeOK, JobStates, Touched
    <2>5. CASE DisposeModule(j)
      BY <2>5 DEF DisposeModule, IInv, TypeOK, JobStates, Touched
    <2>6. CASE TaskFaults(j)
      BY <2>6 DEF TaskFaults, IInv, TypeOK, JobStates, Touched
    <2>7. CASE Rethrow(j)
      BY <2>7 DEF Rethrow, AfterWait, IInv, TypeOK, JobStates, Touched
    <2>. QED  BY <2>1, <2>2, <2>3, <2>4, <2>5, <2>6, <2>7 DEF JobStep
  <1>. QED  BY <1>3, <1>4 DEF IInv

\* A callback that ends moves only its own count, whatever its job is at.
LEMMA CallbackIInv ==
    ASSUME IInv, NEW j \in Job, CallbackEnds(j), UNCHANGED exited
    PROVE  IInv'
  <1>1. late' \in [Job -> Nat]
    <2>1. late[j] \in Nat /\ late[j] > 0
      BY DEF IInv, TypeOK, CallbackEnds, InFlight
    <2>2. late[j] - 1 \in Nat
      BY <2>1
    <2>. QED  BY <2>2 DEF CallbackEnds, IInv, TypeOK
  <1>2. UNCHANGED <<main, workers, job, client, output, exited>>
    BY DEF CallbackEnds
  <1>. QED  BY <1>1, <1>2 DEF IInv, TypeOK, Touched, Over, Busy

\* Every step of the specification keeps the inductive invariant.
LEMMA NextIInv == IInv /\ [Next]_vars => IInv'
  <1>. SUFFICES ASSUME IInv, [Next]_vars
                PROVE  IInv'
    OBVIOUS
  <1>1. ASSUME NEW j \in Job, JobStep(j), UNCHANGED exited
        PROVE  IInv'
    BY <1>1, JobStepIInv
  <1>2. ASSUME NEW j \in Job, CallbackEnds(j), UNCHANGED exited
        PROVE  IInv'
    BY <1>2, CallbackIInv
  <1>3. CASE LoopReturns /\ UNCHANGED exited
    <2>1. \A j \in Job : job[j] = "ended"
      BY <1>3 DEF LoopReturns, NoneBusy, Stopped, Busy, IInv, TypeOK, JobStates
    <2>. QED  BY <1>3, <2>1 DEF LoopReturns, NoneBusy, IInv, TypeOK, Touched, Over, Busy
  <1>4. CASE LoopThrows /\ UNCHANGED exited
    BY <1>4 DEF LoopThrows, NoneBusy, Stopped, IInv, TypeOK, Touched, Over, Busy
  <1>5. CASE Exit
    BY <1>5 DEF Exit, IInv, TypeOK, Touched, Over, Busy
  <1>6. ASSUME NEW j \in Job, CallbackThrows(j)
        PROVE  IInv'
    BY <1>6 DEF CallbackThrows, IInv, TypeOK, Touched, Over, Busy
  <1>7. CASE UNCHANGED vars
    BY <1>7 DEF vars, IInv, TypeOK, Touched, Over, Busy
  <1>. QED
    BY <1>1, <1>2, <1>3, <1>4, <1>5, <1>6, <1>7 DEF Next, Step, Terminated, LoopStep

\* The inductive invariant holds in every behaviour.
THEOREM Invariance == Spec => []IInv
  BY InitIInv, NextIInv, PTL DEF Spec

\* Every variable of the host keeps its type, for any number of jobs and workers.
THEOREM TypeCorrect == Spec => []TypeOK
  <1>1. IInv => TypeOK
    BY DEF IInv
  <1>. QED  BY <1>1, Invariance, PTL

\* When Parallel.ForEach is over nothing it started is still running, the modules that
\* another's fault kept out have touched nothing, and only faulted jobs leave a client
\* open: for every set of jobs, every number of workers and every order of faults.
THEOREM Settled == Spec => []SettledAfterLoop
  <1>1. IInv => SettledAfterLoop
    <2>. SUFFICES ASSUME IInv, main # "looping"
                  PROVE  /\ \A j \in Job : job[j] \in {"pending", "ended", "rethrown"}
                         /\ (main = "waiting") = (\A j \in Job : job[j] = "ended")
                         /\ \A j \in Job : job[j] = "pending" =>
                                output[j] = "old" /\ client[j] = "none"
                         /\ \A j \in Job : client[j] = "open" => job[j] = "rethrown"
      BY DEF SettledAfterLoop
    <2>1. \A j \in Job : job[j] \in {"pending", "ended", "rethrown"}
      BY DEF IInv, Over, Busy, TypeOK, JobStates
    <2>2. (main = "waiting") = (\A j \in Job : job[j] = "ended")
      <3>1. main = "waiting" \/ main = "threw"
        BY DEF IInv, TypeOK
      <3>2. main = "waiting" => \A j \in Job : job[j] = "ended"
        BY DEF IInv, Over
      <3>3. main = "threw" => ~ \A j \in Job : job[j] = "ended"
        BY DEF IInv, Over
      <3>. QED  BY <3>1, <3>2, <3>3
    <2>3. \A j \in Job : job[j] = "pending" => output[j] = "old" /\ client[j] = "none"
      BY DEF IInv, Touched
    <2>4. \A j \in Job : client[j] = "open" => job[j] = "rethrown"
      BY <2>1 DEF IInv, Touched
    <2>. QED  BY <2>1, <2>2, <2>3, <2>4
  <1>. QED  BY <1>1, Invariance, PTL
-------------------------------------------------------------------------------
(***************************************************************************)
(* Refinement: what happens to one job is a step of HostedJob or nothing,  *)
(* whichever job's step it is.                                             *)
(***************************************************************************)

\* Each job starts where HostedJob starts.
LEMMA AloneInit == Init => \A j \in Job : Alone(j)!Init
  BY DEF Init, Alone!Init, PhaseOf

\* A step of job i is one of HostedJob for i and leaves every other job where it is.
LEMMA AloneJobStep ==
    ASSUME IInv, ~ exited, UNCHANGED exited, NEW i \in Job, JobStep(i), NEW j \in Job
    PROVE  [Alone(j)!Next]_(Alone(j)!vars)
  <1>1. CASE i # j
    <2>1. job'[j] = job[j] /\ late'[j] = late[j] /\ output'[j] = output[j]
      BY <1>1 DEF IInv, TypeOK, JobStep, Claim, Begin, StartCallbacks, Write,
                  DisposeModule, TaskFaults, Rethrow
    <2>. QED  BY <2>1 DEF Alone!vars, PhaseOf
  <1>2. CASE i = j
    <2>1. CASE Claim(j) \/ Begin(j) \/ Rethrow(j)
      <3>1. PhaseOf(j)' = PhaseOf(j) /\ late'[j] = late[j] /\ output'[j] = output[j]
        BY <2>1 DEF IInv, TypeOK, Claim, Begin, Rethrow, AfterWait, PhaseOf
      <3>. QED  BY <3>1 DEF Alone!vars
    <2>2. CASE StartCallbacks(j)
      <3>1. Alone(j)!StartCallbacks
        BY <2>2 DEF IInv, TypeOK, StartCallbacks, Alone!StartCallbacks, PhaseOf
      <3>. QED  BY <3>1 DEF Alone!Next
    <2>3. CASE Write(j)
      <3>1. Alone(j)!Write
        BY <2>3 DEF IInv, TypeOK, Write, Alone!Write, PhaseOf
      <3>. QED  BY <3>1 DEF Alone!Next
    <2>4. CASE DisposeModule(j)
      <3>1. Alone(j)!Close
        BY <2>4 DEF IInv, TypeOK, DisposeModule, Alone!Close, PhaseOf
      <3>. QED  BY <3>1 DEF Alone!Next
    <2>5. CASE TaskFaults(j)
      <3>1. Alone(j)!Fail
        BY <2>5 DEF IInv, TypeOK, TaskFaults, Alone!Fail, PhaseOf
      <3>. QED  BY <3>1 DEF Alone!Next
    <2>. QED  BY <1>2, <2>1, <2>2, <2>3, <2>4, <2>5 DEF JobStep
  <1>. QED  BY <1>1, <1>2

\* So is every other step: a callback's end is one of its own job, the loop's end is none
\* of any job, and the end of the process is one of all jobs.
LEMMA AloneNext ==
    IInv /\ [Next]_vars => \A j \in Job : [Alone(j)!Next]_(Alone(j)!vars)
  <1>. SUFFICES ASSUME IInv, [Next]_vars, NEW j \in Job
                PROVE  [Alone(j)!Next]_(Alone(j)!vars)
    OBVIOUS
  <1>1. ASSUME ~ exited, UNCHANGED exited, NEW i \in Job, JobStep(i)
        PROVE  [Alone(j)!Next]_(Alone(j)!vars)
    BY <1>1, AloneJobStep
  <1>2. ASSUME ~ exited, UNCHANGED exited, NEW i \in Job, CallbackEnds(i)
        PROVE  [Alone(j)!Next]_(Alone(j)!vars)
    <2>1. CASE i = j
      <3>1. Alone(j)!CallbackEnds
        BY <1>2, <2>1 DEF IInv, TypeOK, CallbackEnds, InFlight, Alone!CallbackEnds, PhaseOf
      <3>. QED  BY <1>2, <3>1 DEF Alone!Next
    <2>2. CASE i # j
      BY <1>2, <2>2 DEF IInv, TypeOK, CallbackEnds, Alone!vars, PhaseOf
    <2>. QED  BY <2>1, <2>2
  <1>3. CASE UNCHANGED exited /\ (LoopReturns \/ LoopThrows)
    BY <1>3 DEF LoopReturns, LoopThrows, Alone!vars, PhaseOf
  <1>4. CASE ~ exited /\ (Exit \/ \E i \in Job : CallbackThrows(i))
    <2>1. Alone(j)!ProcessEnds
      BY <1>4 DEF Exit, CallbackThrows, Alone!ProcessEnds, PhaseOf
    <2>. QED  BY <1>4, <2>1 DEF Alone!Next
  <1>5. CASE UNCHANGED vars
    BY <1>5 DEF vars, Alone!vars, PhaseOf
  <1>. QED
    BY <1>1, <1>2, <1>3, <1>4, <1>5 DEF Next, Step, Terminated, LoopStep

\* In the loop every job is what it would be alone, for every number of jobs and workers.
THEOREM EachAsAlone == Spec => JobsAsAlone
  <1>1. IInv /\ [Next]_vars => [\A j \in Job : [Alone(j)!Next]_(Alone(j)!vars)]_vars
    BY AloneNext
  <1>. QED  BY <1>1, AloneInit, Invariance, PTL DEF Spec, JobsAsAlone
-------------------------------------------------------------------------------
(***************************************************************************)
(* Progress: the loop has only so many steps.                              *)
(***************************************************************************)

\* A step of one job's body or task takes it, and no other, to a later stage.
LEMMA JobStepShortens ==
    ASSUME IInv, NEW j \in Job, JobStep(j)
    PROVE  Nearer(j) /\ \A i \in Job \ {j} : UNCHANGED <<job[i], late[i]>>
  <1>1. JobStages[job'[j]] < JobStages[job[j]]
    BY DEF JobStages, AfterWait, IInv, TypeOK, JobStep, Claim, Begin, StartCallbacks, Write,
           DisposeModule, TaskFaults, Rethrow
  <1>2. \A i \in Job \ {j} : UNCHANGED <<job[i], late[i]>>
    BY DEF IInv, TypeOK, JobStep, Claim, Begin, StartCallbacks, Write, DisposeModule,
           TaskFaults, Rethrow
  <1>. QED  BY <1>1, <1>2 DEF Nearer

\* The end of a callback left behind takes its job nearer to its end, in the stage it is in.
LEMMA CallbackEndShortens ==
    ASSUME IInv, NEW j \in Job, CallbackEnds(j)
    PROVE  Nearer(j) /\ \A i \in Job \ {j} : UNCHANGED <<job[i], late[i]>>
  <1>1. job'[j] = job[j] /\ late'[j] < late[j]
    BY DEF IInv, TypeOK, CallbackEnds, InFlight
  <1>2. \A i \in Job \ {j} : UNCHANGED <<job[i], late[i]>>
    BY DEF IInv, TypeOK, CallbackEnds
  <1>. QED  BY <1>1, <1>2 DEF Nearer

\* No step leaves all jobs, the loop and the process where they are or sets a job back, for
\* every number of jobs, workers and callbacks: the loop cannot go on for ever.
THEOREM LoopIsFinite == Spec => LoopShortens
  <1>. DEFINE Shorter ==
         \/ exited' # exited
         \/ main = "looping" /\ main' # main /\ UNCHANGED <<job, late>>
         \/ \E j \in Job : /\ Nearer(j)
                           /\ \A i \in Job \ {j} : UNCHANGED <<job[i], late[i]>>
  <1>1. IInv /\ [Next]_vars => [Shorter]_vars
    <2>. SUFFICES ASSUME IInv, Next
                  PROVE  Shorter \/ UNCHANGED vars
      OBVIOUS
    <2>1. ASSUME NEW j \in Job, JobStep(j) \/ CallbackEnds(j)
          PROVE  Shorter
      BY <2>1, JobStepShortens, CallbackEndShortens
    <2>2. CASE LoopReturns \/ LoopThrows
      BY <2>2 DEF LoopReturns, LoopThrows
    <2>3. CASE ~ exited /\ (Exit \/ \E j \in Job : CallbackThrows(j))
      BY <2>3 DEF Exit, CallbackThrows
    <2>. QED  BY <2>1, <2>2, <2>3 DEF Next, Step, Terminated, LoopStep
  <1>. QED  BY <1>1, Invariance, PTL DEF Spec, LoopShortens
===============================================================================
