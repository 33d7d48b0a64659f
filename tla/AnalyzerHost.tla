----------------------------- MODULE AnalyzerHost -----------------------------
(***************************************************************************)
(* DiscoverModules.Start and Main of MovieAnalyzer: the jobs side by side  *)
(* in Parallel.ForEach, what a fault of one does to the others, and the    *)
(* end of the process.  What a job does inside is GenreJob's and NytJob's; *)
(* here a job is only the steps that the host or another job can notice:   *)
(* it may fault until it writes, it leaves callbacks behind, and one of    *)
(* its callbacks may throw where nobody catches.                           *)
(***************************************************************************)
EXTENDS Integers, FiniteSets

CONSTANTS
    Job,        \* the modules that MEF found
    GenreJobs,  \* those whose callbacks index a dictionary by a read string
    FileCounts, \* bound: how many callbacks a job may leave behind
    MaxWorkers  \* bound: workers that Parallel.ForEach uses

ASSUME JobAssumption == IsFiniteSet(Job) /\ GenreJobs \subseteq Job
ASSUME BoundsAssumption == FileCounts \subseteq Nat /\ MaxWorkers \in Nat /\ MaxWorkers >= 1

VARIABLES
    main,     \* where Main is: in the loop, at ReadLine, or thrown out of it
    workers,  \* how many workers the scheduler gives the loop
    job,      \* job[j]: where the body and the task of j are
    late,     \* late[j]: its callbacks that have not ended
    client,   \* client[j]: its storage client
    output,   \* output[j]: its object in AnalysisOutput
    exited    \* whether the process has ended

vars == <<main, workers, job, late, client, output, exited>>

JobStates == {"pending", "claimed", "listing", "tallying", "disposing", "ended",
              "faulted", "rethrown"}

\* A worker is waiting for the task of j.
Busy(j) == job[j] \in {"claimed", "listing", "tallying", "disposing", "faulted"}

\* The exception of a body has been seen: no worker takes another module.
Stopped == \E j \in Job : job[j] = "rethrown"

\* A worker is free: each busy job has one, and a body that threw has ended its own.
WorkerFree == Cardinality({j \in Job : Busy(j) \/ job[j] = "rethrown"}) < workers

Init ==
    /\ main = "looping"
    /\ workers \in 1 .. MaxWorkers
    /\ job = [j \in Job |-> "pending"]
    /\ late = [j \in Job |-> 0]
    /\ client = [j \in Job |-> "none"]
    /\ output = [j \in Job |-> "old"]
    /\ exited = FALSE
-------------------------------------------------------------------------------
(***************************************************************************)
(* The body of the loop for one module, and its task.                      *)
(***************************************************************************)

\* A worker takes the next module.  That nothing has been thrown is checked here, and
\* a module that was taken is run also if something is thrown meanwhile.
Claim(j) ==
    /\ main = "looping"
    /\ job[j] = "pending"
    /\ ~ Stopped
    /\ WorkerFree
    /\ job' = [job EXCEPT ![j] = "claimed"]
    /\ UNCHANGED <<main, workers, late, client, output>>

\* Resolve constructs the storage client of this job alone.
Begin(j) ==
    /\ job[j] = "claimed"
    /\ job' = [job EXCEPT ![j] = "listing"]
    /\ client' = [client EXCEPT ![j] = "open"]
    /\ UNCHANGED <<main, workers, late, output>>

\* The callbacks are started, and the inner ForEach returns before they end.
StartCallbacks(j) ==
    /\ job[j] = "listing"
    /\ job' = [job EXCEPT ![j] = "tallying"]
    /\ \E n \in FileCounts : late' = [late EXCEPT ![j] = n]
    /\ UNCHANGED <<main, workers, client, output>>

\* The output is written, or not, which the job does not look at.
Write(j) ==
    /\ job[j] = "tallying"
    /\ job' = [job EXCEPT ![j] = "disposing"]
    /\ \E o \in {"new", output[j]} : output' = [output EXCEPT ![j] = o]
    /\ UNCHANGED <<main, workers, late, client>>

DisposeModule(j) ==
    /\ job[j] = "disposing"
    /\ job' = [job EXCEPT ![j] = "ended"]
    /\ client' = [client EXCEPT ![j] = "closed"]
    /\ UNCHANGED <<main, workers, late, output>>

\* The constructor, the listing or the enumeration throws: Dispose is passed over.
TaskFaults(j) ==
    /\ job[j] \in {"claimed", "listing", "tallying"}
    /\ job' = [job EXCEPT ![j] = "faulted"]
    /\ UNCHANGED <<main, workers, late, client, output>>

BugAfterWait == "faulted"
BugAfterWaitAgain == "pending"
\* task.Wait() throws in the body.
AfterWait == "rethrown"

Rethrow(j) ==
    /\ job[j] = "faulted"
    /\ job' = [job EXCEPT ![j] = AfterWait]
    /\ UNCHANGED <<main, workers, late, client, output>>

InFlight(j) == late[j] > 0

CallbackEnds(j) ==
    /\ InFlight(j)
    /\ late' = [late EXCEPT ![j] = @ - 1]
    /\ UNCHANGED <<main, workers, job, client, output>>

\* ContainsKey(null) throws inside an async void lambda: the pool thread's exception
\* ends the process, whatever the other jobs are at.
CallbackThrows(j) ==
    /\ InFlight(j)
    /\ j \in GenreJobs
    /\ exited' = TRUE
    /\ UNCHANGED <<main, workers, job, late, client, output>>
-------------------------------------------------------------------------------
(***************************************************************************)
(* The loop and Main.                                                      *)
(***************************************************************************)

BugNoneBusy == \E j \in Job : ~ Busy(j)
NoneBusy == \A j \in Job : ~ Busy(j)

\* Every module has been run: Start returns, and Main waits for Enter.
LoopReturns ==
    /\ main = "looping"
    /\ NoneBusy
    /\ ~ Stopped
    /\ \A j \in Job : job[j] # "pending"
    /\ main' = "waiting"
    /\ UNCHANGED <<workers, job, late, client, output>>

\* ForEach throws its AggregateException when its workers have ended.
LoopThrows ==
    /\ main = "looping"
    /\ NoneBusy
    /\ Stopped
    /\ main' = "threw"
    /\ UNCHANGED <<workers, job, late, client, output>>

\* Enter, or the exception that Main does not catch, ends the process.
Exit ==
    /\ main \in {"waiting", "threw"}
    /\ exited' = TRUE
    /\ UNCHANGED <<main, workers, job, late, client, output>>

JobStep(j) ==
    \/ Claim(j) \/ Begin(j) \/ StartCallbacks(j) \/ Write(j) \/ DisposeModule(j)
    \/ TaskFaults(j) \/ Rethrow(j)

LoopStep == LoopReturns \/ LoopThrows \/ \E j \in Job : JobStep(j)

Step ==
    /\ ~ exited
    /\ \/ UNCHANGED exited /\ (LoopStep \/ \E j \in Job : CallbackEnds(j))
       \/ Exit
       \/ \E j \in Job : CallbackThrows(j)

Terminated == exited /\ UNCHANGED vars

Next == Step \/ Terminated

Spec == Init /\ [][Next]_vars

\* The loop has at least the calling thread as its worker, and the tasks it waits for are
\* served by the thread pool.
FairSpec == Spec /\ WF_vars(~ exited /\ UNCHANGED exited /\ LoopStep)
-------------------------------------------------------------------------------
TypeOK ==
    /\ main \in {"looping", "waiting", "threw"}
    /\ workers \in 1 .. MaxWorkers
    /\ job \in [Job -> JobStates]
    /\ late \in [Job -> Nat]
    /\ client \in [Job -> {"none", "open", "closed"}]
    /\ output \in [Job -> {"old", "new"}]
    /\ exited \in BOOLEAN

\* When the loop is over, however it ended, no task is still running; a module that was
\* never run was left out because of another's fault, and has not touched its output; and
\* the clients still open are those of jobs that faulted, which nobody disposes of.
SettledAfterLoop ==
    main # "looping" =>
        /\ \A j \in Job : job[j] \in {"pending", "ended", "rethrown"}
        /\ (main = "waiting") = (\A j \in Job : job[j] = "ended")
        /\ \A j \in Job : job[j] = "pending" => output[j] = "old" /\ client[j] = "none"
        /\ \A j \in Job : client[j] = "open" => job[j] = "rethrown"

PhaseOf(j) ==
    CASE job[j] \in {"pending", "claimed", "listing"} -> "starting"
      [] job[j] = "disposing" -> "closing"
      [] job[j] \in {"faulted", "rethrown"} -> "failed"
      [] OTHER -> job[j]

Alone(j) ==
    INSTANCE HostedJob WITH phase <- PhaseOf(j), late <- late[j], output <- output[j]

\* Each job behaves as HostedJob says, as if it ran alone: a fault of another one, or the
\* loop's end, keeps it from starting or ends the process, and never makes it write twice,
\* write after a fault, or lose a callback.  (Alone(j)!Spec for all j, with the quantifier
\* inside the box.)
JobsAsAlone ==
    /\ \A j \in Job : Alone(j)!Init
    /\ [][\A j \in Job : [Alone(j)!Next]_(Alone(j)!vars)]_vars

JobStages == [pending |-> 6, claimed |-> 5, listing |-> 4, tallying |-> 3, disposing |-> 2,
              faulted |-> 1, ended |-> 0, rethrown |-> 0]

Nearer(j) ==
    \/ JobStages[job'[j]] < JobStages[job[j]]
    \/ job'[j] = job[j] /\ late'[j] < late[j]

\* Each step ends the process or the loop, or brings one job nearer to its end and leaves
\* the others where they are: no module is run a second time, and no fault sets another job
\* back, so that the loop has only so many steps.
LoopShortens ==
    [][\/ exited' # exited
       \/ main = "looping" /\ main' # main /\ UNCHANGED <<job, late>>
       \/ \E j \in Job : /\ Nearer(j)
                         /\ \A i \in Job \ {j} : UNCHANGED <<job[i], late[i]>>]_vars

\* The loop ends, whichever jobs fault: no fault leaves it waiting for a job.
LoopEnds == <>(main # "looping" \/ exited)
===============================================================================
