------------------------------ MODULE MinerHost ------------------------------
(***************************************************************************)
(* The process the miners run in: DiscoverModules.Start, which runs one    *)
(* module after the other and waits for each, in the order in which MEF    *)
(* found them, and its two callers, ScheduledService.OnStart, which calls  *)
(* it again and again, and Program.Main, which ends after one pass.        *)
(***************************************************************************)
EXTENDS Integers

VARIABLES
    host,    \* where the process is; "down": there is none
    order,   \* the order of the modules
    turn     \* the module that foreach is at

hostVars == <<host, order, turn>>

HostStates == {"down", "resolving", "running", "sleeping"}
Orders == {<<"nyt", "rt">>, <<"rt", "nyt">>}

HostInit ==
    /\ host = "down"
    /\ order \in Orders
    /\ turn = 1

At(module) == order[turn] = module

Launch ==
    /\ host = "down"
    /\ host' = "resolving"
    /\ turn' = 1
    /\ UNCHANGED order

\* The container has constructed a storage client for the module, which starts.
Resolved(module) ==
    /\ host = "resolving"
    /\ At(module)
    /\ host' = "running"
    /\ UNCHANGED <<order, turn>>

Running(module) == host = "running" /\ At(module)

\* task.Wait() returns: foreach goes on, or the pass is over.
ModuleDone(module) ==
    /\ Running(module)
    /\ host' = IF turn = 2 THEN "sleeping" ELSE "resolving"
    /\ turn' = IF turn = 2 THEN turn ELSE turn + 1
    /\ UNCHANGED order

\* Thread.Sleep(100000) is over, and stopped is still false: OnStop never gets
\* to set it, as lock (lockObject) throws on the null lockObject.
PassAgain ==
    /\ host = "sleeping"
    /\ host' = "resolving"
    /\ turn' = 1
    /\ UNCHANGED order

\* An exception that task.Wait() rethrows, or that Resolve throws, is caught by
\* nobody; Main returns after its pass; and a process may be ended at any time.
Die ==
    /\ host # "down"
    /\ host' = "down"
    /\ turn' = 1
    /\ UNCHANGED order
==============================================================================
