-------------------------------- MODULE EmrPool --------------------------------
(***************************************************************************)
(* Job flow pooling in the mrjob that the repository carries: runners that *)
(* look for an idle job flow (find_job_flow), a cron job that terminates   *)
(* idle ones (terminate_idle_job_flows), and the lock in S3 that both take *)
(* with attempt_to_acquire_lock.  S3 has no test-and-set, so the lock is a *)
(* protocol in time: see whether the key is there, write one's name, sleep *)
(* s3_sync_wait_time, and read back whose name it is.                      *)
(*                                                                         *)
(* S3 is eventually consistent, which is why there is a sleep: a write is  *)
(* in order with the others from when its PUT is accepted, but until it is *)
(* everywhere a read may still find what was there before it.              *)
(*                                                                         *)
(* Time is a Tick that makes everything older.  Nothing limits how long a  *)
(* call to S3 takes, nor how long a write takes to be everywhere.  What a  *)
(* flow is made of (instances, bootstrap, name of the pool) is left out:   *)
(* every flow here matches every runner.                                   *)
(***************************************************************************)
EXTENDS Integers, Sequences

CONSTANTS
    Runner,      \* sessions of EMRJobRunner with pool_emr_job_flows
    Terminator,  \* runs of the cron job, each with a name of its own
    Nobody,      \* no key, apart from the names of sessions
    Flow,        \* the job flows of the pool
    NumSteps,    \* NumSteps[r]: the steps of the job of r
    MaxSteps,    \* MAX_STEPS_PER_JOB_FLOW
    PoolWaits,   \* PoolWaits[r]: the sleeps in pool_wait_minutes, plus one; 0 if that is 0
    SyncWait,    \* s3_sync_wait_time
    Expiry       \* max_mins_locked

Process == Runner \union Terminator

ASSUME ProcessAssumption == Runner \cap Terminator = {} /\ Nobody \notin Process
ASSUME StepsAssumption == MaxSteps \in Nat /\ NumSteps \in [Runner -> Nat \ {0}]
ASSUME TimeAssumption ==
    PoolWaits \in [Runner -> Nat] /\ SyncWait \in Nat /\ Expiry \in Nat

\* The lock's key in S3: make_lock_uri(..., job flow, len(steps) + 1).
Slot == Flow \X (1 .. MaxSteps + 1)
NoSlot == <<>>

VARIABLES
    flow,     \* flow[f]: what EMR says of f
    steps,    \* steps[f]: how many steps have been added to f
    lock,     \* lock[s]: the writes of the key, from the last one that is everywhere on
    pc,       \* pc[p]: where p is
    slot,     \* slot[p]: the key that p tries to take
    age,      \* age[p]: the time since the PUT of p's name was accepted
    expired,  \* expired[p]: the local key_expired
    exclude,  \* exclude[r]: the flows that r failed to lock
    waits,    \* waits[r]: the sleeps of r, now = start + waits * JOB_FLOW_SLEEP_INTERVAL
    todo,     \* todo[t]: the rest of to_terminate, each flow with the key it had then
    lag       \* history: the time from p's look at the key until its name was everywhere

vars == <<flow, steps, lock, pc, slot, age, expired, exclude, waits, todo, lag>>
emr == <<flow, steps>>
own == <<slot, age, expired, exclude, waits, todo, lag>>

FlowStates == {"waiting", "pending", "running", "terminated"}
Attempting == {"check", "put", "sleep", "owner"}
RunnerStates == Attempting \union {"look", "added", "ownflow", "failed", "crashed"}
TerminatorStates == Attempting \union {"idle", "next", "done"}

\* What a read of the key can find: a name, and the time since last_modified.
Version == [name : Process \union {Nobody}, age : 0 .. Expiry + 1]
Reads(s) == {lock[s][i] : i \in DOMAIN lock[s]}

\* A name of p in the key that it took is not everywhere yet.
OnItsWay(p) ==
    slot[p] # NoSlot /\ \E i \in DOMAIN lock[slot[p]] : i > 1 /\ lock[slot[p]][i].name = p

Goto(p, where) == pc' = [pc EXCEPT ![p] = where]

\* Some other session's job runs in a flow, or nothing does; no key is there yet.
Init ==
    /\ steps \in [Flow -> 0 .. MaxSteps]
    /\ flow \in [Flow -> {"waiting", "running"}]
    /\ \A f \in Flow : flow[f] = "running" => steps[f] > 0
    /\ lock = [s \in Slot |-> <<[name |-> Nobody, age |-> 0]>>]
    /\ pc = [p \in Process |-> IF p \in Runner THEN "look" ELSE "idle"]
    /\ slot = [p \in Process |-> NoSlot]
    /\ age = [p \in Process |-> 0]
    /\ expired = [p \in Process |-> FALSE]
    /\ exclude = [r \in Runner |-> {}]
    /\ waits = [r \in Runner |-> 0]
    /\ todo = [t \in Terminator |-> {}]
    /\ lag = [p \in Process |-> 0]
-------------------------------------------------------------------------------
(***************************************************************************)
(* attempt_to_acquire_lock.                                                *)
(***************************************************************************)

\* find_job_flow passes no mins_to_expiration: for a runner no key is ever too old.
Expires(p) == p \in Terminator

BugNoKey(k) == TRUE
NoKey(k) == k.name = Nobody

KeyExpired(p, k) ==
    /\ ~ NoKey(k)
    /\ Expires(p)
    /\ k.age > Expiry

BugGivenUp(p) == Goto(p, IF p \in Runner THEN "look" ELSE "next") /\ UNCHANGED exclude
\* Back in the loop with a lock that was not taken.
GivenUp(p) ==
    /\ Goto(p, IF p \in Runner THEN "look" ELSE "next")
    /\ exclude' = [r \in Runner |->
                     IF r = p THEN exclude[r] \union {slot[r][1]} ELSE exclude[r]]

\* get_key.
Check(p) ==
    /\ pc[p] = "check"
    /\ \E k \in Reads(slot[p]) :
           /\ NoKey(k) \/ KeyExpired(p, k)
           /\ expired' = [expired EXCEPT ![p] = KeyExpired(p, k)]
    /\ Goto(p, "put")
    /\ lag' = [lag EXCEPT ![p] = 0]
    /\ UNCHANGED <<emr, lock, slot, age, exclude, waits, todo>>

KeyTaken(p) ==
    /\ pc[p] = "check"
    /\ \E k \in Reads(slot[p]) : ~ NoKey(k) /\ ~ KeyExpired(p, k)
    /\ GivenUp(p)
    /\ UNCHANGED <<emr, lock, slot, age, expired, waits, todo, lag>>

\* set_contents_from_string: S3 accepts the PUT.  The call may return at once, and with it
\* the sleep begins, wherever the name can be read by then.
PutName(p) ==
    /\ pc[p] = "put"
    /\ lock' = [lock EXCEPT ![slot[p]] = Append(@, [name |-> p, age |-> 0])]
    /\ age' = [age EXCEPT ![p] = 0]
    /\ Goto(p, "sleep")
    /\ UNCHANGED <<emr, slot, expired, exclude, waits, todo, lag>>

BugStillMine(p, k) == TRUE
StillMine(p, k) == k.name = p

\* After the sleep, get_contents_as_string.  Should it still find no key it raises, which
\* ends the session.
ReadBack(p) ==
    /\ pc[p] = "sleep"
    /\ age[p] >= SyncWait
    /\ \E k \in Reads(slot[p]) :
           /\ k.name # Nobody
           /\ \/ StillMine(p, k) /\ Goto(p, "owner") /\ UNCHANGED exclude
              \/ ~ StillMine(p, k) /\ GivenUp(p)
    /\ UNCHANGED <<emr, lock, slot, age, expired, waits, todo, lag>>
-------------------------------------------------------------------------------
(***************************************************************************)
(* find_job_flow and the end of _launch_emr_job.                           *)
(***************************************************************************)

Room(r, f) == steps[f] + NumSteps[r] <= MaxSteps

\* usable_job_flows: WAITING, every step ended, room for the job, not excluded.
Usable(r) == {f \in Flow \ exclude[r] : flow[f] = "waiting" /\ Room(r, f)}

BugTimeLeft(r) == PoolWaits[r] = 0 \/ waits[r] <= PoolWaits[r]
\* now <= end_time, where now is not the clock but the start plus the sleeps.
TimeLeft(r) == PoolWaits[r] = 0 \/ waits[r] < PoolWaits[r]

\* Of the usable flows the best is taken, whichever that is.
Look(r) ==
    /\ pc[r] = "look"
    /\ TimeLeft(r)
    /\ \E f \in Usable(r) : slot' = [slot EXCEPT ![r] = <<f, steps[f] + 1>>]
    /\ expired' = [expired EXCEPT ![r] = FALSE]
    /\ Goto(r, "check")
    /\ UNCHANGED <<emr, lock, age, exclude, waits, todo, lag>>

\* None is usable: with no pool_wait_minutes the runner makes a flow of its own, ...
NoneUsable(r) ==
    /\ pc[r] = "look"
    /\ PoolWaits[r] = 0
    /\ Usable(r) = {}
    /\ Goto(r, "ownflow")
    /\ UNCHANGED <<emr, lock, own>>

\* now += time_sleep.
Slept(n) == n + 1

\* ... with them it forgets which flows were locked and sleeps, ...
WaitForPool(r) ==
    /\ pc[r] = "look"
    /\ PoolWaits[r] # 0
    /\ TimeLeft(r)
    /\ Usable(r) = {}
    /\ exclude' = [exclude EXCEPT ![r] = {}]
    /\ waits' = [waits EXCEPT ![r] = Slept(@)]
    /\ UNCHANGED <<emr, lock, pc, slot, age, expired, todo, lag>>

\* ... and when the time is over it does not look once more.
TimeOver(r) ==
    /\ pc[r] = "look"
    /\ ~ TimeLeft(r)
    /\ Goto(r, "ownflow")
    /\ UNCHANGED <<emr, lock, own>>

\* add_jobflow_steps to the flow that was locked.
AddSteps(r) ==
    LET f == slot[r][1] IN
    /\ pc[r] = "owner"
    /\ flow[f] # "terminated"
    /\ steps[f] + NumSteps[r] <= MaxSteps  \* EMR's own limit
    /\ steps' = [steps EXCEPT ![f] = @ + NumSteps[r]]
    /\ flow' = [flow EXCEPT ![f] = IF @ = "running" THEN @ ELSE "pending"]
    /\ Goto(r, "added")
    /\ UNCHANGED <<lock, own>>

\* EMR refuses: the exception ends the runner.
AddStepsFails(r) ==
    LET f == slot[r][1] IN
    /\ pc[r] = "owner"
    /\ flow[f] = "terminated" \/ steps[f] + NumSteps[r] > MaxSteps
    /\ Goto(r, "failed")
    /\ UNCHANGED <<emr, lock, own>>

\* The session dies with what it has in S3 left there.
RunnerCrashes(r) ==
    /\ pc[r] \in Attempting
    /\ Goto(r, "crashed")
    /\ UNCHANGED <<emr, lock, own>>
-------------------------------------------------------------------------------
(***************************************************************************)
(* terminate_idle_job_flows, started by cron.                              *)
(***************************************************************************)

\* describe_all_job_flows: of the flows that are not done and run no step, those that
\* were idle for too long or whose hour is almost over, which is any of them.
Inspect(t) ==
    /\ pc[t] = "idle"
    /\ \E idle \in SUBSET {f \in Flow : flow[f] \in {"waiting", "pending"}} :
           todo' = [todo EXCEPT ![t] = {<<f, steps[f] + 1>> : f \in idle}]
    /\ Goto(t, "next")
    /\ UNCHANGED <<emr, lock, slot, age, expired, exclude, waits, lag>>

\* The flows one after the other, each as it was described.
TakeNext(t) ==
    /\ pc[t] = "next"
    /\ \E s \in todo[t] :
           /\ slot' = [slot EXCEPT ![t] = s]
           /\ todo' = [todo EXCEPT ![t] = @ \ {s}]
    /\ expired' = [expired EXCEPT ![t] = FALSE]
    /\ Goto(t, "check")
    /\ UNCHANGED <<emr, lock, age, exclude, waits, lag>>

AllTaken(t) ==
    /\ pc[t] = "next"
    /\ todo[t] = {}
    /\ Goto(t, "done")
    /\ UNCHANGED <<emr, lock, own>>

\* terminate_jobflow, whatever the flow does by now.
Terminate(t) ==
    /\ pc[t] = "owner"
    /\ flow' = [flow EXCEPT ![slot[t][1]] = "terminated"]
    /\ Goto(t, "next")
    /\ UNCHANGED <<steps, lock, own>>

TerminatorCrashes(t) ==
    /\ pc[t] \notin {"idle", "done"}
    /\ todo' = [todo EXCEPT ![t] = {}]
    /\ Goto(t, "done")
    /\ UNCHANGED <<emr, lock, slot, age, expired, exclude, waits, lag>>
-------------------------------------------------------------------------------
(***************************************************************************)
(* EMR, S3 and time.                                                       *)
(***************************************************************************)

\* The pending steps of a flow start, and all its steps end.
StepsStart(f) ==
    /\ flow[f] = "pending"
    /\ flow' = [flow EXCEPT ![f] = "running"]
    /\ UNCHANGED <<steps, lock, pc, own>>

StepsEnd(f) ==
    /\ flow[f] = "running"
    /\ flow' = [flow EXCEPT ![f] = "waiting"]
    /\ UNCHANGED <<steps, lock, pc, own>>

\* The oldest write that was not everywhere is now, and what was there before it is not
\* read again.
Settles(s) ==
    /\ Len(lock[s]) > 1
    /\ lock' = [lock EXCEPT ![s] = Tail(@)]
    /\ UNCHANGED <<emr, pc, own>>

\* Bound: a time stops growing at the limit that it is compared with.
Older(n, limit) == IF n < limit THEN n + 1 ELSE n

Aged(k) == IF NoKey(k) THEN k ELSE [k EXCEPT !.age = Older(@, Expiry + 1)]

\* The sessions whose times count: those that saw no key, as long as they are at it.
Timed(p) == pc[p] \in {"put", "sleep", "owner", "added"}

Tick ==
    /\ age' = [p \in Process |->
                  IF Timed(p) /\ pc[p] # "put" THEN Older(age[p], SyncWait) ELSE 0]
    /\ lag' = [p \in Process |->
                  IF ~ Timed(p) THEN 0
                  ELSE IF pc[p] = "put" \/ OnItsWay(p) THEN Older(lag[p], SyncWait)
                  ELSE lag[p]]
    /\ lock' = [s \in Slot |-> [i \in DOMAIN lock[s] |-> Aged(lock[s][i])]]
    /\ UNCHANGED <<emr, pc, slot, expired, exclude, waits, todo>>

Attempt(p) == Check(p) \/ KeyTaken(p) \/ PutName(p) \/ ReadBack(p)
Search(r) == Look(r) \/ NoneUsable(r) \/ WaitForPool(r) \/ TimeOver(r)
Submit(r) == AddSteps(r) \/ AddStepsFails(r)
Cron(t) == Inspect(t) \/ TakeNext(t) \/ AllTaken(t) \/ Terminate(t)

Next ==
    \/ \E p \in Process : Attempt(p)
    \/ \E r \in Runner : Search(r) \/ Submit(r) \/ RunnerCrashes(r)
    \/ \E t \in Terminator : Cron(t) \/ TerminatorCrashes(t)
    \/ \E f \in Flow : StepsStart(f) \/ StepsEnd(f)
    \/ \E s \in Slot : Settles(s)
    \/ Tick

Spec == Init /\ [][Next]_vars

\* A runner goes on as long as it does not crash, and time passes; nothing is said of
\* the cron job, nor of how long EMR takes, nor that a write is everywhere at last.
FairSpec ==
    /\ Spec
    /\ WF_vars(Tick)
    /\ \A r \in Runner : WF_vars(Attempt(r) \/ Search(r) \/ Submit(r))
-------------------------------------------------------------------------------
TypeOK ==
    /\ flow \in [Flow -> FlowStates]
    /\ steps \in [Flow -> 0 .. MaxSteps]
    /\ lock \in [Slot -> Seq(Version)]
    /\ \A s \in Slot : Len(lock[s]) > 0
    /\ pc \in [Process -> RunnerStates \union TerminatorStates]
    /\ \A r \in Runner : pc[r] \in RunnerStates
    /\ \A t \in Terminator : pc[t] \in TerminatorStates
    /\ slot \in [Process -> Slot \union {NoSlot}]
    /\ \A p \in Process : pc[p] \in Attempting \union {"added"} => slot[p] \in Slot
    /\ age \in [Process -> 0 .. SyncWait]
    /\ expired \in [Process -> BOOLEAN]
    /\ exclude \in [Runner -> SUBSET Flow]
    /\ waits \in [Runner -> Nat]
    /\ \A r \in Runner : waits[r] \in 0 .. PoolWaits[r]
    /\ todo \in [Terminator -> SUBSET Slot]
    /\ lag \in [Process -> 0 .. SyncWait]

\* p took its lock in time: no key was there, and its name was everywhere before half the
\* wait had gone by since it looked.
Clean(p) == 2 * lag[p] < SyncWait /\ ~ expired[p]

Owns(p) == pc[p] \in {"owner", "added"}

\* attempt_to_acquire_lock returns True to one session only for a key, unless one took over a
\* key that had expired, or the times that their names were on their way, each counted from
\* the session's look at the key, make up s3_sync_wait_time together.
OneOwner ==
    \A p, q \in Process :
        p # q /\ Owns(p) /\ Owns(q) /\ slot[p] = slot[q] =>
            expired[p] \/ expired[q] \/ lag[p] + lag[q] >= SyncWait

\* A session that owns the lock may act on the description it had before it took it: no
\* steps were added to the flow since, unless it took over an expired key (the cron job
\* then terminates a flow that has been given work) or someone's name was slow to be there.
ViewIsCurrent ==
    \A p \in Process :
        pc[p] = "owner" /\ steps[slot[p][1]] + 1 # slot[p][2] =>
            \/ ~ Clean(p)
            \/ \E r \in Runner :
                   pc[r] = "added" /\ slot[r][1] = slot[p][1] /\ ~ Clean(r)

\* The key of a session that crashed does not keep others out for ever: a runner is turned
\* away only by a key that is not too old, or whose writer has not crashed.
OldLocksReclaimed ==
    [][\A r \in Runner :
           KeyTaken(r) =>
               \E k \in Reads(slot[r]) :
                   ~ NoKey(k) /\ (k.age <= Expiry \/ pc[k.name] # "crashed")]_vars

\* Where a runner is between two looks at the pool, from far to near.
Stage == [look |-> 5, check |-> 4, put |-> 3, sleep |-> 2, owner |-> 1,
          added |-> 0, ownflow |-> 0, failed |-> 0, crashed |-> 0]

\* Each step of r brings its search nearer to an end: a sleep is used up, or a flow is
\* excluded that was not, or r is on its way to that; and no step of another takes it back.
SearchShortens(r) ==
    \/ waits[r] < waits'[r] /\ waits'[r] <= PoolWaits[r]
    \/ /\ waits'[r] = waits[r]
       /\ exclude[r] \subseteq exclude'[r] /\ exclude'[r] # exclude[r]
    \/ UNCHANGED <<waits[r], exclude[r]>> /\ Stage[pc'[r]] < Stage[pc[r]]
    \/ /\ UNCHANGED <<waits[r], exclude[r], pc[r]>>
       /\ ~ (Attempt(r) \/ Search(r) \/ Submit(r) \/ RunnerCrashes(r))

\* Two runners cannot keep each other searching for ever, each taking the flow that the
\* other has just found usable, and neither does one go round for ever that forgets what it
\* has excluded (line 2301): it forgets only with a sleep, and its sleeps are counted.
SearchesShorten == [][\A r \in Runner : SearchShortens(r)]_vars

===============================================================================
