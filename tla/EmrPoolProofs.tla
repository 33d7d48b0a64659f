----------------------------- MODULE EmrPoolProofs -----------------------------
(***************************************************************************)
(* EmrPool for any number of runners, cron jobs and job flows, and for all *)
(* times: who owns the lock of a flow, and what an owner may believe.      *)
(***************************************************************************)
EXTENDS EmrPool, TLAPS

Wrote(p) == pc[p] \in {"sleep", "owner", "added"}

\* There is no key only before all names.
KeyInv(s) == \A i \in DOMAIN lock[s] : i > 1 => lock[s][i].name # Nobody

\* Once p has written, no key is there to be seen as absent but for as long as p's name is
\* on its way, and that time counts; and an owner has slept.
Alone(p) ==
    /\ Wrote(p) => lock[slot[p]][1].name # Nobody \/ OnItsWay(p)
    /\ Wrote(p) /\ OnItsWay(p) => age[p] <= lag[p]
    /\ Owns(p) => age[p] >= SyncWait

\* No read of s finds p's name.
Gone(p, s) == \A i \in DOMAIN lock[s] : lock[s][i].name # p

\* A name of q that is not everywhere comes after all names of p.
Before(p, q, s) ==
    \E j \in DOMAIN lock[s] :
        /\ j > 1 /\ lock[s][j].name = q
        /\ \A i \in DOMAIN lock[s] : lock[s][i].name = p => i < j

\* q overwrites p: p can become the owner only as long as q's name is on its way, which is
\* from before p has slept until after.
Behind(p, q) ==
    \/ lag[p] + lag[q] >= SyncWait
    \/ ~ Owns(p) /\ Gone(p, slot[p])
    \/ age[p] <= lag[p] + lag[q] /\ Before(p, q, slot[p])

\* Of two sessions at the same key that saw none there: one that is about to write looked
\* when the other's name was on its way; and of two that wrote, one overwrites the other.
Pair(p, q) ==
    /\ Wrote(p) /\ pc[q] = "put" /\ ~ expired[q] => age[p] <= lag[p] + lag[q]
    /\ Wrote(p) /\ Wrote(q) /\ ~ expired[p] /\ ~ expired[q] => Behind(p, q) \/ Behind(q, p)

LockInv ==
    /\ \A s \in Slot : KeyInv(s)
    /\ \A p \in Process : Alone(p)
    /\ \A p, q \in Process : p # q /\ slot[p] = slot[q] => Pair(p, q)

\* A job was given to the flow of s by the owner of s, or by one that was not clean.
Overtaken(s) ==
    \E r \in Runner :
        /\ pc[r] = "added"
        /\ slot[r] = s \/ (slot[r][1] = s[1] /\ ~ Clean(r))

\* What was seen of a flow is behind it at most, and then it was overtaken.
Seen(s) ==
    /\ s[2] <= steps[s[1]] + 1
    /\ s[2] # steps[s[1]] + 1 => Overtaken(s)

ViewInv ==
    /\ \A p \in Process : pc[p] \in Attempting => Seen(slot[p])
    /\ \A t \in Terminator : \A s \in todo[t] : Seen(s)

IInv == TypeOK /\ LockInv /\ ViewInv

-------------------------------------------------------------------------------
(***************************************************************************)
(* Types.                                                                  *)
(***************************************************************************)

\* Times stay within their limit, and grow.
LEMMA OlderTime ==
    ASSUME NEW limit \in Nat
    PROVE  /\ 0 \in 0 .. limit
           /\ \A n \in 0 .. limit :
                  /\ Older(n, limit) \in 0 .. limit
                  /\ Older(n, limit) >= n
                  /\ Older(n, limit) <= n + 1
                  /\ Older(n, limit) = n + 1 \/ (n = limit /\ Older(n, limit) = limit)
  BY DEF Older

\* A name that is on its way in the key that a session took.
LEMMA OnItsWayIn ==
    ASSUME NEW p \in Process, slot[p] \in Slot
    PROVE  /\ OnItsWay(p) <=> \E i \in DOMAIN lock[slot[p]] :
                                   i > 1 /\ lock[slot[p]][i].name = p
           /\ slot'[p] = slot[p] =>
                  (OnItsWay(p)' <=> \E i \in DOMAIN lock'[slot[p]] :
                                        i > 1 /\ lock'[slot[p]][i].name = p)
  <1>1. slot[p] # NoSlot
    <2>1. PICK f \in Flow, n \in 1 .. MaxSteps + 1 : slot[p] = <<f, n>>
      BY DEF Slot
    <2>2. <<f, n>> # << >>
      OBVIOUS
    <2>. QED  BY <2>1, <2>2 DEF NoSlot
  <1>. QED  BY <1>1 DEF OnItsWay

\* The writes of a key, of which there is always one.
LEMMA KeyType ==
    ASSUME TypeOK, NEW s \in Slot
    PROVE  /\ lock[s] \in Seq(Version)
           /\ Len(lock[s]) \in Nat \ {0}
           /\ DOMAIN lock[s] = 1 .. Len(lock[s])
           /\ 1 \in DOMAIN lock[s]
           /\ \A i \in DOMAIN lock[s] :
                  /\ lock[s][i] \in Version
                  /\ lock[s][i].name \in Process \union {Nobody}
  <1>1. lock[s] \in Seq(Version) /\ Len(lock[s]) > 0
    BY DEF TypeOK
  <1>2. \A k \in Version : k.name \in Process \union {Nobody}
    BY DEF Version
  <1>. QED  BY <1>1, <1>2

\* One more write.
LEMMA AppendWrite ==
    ASSUME NEW S, NEW w \in Seq(S), NEW x \in S
    PROVE  /\ Append(w, x) \in Seq(S)
           /\ Len(Append(w, x)) = Len(w) + 1 /\ Len(w) \in Nat
           /\ DOMAIN w = 1 .. Len(w) /\ DOMAIN Append(w, x) = 1 .. Len(w) + 1
           /\ \A i \in 1 .. Len(w) : Append(w, x)[i] = w[i]
           /\ Append(w, x)[Len(w) + 1] = x
  OBVIOUS

\* One write less.
LEMMA TailWrites ==
    ASSUME NEW S, NEW w \in Seq(S), Len(w) > 1
    PROVE  /\ Tail(w) \in Seq(S)
           /\ Len(Tail(w)) = Len(w) - 1 /\ Len(w) \in Nat
           /\ DOMAIN w = 1 .. Len(w) /\ DOMAIN Tail(w) = 1 .. Len(w) - 1
           /\ \A i \in 1 .. Len(w) - 1 : Tail(w)[i] = w[i + 1]
  OBVIOUS

\* Time leaves the names of a key and their order as they are.
LEMMA AgedWrites ==
    ASSUME TypeOK, NEW s \in Slot
    PROVE  /\ [i \in DOMAIN lock[s] |-> Aged(lock[s][i])] \in Seq(Version)
           /\ Len([i \in DOMAIN lock[s] |-> Aged(lock[s][i])]) = Len(lock[s])
           /\ \A i \in DOMAIN lock[s] : Aged(lock[s][i]).name = lock[s][i].name
  <1>1. ASSUME NEW k \in Version
        PROVE  Aged(k) \in Version /\ Aged(k).name = k.name
    <2>1. Expiry + 1 \in Nat
      BY TimeAssumption
    <2>2. k.age \in 0 .. Expiry + 1
      BY DEF Version
    <2>3. Older(k.age, Expiry + 1) \in 0 .. Expiry + 1
      BY <2>1, <2>2, OlderTime
    <2>. QED  BY <2>3 DEF Aged, Version
  <1>. DEFINE w == [i \in DOMAIN lock[s] |-> Aged(lock[s][i])]
  <1>2. DOMAIN lock[s] = 1 .. Len(lock[s]) /\ Len(lock[s]) \in Nat
    BY KeyType
  <1>3. \A i \in DOMAIN lock[s] : Aged(lock[s][i]) \in Version
    BY <1>1, KeyType
  <1>4. w \in [1 .. Len(lock[s]) -> Version]
    BY <1>2, <1>3
  <1>5. w \in Seq(Version) /\ Len(w) = Len(lock[s])
    BY <1>2, <1>4
  <1>. QED  BY <1>1, <1>5, KeyType

\* What describes a flow is a key of it.
LEMMA NextSlot ==
    ASSUME TypeOK, NEW f \in Flow
    PROVE  /\ <<f, steps[f] + 1>> \in Slot
           /\ <<f, steps[f] + 1>>[1] = f
           /\ <<f, steps[f] + 1>>[2] = steps[f] + 1
           /\ steps[f] \in 0 .. MaxSteps
  BY StepsAssumption DEF TypeOK, Slot

\* The parts of a key.
LEMMA SlotParts ==
    ASSUME NEW s \in Slot
    PROVE  /\ s[1] \in Flow
           /\ s[2] \in 1 .. MaxSteps + 1
           /\ s = <<s[1], s[2]>>
  BY DEF Slot

\* Init establishes the inductive invariant: nobody attempts anything.
LEMMA InitIInv == Init => IInv
  <1>. SUFFICES ASSUME Init
                PROVE  IInv
    OBVIOUS
  <1>1. TypeOK
    <2>1. \A p \in Process : pc[p] = IF p \in Runner THEN "look" ELSE "idle"
      BY DEF Init
    <2>2. /\ pc \in [Process -> RunnerStates \union TerminatorStates]
          /\ \A r \in Runner : pc[r] \in RunnerStates
          /\ \A t \in Terminator : pc[t] \in TerminatorStates
          /\ \A p \in Process : pc[p] \notin Attempting \union {"added"}
      BY ProcessAssumption, <2>1 DEF Process, Init, RunnerStates, TerminatorStates, Attempting
    <2>3. \A r \in Runner : waits[r] \in 0 .. PoolWaits[r]
      <3>. SUFFICES ASSUME NEW r \in Runner
                    PROVE  waits[r] \in 0 .. PoolWaits[r]
        OBVIOUS
      <3>1. waits[r] = 0
        BY DEF Init
      <3>2. PoolWaits[r] \in Nat
        BY TimeAssumption
      <3>. QED  BY <3>1, <3>2
    <2>4. flow \in [Flow -> FlowStates]
      BY DEF Init, FlowStates
    <2>5. lock \in [Slot -> Seq(Version)] /\ \A s \in Slot : Len(lock[s]) > 0
      <3>1. 0 \in 0 .. Expiry + 1
        BY TimeAssumption
      <3>2. [name |-> Nobody, age |-> 0] \in Version
        BY <3>1 DEF Version
      <3>. QED  BY <3>2 DEF Init
    <2>6. 0 \in 0 .. SyncWait
      BY TimeAssumption
    <2>. QED  BY <2>2, <2>3, <2>4, <2>5, <2>6 DEF Init, TypeOK
  <1>2. LockInv
    <2>1. \A s \in Slot : KeyInv(s)
      BY DEF Init, KeyInv
    <2>. QED  BY <2>1 DEF Init, Process, LockInv, Alone, Pair, Wrote, Owns
  <1>3. ViewInv
    BY DEF Init, Process, ViewInv, Attempting
  <1>. QED  BY <1>1, <1>2, <1>3 DEF IInv
\* A session is a runner or a cron job, and not both.
LEMMA Sorts ==
    /\ Runner \subseteq Process /\ Terminator \subseteq Process
    /\ \A p \in Process : p \in Runner \/ p \in Terminator
    /\ \A p \in Process : ~ (p \in Runner /\ p \in Terminator)
    /\ \A p \in Process : p # Nobody
  BY ProcessAssumption DEF Process

\* Where a session may be sent: the program counters keep their type.
LEMMA GotoType ==
    ASSUME TypeOK, NEW p \in Process, NEW w, Goto(p, w),
           p \in Runner => w \in RunnerStates,
           p \in Terminator => w \in TerminatorStates
    PROVE  /\ pc' \in [Process -> RunnerStates \union TerminatorStates]
           /\ \A r \in Runner : pc'[r] \in RunnerStates
           /\ \A t \in Terminator : pc'[t] \in TerminatorStates
           /\ pc'[p] = w
           /\ \A q \in Process : q # p => pc'[q] = pc[q]
  <1>1. w \in RunnerStates \union TerminatorStates
    BY Sorts
  <1>2. pc' = [pc EXCEPT ![p] = w] /\ pc \in [Process -> RunnerStates \union TerminatorStates]
    BY DEF Goto, TypeOK
  <1>. QED  BY <1>1, <1>2, Sorts DEF TypeOK

\* A lock that was not taken: back to the loop, with the flow excluded if it is a runner.
LEMMA GivenUpType ==
    ASSUME TypeOK, NEW p \in Process, slot[p] \in Slot, GivenUp(p)
    PROVE  /\ exclude' \in [Runner -> SUBSET Flow]
           /\ Goto(p, IF p \in Runner THEN "look" ELSE "next")
           /\ (IF p \in Runner THEN "look" ELSE "next") \in {"look", "next"}
           /\ p \in Runner => (IF p \in Runner THEN "look" ELSE "next") \in RunnerStates
           /\ p \in Terminator =>
                  (IF p \in Runner THEN "look" ELSE "next") \in TerminatorStates
  <1>1. exclude' \in [Runner -> SUBSET Flow]
    BY SlotParts DEF GivenUp, TypeOK
  <1>2. Goto(p, IF p \in Runner THEN "look" ELSE "next")
    BY DEF GivenUp
  <1>. QED  BY <1>1, <1>2, Sorts DEF RunnerStates, TerminatorStates

\* The steps of attempt_to_acquire_lock keep the types.
LEMMA AttemptType ==
    ASSUME TypeOK, NEW p \in Process, Attempt(p)
    PROVE  TypeOK'
  <1>0. slot[p] \in Slot
    BY DEF TypeOK, Attempt, Check, KeyTaken, PutName, ReadBack, Attempting
  <1>1. CASE Check(p)
    <2>1. Goto(p, "put")
      BY <1>1 DEF Check
    <2>2. "put" \in RunnerStates /\ "put" \in TerminatorStates /\ "put" \in Attempting
      BY DEF RunnerStates, TerminatorStates, Attempting
    <2>3. expired' \in [Process -> BOOLEAN]
      BY <1>1 DEF Check, TypeOK, KeyExpired
    <2>4. lag' \in [Process -> 0 .. SyncWait]
      BY <1>1, TimeAssumption DEF Check, TypeOK
    <2>. QED  BY <1>0, <1>1, <2>1, <2>2, <2>3, <2>4, GotoType DEF Check, TypeOK, emr
  <1>2. CASE KeyTaken(p)
    <2>1. GivenUp(p)
      BY <1>2 DEF KeyTaken
    <2>. QED
      BY <1>0, <1>2, <2>1, GivenUpType, GotoType DEF KeyTaken, TypeOK, emr, Attempting
  <1>3. CASE PutName(p)
    <2>1. Goto(p, "sleep")
      BY <1>3 DEF PutName
    <2>2. "sleep" \in RunnerStates /\ "sleep" \in TerminatorStates /\ "sleep" \in Attempting
      BY DEF RunnerStates, TerminatorStates, Attempting
    <2>3. lock' \in [Slot -> Seq(Version)] /\ \A s \in Slot : Len(lock'[s]) > 0
      <3>1. 0 \in 0 .. Expiry + 1
        BY TimeAssumption
      <3>2. [name |-> p, age |-> 0] \in Version
        BY <3>1 DEF Version
      <3>3. /\ Append(lock[slot[p]], [name |-> p, age |-> 0]) \in Seq(Version)
            /\ Len(Append(lock[slot[p]], [name |-> p, age |-> 0])) > 0
        BY <1>0, <3>2, KeyType, AppendWrite
      <3>. QED  BY <1>3, <3>3 DEF PutName, TypeOK
    <2>4. age' \in [Process -> 0 .. SyncWait]
      BY <1>3, TimeAssumption DEF PutName, TypeOK
    <2>. QED  BY <1>0, <1>3, <2>1, <2>2, <2>3, <2>4, GotoType DEF PutName, TypeOK, emr
  <1>4. CASE ReadBack(p)
    <2>1. CASE Goto(p, "owner") /\ UNCHANGED exclude
      <3>1. "owner" \in RunnerStates /\ "owner" \in TerminatorStates /\ "owner" \in Attempting
        BY DEF RunnerStates, TerminatorStates, Attempting
      <3>. QED  BY <1>0, <1>4, <2>1, <3>1, GotoType DEF ReadBack, TypeOK, emr
    <2>2. CASE GivenUp(p)
      BY <1>0, <1>4, <2>2, GivenUpType, GotoType DEF ReadBack, TypeOK, emr, Attempting
    <2>. QED  BY <1>4, <2>1, <2>2 DEF ReadBack
  <1>. QED  BY <1>1, <1>2, <1>3, <1>4 DEF Attempt

\* The steps of a runner outside the lock keep the types.
LEMMA RunnerType ==
    ASSUME TypeOK, NEW r \in Runner, Search(r) \/ Submit(r) \/ RunnerCrashes(r)
    PROVE  TypeOK'
  <1>0. r \in Process /\ r \notin Terminator
    BY Sorts
  <1>1. CASE Look(r)
    <2>1. Goto(r, "check")
      BY <1>1 DEF Look
    <2>2. "check" \in RunnerStates
      BY DEF RunnerStates, Attempting
    <2>3. slot' \in [Process -> Slot \union {NoSlot}] /\ slot'[r] \in Slot
      <3>1. PICK f \in Usable(r) : slot' = [slot EXCEPT ![r] = <<f, steps[f] + 1>>]
        BY <1>1 DEF Look
      <3>2. <<f, steps[f] + 1>> \in Slot
        BY NextSlot DEF Usable
      <3>. QED  BY <1>0, <3>1, <3>2 DEF TypeOK
    <2>4. \A q \in Process : q # r => slot'[q] = slot[q]
      BY <1>1 DEF Look, TypeOK
    <2>. QED  BY <1>0, <1>1, <2>1, <2>2, <2>3, <2>4, GotoType DEF Look, TypeOK, emr
  <1>2. ASSUME NEW w \in RunnerStates \ (Attempting \union {"added"}), Goto(r, w),
               UNCHANGED <<emr, lock, own>>
        PROVE  TypeOK'
    BY <1>0, <1>2, GotoType DEF TypeOK, emr, own
  <1>3. CASE NoneUsable(r) \/ TimeOver(r) \/ AddStepsFails(r) \/ RunnerCrashes(r)
    BY <1>2, <1>3 DEF NoneUsable, TimeOver, AddStepsFails, RunnerCrashes, RunnerStates,
                      Attempting
  <1>4. CASE WaitForPool(r)
    <2>1. waits' \in [Runner -> Nat] /\ \A q \in Runner : waits'[q] \in 0 .. PoolWaits[q]
      <3>1. waits[r] < PoolWaits[r] /\ waits[r] \in Nat /\ PoolWaits[r] \in Nat
        BY <1>4, TimeAssumption DEF WaitForPool, TimeLeft, TypeOK
      <3>2. waits' = [waits EXCEPT ![r] = waits[r] + 1]
        BY <1>4 DEF WaitForPool, Slept
      <3>. QED  BY <3>1, <3>2 DEF TypeOK
    <2>. QED  BY <1>4, <2>1 DEF WaitForPool, TypeOK, emr
  <1>5. CASE AddSteps(r)
    <2>1. Goto(r, "added") /\ "added" \in RunnerStates /\ "owner" \in Attempting
      BY <1>5 DEF AddSteps, RunnerStates, Attempting
    <2>2. slot[r] \in Slot
      BY <1>0, <1>5, <2>1 DEF AddSteps, TypeOK
    <2>3. steps' \in [Flow -> 0 .. MaxSteps]
      <3>1. slot[r][1] \in Flow /\ steps[slot[r][1]] \in 0 .. MaxSteps /\ NumSteps[r] \in Nat
        BY <2>2, SlotParts, StepsAssumption DEF TypeOK
      <3>2. steps[slot[r][1]] + NumSteps[r] \in 0 .. MaxSteps
        BY <1>5, <3>1, StepsAssumption DEF AddSteps
      <3>. QED  BY <1>5, <3>1, <3>2 DEF AddSteps, TypeOK
    <2>4. flow' \in [Flow -> FlowStates]
      <3>1. "pending" \in FlowStates
        BY DEF FlowStates
      <3>. QED  BY <1>5, <3>1 DEF AddSteps, TypeOK
    <2>. QED  BY <1>0, <1>5, <2>1, <2>2, <2>3, <2>4, GotoType DEF AddSteps, TypeOK, own
  <1>. QED  BY <1>1, <1>3, <1>4, <1>5 DEF Search, Submit

\* The steps of the cron job outside the lock keep the types.
LEMMA TerminatorType ==
    ASSUME TypeOK, NEW t \in Terminator, Cron(t) \/ TerminatorCrashes(t)
    PROVE  TypeOK'
  <1>0. t \in Process /\ t \notin Runner
    BY Sorts
  <1>0a. {"idle", "next", "check", "owner", "done"} \subseteq TerminatorStates
    BY DEF TerminatorStates, Attempting
  <1>0b. "done" \notin Attempting \union {"added"} /\ "next" \notin Attempting \union {"added"}
    BY DEF Attempting
  <1>1. CASE Inspect(t)
    <2>1. todo' \in [Terminator -> SUBSET Slot]
      <3>1. PICK idle \in SUBSET {f \in Flow : flow[f] \in {"waiting", "pending"}} :
                todo' = [todo EXCEPT ![t] = {<<f, steps[f] + 1>> : f \in idle}]
        BY <1>1 DEF Inspect
      <3>2. {<<f, steps[f] + 1>> : f \in idle} \in SUBSET Slot
        BY NextSlot
      <3>. QED  BY <3>1, <3>2 DEF TypeOK
    <2>2. Goto(t, "next")
      BY <1>1 DEF Inspect
    <2>. QED
      BY <1>0, <1>0a, <1>0b, <1>1, <2>1, <2>2, GotoType DEF Inspect, TypeOK, emr
  <1>2. CASE TakeNext(t)
    <2>1. PICK s \in todo[t] : /\ slot' = [slot EXCEPT ![t] = s]
                               /\ todo' = [todo EXCEPT ![t] = @ \ {s}]
      BY <1>2 DEF TakeNext
    <2>2. /\ slot' \in [Process -> Slot \union {NoSlot}]
          /\ slot'[t] \in Slot
          /\ \A q \in Process : q # t => slot'[q] = slot[q]
          /\ todo' \in [Terminator -> SUBSET Slot]
      BY <1>0, <2>1 DEF TypeOK
    <2>3. Goto(t, "check")
      BY <1>2 DEF TakeNext
    <2>. QED
      BY <1>0, <1>0a, <1>2, <2>2, <2>3, GotoType DEF TakeNext, TypeOK, emr
  <1>3. CASE AllTaken(t)
    <2>1. Goto(t, "done")
      BY <1>3 DEF AllTaken
    <2>. QED
      BY <1>0, <1>0a, <1>0b, <1>3, <2>1, GotoType DEF AllTaken, TypeOK, emr, own
  <1>4. CASE Terminate(t)
    <2>1. Goto(t, "next")
      BY <1>4 DEF Terminate
    <2>2. flow' \in [Flow -> FlowStates]
      BY <1>4 DEF Terminate, TypeOK, FlowStates
    <2>3. slot' = slot /\ slot[t] \in Slot /\ "owner" \in Attempting
      BY <1>0, <1>4 DEF Terminate, TypeOK, own, Attempting
    <2>4. \A q \in Process : pc'[q] \in Attempting \union {"added"} => slot'[q] \in Slot
      BY <1>0, <1>0a, <2>1, <2>3, GotoType DEF TypeOK
    <2>5. /\ pc' \in [Process -> RunnerStates \union TerminatorStates]
          /\ \A r \in Runner : pc'[r] \in RunnerStates
          /\ \A u \in Terminator : pc'[u] \in TerminatorStates
      BY <1>0, <1>0a, <2>1, GotoType
    <2>. QED  BY <1>4, <2>2, <2>4, <2>5 DEF Terminate, TypeOK, own
  <1>5. CASE TerminatorCrashes(t)
    <2>1. Goto(t, "done")
      BY <1>5 DEF TerminatorCrashes
    <2>2. todo' \in [Terminator -> SUBSET Slot]
      BY <1>5 DEF TerminatorCrashes, TypeOK
    <2>. QED
      BY <1>0, <1>0a, <1>0b, <1>5, <2>1, <2>2, GotoType
         DEF TerminatorCrashes, TypeOK, emr
  <1>. QED  BY <1>1, <1>2, <1>3, <1>4, <1>5 DEF Cron

\* EMR, S3 and time keep the types.
LEMMA WorldType ==
    ASSUME TypeOK,
           \/ \E f \in Flow : StepsStart(f) \/ StepsEnd(f)
           \/ \E s \in Slot : Settles(s)
           \/ Tick
    PROVE  TypeOK'
  <1>1. ASSUME NEW f \in Flow, StepsStart(f) \/ StepsEnd(f)
        PROVE  TypeOK'
    <2>1. flow' \in [Flow -> FlowStates]
      BY <1>1 DEF StepsStart, StepsEnd, TypeOK, FlowStates
    <2>. QED  BY <1>1, <2>1 DEF StepsStart, StepsEnd, TypeOK, own
  <1>2. ASSUME NEW s \in Slot, Settles(s)
        PROVE  TypeOK'
    <2>1. Tail(lock[s]) \in Seq(Version) /\ Len(Tail(lock[s])) > 0
      BY <1>2, KeyType, TailWrites DEF Settles
    <2>2. lock' \in [Slot -> Seq(Version)] /\ \A z \in Slot : Len(lock'[z]) > 0
      BY <1>2, <2>1 DEF Settles, TypeOK
    <2>. QED  BY <1>2, <2>2 DEF Settles, TypeOK, emr, own
  <1>3. CASE Tick
    <2>1. age' \in [Process -> 0 .. SyncWait] /\ lag' \in [Process -> 0 .. SyncWait]
      BY <1>3, TimeAssumption, OlderTime DEF Tick, TypeOK
    <2>2. lock' \in [Slot -> Seq(Version)] /\ \A s \in Slot : Len(lock'[s]) > 0
      <3>1. lock' = [s \in Slot |-> [i \in DOMAIN lock[s] |-> Aged(lock[s][i])]]
        BY <1>3 DEF Tick
      <3>2. \A s \in Slot :
                /\ [i \in DOMAIN lock[s] |-> Aged(lock[s][i])] \in Seq(Version)
                /\ Len([i \in DOMAIN lock[s] |-> Aged(lock[s][i])]) > 0
        BY AgedWrites, KeyType
      <3>. QED  BY <3>1, <3>2
    <2>. QED  BY <1>3, <2>1, <2>2 DEF Tick, TypeOK, emr
  <1>. QED  BY <1>1, <1>2, <1>3

\* Every step of the specification keeps the types.
LEMMA NextType == TypeOK /\ [Next]_vars => TypeOK'
  <1>. SUFFICES ASSUME TypeOK, [Next]_vars
                PROVE  TypeOK'
    OBVIOUS
  <1>1. CASE UNCHANGED vars
    BY <1>1 DEF vars, TypeOK
  <1>. QED  BY <1>1, AttemptType, RunnerType, TerminatorType, WorldType DEF Next
-------------------------------------------------------------------------------
(***************************************************************************)
(* The lock.                                                               *)
(***************************************************************************)

\* x has nothing to do with a lock afterwards.
Leaves(x) == ~ Wrote(x)' /\ pc'[x] # "put"

\* x is where it was with its lock, or it found its own name after its sleep.
Stays(x) ==
    /\ UNCHANGED <<slot[x], age[x], lag[x], expired[x]>>
    /\ Wrote(x)' => Wrote(x)
    /\ pc'[x] = "put" => pc[x] = "put"
    /\ Owns(x)' => Owns(x) \/ (age[x] >= SyncWait /\ ~ Gone(x, slot[x]))

\* Steps that write nothing, after which each session stays or leaves.
LEMMA LockStays ==
    ASSUME TypeOK, LockInv, lock' = lock, \A x \in Process : Stays(x) \/ Leaves(x)
    PROVE  LockInv'
  <1>1. \A s \in Slot : KeyInv(s)'
    BY DEF LockInv, KeyInv
  <1>2. ASSUME NEW x \in Process
        PROVE  Alone(x)'
    <2>1. CASE Leaves(x)
      BY <2>1 DEF Leaves, Alone, Wrote, Owns
    <2>2. CASE Stays(x)
      <3>1. OnItsWay(x)' = OnItsWay(x)
        BY <2>2 DEF Stays, OnItsWay
      <3>. QED  BY <2>2, <3>1 DEF Stays, LockInv, Alone
    <2>. QED  BY <2>1, <2>2
  <1>3. ASSUME NEW x \in Process, NEW y \in Process, x # y, slot'[x] = slot'[y]
        PROVE  Pair(x, y)'
    <2>1. CASE Leaves(x) \/ Leaves(y)
      BY <2>1 DEF Leaves, Pair
    <2>2. CASE Stays(x) /\ Stays(y)
      <3>1. Pair(x, y)
        BY <1>3, <2>2 DEF Stays, LockInv
      <3>2. Behind(x, y) => Behind(x, y)'
        BY <2>2 DEF Stays, Behind, Before, Gone
      <3>3. Behind(y, x) => Behind(y, x)'
        BY <2>2 DEF Stays, Behind, Before, Gone
      <3>. QED  BY <2>2, <3>1, <3>2, <3>3 DEF Stays, Pair
    <2>. QED  BY <1>3, <2>1, <2>2
  <1>. QED  BY <1>1, <1>2, <1>3 DEF LockInv

\* Check: if p saw no key, then the name of any other that wrote was still on its way.
LEMMA CheckLock ==
    ASSUME TypeOK, LockInv, NEW p \in Process, Check(p)
    PROVE  LockInv'
  <1>1. PICK k \in Reads(slot[p]) :
            /\ NoKey(k) \/ KeyExpired(p, k)
            /\ expired' = [expired EXCEPT ![p] = KeyExpired(p, k)]
    BY DEF Check
  <1>2. /\ pc[p] = "check" /\ pc' = [pc EXCEPT ![p] = "put"]
        /\ pc \in [Process -> RunnerStates \union TerminatorStates]
        /\ UNCHANGED <<lock, slot, age>> /\ slot[p] \in Slot
        /\ lag' = [lag EXCEPT ![p] = 0]
        /\ lag \in [Process -> 0 .. SyncWait] /\ expired \in [Process -> BOOLEAN]
    BY DEF Check, Goto, TypeOK, Attempting
  <1>3. \A q \in Process : q # p => /\ pc'[q] = pc[q] /\ lag'[q] = lag[q]
                                    /\ expired'[q] = expired[q]
    BY <1>1, <1>2
  <1>4. pc'[p] = "put" /\ lag'[p] = 0 /\ (~ expired'[p] => NoKey(k))
    BY <1>1, <1>2
  <1>5. ~ expired'[p] => lock[slot[p]][1].name = Nobody
    BY <1>1, <1>2, <1>4, KeyType DEF Reads, NoKey, LockInv, KeyInv
  <1>6. ASSUME NEW x \in Process
        PROVE  Alone(x)'
    <2>1. CASE x = p
      BY <1>4, <2>1 DEF Alone, Wrote, Owns
    <2>2. CASE x # p
      <3>1. OnItsWay(x)' = OnItsWay(x)
        BY <1>2 DEF OnItsWay
      <3>. QED  BY <1>2, <1>3, <2>2, <3>1 DEF LockInv, Alone, Wrote, Owns
    <2>. QED  BY <2>1, <2>2
  <1>7. ASSUME NEW x \in Process, NEW y \in Process, x # y, slot'[x] = slot'[y]
        PROVE  Pair(x, y)'
    <2>1. CASE x = p
      BY <1>4, <2>1 DEF Pair, Wrote
    <2>2. CASE y = p
      <3>1. Wrote(x) /\ ~ expired'[p] => age[x] <= lag[x]
        BY <1>2, <1>5, <1>7, <2>2 DEF LockInv, Alone
      <3>2. Wrote(x)' = Wrote(x) /\ lag'[x] = lag[x] /\ lag[x] \in Int
        BY <1>2, <1>3, <1>7, <2>2 DEF Wrote
      <3>. QED  BY <1>2, <1>4, <2>2, <3>1, <3>2 DEF Pair, Wrote
    <2>3. CASE x # p /\ y # p
      <3>1. Pair(x, y)
        BY <1>2, <1>7 DEF LockInv
      <3>2. (Behind(x, y) => Behind(x, y)') /\ (Behind(y, x) => Behind(y, x)')
        BY <1>2, <1>3, <2>3 DEF Behind, Before, Gone, Owns
      <3>. QED  BY <1>2, <1>3, <2>3, <3>1, <3>2 DEF Pair, Wrote
    <2>. QED  BY <2>1, <2>2, <2>3
  <1>8. \A s \in Slot : KeyInv(s)'
    BY <1>2 DEF LockInv, KeyInv
  <1>. QED  BY <1>6, <1>7, <1>8 DEF LockInv

\* PutName: p overwrites whoever wrote before.
LEMMA PutLock ==
    ASSUME TypeOK, LockInv, NEW p \in Process, PutName(p)
    PROVE  LockInv'
  <1>. DEFINE s == slot[p]
              n == Len(lock[s])
  <1>1. /\ pc[p] = "put" /\ pc' = [pc EXCEPT ![p] = "sleep"]
        /\ pc \in [Process -> RunnerStates \union TerminatorStates]
        /\ UNCHANGED <<slot, expired, lag>> /\ s \in Slot
        /\ lock' = [lock EXCEPT ![s] = Append(@, [name |-> p, age |-> 0])]
        /\ lock \in [Slot -> Seq(Version)]
        /\ age' = [age EXCEPT ![p] = 0]
        /\ age \in [Process -> 0 .. SyncWait] /\ lag \in [Process -> 0 .. SyncWait]
    BY DEF PutName, Goto, TypeOK, Attempting
  <1>2. /\ pc'[p] = "sleep" /\ age'[p] = 0
        /\ \A q \in Process : q # p => pc'[q] = pc[q] /\ age'[q] = age[q]
    BY <1>1
  <1>3. \A z \in Slot : z # s => lock'[z] = lock[z]
    BY <1>1
  <1>4. /\ n \in Nat /\ n > 0
        /\ DOMAIN lock[s] = 1 .. n /\ DOMAIN lock'[s] = 1 .. n + 1
        /\ \A i \in 1 .. n : lock'[s][i] = lock[s][i]
        /\ lock'[s][n + 1].name = p
    <2>1. [name |-> p, age |-> 0] \in Version
      BY TimeAssumption DEF Version
    <2>2. lock'[s] = Append(lock[s], [name |-> p, age |-> 0])
      BY <1>1
    <2>3. lock[s] \in Seq(Version) /\ n \in Nat \ {0}
      BY <1>1, KeyType
    <2>. HIDE DEF s
    <2>. QED  BY <2>1, <2>2, <2>3, AppendWrite
  <1>5. ASSUME NEW z \in Slot
        PROVE  KeyInv(z)'
    <2>1. CASE z = s
      BY <1>1, <1>4, <2>1, Sorts DEF LockInv, KeyInv
    <2>2. CASE z # s
      BY <1>3, <2>2 DEF LockInv, KeyInv
    <2>. QED  BY <2>1, <2>2
  <1>6. ASSUME NEW x \in Process, x # p, Wrote(x)
        PROVE  /\ slot[x] \in Slot
               /\ OnItsWay(x)' = OnItsWay(x)
               /\ lock'[slot[x]][1] = lock[slot[x]][1]
    <2>1. slot[x] \in Slot
      BY <1>6 DEF TypeOK, Wrote, Attempting
    <2>2. CASE slot[x] = s
      <3>1. (\E i \in DOMAIN lock[s] : i > 1 /\ lock[s][i].name = x) <=>
            (\E i \in DOMAIN lock'[s] : i > 1 /\ lock'[s][i].name = x)
        <4>. HIDE DEF s, n
        <4>1. \A i \in 1 .. n + 1 : i \in 1 .. n \/ i = n + 1
          BY <1>4
        <4>2. \A i \in 1 .. n : i \in 1 .. n + 1
          BY <1>4
        <4>. QED  BY <1>4, <1>6, <4>1, <4>2
      <3>2. OnItsWay(x)' <=> OnItsWay(x)
        <4>1. OnItsWay(x) <=> \E i \in DOMAIN lock[s] : i > 1 /\ lock[s][i].name = x
          BY <2>1, <2>2, OnItsWayIn
        <4>2. slot'[x] = slot[x]
          BY <1>1
        <4>3. OnItsWay(x)' <=> \E i \in DOMAIN lock'[s] : i > 1 /\ lock'[s][i].name = x
          BY <2>1, <2>2, <4>2, OnItsWayIn
        <4>. QED  BY <3>1, <4>1, <4>3
      <3>3. OnItsWay(x)' = OnItsWay(x)
        BY <3>2 DEF OnItsWay
      <3>4. 1 \in 1 .. n
        BY <1>4
      <3>. QED  BY <1>4, <2>1, <2>2, <3>3, <3>4
    <2>3. CASE slot[x] # s
      BY <1>1, <1>3, <2>1, <2>3 DEF OnItsWay
    <2>. QED  BY <2>1, <2>2, <2>3
  <1>7. ASSUME NEW x \in Process
        PROVE  Alone(x)'
    <2>1. CASE x = p
      <3>1. OnItsWay(p)'
        <4>1. n + 1 \in DOMAIN lock'[s] /\ n + 1 > 1
          BY <1>4
        <4>2. \E i \in DOMAIN lock'[s] : i > 1 /\ lock'[s][i].name = p
          BY <1>4, <4>1
        <4>. QED  BY <1>1, <4>2, OnItsWayIn
      <3>. QED  BY <1>1, <1>2, <2>1, <3>1 DEF Alone, Owns
    <2>2. CASE x # p
      BY <1>1, <1>2, <1>6, <2>2 DEF LockInv, Alone, Wrote, Owns
    <2>. QED  BY <2>1, <2>2
  <1>8. ASSUME NEW x \in Process, NEW y \in Process, x # p, y # p, slot[x] = slot[y],
               Wrote(x), Behind(x, y)
        PROVE  Behind(x, y)'
    <2>1. UNCHANGED <<slot[x], age[x], lag[x], lag[y]>> /\ Owns(x)' = Owns(x)
      BY <1>1, <1>2, <1>8 DEF Owns
    <2>2. CASE slot[x] = s
      <3>1. Gone(x, s) => Gone(x, s)'
        <4>1. s' = s
          BY <1>1
        <4>2. ASSUME \A i \in 1 .. n : lock[s][i].name # x, NEW i \in 1 .. n + 1
              PROVE  lock'[s][i].name # x
          <5>. HIDE DEF s, n
          <5>1. CASE i = n + 1
            BY <1>4, <1>8, <5>1
          <5>2. CASE i \in 1 .. n
            BY <1>4, <4>2, <5>2
          <5>. QED  BY <1>4, <5>1, <5>2
        <4>. QED  BY <1>4, <4>1, <4>2 DEF Gone
      <3>2. Before(x, y, s) => Before(x, y, s)'
        <4>. SUFFICES ASSUME Before(x, y, s)
                      PROVE  Before(x, y, s)'
          OBVIOUS
        <4>1. PICK j \in 1 .. n :
                  /\ j > 1 /\ lock[s][j].name = y
                  /\ \A i \in 1 .. n : lock[s][i].name = x => i < j
          BY <1>4 DEF Before
        <4>2. j \in 1 .. n + 1 /\ lock'[s][j].name = y
          BY <1>4, <4>1
        <4>3. \A i \in 1 .. n + 1 : i \in 1 .. n \/ i = n + 1
          BY <1>4
        <4>4. \A i \in 1 .. n + 1 : lock'[s][i].name = x => i < j
          BY <1>4, <1>8, <4>1, <4>3
        <4>5. s' = s
          BY <1>1
        <4>. QED  BY <1>4, <4>1, <4>2, <4>4, <4>5 DEF Before
      <3>3. Gone(x, s)' = Gone(x, slot[x])' /\ Before(x, y, s)' = Before(x, y, slot[x])'
        BY <1>1, <2>2 DEF Gone, Before
      <3>. QED  BY <1>8, <2>1, <2>2, <3>1, <3>2, <3>3 DEF Behind
    <2>3. CASE slot[x] # s
      BY <1>3, <1>6, <1>8, <2>1, <2>3 DEF Behind, Gone, Before
    <2>. QED  BY <2>2, <2>3
  <1>9. ASSUME NEW x \in Process, x # p, slot[x] = s, Wrote(x), ~ expired[p]
        PROVE  Behind(x, p)'
    <2>1. age[x] <= lag[x] + lag[p]
      BY <1>1, <1>9 DEF LockInv, Pair
    <2>2. Before(x, p, slot[x])'
      <3>1. slot'[x] = s
        BY <1>1, <1>9
      <3>2. \A i \in 1 .. n + 1 : lock'[s][i].name = x => i < n + 1
        BY <1>4, <1>9
      <3>. QED  BY <1>4, <3>1, <3>2 DEF Before
    <2>. QED  BY <1>1, <1>2, <1>9, <2>1, <2>2 DEF Behind
  <1>10. ASSUME NEW x \in Process, NEW y \in Process, x # y, slot'[x] = slot'[y]
         PROVE  Pair(x, y)'
    <2>0. slot[x] = slot[y]
      BY <1>1, <1>10
    <2>1. CASE x = p
      <3>1. Wrote(y)' => Wrote(y)
        BY <1>2, <1>10, <2>1 DEF Wrote
      <3>. QED  BY <1>1, <1>2, <1>9, <1>10, <2>0, <2>1, <3>1 DEF Pair
    <2>2. CASE y = p
      <3>1. Wrote(x)' => Wrote(x)
        BY <1>2, <1>10, <2>2 DEF Wrote
      <3>. QED  BY <1>1, <1>2, <1>9, <1>10, <2>0, <2>2, <3>1 DEF Pair
    <2>3. CASE x # p /\ y # p
      <3>1. Pair(x, y)
        BY <1>10, <2>0 DEF LockInv
      <3>2. Wrote(x)' = Wrote(x) /\ Wrote(y)' = Wrote(y)
        BY <1>2, <2>3 DEF Wrote
      <3>. QED  BY <1>1, <1>2, <1>8, <2>0, <2>3, <3>1, <3>2 DEF Pair
    <2>. QED  BY <2>1, <2>2, <2>3
  <1>. QED  BY <1>5, <1>7, <1>10 DEF LockInv

\* Settles: a name that was overwritten by the one that is everywhere now is gone.
LEMMA SettlesLock ==
    ASSUME TypeOK, LockInv, NEW s \in Slot, Settles(s)
    PROVE  LockInv'
  <1>. DEFINE n == Len(lock[s])
  <1>1. /\ UNCHANGED <<pc, slot, age, lag, expired>>
        /\ lock' = [lock EXCEPT ![s] = Tail(lock[s])]
        /\ lock \in [Slot -> Seq(Version)]
        /\ age \in [Process -> 0 .. SyncWait] /\ lag \in [Process -> 0 .. SyncWait]
        /\ n > 1
    BY DEF Settles, TypeOK, own
  <1>2. \A z \in Slot : z # s => lock'[z] = lock[z]
    BY <1>1
  <1>3. /\ n \in Nat
        /\ DOMAIN lock[s] = 1 .. n /\ DOMAIN lock'[s] = 1 .. n - 1
        /\ \A i \in 1 .. n - 1 : lock'[s][i] = lock[s][i + 1]
    BY <1>1, KeyType, TailWrites
  <1>4. ASSUME NEW z \in Slot
        PROVE  KeyInv(z)'
    <2>1. CASE z = s
      BY <1>1, <1>3, <2>1 DEF LockInv, KeyInv
    <2>2. CASE z # s
      BY <1>2, <2>2 DEF LockInv, KeyInv
    <2>. QED  BY <2>1, <2>2
  <1>5. ASSUME NEW x \in Process
        PROVE  Alone(x)'
    <2>1. CASE ~ Wrote(x)
      BY <1>1, <2>1 DEF Alone, Wrote, Owns
    <2>2. CASE Wrote(x) /\ slot[x] = s
      <3>1. lock'[s][1].name # Nobody
        <4>1. 1 \in 1 .. n - 1 /\ 2 \in 1 .. n /\ lock'[s][1] = lock[s][1 + 1]
          BY <1>1, <1>3
        <4>. QED  BY <1>3, <4>1 DEF LockInv, KeyInv
      <3>2. OnItsWay(x)' => OnItsWay(x)
        <4>. SUFFICES ASSUME OnItsWay(x)'
                      PROVE  OnItsWay(x)
          OBVIOUS
        <4>1. PICK i \in 1 .. n - 1 : i > 1 /\ lock[s][i + 1].name = x
          BY <1>1, <1>3, <2>2 DEF OnItsWay
        <4>2. i + 1 \in DOMAIN lock[s] /\ i + 1 > 1
          BY <1>3, <4>1
        <4>. QED  BY <1>1, <2>2, <4>1, <4>2 DEF OnItsWay, Slot, NoSlot
      <3>. QED  BY <1>1, <2>2, <3>1, <3>2 DEF LockInv, Alone, Wrote, Owns
    <2>3. CASE Wrote(x) /\ slot[x] # s
      <3>1. slot[x] \in Slot
        BY <2>3 DEF TypeOK, Wrote, Attempting
      <3>2. OnItsWay(x)' = OnItsWay(x) /\ lock'[slot[x]] = lock[slot[x]]
        BY <1>1, <1>2, <2>3, <3>1 DEF OnItsWay
      <3>. QED  BY <1>1, <3>2 DEF LockInv, Alone, Wrote, Owns
    <2>. QED  BY <2>1, <2>2, <2>3
  <1>6. ASSUME NEW x \in Process, NEW y \in Process, Wrote(x), Behind(x, y)
        PROVE  Behind(x, y)'
    <2>1. UNCHANGED <<slot[x], age[x], lag[x], lag[y]>> /\ Owns(x)' = Owns(x)
      BY <1>1 DEF Owns
    <2>2. CASE slot[x] = s
      <3>1. Gone(x, s) => Gone(x, slot[x])'
        BY <1>1, <1>3, <2>2 DEF Gone
      <3>2. ASSUME Before(x, y, s)
            PROVE  Gone(x, slot[x])' \/ Before(x, y, slot[x])'
        <4>1. PICK j \in 1 .. n :
                  /\ j > 1 /\ lock[s][j].name = y
                  /\ \A i \in 1 .. n : lock[s][i].name = x => i < j
          BY <1>3, <3>2 DEF Before
        <4>2. CASE j = 2
          BY <1>1, <1>3, <2>2, <4>1, <4>2 DEF Gone
        <4>3. CASE j > 2
          <5>1. j - 1 \in 1 .. n - 1 /\ j - 1 > 1 /\ lock'[s][j - 1].name = y
            BY <1>3, <4>1, <4>3
          <5>2. \A i \in 1 .. n - 1 : lock'[s][i].name = x => i < j - 1
            BY <1>3, <4>1
          <5>. QED  BY <1>1, <1>3, <2>2, <5>1, <5>2 DEF Before
        <4>. QED  BY <4>1, <4>2, <4>3
      <3>3. Owns(x) => age[x] >= SyncWait
        BY DEF LockInv, Alone
      <3>4. Owns(x) /\ age[x] <= lag[x] + lag[y] => lag[x] + lag[y] >= SyncWait
        BY <1>1, <3>3, TimeAssumption
      <3>. QED  BY <1>6, <2>1, <2>2, <3>1, <3>2, <3>4 DEF Behind
    <2>3. CASE slot[x] # s
      <3>1. slot[x] \in Slot
        BY <1>6 DEF TypeOK, Wrote, Attempting
      <3>2. lock'[slot[x]] = lock[slot[x]]
        BY <1>2, <2>3, <3>1
      <3>. QED  BY <1>6, <2>1, <3>2 DEF Behind, Gone, Before
    <2>. QED  BY <2>2, <2>3
  <1>7. ASSUME NEW x \in Process, NEW y \in Process, x # y, slot'[x] = slot'[y]
        PROVE  Pair(x, y)'
    <2>1. Pair(x, y)
      BY <1>1, <1>7 DEF LockInv
    <2>. QED  BY <1>1, <1>6, <2>1 DEF Pair, Wrote
  <1>. QED  BY <1>4, <1>5, <1>7 DEF LockInv

\* Tick: what counts the time of a name on its way keeps up with the sleep of the other.
LEMMA TickLock ==
    ASSUME TypeOK, LockInv, Tick
    PROVE  LockInv'
  <1>1. /\ UNCHANGED <<pc, slot, expired>>
        /\ \A q \in Process : age[q] \in 0 .. SyncWait /\ lag[q] \in 0 .. SyncWait
        /\ \A q \in Process : Wrote(q) => age'[q] = Older(age[q], SyncWait)
        /\ \A q \in Process :
               (Wrote(q) /\ OnItsWay(q)) \/ pc[q] = "put" => lag'[q] = Older(lag[q], SyncWait)
        /\ \A q \in Process :
               Wrote(q) \/ pc[q] = "put" => lag'[q] = lag[q] \/ lag'[q] = Older(lag[q], SyncWait)
    BY DEF Tick, TypeOK, Timed, Wrote
  <1>2. /\ SyncWait \in Nat
        /\ \A m \in 0 .. SyncWait :
               /\ Older(m, SyncWait) \in 0 .. SyncWait
               /\ Older(m, SyncWait) >= m /\ Older(m, SyncWait) <= m + 1
               /\ Older(m, SyncWait) = m + 1 \/ (m = SyncWait /\ Older(m, SyncWait) = SyncWait)
    BY TimeAssumption, OlderTime
  <1>3. ASSUME NEW s \in Slot
        PROVE  /\ DOMAIN lock'[s] = DOMAIN lock[s]
               /\ \A i \in DOMAIN lock[s] : lock'[s][i].name = lock[s][i].name
    BY AgedWrites DEF Tick
  <1>4. \A s \in Slot : KeyInv(s)'
    BY <1>3 DEF LockInv, KeyInv
  <1>5. ASSUME NEW x \in Process, Wrote(x)
        PROVE  /\ slot[x] \in Slot /\ OnItsWay(x)' = OnItsWay(x)
               /\ lock'[slot[x]][1].name = lock[slot[x]][1].name
    <2>1. slot[x] \in Slot
      BY <1>5 DEF TypeOK, Wrote, Attempting
    <2>2. 1 \in DOMAIN lock[slot[x]]
      BY <2>1, KeyType
    <2>. QED  BY <1>1, <1>3, <2>1, <2>2 DEF OnItsWay
  <1>6. ASSUME NEW x \in Process
        PROVE  Alone(x)'
    <2>1. Wrote(x)' = Wrote(x) /\ Owns(x)' = Owns(x) /\ (Owns(x) => Wrote(x))
      BY <1>1 DEF Wrote, Owns
    <2>2. Wrote(x) /\ OnItsWay(x) => age'[x] <= lag'[x]
      <3>1. Wrote(x) /\ OnItsWay(x) => age[x] <= lag[x]
        BY DEF LockInv, Alone
      <3>. QED  BY <1>1, <1>2, <3>1
    <2>3. Owns(x) => age'[x] >= SyncWait
      <3>1. Owns(x) => age[x] >= SyncWait
        BY DEF LockInv, Alone
      <3>. QED  BY <1>1, <1>2, <2>1, <3>1
    <2>4. Wrote(x) => (lock[slot[x]][1].name # Nobody \/ OnItsWay(x))'
      BY <1>1, <1>5 DEF LockInv, Alone
    <2>. QED  BY <1>5, <2>1, <2>2, <2>3, <2>4 DEF Alone
  <1>7. ASSUME NEW x \in Process, NEW y \in Process, slot[x] = slot[y], Wrote(x),
               Wrote(y), Behind(x, y)
        PROVE  Behind(x, y)'
    <2>1. slot[x] \in Slot /\ UNCHANGED <<slot[x], slot[y]>> /\ Owns(x)' = Owns(x)
      BY <1>1, <1>5, <1>7 DEF Owns
    <2>2. lag'[x] >= lag[x] /\ lag'[y] >= lag[y]
      BY <1>1, <1>2, <1>7
    <2>3. CASE lag[x] + lag[y] >= SyncWait
      <3>1. /\ lag'[x] \in Int /\ lag'[y] \in Int /\ lag[x] \in Int /\ lag[y] \in Int
            /\ SyncWait \in Int
        BY <1>1, <1>2, <1>7
      <3>2. lag'[x] + lag'[y] >= SyncWait
        BY <2>2, <2>3, <3>1
      <3>. QED  BY <3>2 DEF Behind
    <2>4. CASE ~ Owns(x) /\ Gone(x, slot[x])
      BY <1>3, <2>1, <2>4 DEF Behind, Gone
    <2>5. CASE age[x] <= lag[x] + lag[y] /\ Before(x, y, slot[x])
      <3>1. OnItsWay(y)
        BY <1>7, <2>1, <2>5, OnItsWayIn DEF Before
      <3>2. lag'[y] = Older(lag[y], SyncWait) /\ age'[x] = Older(age[x], SyncWait)
        BY <1>1, <1>7, <3>1
      <3>3. age'[x] <= lag'[x] + lag'[y]
        BY <1>1, <1>2, <1>7, <2>2, <2>5, <3>2
      <3>4. Before(x, y, slot[x])'
        BY <1>3, <2>1, <2>5 DEF Before
      <3>. QED  BY <3>3, <3>4 DEF Behind
    <2>. QED  BY <1>7, <2>3, <2>4, <2>5 DEF Behind
  <1>8. ASSUME NEW x \in Process, NEW y \in Process, x # y, slot'[x] = slot'[y]
        PROVE  Pair(x, y)'
    <2>1. Pair(x, y) /\ slot[x] = slot[y]
      BY <1>1, <1>8 DEF LockInv
    <2>2. ASSUME Wrote(x), pc[y] = "put", age[x] <= lag[x] + lag[y]
          PROVE  age'[x] <= lag'[x] + lag'[y]
      <3>1. lag'[y] = Older(lag[y], SyncWait) /\ age'[x] = Older(age[x], SyncWait)
        BY <1>1, <2>2
      <3>2. lag'[x] >= lag[x] /\ lag'[x] \in Int
        BY <1>1, <1>2, <2>2
      <3>. QED  BY <1>1, <1>2, <2>2, <3>1, <3>2
    <2>. QED  BY <1>1, <1>7, <2>1, <2>2 DEF Pair, Wrote
  <1>. QED  BY <1>4, <1>6, <1>8 DEF LockInv

\* ReadBack: p becomes the owner after its sleep, and a read finds its name.
LEMMA ReadBackLock ==
    ASSUME TypeOK, LockInv, NEW p \in Process, ReadBack(p), ~ GivenUp(p)
    PROVE  LockInv'
  <1>1. /\ pc[p] = "sleep" /\ pc' = [pc EXCEPT ![p] = "owner"]
        /\ pc \in [Process -> RunnerStates \union TerminatorStates]
        /\ UNCHANGED <<lock, slot, age, expired, lag>>
        /\ age[p] >= SyncWait
        /\ \E k \in Reads(slot[p]) : StillMine(p, k)
    BY DEF ReadBack, Goto, TypeOK
  <1>2. ~ Gone(p, slot[p])
    BY <1>1 DEF Reads, StillMine, Gone
  <1>3. \A x \in Process : Stays(x)
    BY <1>1, <1>2 DEF Stays, Wrote, Owns
  <1>. QED  BY <1>1, <1>3, LockStays

\* Where a session is sent that has nothing to do with a lock.
LEMMA LeaveLock ==
    ASSUME TypeOK, LockInv, NEW p \in Process, NEW w, Goto(p, w),
           w \notin {"put", "sleep", "owner", "added"}, UNCHANGED <<lock, age, lag>>,
           \A q \in Process : q # p => slot'[q] = slot[q] /\ expired'[q] = expired[q]
    PROVE  LockInv'
  <1>1. pc'[p] = w /\ \A q \in Process : q # p => pc'[q] = pc[q]
    BY DEF Goto, TypeOK
  <1>2. Leaves(p)
    BY <1>1 DEF Leaves, Wrote
  <1>3. \A q \in Process : q # p => Stays(q)
    BY <1>1 DEF Stays, Wrote, Owns
  <1>. QED  BY <1>2, <1>3, LockStays

\* Giving up sends a session where it has nothing to do with the lock.
LEMMA GivenUpLock ==
    ASSUME TypeOK, LockInv, NEW p \in Process, GivenUp(p),
           UNCHANGED <<lock, slot, age, expired, lag>>
    PROVE  LockInv'
  <1>1. PICK w \in {"look", "next"} : Goto(p, w)
    BY DEF GivenUp
  <1>. QED  BY <1>1, LeaveLock

\* Every step of the specification keeps what is known of the lock.
LEMMA NextLock == TypeOK /\ LockInv /\ [Next]_vars => LockInv'
  <1>. SUFFICES ASSUME TypeOK, LockInv, [Next]_vars
                PROVE  LockInv'
    OBVIOUS
  <1>1. ASSUME NEW p \in Process, Attempt(p)
        PROVE  LockInv'
    <2>1. CASE KeyTaken(p)
      BY <2>1, GivenUpLock DEF KeyTaken
    <2>2. CASE ReadBack(p) /\ GivenUp(p)
      BY <2>2, GivenUpLock DEF ReadBack
    <2>3. CASE ReadBack(p) /\ ~ GivenUp(p)
      BY <2>3, ReadBackLock
    <2>. QED  BY <1>1, <2>1, <2>2, <2>3, CheckLock, PutLock DEF Attempt
  <1>2. ASSUME NEW r \in Runner, Search(r) \/ Submit(r) \/ RunnerCrashes(r)
        PROVE  LockInv'
    <2>0. r \in Process
      BY Sorts
    <2>1. CASE Look(r)
      <3>1. /\ Goto(r, "check") /\ UNCHANGED <<lock, age, lag>>
            /\ \A q \in Process : q # r => slot'[q] = slot[q] /\ expired'[q] = expired[q]
        BY <2>1 DEF Look, TypeOK
      <3>. QED  BY <2>0, <3>1, LeaveLock
    <2>2. CASE NoneUsable(r) \/ TimeOver(r) \/ AddStepsFails(r) \/ RunnerCrashes(r)
      <3>1. PICK w \in {"ownflow", "failed", "crashed"} :
                Goto(r, w) /\ UNCHANGED <<lock, own>>
        BY <2>2 DEF NoneUsable, TimeOver, AddStepsFails, RunnerCrashes
      <3>. QED  BY <2>0, <3>1, LeaveLock DEF own
    <2>3. CASE WaitForPool(r)
      <3>1. \A x \in Process : Stays(x)
        BY <2>3 DEF WaitForPool, Stays, Wrote, Owns
      <3>. QED  BY <2>3, <3>1, LockStays DEF WaitForPool
    <2>4. CASE AddSteps(r)
      <3>1. /\ pc[r] = "owner" /\ UNCHANGED <<lock, own>>
            /\ pc'[r] = "added" /\ \A q \in Process : q # r => pc'[q] = pc[q]
        BY <2>0, <2>4 DEF AddSteps, Goto, TypeOK
      <3>2. \A x \in Process : Stays(x)
        BY <3>1 DEF Stays, Wrote, Owns, own
      <3>. QED  BY <3>1, <3>2, LockStays
    <2>. QED  BY <1>2, <2>1, <2>2, <2>3, <2>4 DEF Search, Submit
  <1>3. ASSUME NEW t \in Terminator, Cron(t) \/ TerminatorCrashes(t)
        PROVE  LockInv'
    <2>0. t \in Process
      BY Sorts
    <2>1. CASE TakeNext(t)
      <3>1. /\ Goto(t, "check") /\ UNCHANGED <<lock, age, lag>>
            /\ \A q \in Process : q # t => slot'[q] = slot[q] /\ expired'[q] = expired[q]
        BY <2>1 DEF TakeNext, TypeOK
      <3>. QED  BY <2>0, <3>1, LeaveLock
    <2>2. CASE Inspect(t) \/ AllTaken(t) \/ Terminate(t) \/ TerminatorCrashes(t)
      <3>1. PICK w \in {"done", "next"} :
                Goto(t, w) /\ UNCHANGED <<lock, slot, age, expired, lag>>
        BY <2>2 DEF Inspect, AllTaken, Terminate, TerminatorCrashes, own
      <3>. QED  BY <2>0, <3>1, LeaveLock
    <2>. QED  BY <1>3, <2>1, <2>2 DEF Cron
  <1>4. CASE (\E f \in Flow : StepsStart(f) \/ StepsEnd(f)) \/ UNCHANGED vars
    <2>1. UNCHANGED <<lock, pc, own>>
      BY <1>4 DEF StepsStart, StepsEnd, vars, own
    <2>2. \A x \in Process : Stays(x)
      BY <2>1 DEF Stays, Wrote, Owns, own
    <2>. QED  BY <2>1, <2>2, LockStays
  <1>. QED  BY <1>1, <1>2, <1>3, <1>4, SettlesLock, TickLock DEF Next
-------------------------------------------------------------------------------
(***************************************************************************)
(* What a session has seen of a flow.                                      *)
(***************************************************************************)

\* Two owners of a key have slept and still found their own names, so that the times for
\* which those were on their way make up a whole wait together.
LEMMA OwnersApart == TypeOK /\ LockInv => OneOwner
  <1>. SUFFICES ASSUME TypeOK, LockInv, NEW p \in Process, NEW q \in Process,
                       p # q, Owns(p), Owns(q), slot[p] = slot[q],
                       ~ expired[p], ~ expired[q]
                PROVE  lag[p] + lag[q] >= SyncWait
    BY DEF OneOwner
  <1>1. /\ lag[p] \in Int /\ lag[q] \in Int /\ age[p] \in Int /\ age[q] \in Int
        /\ SyncWait \in Int
    BY TimeAssumption DEF TypeOK
  <1>2. age[p] >= SyncWait /\ age[q] >= SyncWait
    BY DEF LockInv, Alone
  <1>3. Behind(p, q) \/ Behind(q, p)
    BY DEF LockInv, Pair, Wrote, Owns
  <1>. QED  BY <1>1, <1>2, <1>3 DEF Behind

\* Then one of them was not clean.
LEMMA OneIsNotClean ==
    ASSUME TypeOK, LockInv, NEW p \in Process, NEW q \in Process,
           p # q, Owns(p), Owns(q), slot[p] = slot[q]
    PROVE  ~ Clean(p) \/ ~ Clean(q)
  <1>1. expired[p] \/ expired[q] \/ lag[p] + lag[q] >= SyncWait
    BY OwnersApart DEF OneOwner
  <1>2. lag[p] \in Int /\ lag[q] \in Int /\ SyncWait \in Int
    BY TimeAssumption DEF TypeOK
  <1>. QED  BY <1>1, <1>2 DEF Clean

\* An owner with an old description was overtaken, and then somebody was not clean: the
\* flow's steps were added under the owner's own key, or by one that was not clean.
LEMMA OwnerView == TypeOK /\ LockInv /\ ViewInv => ViewIsCurrent
  <1>. SUFFICES ASSUME TypeOK, LockInv, ViewInv, NEW p \in Process,
                       pc[p] = "owner", steps[slot[p][1]] + 1 # slot[p][2]
                PROVE  \/ ~ Clean(p)
                       \/ \E r \in Runner :
                              pc[r] = "added" /\ slot[r][1] = slot[p][1] /\ ~ Clean(r)
    BY DEF ViewIsCurrent
  <1>1. Overtaken(slot[p])
    BY DEF ViewInv, Seen, Attempting
  <1>2. PICK r \in Runner :
            /\ pc[r] = "added"
            /\ slot[r] = slot[p] \/ (slot[r][1] = slot[p][1] /\ ~ Clean(r))
    BY <1>1 DEF Overtaken
  <1>3. CASE slot[r] = slot[p]
    <2>1. r \in Process /\ r # p
      BY <1>2, Sorts
    <2>2. ~ Clean(p) \/ ~ Clean(r)
      BY <1>2, <1>3, <2>1, OneIsNotClean DEF Owns
    <2>. QED  BY <1>2, <1>3, <2>2
  <1>. QED  BY <1>2, <1>3

\* Steps that add nothing to a flow leave what was seen as true as it was, and what is
\* seen now is true.
LEMMA SeenStays ==
    ASSUME UNCHANGED steps, NEW s, Seen(s),
           \A r \in Runner : pc[r] = "added" =>
               /\ pc'[r] = "added" /\ slot'[r] = slot[r]
               /\ ~ Clean(r) => ~ Clean(r)'
    PROVE  Seen(s)'
  BY DEF Seen, Overtaken

\* AddSteps: what was seen of the flow is overtaken, by a session of the same key unless
\* the one that adds was itself overtaken.
LEMMA SeenByOthers ==
    ASSUME TypeOK, LockInv, ViewInv, NEW r \in Runner, AddSteps(r), NEW s \in Slot, Seen(s)
    PROVE  Seen(s)'
  <1>0. r \in Process /\ slot[r] \in Slot /\ slot[r][1] \in Flow /\ s[1] \in Flow
    BY Sorts, SlotParts DEF AddSteps, TypeOK, Attempting
  <1>1. /\ steps' = [steps EXCEPT ![slot[r][1]] = @ + NumSteps[r]]
        /\ steps \in [Flow -> 0 .. MaxSteps]
        /\ NumSteps[r] \in Nat \ {0}
        /\ pc' = [pc EXCEPT ![r] = "added"] /\ pc[r] = "owner"
        /\ pc \in [Process -> RunnerStates \union TerminatorStates]
        /\ UNCHANGED <<slot, expired, lag>>
    BY StepsAssumption DEF AddSteps, Goto, TypeOK, own
  <1>2. pc'[r] = "added" /\ \A q \in Process : q # r => pc'[q] = pc[q]
    BY <1>0, <1>1
  <1>3. Overtaken(s) => Overtaken(s)'
    <2>. SUFFICES ASSUME NEW q \in Runner, pc[q] = "added",
                         slot[q] = s \/ (slot[q][1] = s[1] /\ ~ Clean(q))
                  PROVE  Overtaken(s)'
      BY DEF Overtaken
    <2>1. pc'[q] = "added"
      BY <1>1, <1>2, Sorts
    <2>. QED  BY <1>1, <2>1 DEF Overtaken, Clean
  <1>4. CASE slot[r][1] # s[1]
    <2>1. steps'[s[1]] = steps[s[1]]
      BY <1>0, <1>1, <1>4
    <2>. QED  BY <1>3, <2>1 DEF Seen
  <1>5. CASE slot[r][1] = s[1]
    <2>1. /\ steps'[s[1]] = steps[s[1]] + NumSteps[r]
          /\ steps[s[1]] \in Nat /\ s[2] \in Nat
      BY <1>0, <1>1, <1>5, SlotParts
    <2>2. s[2] <= steps[s[1]] + 1
      BY DEF Seen
    <2>3. s[2] <= steps'[s[1]] + 1
      BY <1>1, <2>1, <2>2
    <2>4. CASE s[2] # steps[s[1]] + 1
      BY <1>3, <2>3, <2>4 DEF Seen
    <2>5. CASE s[2] = steps[s[1]] + 1 /\ slot[r] = s
      BY <1>1, <1>2, <2>3, <2>5 DEF Seen, Overtaken
    <2>6. CASE s[2] = steps[s[1]] + 1 /\ slot[r] # s
      <3>1. steps[slot[r][1]] + 1 # slot[r][2]
        BY <1>0, <1>5, <2>6, SlotParts
      <3>2. \/ ~ Clean(r)
            \/ \E q \in Runner : pc[q] = "added" /\ slot[q][1] = slot[r][1] /\ ~ Clean(q)
        BY <1>0, <1>1, <3>1, OwnerView DEF ViewIsCurrent
      <3>3. CASE ~ Clean(r)
        BY <1>1, <1>2, <1>5, <2>3, <3>3 DEF Seen, Overtaken, Clean
      <3>4. CASE \E q \in Runner : pc[q] = "added" /\ slot[q][1] = slot[r][1] /\ ~ Clean(q)
        <4>1. Overtaken(s)
          BY <1>5, <3>4 DEF Overtaken
        <4>. QED  BY <1>3, <2>3, <4>1 DEF Seen
      <3>. QED  BY <3>2, <3>3, <3>4
    <2>. QED  BY <2>4, <2>5, <2>6
  <1>. QED  BY <1>4, <1>5

\* What is described now is seen as it is.
LEMMA SeenNow ==
    ASSUME TypeOK, NEW f \in Flow
    PROVE  Seen(<<f, steps[f] + 1>>)
  <1>1. steps[f] + 1 \in Int
    <2>1. steps[f] \in 0 .. MaxSteps
      BY NextSlot
    <2>. QED  BY <2>1, StepsAssumption
  <1>2. \A s \in Slot : s[1] = f /\ s[2] = steps[f] + 1 => Seen(s)
    BY <1>1 DEF Seen
  <1>. QED  BY <1>2, NextSlot

\* A step that adds nothing to a flow keeps ViewInv, if whoever attempts a key afterwards
\* did so before or has a description that is true, and so for the list of the cron job.
LEMMA ViewStays ==
    ASSUME TypeOK, TypeOK', ViewInv, UNCHANGED steps,
           \A r \in Runner : pc[r] = "added" =>
               /\ pc'[r] = "added" /\ slot'[r] = slot[r]
               /\ ~ Clean(r) => ~ Clean(r)',
           \A p \in Process : pc'[p] \in Attempting =>
               \/ pc[p] \in Attempting /\ slot'[p] = slot[p]
               \/ \E s \in Slot : slot'[p] = s /\ Seen(s),
           \A t \in Terminator : \A s \in todo'[t] : s \in todo[t] \/ Seen(s)
    PROVE  ViewInv'
  <1>1. ASSUME NEW p \in Process, pc'[p] \in Attempting
        PROVE  Seen(slot[p])'
    <2>1. PICK s \in Slot : s = slot'[p] /\ Seen(s)
      <3>1. CASE pc[p] \in Attempting /\ slot'[p] = slot[p]
        BY <3>1 DEF ViewInv, TypeOK
      <3>. QED  BY <1>1, <3>1
    <2>2. Seen(s)'
      BY <2>1, SeenStays
    <2>. QED  BY <2>1, <2>2 DEF Seen, Overtaken
  <1>2. ASSUME NEW t \in Terminator, NEW s \in todo'[t]
        PROVE  Seen(s)'
    <2>1. s \in Slot /\ Seen(s)
      BY <1>2 DEF ViewInv, TypeOK
    <2>. QED  BY <2>1, SeenStays
  <1>. QED  BY <1>1, <1>2 DEF ViewInv

\* Every step of the specification keeps what is known of the descriptions.
LEMMA NextView ==
    ASSUME TypeOK, TypeOK', LockInv, ViewInv, [Next]_vars
    PROVE  ViewInv'
  <1>0. \A r \in Process : expired'[r] = expired[r] /\ lag'[r] = lag[r] => Clean(r)' = Clean(r)
    BY DEF Clean
  <1>1. ASSUME NEW p \in Process, Attempt(p)
        PROVE  ViewInv'
    <2>1. /\ UNCHANGED <<steps, slot, todo>>
          /\ pc[p] \in Attempting /\ pc[p] # "added"
          /\ \A q \in Process : q # p => /\ pc'[q] = pc[q] /\ expired'[q] = expired[q]
                                         /\ lag'[q] = lag[q]
      BY <1>1 DEF Attempt, Check, KeyTaken, PutName, ReadBack, GivenUp, Goto, TypeOK, emr,
                  Attempting
    <2>. QED  BY <1>0, <2>1, ViewStays, Sorts
  <1>2. ASSUME NEW p \in Process, pc[p] # "added", pc'[p] \notin Attempting,
               \A q \in Process : q # p => pc'[q] = pc[q],
               UNCHANGED <<steps, slot, expired, lag>>,
               \A t \in Terminator : \A s \in todo'[t] : s \in todo[t] \/ Seen(s)
        PROVE  ViewInv'
    BY <1>0, <1>2, ViewStays, Sorts
  <1>3. ASSUME NEW r \in Runner, Search(r) \/ RunnerCrashes(r) \/ AddStepsFails(r)
        PROVE  ViewInv'
    <2>0. r \in Process
      BY Sorts
    <2>1. CASE Look(r)
      <3>1. PICK f \in Usable(r) : slot' = [slot EXCEPT ![r] = <<f, steps[f] + 1>>]
        BY <2>1 DEF Look
      <3>2. f \in Flow /\ <<f, steps[f] + 1>> \in Slot /\ slot'[r] = <<f, steps[f] + 1>>
        BY <2>0, <3>1, NextSlot DEF Usable, TypeOK
      <3>3. Seen(<<f, steps[f] + 1>>)
        BY <3>2, SeenNow
      <3>4. /\ UNCHANGED <<steps, todo>> /\ pc[r] # "added"
            /\ \A q \in Process : q # r => /\ pc'[q] = pc[q] /\ slot'[q] = slot[q]
                                           /\ expired'[q] = expired[q] /\ lag'[q] = lag[q]
        BY <2>0, <2>1, <3>1 DEF Look, Goto, TypeOK, emr
      <3>. QED  BY <1>0, <3>2, <3>3, <3>4, ViewStays, Sorts
    <2>2. CASE NoneUsable(r) \/ TimeOver(r) \/ AddStepsFails(r) \/ RunnerCrashes(r)
      <3>1. PICK w \in {"ownflow", "failed", "crashed"} :
                /\ Goto(r, w) /\ UNCHANGED <<emr, lock, own>>
                /\ pc[r] # "added"
        BY <2>2 DEF NoneUsable, TimeOver, AddStepsFails, RunnerCrashes, Attempting
      <3>2. /\ pc'[r] = w /\ w \notin Attempting
            /\ \A q \in Process : q # r => pc'[q] = pc[q]
        BY <2>0, <3>1 DEF Goto, TypeOK, Attempting
      <3>. QED  BY <1>2, <2>0, <3>1, <3>2 DEF emr, own
    <2>3. CASE WaitForPool(r)
      BY <1>0, <2>3, ViewStays, Sorts DEF WaitForPool, emr
    <2>. QED  BY <1>3, <2>1, <2>2, <2>3 DEF Search
  <1>4. ASSUME NEW r \in Runner, AddSteps(r)
        PROVE  ViewInv'
    <2>1. /\ \A q \in Process : pc'[q] \in Attempting => pc[q] \in Attempting
          /\ UNCHANGED <<slot, todo>>
      BY <1>4, Sorts DEF AddSteps, Goto, TypeOK, own, Attempting
    <2>2. ASSUME NEW q \in Process, pc'[q] \in Attempting
          PROVE  Seen(slot[q])'
      <3>1. PICK s \in Slot : s = slot[q] /\ Seen(s)
        BY <2>1, <2>2 DEF ViewInv, TypeOK
      <3>2. Seen(s)'
        BY <1>4, <3>1, SeenByOthers
      <3>. QED  BY <2>1, <3>1, <3>2 DEF Seen, Overtaken
    <2>3. ASSUME NEW t \in Terminator, NEW s \in todo'[t]
          PROVE  Seen(s)'
      <3>1. s \in Slot /\ Seen(s)
        BY <2>1, <2>3 DEF ViewInv, TypeOK
      <3>. QED  BY <1>4, <3>1, SeenByOthers
    <2>. QED  BY <2>2, <2>3 DEF ViewInv
  <1>5. ASSUME NEW t \in Terminator, Cron(t) \/ TerminatorCrashes(t)
        PROVE  ViewInv'
    <2>0. t \in Process /\ pc[t] # "added"
      BY Sorts DEF TypeOK, TerminatorStates, Attempting
    <2>1. CASE TakeNext(t)
      <3>1. PICK s \in todo[t] : /\ slot' = [slot EXCEPT ![t] = s]
                                 /\ todo' = [todo EXCEPT ![t] = @ \ {s}]
        BY <2>1 DEF TakeNext
      <3>2. s \in Slot /\ Seen(s) /\ slot'[t] = s
        BY <2>0, <3>1 DEF ViewInv, TypeOK
      <3>3. /\ UNCHANGED steps
            /\ \A q \in Process : q # t => /\ pc'[q] = pc[q] /\ slot'[q] = slot[q]
                                           /\ expired'[q] = expired[q] /\ lag'[q] = lag[q]
        BY <2>0, <2>1, <3>1 DEF TakeNext, Goto, TypeOK, emr
      <3>4. \A u \in Terminator : todo'[u] \subseteq todo[u]
        BY <3>1 DEF TypeOK
      <3>. QED  BY <1>0, <2>0, <3>2, <3>3, <3>4, ViewStays, Sorts
    <2>2. CASE Inspect(t)
      <3>1. PICK idle \in SUBSET {f \in Flow : flow[f] \in {"waiting", "pending"}} :
                todo' = [todo EXCEPT ![t] = {<<f, steps[f] + 1>> : f \in idle}]
        BY <2>2 DEF Inspect
      <3>2. \A s \in {<<f, steps[f] + 1>> : f \in idle} : Seen(s)
        BY SeenNow
      <3>3. \A u \in Terminator : \A s \in todo'[u] : s \in todo[u] \/ Seen(s)
        BY <3>1, <3>2 DEF TypeOK
      <3>4. /\ UNCHANGED <<steps, slot, expired, lag>> /\ pc'[t] = "next"
            /\ \A q \in Process : q # t => pc'[q] = pc[q]
        BY <2>0, <2>2 DEF Inspect, Goto, TypeOK, emr
      <3>. QED  BY <1>2, <2>0, <3>3, <3>4 DEF Attempting
    <2>3. CASE AllTaken(t) \/ Terminate(t) \/ TerminatorCrashes(t)
      <3>1. PICK w \in {"done", "next"} :
                Goto(t, w) /\ UNCHANGED <<steps, slot, expired, lag>>
        BY <2>3 DEF AllTaken, Terminate, TerminatorCrashes, emr, own
      <3>2. pc'[t] \notin Attempting /\ \A q \in Process : q # t => pc'[q] = pc[q]
        BY <2>0, <3>1 DEF Goto, TypeOK, Attempting
      <3>3. \A u \in Terminator : todo'[u] \subseteq todo[u]
        BY <2>3 DEF AllTaken, Terminate, TerminatorCrashes, own, TypeOK
      <3>. QED  BY <1>2, <2>0, <3>1, <3>2, <3>3
    <2>. QED  BY <1>5, <2>1, <2>2, <2>3 DEF Cron
  <1>6. CASE \/ \E f \in Flow : StepsStart(f) \/ StepsEnd(f)
             \/ \E s \in Slot : Settles(s)
             \/ UNCHANGED vars
    <2>1. UNCHANGED <<steps, pc, slot, expired, todo, lag>>
      BY <1>6 DEF StepsStart, StepsEnd, Settles, vars, emr, own
    <2>. QED  BY <1>0, <2>1, ViewStays, Sorts
  <1>7. CASE Tick
    <2>1. UNCHANGED <<steps, pc, slot, expired, todo>>
      BY <1>7 DEF Tick, emr
    <2>2. ASSUME NEW r \in Runner, pc[r] = "added"
          PROVE  ~ Clean(r) => ~ Clean(r)'
      <3>1. lag[r] \in 0 .. SyncWait /\ lag'[r] \in 0 .. SyncWait /\ SyncWait \in Nat
        BY Sorts, TimeAssumption DEF TypeOK
      <3>2. lag'[r] = lag[r] \/ lag'[r] = Older(lag[r], SyncWait)
        BY <1>7, <2>2, Sorts DEF Tick, Timed
      <3>3. lag'[r] >= lag[r]
        BY <3>1, <3>2, OlderTime
      <3>. QED  BY <2>1, <3>1, <3>3 DEF Clean
    <2>. QED  BY <2>1, <2>2, ViewStays
  <1>. QED  BY <1>1, <1>3, <1>4, <1>5, <1>6, <1>7 DEF Next, Submit
-------------------------------------------------------------------------------
\* The inductive invariant holds in every behaviour.
THEOREM Invariance == Spec => []IInv
  <1>1. IInv /\ [Next]_vars => IInv'
    BY NextType, NextLock, NextView DEF IInv
  <1>. QED  BY InitIInv, <1>1, PTL DEF Spec

\* Every variable of the pool keeps its type: no more sleeps than pool_wait_minutes has,
\* no step over the limit of a flow.
THEOREM TypeCorrect == Spec => []TypeOK
  <1>1. IInv => TypeOK
    BY DEF IInv
  <1>. QED  BY <1>1, Invariance, PTL

\* The lock has one owner, for any number of sessions and whatever the times are and the
\* reads return, as long as no two of its sessions keep S3 busy for a whole wait together and
\* none takes over an expired key.
THEOREM LockHasOneOwner == Spec => []OneOwner
  <1>1. IInv => OneOwner
    BY OwnersApart DEF IInv
  <1>. QED  BY <1>1, Invariance, PTL

\* An owner may act on its description of the flow, unless it took over an expired key or
\* somebody's name was slow to be everywhere.
THEOREM OwnersViewIsCurrent == Spec => []ViewIsCurrent
  <1>1. IInv => ViewIsCurrent
    BY OwnerView DEF IInv
  <1>. QED  BY <1>1, Invariance, PTL

\* Every read finds a key in the way of the next job of f, and no runner is past its check.
LockedOut(f) ==
    /\ <<f, steps[f] + 1>> \in Slot
    /\ \A k \in Reads(<<f, steps[f] + 1>>) : k.name # Nobody
    /\ \A r \in Runner :
           pc[r] \in Attempting /\ slot[r][1] = f =>
               pc[r] = "check" /\ slot[r] = <<f, steps[f] + 1>>

\* What is locked out once is locked out for good: no job is given to the flow again.
LockedOutForGood == [][\A f \in Flow : LockedOut(f) => LockedOut(f)']_vars

\* One more name in a key where every read finds one.
LEMMA PutReads ==
    ASSUME TypeOK, NEW p \in Process, PutName(p), NEW f \in Flow, LockedOut(f),
           <<f, steps[f] + 1>> \in Slot
    PROVE  \A k \in Reads(<<f, steps[f] + 1>>)' : k.name # Nobody
  <1>. DEFINE s == <<f, steps[f] + 1>>
  <1>1. /\ slot[p] \in Slot /\ UNCHANGED steps
        /\ lock' = [lock EXCEPT ![slot[p]] = Append(@, [name |-> p, age |-> 0])]
        /\ lock \in [Slot -> Seq(Version)]
    BY DEF PutName, TypeOK, Attempting, emr
  <1>2. \A i \in DOMAIN lock[s] : lock[s][i].name # Nobody
    BY DEF LockedOut, Reads
  <1>3. \A i \in DOMAIN lock'[s] : lock'[s][i].name # Nobody
    <2>1. CASE slot[p] = s
      <3>1. lock'[s] = Append(lock[s], [name |-> p, age |-> 0])
        BY <1>1, <2>1
      <3>2. lock[s] \in Seq(Version) /\ [name |-> p, age |-> 0] \in Version
        <4>1. 0 \in 0 .. Expiry + 1
          BY TimeAssumption
        <4>. QED  BY <1>1, <4>1 DEF Version
      <3>3. \A i \in DOMAIN lock'[s] : i \in DOMAIN lock[s] \/ lock'[s][i] = [name |-> p, age |-> 0]
        BY <3>1, <3>2, AppendWrite
      <3>4. \A i \in DOMAIN lock[s] : lock'[s][i] = lock[s][i]
        BY <3>1, <3>2, AppendWrite
      <3>. QED  BY <1>2, <3>3, <3>4, Sorts
    <2>2. CASE slot[p] # s
      BY <1>1, <1>2, <2>2
    <2>. QED  BY <2>1, <2>2
  <1>. QED  BY <1>1, <1>3 DEF Reads

\* Neither time nor a write that settles brings back that there was no key.
LEMMA TimeReads ==
    ASSUME TypeOK, Tick \/ \E s \in Slot : Settles(s), NEW f \in Flow, LockedOut(f),
           <<f, steps[f] + 1>> \in Slot
    PROVE  \A k \in Reads(<<f, steps[f] + 1>>)' : k.name # Nobody
  <1>. DEFINE z == <<f, steps[f] + 1>>
  <1>1. \A i \in DOMAIN lock[z] : lock[z][i].name # Nobody
    BY DEF LockedOut, Reads
  <1>2. UNCHANGED steps
    BY DEF Tick, Settles, emr
  <1>3. CASE Tick
    <2>1. /\ DOMAIN lock'[z] = DOMAIN lock[z]
          /\ \A i \in DOMAIN lock[z] : lock'[z][i].name = lock[z][i].name
      BY <1>3, AgedWrites DEF Tick
    <2>. QED  BY <1>1, <1>2, <2>1 DEF Reads
  <1>4. ASSUME NEW s \in Slot, Settles(s)
        PROVE  \A k \in Reads(z)' : k.name # Nobody
    <2>1. CASE s = z
      <3>1. lock'[z] = Tail(lock[z]) /\ Len(lock[z]) > 1
        BY <1>4, <2>1 DEF Settles, TypeOK
      <3>2. /\ DOMAIN lock'[z] = 1 .. Len(lock[z]) - 1 /\ DOMAIN lock[z] = 1 .. Len(lock[z])
            /\ Len(lock[z]) \in Nat
            /\ \A i \in 1 .. Len(lock[z]) - 1 : lock'[z][i] = lock[z][i + 1]
        BY <3>1, KeyType, TailWrites
      <3>3. ASSUME NEW i \in DOMAIN lock'[z]
            PROVE  lock'[z][i].name # Nobody
        <4>1. i + 1 \in DOMAIN lock[z] /\ lock'[z][i] = lock[z][i + 1]
          BY <3>2
        <4>. QED  BY <1>1, <4>1
      <3>. QED  BY <1>2, <3>3 DEF Reads
    <2>2. CASE s # z
      <3>1. lock'[z] = lock[z]
        BY <1>4, <2>2 DEF Settles, TypeOK
      <3>. QED  BY <1>1, <1>2, <3>1 DEF Reads
    <2>. QED  BY <2>1, <2>2
  <1>. QED  BY <1>3, <1>4

\* A flow whose key was left behind by a crash is given no job again, however long ago that
\* was: only the cron job looks at the age of a key.
THEOREM LeftLockedForGood == Spec => LockedOutForGood
  <1>1. ASSUME TypeOK, [Next]_vars, NEW f \in Flow, LockedOut(f)
        PROVE  LockedOut(f)'
    <2>0. <<f, steps[f] + 1>> \in Slot /\ <<f, steps[f] + 1>>[1] = f
      BY <1>1, NextSlot
    <2>1. ASSUME UNCHANGED <<steps, slot>>,
                 \A k \in Reads(<<f, steps[f] + 1>>)' : k.name # Nobody,
                 \A r \in Runner : pc'[r] \in Attempting /\ slot[r][1] = f =>
                     pc[r] \in Attempting /\ pc'[r] = pc[r]
          PROVE  LockedOut(f)'
      BY <1>1, <2>1 DEF LockedOut, Reads
    <2>1a. lock' = lock /\ UNCHANGED steps =>
               \A k \in Reads(<<f, steps[f] + 1>>)' : k.name # Nobody
      BY <1>1 DEF LockedOut, Reads
    <2>2. ASSUME NEW p \in Process, Attempt(p)
          PROVE  LockedOut(f)'
      <3>1. UNCHANGED <<steps, slot>> /\ pc[p] \in Attempting
        BY <2>2 DEF Attempt, Check, KeyTaken, PutName, ReadBack, emr, Attempting
      <3>2. \A k \in Reads(<<f, steps[f] + 1>>)' : k.name # Nobody
        <4>1. CASE PutName(p)
          BY <1>1, <2>0, <4>1, PutReads
        <4>2. CASE Check(p) \/ KeyTaken(p) \/ ReadBack(p)
          BY <2>1a, <3>1, <4>2 DEF Check, KeyTaken, ReadBack
        <4>. QED  BY <2>2, <4>1, <4>2 DEF Attempt
      <3>3. \A q \in Process : q # p => pc'[q] = pc[q]
        BY <1>1, <2>2 DEF Attempt, Check, KeyTaken, PutName, ReadBack, GivenUp, Goto, TypeOK
      <3>4. p \in Runner /\ slot[p][1] = f => pc'[p] \notin Attempting
        <4>. SUFFICES ASSUME p \in Runner, slot[p][1] = f
                      PROVE  pc'[p] \notin Attempting
          OBVIOUS
        <4>1. pc[p] = "check" /\ \A k \in Reads(slot[p]) : ~ NoKey(k) /\ ~ KeyExpired(p, k)
          BY <1>1, <3>1, Sorts DEF LockedOut, NoKey, KeyExpired, Expires
        <4>2. KeyTaken(p)
          BY <2>2, <4>1 DEF Attempt, Check, PutName, ReadBack
        <4>3. pc'[p] = "look"
          BY <1>1, <2>2, <4>2 DEF KeyTaken, GivenUp, Goto, TypeOK
        <4>. QED  BY <4>3 DEF Attempting
      <3>. QED  BY <2>1, <3>1, <3>2, <3>3, <3>4, Sorts
    <2>3. ASSUME NEW r \in Runner, Look(r)
          PROVE  LockedOut(f)'
      <3>1. PICK g \in Usable(r) : slot' = [slot EXCEPT ![r] = <<g, steps[g] + 1>>]
        BY <2>3 DEF Look
      <3>2. g \in Flow /\ slot'[r] = <<g, steps[g] + 1>> /\ slot'[r][1] = g
        BY <1>1, <3>1, NextSlot, Sorts DEF Usable, TypeOK
      <3>3. /\ UNCHANGED <<steps, lock>> /\ pc'[r] = "check"
            /\ \A q \in Process : q # r => pc'[q] = pc[q] /\ slot'[q] = slot[q]
        BY <1>1, <2>3, <3>1, Sorts DEF Look, Goto, TypeOK, emr
      <3>. QED  BY <1>1, <2>1a, <3>2, <3>3, Sorts DEF LockedOut, Reads
    <2>4. ASSUME NEW r \in Runner,
                 NoneUsable(r) \/ TimeOver(r) \/ AddStepsFails(r) \/ RunnerCrashes(r)
          PROVE  LockedOut(f)'
      <3>1. PICK w \in {"ownflow", "failed", "crashed"} :
                Goto(r, w) /\ UNCHANGED <<emr, lock, own>>
        BY <2>4 DEF NoneUsable, TimeOver, AddStepsFails, RunnerCrashes
      <3>2. pc'[r] \notin Attempting /\ \A q \in Process : q # r => pc'[q] = pc[q]
        BY <1>1, <3>1, Sorts DEF Goto, TypeOK, Attempting
      <3>. QED  BY <1>1, <2>1, <2>1a, <3>1, <3>2, Sorts DEF LockedOut, emr, own
    <2>5. ASSUME NEW r \in Runner, AddSteps(r)
          PROVE  LockedOut(f)'
      <3>1. slot[r][1] # f
        BY <1>1, <2>5 DEF AddSteps, LockedOut, Attempting
      <3>2. steps'[f] = steps[f]
        BY <1>1, <2>5, <3>1 DEF AddSteps, TypeOK
      <3>3. UNCHANGED <<lock, slot>> /\ \A q \in Process : q # r => pc'[q] = pc[q]
        BY <1>1, <2>5 DEF AddSteps, Goto, TypeOK, own
      <3>. QED  BY <1>1, <3>1, <3>2, <3>3, Sorts DEF LockedOut, Reads
    <2>6. ASSUME NEW t \in Terminator, Cron(t) \/ TerminatorCrashes(t)
          PROVE  LockedOut(f)'
      <3>1. /\ UNCHANGED <<steps, lock>>
            /\ \A q \in Process : q # t => pc'[q] = pc[q] /\ slot'[q] = slot[q]
        BY <1>1, <2>6
           DEF Cron, Inspect, TakeNext, AllTaken, Terminate, TerminatorCrashes, Goto, TypeOK,
               emr, own
      <3>. QED  BY <1>1, <3>1, Sorts DEF LockedOut, Reads
    <2>7. CASE \/ \E g \in Flow : StepsStart(g) \/ StepsEnd(g)
               \/ UNCHANGED vars
               \/ \E r \in Runner : WaitForPool(r)
      <3>1. UNCHANGED <<steps, lock, pc, slot>>
        BY <2>7 DEF StepsStart, StepsEnd, WaitForPool, vars, emr, own
      <3>. QED  BY <1>1, <3>1 DEF LockedOut, Reads
    <2>8. CASE Tick \/ \E s \in Slot : Settles(s)
      <3>1. UNCHANGED <<steps, pc, slot>>
        BY <2>8 DEF Tick, Settles, emr, own
      <3>. QED  BY <1>1, <2>0, <2>1, <2>8, <3>1, TimeReads
    <2>. QED
      BY <1>1, <2>2, <2>3, <2>4, <2>5, <2>6, <2>7, <2>8 DEF Next, Search, Submit
  <1>2. TypeOK /\ [Next]_vars => [\A f \in Flow : LockedOut(f) => LockedOut(f)']_vars
    BY <1>1
  <1>. QED  BY <1>2, TypeCorrect, PTL DEF Spec, LockedOutForGood
-------------------------------------------------------------------------------
(***************************************************************************)
(* Every step of a runner shortens its search.                             *)
(***************************************************************************)

Step(r) == Attempt(r) \/ Search(r) \/ Submit(r) \/ RunnerCrashes(r)

\* The flow whose lock a runner tries to take is one that it has not excluded.
TriesNew(r) == pc[r] \in Attempting => slot[r][1] \notin exclude[r]

SearchInv == TypeOK /\ \A r \in Runner : TriesNew(r)

\* What a runner knows of its search is changed by no other.
LEMMA OthersStay ==
    ASSUME TypeOK, [Next]_vars, NEW r \in Runner, ~ Step(r)
    PROVE  UNCHANGED <<waits[r], exclude[r], pc[r], slot[r]>>
  <1>1. ASSUME NEW p \in Process, p # r, Attempt(p)
        PROVE  UNCHANGED <<waits[r], exclude[r], pc[r], slot[r]>>
    <2>1. UNCHANGED <<waits, slot>> /\ pc'[r] = pc[r]
      BY <1>1, Sorts DEF Attempt, Check, KeyTaken, PutName, ReadBack, GivenUp, Goto, TypeOK
    <2>2. exclude'[r] = exclude[r]
      BY <1>1 DEF Attempt, Check, KeyTaken, PutName, ReadBack, GivenUp
    <2>. QED  BY <2>1, <2>2
  <1>2. ASSUME NEW q \in Runner, q # r, Search(q) \/ Submit(q) \/ RunnerCrashes(q)
        PROVE  UNCHANGED <<waits[r], exclude[r], pc[r], slot[r]>>
    <2>1. CASE Look(q)
      BY <1>2, <2>1, Sorts DEF Look, Goto, TypeOK
    <2>2. CASE WaitForPool(q)
      BY <1>2, <2>2, Sorts DEF WaitForPool, TypeOK
    <2>3. CASE NoneUsable(q) \/ TimeOver(q) \/ Submit(q) \/ RunnerCrashes(q)
      BY <1>2, <2>3, Sorts
      DEF NoneUsable, TimeOver, Submit, AddSteps, AddStepsFails, RunnerCrashes, Goto, TypeOK, own
    <2>. QED  BY <1>2, <2>1, <2>2, <2>3 DEF Search
  <1>3. ASSUME NEW t \in Terminator, Cron(t) \/ TerminatorCrashes(t)
        PROVE  UNCHANGED <<waits[r], exclude[r], pc[r], slot[r]>>
    BY <1>3, Sorts
    DEF Cron, Inspect, TakeNext, AllTaken, Terminate, TerminatorCrashes, Goto, TypeOK, own
  <1>4. CASE \/ \E f \in Flow : StepsStart(f) \/ StepsEnd(f)
             \/ \E s \in Slot : Settles(s)
             \/ Tick \/ UNCHANGED vars
    BY <1>4 DEF StepsStart, StepsEnd, Settles, Tick, vars, own
  <1>. QED  BY <1>1, <1>2, <1>3, <1>4 DEF Next, Step

\* A flow that is not locked is excluded, which it was not before, and the runner looks again.
LEMMA GivenUpShortens ==
    ASSUME SearchInv, NEW r \in Runner, pc[r] \in Attempting, GivenUp(r), waits' = waits
    PROVE  SearchShortens(r) /\ TriesNew(r)'
  <1>1. exclude'[r] = exclude[r] \union {slot[r][1]} /\ slot[r][1] \notin exclude[r]
    BY DEF GivenUp, SearchInv, TriesNew
  <1>2. pc'[r] = "look"
    BY Sorts DEF GivenUp, Goto, SearchInv, TypeOK
  <1>. QED  BY <1>1, <1>2 DEF SearchShortens, TriesNew, Attempting

\* A runner's own step leads on, ends a round with one more flow excluded, or uses up a sleep.
LEMMA OwnStepShortens ==
    ASSUME SearchInv, NEW r \in Runner, Step(r)
    PROVE  SearchShortens(r) /\ TriesNew(r)'
  <1>0. r \in Process /\ pc[r] \in RunnerStates /\ pc \in [Process -> RunnerStates \union TerminatorStates]
    BY Sorts DEF SearchInv, TypeOK
  <1>1. ASSUME NEW w, Goto(r, w), UNCHANGED <<waits, exclude, slot>>, Stage[w] < Stage[pc[r]],
               w \in Attempting => pc[r] \in Attempting
        PROVE  SearchShortens(r) /\ TriesNew(r)'
    BY <1>0, <1>1 DEF Goto, SearchShortens, SearchInv, TriesNew
  <1>2. CASE Check(r)
    BY <1>1, <1>2 DEF Check, Stage, Attempting
  <1>3. CASE KeyTaken(r)
    BY <1>3, GivenUpShortens DEF KeyTaken, Attempting
  <1>4. CASE PutName(r)
    BY <1>1, <1>4 DEF PutName, Stage, Attempting
  <1>5. CASE ReadBack(r)
    <2>1. CASE Goto(r, "owner") /\ UNCHANGED exclude
      BY <1>1, <1>5, <2>1 DEF ReadBack, Stage, Attempting
    <2>2. CASE GivenUp(r)
      BY <1>5, <2>2, GivenUpShortens DEF ReadBack, Attempting
    <2>. QED  BY <1>5, <2>1, <2>2 DEF ReadBack
  <1>6. CASE Look(r)
    <2>1. PICK f \in Usable(r) : slot' = [slot EXCEPT ![r] = <<f, steps[f] + 1>>]
      BY <1>6 DEF Look
    <2>2. slot'[r][1] = f /\ f \notin exclude[r]
      BY <1>0, <2>1 DEF SearchInv, TypeOK, Usable
    <2>3. /\ pc[r] = "look" /\ pc'[r] = "check"
          /\ UNCHANGED <<waits, exclude>>
      BY <1>0, <1>6 DEF Look, Goto
    <2>. QED  BY <2>2, <2>3 DEF SearchShortens, Stage, TriesNew
  <1>7. CASE WaitForPool(r)
    <2>1. waits[r] \in Nat /\ PoolWaits[r] \in Nat /\ waits[r] < PoolWaits[r]
      BY <1>7, TimeAssumption DEF WaitForPool, TimeLeft, SearchInv, TypeOK
    <2>2. waits'[r] = waits[r] + 1 /\ pc'[r] = "look"
      BY <1>7 DEF WaitForPool, Slept, SearchInv, TypeOK
    <2>. QED  BY <2>1, <2>2 DEF SearchShortens, TriesNew, Attempting
  <1>8. CASE NoneUsable(r) \/ TimeOver(r)
    BY <1>1, <1>8 DEF NoneUsable, TimeOver, own, Stage, Attempting
  <1>9. CASE Submit(r)
    BY <1>1, <1>9 DEF Submit, AddSteps, AddStepsFails, own, Stage, Attempting
  <1>10. CASE RunnerCrashes(r)
    BY <1>1, <1>10 DEF RunnerCrashes, own, Stage, Attempting
  <1>. QED
    BY <1>2, <1>3, <1>4, <1>5, <1>6, <1>7, <1>8, <1>9, <1>10 DEF Step, Attempt, Search

\* A step is one of the runner's own, or leaves its search as it is.
LEMMA SearchNext ==
    ASSUME SearchInv, [Next]_vars, NEW r \in Runner
    PROVE  SearchShortens(r) /\ TriesNew(r)'
  <1>1. CASE Step(r)
    BY <1>1, OwnStepShortens
  <1>2. CASE ~ Step(r)
    <2>1. UNCHANGED <<waits[r], exclude[r], pc[r], slot[r]>>
      BY <1>2, OthersStay DEF SearchInv
    <2>. QED  BY <1>2, <2>1 DEF SearchInv, TriesNew, SearchShortens, Step
  <1>. QED  BY <1>1, <1>2

\* The search of a runner is a finite one, for any number of runners, flows and cron jobs,
\* however long calls take: what is left to fairness is that the runner goes on.
THEOREM SearchIsFinite == Spec => SearchesShorten
  <1>1. Init => SearchInv
    <2>1. ASSUME Init PROVE \A r \in Runner : TriesNew(r)
      BY <2>1, Sorts DEF Init, TriesNew, Attempting
    <2>. QED  BY <2>1, InitIInv DEF IInv, SearchInv
  <1>2. SearchInv /\ [Next]_vars => SearchInv'
    BY NextType, SearchNext DEF SearchInv
  <1>3. SearchInv /\ [Next]_vars => [\A r \in Runner : SearchShortens(r)]_vars
    BY SearchNext
  <1>. QED  BY <1>1, <1>2, <1>3, PTL DEF Spec, SearchesShorten
===============================================================================
