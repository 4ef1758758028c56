-------------------------- MODULE RendezvousProofs --------------------------
(***************************************************************************)
(* What sys_send and sys_receive promise, for every number of CPUs, slots   *)
(* and entries and every workload: a queued message is never dropped, a     *)
(* blocked sender or receiver is woken by its rendezvous only, and, while   *)
(* no task kills another, the kernel implements the abstract Rendezvous.    *)
(* All of it rests on KernelInv (KernelProofs): the caller of a system call *)
(* waits for nothing, and a blocked task for one thing.                     *)
(***************************************************************************)
EXTENDS KernelProofs

-----------------------------------------------------------------------------
(* Queues *)

\* What the steps below need of the state they start in.
LEMMA QueueTypes ==
  ASSUME KernelInv
  PROVE  /\ TypeOK /\ OneWait
         /\ recv \in [TaskSlots -> Filters \cup {NoTask}]
         /\ out \in [TaskSlots -> TaskSlots \cup {NoTask}]
         /\ pending \in [TaskSlots -> [Entries -> TaskSlots \cup {NoTask}]]
         /\ staged \in [TaskSlots -> TaskSlots \cup {NoTask}]
         /\ NoTask \notin TaskSlots /\ TaskSlots \subseteq Nat
<1>1. TypeOK /\ OneWait
  BY Zenon DEF KernelInv, WaitsForOneThing
<1>2. NoTask \notin TaskSlots /\ TaskSlots \subseteq Nat
  BY SlotFacts DEF NoTask
<1>. QED BY Zenon, <1>1, <1>2 DEF TypeOK

\* The caller of a system call waits for nothing.
LEMMA CallerWaitsNot ==
  ASSUME KernelInv, NEW c \in CPUS, NEW call, Calls(c, call)
  PROVE  /\ current[c] \in TaskSlots /\ current[c] \notin Ws
         /\ recv[current[c]] = NoTask /\ staged[current[c]] = NoTask
         /\ \A d \in TaskSlots, i \in Entries : pending[d][i] # current[c]
<1>1. current[c] \in TaskSlots /\ current[c] \notin Ws
  BY Zenon, Start
<1>2. ~ Waits(current[c])
  BY <1>1 DEF Ws
<1>. QED BY Zenon, <1>1, <1>2 DEF Waits, Receiving, Sending, Parked

\* sys_receive takes the message src has parked in entry i of the caller.
TakesParked(c, f, i, src) ==
  /\ current[c] \in TaskSlots
  /\ pending[current[c]][i] = src /\ Matches(f, src)
  /\ pending' = [pending EXCEPT ![current[c]][i] = NoTask]
  /\ out' = [out EXCEPT ![current[c]] = src]
  /\ UNCHANGED << recv, staged, sleep >>
  /\ \/ state[src] # "Zombie" /\ reschedule(c, [state EXCEPT ![src] = "Ready"], name, src)
     \/ state[src] = "Zombie" /\ reschedule(c, state, name, woken)

\* It takes the message src has staged for the caller.
TakesStaged(c, f, src) ==
  /\ current[c] \in TaskSlots
  /\ staged[src] = current[c] /\ Matches(f, src)
  /\ staged' = [staged EXCEPT ![src] = NoTask]
  /\ out' = [out EXCEPT ![current[c]] = src]
  /\ UNCHANGED << recv, pending, sleep >>
  /\ reschedule(c, [state EXCEPT ![src] = "Ready"], name, src)

\* The entry and the sender that sys_receive's first loop finds.
LEMMA PendingFound ==
  ASSUME KernelInv, NEW c \in CPUS, NEW f \in Filters, ReceivePending(c, f)
  PROVE  \E i \in Entries, src \in TaskSlots : TakesParked(c, f, i, src)
<1>. DEFINE me == current[c]
            i == Min(PendingHits(me, f))
            src == pending[me][i]
<1>1. PendingHits(me, f) # {} /\ PendingHits(me, f) \in SUBSET Nat
  BY Zenon, EntriesNat DEF ReceivePending, PendingHits
<1>2. i \in PendingHits(me, f)
  BY Zenon, <1>1, MinMember
<1>3. me \in TaskSlots
  BY Zenon, CallerWaitsNot DEF ReceivePending, Receives
<1>4. i \in Entries /\ src # NoTask /\ Matches(f, src)
  BY Zenon, <1>2 DEF PendingHits
<1>5. src \in TaskSlots
  <2>1. pending \in [TaskSlots -> [Entries -> TaskSlots \cup {NoTask}]]
    BY Zenon, QueueTypes
  <2>. HIDE DEF i, me
  <2>. QED BY <1>3, <1>4, <2>1
<1>. QED BY Zenon, <1>3, <1>4, <1>5 DEF ReceivePending, TakesParked

\* The sender that its second loop finds.
LEMMA StagedFound ==
  ASSUME KernelInv, NEW c \in CPUS, NEW f \in Filters, ReceiveStaged(c, f)
  PROVE  \E src \in TaskSlots : TakesStaged(c, f, src)
<1>. DEFINE src == Min(StagedHits(current[c], f))
<1>1. StagedHits(current[c], f) # {} /\ StagedHits(current[c], f) \in SUBSET Nat
  BY Zenon, QueueTypes DEF ReceiveStaged, StagedHits
<1>2. src \in StagedHits(current[c], f)
  BY Zenon, <1>1, MinMember
<1>3. src \in TaskSlots /\ staged[src] = current[c] /\ Matches(f, src)
  BY Zenon, <1>2 DEF StagedHits
<1>4. current[c] \in TaskSlots
  BY Zenon, CallerWaitsNot DEF ReceiveStaged, Receives
<1>. QED BY Zenon, <1>3, <1>4 DEF ReceiveStaged, TakesStaged

\* The entry a sender parks in is free.
LEMMA EntryFound ==
  ASSUME NEW c \in CPUS, NEW dst \in TaskSlots, SendBlock(c, dst)
  PROVE  \/ /\ \E i \in Entries :
                 /\ pending[dst][i] = NoTask
                 /\ pending' = [pending EXCEPT ![dst][i] = current[c]]
            /\ staged' = staged
         \/ staged' = [staged EXCEPT ![current[c]] = dst] /\ pending' = pending
<1>. DEFINE i == Min(FreeEntries(dst))
<1>1. CASE FreeEntries(dst) # {}
  <2>1. FreeEntries(dst) \in SUBSET Nat
    BY Zenon, EntriesNat DEF FreeEntries
  <2>2. i \in FreeEntries(dst)
    BY Zenon, <1>1, <2>1, MinMember
  <2>3. i \in Entries /\ pending[dst][i] = NoTask
    BY Zenon, <2>2 DEF FreeEntries
  <2>. QED BY Zenon, <1>1, <2>3 DEF SendBlock
<1>2. CASE FreeEntries(dst) = {}
  BY Zenon, <1>2 DEF SendBlock
<1>. QED BY Zenon, <1>1, <1>2

\* Every other step leaves the queues and the buffers alone.
LEMMA OtherSteps ==
  ASSUME [Next]_vars
  PROVE  \/ UNCHANGED << out, pending, staged >>
         \/ \E c \in CPUS, d \in TaskSlots : SendDirect(c, d) \/ SendBlock(c, d)
         \/ \E c \in CPUS, f \in Filters :
              ReceivePending(c, f) \/ ReceiveStaged(c, f) \/ ReceiveBlock(c, f)
<1>1. CASE UNCHANGED vars
  BY Zenon, <1>1 DEF vars
<1>2. CASE Enter
  BY Zenon, <1>2 DEF Enter, ipcVars
<1>3. ASSUME NEW c \in CPUS, Tick(c) \/ IdleLoop(c) PROVE UNCHANGED << out, pending, staged >>
  BY ZenonT(30), <1>3 DEF Tick, TickReap, TickIdle, TickKernel, TickUser, IdleLoop, ipcVars
<1>4. ASSUME NEW c \in CPUS, NEW x, Sleep(c, x) \/ Yield(c) \/ OtherSyscall(c) \/ WaitIrq(c)
               \/ WaitIrqDone(c) \/ Exit(c) \/ Fault(c)
      PROVE  UNCHANGED << out, pending, staged >>
  BY Zenon, <1>4 DEF Sleep, Yield, OtherSyscall, WaitIrq, WaitIrqDone, Exit, Fault, ipcVars
<1>5. ASSUME NEW c \in CPUS, NEW x, ExitTask(c, x) \/ Spawn(c, x) \/ Exec(c, x)
      PROVE  UNCHANGED << out, pending, staged >>
  BY Zenon, <1>5 DEF ExitTask, Spawn, Exec, Spawned
<1>. QED BY ZenonT(30), <1>1, <1>2, <1>3, <1>4, <1>5 DEF Next, UserStep

-----------------------------------------------------------------------------
(* A queued message is taken by its receiver *)

TakenStep ==
  \A s, d \in TaskSlots :
    /\ \A i \in Entries : Parked(s, d, i) /\ ~ Parked(s, d, i)' => out'[d] = s
    /\ staged[s] = d /\ staged'[s] # d => out'[d] = s

LEMMA Taken ==
  ASSUME KernelInv, [Next]_vars
  PROVE  TakenStep
<1>. USE DEF TakenStep, Parked
<1>1. CASE UNCHANGED << pending, staged >>
  BY Zenon, <1>1
<1>2. ASSUME NEW c \in CPUS, NEW dst \in TaskSlots, SendBlock(c, dst) PROVE TakenStep
  <2>1. staged[current[c]] = NoTask /\ current[c] \in TaskSlots
    BY Zenon, <1>2, CallerWaitsNot DEF SendBlock, SendsTo
  <2>2. ASSUME NEW i \in Entries, pending[dst][i] = NoTask,
               pending' = [pending EXCEPT ![dst][i] = current[c]], staged' = staged
        PROVE  TakenStep
    BY <2>2, QueueTypes
  <2>3. ASSUME staged' = [staged EXCEPT ![current[c]] = dst], pending' = pending
        PROVE  TakenStep
    BY <2>1, <2>3, QueueTypes
  <2>. QED BY Zenon, <1>2, <2>2, <2>3, EntryFound
<1>3. ASSUME NEW c \in CPUS, NEW f \in Filters, ReceivePending(c, f) PROVE TakenStep
  <2>1. PICK i \in Entries, src \in TaskSlots : TakesParked(c, f, i, src)
    BY Zenon, <1>3, PendingFound
  <2>. QED BY <2>1, QueueTypes DEF TakesParked
<1>4. ASSUME NEW c \in CPUS, NEW f \in Filters, ReceiveStaged(c, f) PROVE TakenStep
  <2>1. PICK src \in TaskSlots : TakesStaged(c, f, src)
    BY Zenon, <1>4, StagedFound
  <2>. QED BY <2>1, QueueTypes DEF TakesStaged
<1>5. ASSUME NEW c \in CPUS, NEW x, SendDirect(c, x) \/ ReceiveBlock(c, x) PROVE TakenStep
  BY Zenon, <1>1, <1>5 DEF SendDirect, ReceiveBlock
<1>. QED BY ZenonT(40), <1>1, <1>2, <1>3, <1>4, <1>5, OtherSteps

\* sys_receive is the only way out of a queue: a message parked or staged for a
\* task leaves only into that task's buffer, whoever is killed meanwhile.
THEOREM MessagesAreTaken ==
  ASSUME HarmlessBoot
  PROVE  Spec => QueuedMessageIsTaken
<1>1. KernelInv /\ [Next]_vars => [TakenStep]_vars
  BY Taken
<1>. QED BY <1>1, KernelInvariant, PTL DEF Spec, QueuedMessageIsTaken, TakenStep

-----------------------------------------------------------------------------
(* A blocked task is woken by its rendezvous, or by its deadline *)

\* A switch does not change a stopped task that no CPU executes.
LEMMA SwitchKeepsStopped ==
  ASSUME current \in CurrentType, NEW c \in CPUS, NEW st \in StateType,
         NEW s \in TaskSlots, NEW k \in {"Blocked", "Zombie"}, st[s] = k, current[c] # s
  PROVE  /\ switch_away(c, st) => state'[s] = k
         /\ \A b \in BOOLEAN : switch_best(c, st, b) => state'[s] = k
         /\ \A nm, w : w # s /\ reschedule(c, st, nm, w) => state'[s] = k
         /\ \A n \in Eligible(st, c) : SwitchTo(c, st, n) => state'[s] = k
         /\ Stay(st) => state'[s] = k
<1>. DEFINE go == [st EXCEPT ![current[c]] = "Ready"]
<1>1. /\ s \in Slots /\ current[c] \in Slots /\ go[s] = k /\ st \in [Slots -> States]
      /\ go \in [Slots -> States]
  BY SlotFacts DEF StateType, CurrentType, States
<1>2. ASSUME NEW st2 \in [Slots -> States], st2[s] = k, NEW n, n # s, SwitchTo(c, st2, n)
      PROVE  state'[s] = k
  BY <1>1, <1>2 DEF SwitchTo
<1>3. s \notin Eligible(st, c)
  BY SlotFacts DEF Eligible
<1>4. PickNext(st, c) # s /\ pick_next_rr(st, current[c], c, current[c]) # s
  <2>1. PickNext(st, c) \in Eligible(st, c)
    BY <1>1, PickNextEligible DEF PickNext
  <2>2. pick_next_rr(st, current[c], c, current[c]) \in Eligible(st, c)
    BY <1>1, PickNextRrEligible
  <2>. QED BY <1>3, <2>1, <2>2
<1>5. Stay(st) => state'[s] = k
  BY Zenon DEF Stay
<1>6. switch_away(c, st) => state'[s] = k
  BY Zenon, <1>1, <1>2, <1>4 DEF switch_away
<1>7. ASSUME NEW b \in BOOLEAN, switch_best(c, st, b) PROVE state'[s] = k
  <2>1. \/ Stay(st)
        \/ SwitchTo(c, go, PickNext(st, c))
        \/ SwitchTo(c, go, pick_next_rr(st, current[c], c, current[c]))
    BY Zenon, <1>7 DEF switch_best
  <2>. QED BY Zenon, <1>1, <1>2, <1>4, <1>5, <2>1
<1>8. ASSUME NEW nm, NEW w, w # s, reschedule(c, st, nm, w) PROVE state'[s] = k
  <2>1. Stay(st) \/ SwitchTo(c, go, w)
    BY Zenon, <1>8 DEF reschedule
  <2>. QED BY Zenon, <1>1, <1>2, <1>5, <1>8, <2>1
<1>. QED BY Zenon, <1>1, <1>2, <1>3, <1>5, <1>6, <1>7, <1>8

\* Blocked before, and neither blocked nor dead after the step.
Wakes(s) == state[s] = "Blocked" /\ state'[s] \in {"Ready", "Running"}

\* The four steps that wake a blocked task: its message is taken, it is handed
\* one, or its deadline has come.
LEMMA WakesOnly ==
  ASSUME KernelInv, [Next]_vars, NEW s \in TaskSlots, Wakes(s)
  PROVE  \/ \E c \in CPUS : SendDirect(c, s)
         \/ \E c \in CPUS, f \in Filters, i \in Entries : TakesParked(c, f, i, s)
         \/ \E c \in CPUS, f \in Filters : TakesStaged(c, f, s)
         \/ s \in Expired /\ UNCHANGED << recv, out, pending, staged >>
<1>. SUFFICES ASSUME Next, ~ \E c \in CPUS : SendDirect(c, s),
                     ~ \E c \in CPUS, f \in Filters, i \in Entries : TakesParked(c, f, i, s),
                     ~ \E c \in CPUS, f \in Filters : TakesStaged(c, f, s)
              PROVE  s \in Expired /\ UNCHANGED << recv, out, pending, staged >>
  BY Zenon DEF vars, Wakes
<1>0. ASSUME state'[s] \in {"Blocked", "Zombie"} PROVE FALSE
  BY <1>0 DEF Wakes
<1>1. /\ state \in StateType /\ current \in CurrentType /\ state[s] = "Blocked"
      /\ TaskSlots \subseteq Slots /\ TaskSlots \subseteq Nat /\ 0 \notin TaskSlots
      /\ s # NoTask
  BY Zenon, BootCpu, Start DEF Wakes, NoTask
<1>2. \A c \in CPUS : current[c] # s
  BY DEF KernelInv, OneCpuPerTask, Wakes
<1>3. ASSUME NEW t \in TaskSlots, NEW v \in States, t # s
      PROVE  [state EXCEPT ![t] = v] \in StateType /\ [state EXCEPT ![t] = v][s] = "Blocked"
  BY SMTT(30), <1>1, <1>3, ReadyType DEF StateType
<1>4. ASSUME NEW t \in TaskSlots
      PROVE  Killed(t) \in StateType /\ Killed(t)[s] \in {"Blocked", "Zombie"}
  BY <1>1, ReadyType DEF StateType, States, Killed
<1>5. ASSUME NEW c \in CPUS, UserStep(c) PROVE FALSE
  <2>. DEFINE me == current[c]
  <2>0. me # s /\ \A call : Calls(c, call) => me \in TaskSlots
    BY Zenon, <1>2 DEF Calls
  <2>tail. ASSUME NEW call, NEW st, Calls(c, call), reschedule(c, st, name, woken)
           PROVE  reschedule(c, st, name, NoTask)
    BY Zenon, <2>tail, Start
  <2>1. ASSUME NEW dst \in TaskSlots, SendDirect(c, dst) PROVE FALSE
    <3>1. dst # s /\ reschedule(c, [state EXCEPT ![dst] = "Ready"], name, dst)
      BY Zenon, <2>1 DEF SendDirect
    <3>. QED BY ZenonT(40), <1>0, <1>1, <1>3, <2>0, <3>1, SwitchKeepsStopped DEF States
  <2>2. ASSUME NEW k \in {"Blocked", "Zombie"}, switch_away(c, [state EXCEPT ![me] = k]),
               me \in TaskSlots
        PROVE  FALSE
    BY ZenonT(40), <1>0, <1>1, <1>3, <2>0, <2>2, SwitchKeepsStopped DEF States
  <2>3. ASSUME NEW f \in Filters, ReceivePending(c, f) PROVE FALSE
    <3>1. PICK i \in Entries, src \in TaskSlots : TakesParked(c, f, i, src)
      BY Zenon, <2>3, PendingFound
    <3>2. src # s
      BY Zenon, <3>1
    <3>3. \/ reschedule(c, [state EXCEPT ![src] = "Ready"], name, src)
          \/ reschedule(c, state, name, NoTask)
      BY Zenon, <2>3, <2>tail, <3>1 DEF TakesParked, ReceivePending, Receives
    <3>. QED BY ZenonT(40), <1>0, <1>1, <1>3, <2>0, <3>2, <3>3, SwitchKeepsStopped DEF States
  <2>4. ASSUME NEW f \in Filters, ReceiveStaged(c, f) PROVE FALSE
    <3>1. PICK src \in TaskSlots : TakesStaged(c, f, src)
      BY Zenon, <2>4, StagedFound
    <3>2. src # s /\ reschedule(c, [state EXCEPT ![src] = "Ready"], name, src)
      BY Zenon, <3>1 DEF TakesStaged
    <3>. QED BY ZenonT(40), <1>0, <1>1, <1>3, <2>0, <3>2, SwitchKeepsStopped DEF States
  <2>5. ASSUME NEW st \in StateType, st[s] \in {"Blocked", "Zombie"}, NEW n, NEW call,
               Calls(c, call), \E rc, tt : Spawned(c, n, st, rc, tt)
        PROVE  FALSE
    <3>1. CASE FreeSlots = {}
      <4>1. reschedule(c, st, name, NoTask)
        BY Zenon, <2>5, <2>tail, <3>1 DEF Spawned
      <4>. QED BY ZenonT(40), <1>0, <1>1, <2>0, <2>5, <4>1, SwitchKeepsStopped
    <3>2. CASE FreeSlots # {}
      <4>. DEFINE x == Min(FreeSlots)
      <4>1. x \in FreeSlots
        BY SMTT(30), <1>1, <3>2, MinMember DEF FreeSlots
      <4>2. x \in TaskSlots /\ x # s
        BY SMTT(30), <1>1, <4>1 DEF FreeSlots
      <4>3. reschedule(c, [st EXCEPT ![x] = "Ready"], [name EXCEPT ![x] = n], x)
        BY ZenonT(40), <2>5, <3>2 DEF Spawned
      <4>. HIDE DEF x
      <4>4. [st EXCEPT ![x] = "Ready"] \in StateType /\ [st EXCEPT ![x] = "Ready"][s] = st[s]
        BY SMTT(30), <1>1, <2>5, <4>2, ReadyType DEF StateType, States
      <4>. QED BY ZenonT(40), <1>0, <1>1, <2>0, <2>5, <4>2, <4>3, <4>4, SwitchKeepsStopped
    <3>. QED BY Zenon, <3>1, <3>2
  <2>6. ASSUME NEW n, Spawn(c, n) \/ Exec(c, n) PROVE FALSE
    <3>1. CASE Live(n) # {}
      <4>1. Min(Live(n)) \in TaskSlots
        <5>1. Live(n) \in SUBSET Nat /\ Live(n) \subseteq TaskSlots
          BY Zenon, <1>1 DEF Live
        <5>. QED BY <3>1, <5>1, MinMember
      <4>. QED BY ZenonT(40), <1>1, <1>4, <2>5, <2>6, <4>1 DEF Spawn, Exec
    <3>2. CASE Live(n) = {}
      BY Zenon, <1>1, <2>5, <2>6, <3>2 DEF Spawn, Exec
    <3>. QED BY ZenonT(40), <3>1, <3>2
  <2>7. ASSUME NEW v \in TaskSlots, ExitTask(c, v) PROVE FALSE
    <3>1. reschedule(c, Killed(v), name, NoTask)
      BY Zenon, <2>7, <2>tail DEF ExitTask
    <3>. QED BY ZenonT(40), <1>0, <1>1, <1>4, <2>0, <3>1, SwitchKeepsStopped
  <2>8. CASE Yield(c) \/ OtherSyscall(c) \/ WaitIrq(c) \/ WaitIrqDone(c)
    <3>1. OtherSyscall(c) => reschedule(c, state, name, NoTask)
      BY Zenon, <2>tail DEF OtherSyscall
    <3>. QED BY ZenonT(40), <1>0, <1>1, <2>0, <2>8, <3>1, SwitchKeepsStopped
             DEF Yield, WaitIrq, WaitIrqDone
  <2>9. ASSUME NEW x, SendBlock(c, x) \/ ReceiveBlock(c, x) \/ Sleep(c, x) PROVE FALSE
    <3>1. switch_away(c, [state EXCEPT ![me] = "Blocked"])
      BY Zenon, <2>9 DEF SendBlock, ReceiveBlock, Sleep
    <3>2. me \in TaskSlots
      BY ZenonT(40), <2>0, <2>9 DEF SendBlock, SendsTo, ReceiveBlock, Receives, Sleep
    <3>. QED BY Zenon, <2>2, <3>1, <3>2
  <2>10. CASE Exit(c) \/ Fault(c)
    <3>1. switch_away(c, [state EXCEPT ![me] = "Zombie"]) /\ me \in TaskSlots
      BY Zenon, <2>0, <2>10 DEF Exit, Fault
    <3>. QED BY Zenon, <2>2, <3>1
  <2>. QED BY ZenonT(40), <1>5, <2>1, <2>3, <2>4, <2>6, <2>7, <2>8, <2>9, <2>10 DEF UserStep
<1>6. ASSUME NEW c \in CPUS, Tick(c)
      PROVE  s \in Expired /\ UNCHANGED << recv, out, pending, staged >>
  <2>1. UNCHANGED << recv, out, pending, staged >>
    BY Zenon, <1>6 DEF Tick, TickReap, TickIdle, TickKernel, TickUser, ipcVars
  <2>2. ASSUME s \notin Expired PROVE FALSE
    <3>1. Woken \in StateType /\ Woken[s] = "Blocked" /\ current[c] # s
      BY <1>1, <1>2, <2>2 DEF Woken, Expired, StateType, States
    <3>2. PickNext(Woken, c) \in Eligible(Woken, c)
      <4>1. current[c] \in Slots
        BY <1>1 DEF CurrentType
      <4>. QED BY SMTT(30), <3>1, <4>1, PickNextEligible DEF PickNext
    <3>3. state'[s] = "Blocked"
      BY ZenonT(40), <1>1, <1>6, <3>1, <3>2, SwitchKeepsStopped
         DEF Tick, TickReap, TickIdle, TickKernel, TickUser
    <3>. QED BY Zenon, <1>0, <3>3
  <2>. QED BY Zenon, <2>1, <2>2
<1>7. ASSUME NEW c \in CPUS, IdleLoop(c) \/ (Enter /\ c = 0) PROVE FALSE
  <2>1. /\ IdleSlot(c) \in Slots /\ IdleSlot(c) # s /\ current[c] \in Slots
        /\ state \in [Slots -> States] /\ s \in Slots
    BY Zenon, <1>1, SlotFacts DEF CurrentType, StateType
  <2>2. PickNext(state, c) \in Eligible(state, c)
    BY <2>1, PickNextEligible DEF PickNext
  <2>3. PickNext(state, c) # s
    BY SMTT(30), <1>1, <2>1, <2>2 DEF Eligible
  <2>4. \/ Stay(state) \/ SwitchTo(c, state, PickNext(state, c))
        \/ SwitchTo(c, [state EXCEPT ![IdleSlot(c)] = "Ready"], PickNext(state, c))
    BY <1>7 DEF IdleLoop, Enter
  <2>5. state'[s] = "Blocked"
    BY SMTT(30), <1>1, <2>1, <2>3, <2>4 DEF SwitchTo, Stay, StateType
  <2>. QED BY Zenon, <1>0, <2>5
<1>. QED BY Zenon, BootCpu, <1>5, <1>6, <1>7 DEF Next

WokenStep ==
  \A s \in TaskSlots : state[s] = "Blocked" /\ state'[s] \in {"Ready", "Running"} =>
    /\ Sending(s) => ~ Sending(s)'
    /\ Receiving(s) => out'[s] # NoTask /\ Matches(recv[s], out'[s])

LEMMA WokenWell ==
  ASSUME KernelInv, [Next]_vars
  PROVE  WokenStep
<1>. SUFFICES ASSUME NEW s \in TaskSlots, Wakes(s)
              PROVE  /\ Sending(s) => ~ Sending(s)'
                     /\ Receiving(s) => out'[s] # NoTask /\ Matches(recv[s], out'[s])
  BY Zenon DEF WokenStep, Wakes
<1>0. /\ TypeOK /\ OneWait /\ NoTask \notin TaskSlots
      /\ out \in [TaskSlots -> TaskSlots \cup {NoTask}]
      /\ Sending(s) => ~ Receiving(s) /\ ~ Sleeping(s)
      /\ ~ (Receiving(s) /\ Sleeping(s))
  BY Zenon, QueueTypes DEF OneWait
\* A waiting receiver gets the message, and offered none itself.
<1>1. ASSUME NEW c \in CPUS, SendDirect(c, s)
      PROVE  ~ Sending(s) /\ out'[s] # NoTask /\ Matches(recv[s], out'[s])
  <2>1. /\ current[c] \in TaskSlots /\ Receiving(s) /\ Matches(recv[s], current[c])
        /\ out' = [out EXCEPT ![s] = current[c]]
    BY Zenon, <1>1, CallerWaitsNot DEF SendDirect, SendsTo, Receiving
  <2>2. out'[s] = current[c]
    BY Zenon, <1>0, <2>1
  <2>. QED BY Zenon, <1>0, <2>1, <2>2
\* A parked sender's entry is emptied, and it has no other.
<1>2. ASSUME NEW c \in CPUS, NEW f \in Filters, NEW i \in Entries, TakesParked(c, f, i, s)
      PROVE  ~ Receiving(s) /\ ~ Sending(s)'
  <2>1. s \in Ws /\ Ws' = Ws \ {s}
    BY Zenon, <1>0, <1>2, ParkCleared DEF TakesParked
  <2>2. Sending(s)
    BY Zenon, <1>2 DEF TakesParked, Sending, Parked
  <2>3. ~ Waits(s)'
    BY <2>1 DEF Ws
  <2>. QED BY Zenon, <1>0, <2>2, <2>3 DEF Waits
\* So with a staged one.
<1>3. ASSUME NEW c \in CPUS, NEW f \in Filters, TakesStaged(c, f, s)
      PROVE  ~ Receiving(s) /\ ~ Sending(s)'
  <2>0. staged[s] # NoTask
    BY <1>0, <1>3 DEF TakesStaged
  <2>1. s \in Ws /\ Ws' = Ws \ {s}
    BY Zenon, <1>0, <1>3, <2>0, StageCleared DEF TakesStaged
  <2>2. Sending(s)
    BY Zenon, <2>0 DEF Sending
  <2>3. ~ Waits(s)'
    BY <2>1 DEF Ws
  <2>. QED BY Zenon, <1>0, <2>2, <2>3 DEF Waits
<1>4. s \in Expired => Sleeping(s)
  BY DEF Expired, Sleeping
<1>. QED BY ZenonT(40), <1>0, <1>1, <1>2, <1>3, <1>4, WakesOnly

\* A blocked sender is resumed only when its message was taken, and a blocked
\* receiver only with a message its filter accepts, for every number of CPUs
\* and tasks, kills and ticks included (syscall.rs:205).
THEOREM WakesAreRendezvous ==
  ASSUME HarmlessBoot
  PROVE  Spec => WokenByRendezvous
<1>1. KernelInv /\ [Next]_vars => [WokenStep]_vars
  BY WokenWell
<1>. QED BY <1>1, KernelInvariant, PTL DEF Spec, WokenByRendezvous, WokenStep

-----------------------------------------------------------------------------
(* The abstract rendezvous *)

\* No program retires another task: the condition under which a message that is
\* offered can still be taken.
NoKills == \A n \in Names : CALLS[n] \cap {"kill", "exec"} = {}

\* Without kills a dead task has left all queues.
DeadWaitForNothing == \A s \in TaskSlots : state[s] = "Zombie" => s \notin Ws

\* A task that is dead after a switch was dead when the switch began.
LEMMA DeadBefore ==
  ASSUME NEW c \in CPUS, NEW st \in StateType, NEW s \in TaskSlots, state'[s] = "Zombie",
         current[c] \in Slots
  PROVE  /\ switch_away(c, st) => st[s] = "Zombie"
         /\ \A b \in BOOLEAN : switch_best(c, st, b) => st[s] = "Zombie"
         /\ \A nm, w : reschedule(c, st, nm, w) => st[s] = "Zombie"
         /\ \A n : SwitchTo(c, st, n) => st[s] = "Zombie"
         /\ Stay(st) => st[s] = "Zombie"
<1>. DEFINE go == [st EXCEPT ![current[c]] = "Ready"]
<1>1. ASSUME NEW n, SwitchTo(c, st, n) PROVE st[s] = "Zombie"
  BY <1>1, SlotFacts DEF SwitchTo, StateType
<1>2. ASSUME NEW n, SwitchTo(c, go, n) PROVE st[s] = "Zombie"
  BY <1>2, SlotFacts DEF SwitchTo, StateType
<1>3. Stay(st) => st[s] = "Zombie"
  BY Zenon DEF Stay
<1>4. switch_away(c, st) => st[s] = "Zombie"
  BY Zenon, <1>1 DEF switch_away
<1>5. ASSUME NEW b \in BOOLEAN, switch_best(c, st, b) PROVE st[s] = "Zombie"
  BY Zenon, <1>2, <1>3, <1>5 DEF switch_best
<1>6. ASSUME NEW nm, NEW w, reschedule(c, st, nm, w) PROVE st[s] = "Zombie"
  BY Zenon, <1>2, <1>3, <1>6 DEF reschedule
<1>. QED BY Zenon, <1>1, <1>3, <1>4, <1>5, <1>6

\* The system calls that act on another task are never made.
LEMMA KillsAreOut ==
  ASSUME NoKills, NEW c \in CPUS
  PROVE  ~ Calls(c, "kill") /\ ~ Calls(c, "exec")
BY Zenon DEF NoKills, Calls

LEMMA DeadStep ==
  ASSUME NoKills, KernelInv, DeadWaitForNothing, [Next]_vars
  PROVE  DeadWaitForNothing'
<1>0. /\ TypeOK /\ OneWait /\ state \in StateType /\ current \in CurrentType
      /\ \A c \in CPUS : current[c] \in Slots
      /\ \A s \in TaskSlots : state[s] = "Zombie" => s \notin Ws
      /\ TaskSlots \subseteq Slots /\ TaskSlots \subseteq Nat
  BY Zenon, BootCpu, Start DEF DeadWaitForNothing
\* A step that adds nobody to the waiting, and kills nobody who waits.
<1>1. ASSUME NEW c \in CPUS, NEW st \in StateType, Ws' \subseteq Ws,
             \A s \in TaskSlots : st[s] = "Zombie" => s \notin Ws,
             \/ switch_away(c, st) \/ (\E b \in BOOLEAN : switch_best(c, st, b)) \/ Stay(st)
             \/ (\E nm, w : reschedule(c, st, nm, w)) \/ (\E n : SwitchTo(c, st, n))
      PROVE  DeadWaitForNothing'
  <2>1. ASSUME NEW s \in TaskSlots, state'[s] = "Zombie" PROVE st[s] = "Zombie"
    BY Zenon, <1>0, <1>1, <2>1, DeadBefore
  <2>. QED BY Zenon, <1>1, <2>1 DEF DeadWaitForNothing
\* A task made Ready or dead, of which the second kind does not wait.
<1>2. ASSUME NEW t \in TaskSlots, NEW k \in {"Ready", "Zombie"}, k = "Zombie" => t \notin Ws
      PROVE  /\ [state EXCEPT ![t] = k] \in StateType
             /\ \A s \in TaskSlots : [state EXCEPT ![t] = k][s] = "Zombie" => s \notin Ws
  BY <1>0, <1>2 DEF StateType, States
\* A caller that blocks is the only one that starts to wait.
<1>3. ASSUME NEW c \in CPUS, current[c] \in TaskSlots, Ws' = Ws \cup {current[c]},
             switch_away(c, [state EXCEPT ![current[c]] = "Blocked"])
      PROVE  DeadWaitForNothing'
  <2>. DEFINE st == [state EXCEPT ![current[c]] = "Blocked"]
  <2>1. st \in StateType /\ \A s \in TaskSlots : st[s] = "Zombie" => state[s] = "Zombie" /\ s # current[c]
    BY <1>0, <1>3 DEF StateType, States
  <2>. HIDE DEF st
  <2>2. ASSUME NEW s \in TaskSlots, state'[s] = "Zombie" PROVE st[s] = "Zombie"
    BY Zenon, <1>0, <1>3, <2>1, <2>2, DeadBefore DEF st
  <2>. QED BY SMTT(30), <1>0, <1>3, <2>1, <2>2 DEF DeadWaitForNothing
<1>4. CASE UNCHANGED vars
  <2>1. Ws' = Ws
    BY Zenon, <1>0, <1>4, WaitsKept DEF vars, waitVars
  <2>. QED BY <1>0, <1>4, <2>1 DEF vars, DeadWaitForNothing
<1>5. ASSUME NEW c \in CPUS, NEW dst \in TaskSlots, SendDirect(c, dst) PROVE DeadWaitForNothing'
  <2>1. Ws' \subseteq Ws
    BY Zenon, <1>0, <1>5, RecvCleared DEF SendDirect
  <2>. QED BY Zenon, <1>1, <1>2, <1>5, <2>1 DEF SendDirect
<1>6. ASSUME NEW c \in CPUS, NEW dst \in TaskSlots, SendBlock(c, dst) PROVE DeadWaitForNothing'
  <2>1. current[c] \in TaskSlots /\ current[c] \notin Ws /\ UNCHANGED << recv, sleep >>
        /\ switch_away(c, [state EXCEPT ![current[c]] = "Blocked"])
    BY Zenon, <1>6, CallerWaitsNot DEF SendBlock, SendsTo
  <2>2. Ws' = Ws \cup {current[c]}
    BY Zenon, <1>0, <1>6, <2>1, EntryFound, ParkSet, StageSet
  <2>. QED BY Zenon, <1>3, <2>1, <2>2
<1>7. ASSUME NEW c \in CPUS, NEW f \in Filters, ReceivePending(c, f) PROVE DeadWaitForNothing'
  <2>1. PICK i \in Entries, src \in TaskSlots : TakesParked(c, f, i, src)
    BY Zenon, <1>7, PendingFound
  <2>2. Ws' = Ws \ {src}
    BY Zenon, <1>0, <2>1, ParkCleared DEF TakesParked
  <2>3. Ws' \subseteq Ws
    BY <2>2
  <2>. QED BY Zenon, <1>0, <1>1, <1>2, <2>1, <2>3 DEF TakesParked
<1>8. ASSUME NEW c \in CPUS, NEW f \in Filters, ReceiveStaged(c, f) PROVE DeadWaitForNothing'
  <2>1. PICK src \in TaskSlots : TakesStaged(c, f, src)
    BY Zenon, <1>8, StagedFound
  <2>2. staged[src] # NoTask
    BY Zenon, <2>1, QueueTypes DEF TakesStaged
  <2>3. Ws' = Ws \ {src}
    BY Zenon, <1>0, <2>1, <2>2, StageCleared DEF TakesStaged
  <2>4. Ws' \subseteq Ws
    BY <2>3
  <2>. QED BY Zenon, <1>0, <1>1, <1>2, <2>1, <2>4 DEF TakesStaged
<1>9. ASSUME NEW c \in CPUS, NEW f \in Filters, ReceiveBlock(c, f) PROVE DeadWaitForNothing'
  <2>1. current[c] \in TaskSlots /\ current[c] \notin Ws
        /\ switch_away(c, [state EXCEPT ![current[c]] = "Blocked"])
    BY Zenon, <1>9, CallerWaitsNot DEF ReceiveBlock, Receives
  <2>2. Ws' = Ws \cup {current[c]}
    BY ZenonT(40), <1>0, <1>9, <2>1, RecvSet DEF ReceiveBlock
  <2>. QED BY Zenon, <1>3, <2>1, <2>2
<1>10. ASSUME NEW c \in CPUS, NEW ms \in 1 .. MAX_SLEEP, Sleep(c, ms) PROVE DeadWaitForNothing'
  <2>1. current[c] \in TaskSlots /\ current[c] \notin Ws
        /\ switch_away(c, [state EXCEPT ![current[c]] = "Blocked"])
    BY Zenon, <1>10, CallerWaitsNot DEF Sleep
  <2>2. Ws' = Ws \cup {current[c]}
    BY Zenon, <1>0, <1>10, <2>1, SleepSet DEF Sleep, ipcVars
  <2>. QED BY Zenon, <1>3, <2>1, <2>2
<1>11. ASSUME NEW c \in CPUS, Yield(c) \/ OtherSyscall(c) \/ WaitIrq(c) \/ WaitIrqDone(c)
       PROVE  DeadWaitForNothing'
  <2>1. Ws' = Ws
    BY Zenon, <1>0, <1>11, WaitsKept
       DEF Yield, OtherSyscall, WaitIrq, WaitIrqDone, ipcVars, waitVars
  <2>2. Ws' \subseteq Ws
    BY <2>1
  <2>. QED BY ZenonT(40), <1>0, <1>1, <1>11, <2>2
           DEF Yield, OtherSyscall, WaitIrq, WaitIrqDone, Stay
<1>12. ASSUME NEW c \in CPUS, Exit(c) \/ Fault(c) PROVE DeadWaitForNothing'
  <2>1. current[c] \in TaskSlots /\ current[c] \notin Ws
        /\ switch_away(c, [state EXCEPT ![current[c]] = "Zombie"])
    BY Zenon, <1>12, CallerWaitsNot DEF Exit, Fault
  <2>2. Exit(c) => Ws' = Ws
    BY Zenon, <1>0, WaitsKept DEF Exit, ipcVars, waitVars
  <2>3. Fault(c) => Ws' \subseteq Ws
    BY Zenon, <1>0, <2>1, RecvCleared DEF Fault
  <2>4. Ws' \subseteq Ws
    BY SMTT(30), <1>12, <2>2, <2>3
  <2>. QED BY Zenon, <1>1, <1>2, <2>1, <2>4
<1>13. ASSUME NEW c \in CPUS, NEW n, Spawn(c, n) PROVE DeadWaitForNothing'
  <2>1. Ws' = Ws
    BY ZenonT(40), <1>0, <1>13, WaitsKept DEF Spawn, Spawned, waitVars
  <2>2. Ws' \subseteq Ws
    BY <2>1
  <2>3. CASE FreeSlots = {}
    BY Zenon, <1>0, <1>1, <1>13, <2>2, <2>3 DEF Spawn, Spawned
  <2>4. CASE FreeSlots # {}
    <3>1. FreeSlots \in SUBSET Nat
      BY Zenon, <1>0 DEF FreeSlots
    <3>2. Min(FreeSlots) \in TaskSlots
      BY Zenon, <2>4, <3>1, MinMember DEF FreeSlots
    <3>. QED BY ZenonT(40), <1>1, <1>2, <1>13, <2>2, <2>4, <3>2 DEF Spawn, Spawned
  <2>. QED BY Zenon, <2>3, <2>4
<1>14. ASSUME NEW c \in CPUS, Tick(c) PROVE DeadWaitForNothing'
  <2>1. TickSleep /\ UNCHANGED << recv, pending, staged >>
    BY Zenon, <1>14 DEF Tick, TickReap, TickIdle, TickKernel, TickUser, ipcVars
  <2>2. Ws' = Ws \ Expired
    BY Zenon, <1>0, <2>1, SleepTicked
  <2>3. Ws' \subseteq Ws
    BY <2>2
  <2>4. Woken \in StateType /\ \A s \in TaskSlots : Woken[s] = "Zombie" => s \notin Ws
    BY <1>0 DEF Woken, StateType, States
  <2>5. \/ (\E b \in BOOLEAN : switch_best(c, Woken, b)) \/ Stay(Woken)
        \/ (\E n : SwitchTo(c, Woken, n))
    BY Zenon, <1>14 DEF Tick, TickReap, TickIdle, TickKernel, TickUser
  <2>. QED BY Zenon, <1>1, <2>3, <2>4, <2>5
<1>15. ASSUME NEW c \in CPUS, IdleLoop(c) \/ (Enter /\ c = 0) PROVE DeadWaitForNothing'
  <2>1. Ws' = Ws
    BY ZenonT(40), <1>0, <1>15, WaitsKept DEF IdleLoop, Enter, ipcVars, waitVars
  <2>2. Ws' \subseteq Ws
    BY <2>1
  <2>3. [state EXCEPT ![IdleSlot(c)] = "Ready"] \in StateType
        /\ \A s \in TaskSlots : [state EXCEPT ![IdleSlot(c)] = "Ready"][s] = "Zombie" => s \notin Ws
    BY Zenon, <1>0 DEF StateType, States
  <2>4. \/ Stay(state) \/ (\E n : SwitchTo(c, state, n))
        \/ (\E n : SwitchTo(c, [state EXCEPT ![IdleSlot(c)] = "Ready"], n))
    BY Zenon, <1>15 DEF IdleLoop, Enter
  <2>. QED BY ZenonT(40), <1>0, <1>1, <2>2, <2>3, <2>4
<1>16. ASSUME NEW c \in CPUS, NEW x, ExitTask(c, x) \/ Exec(c, x) PROVE FALSE
  BY Zenon, <1>16, KillsAreOut DEF ExitTask, Exec
<1>. QED BY ZenonT(40), BootCpu, <1>4, <1>5, <1>6, <1>7, <1>8, <1>9, <1>10, <1>11, <1>12, <1>13,
            <1>14, <1>15, <1>16 DEF Next, UserStep
-----------------------------------------------------------------------------
(* The refinement *)

\* The receiver a queued message of s is for, without choosing one.
OffersTo(s, d) == staged[s] = d \/ \E i \in Entries : Parked(s, d, i)

PostedFacts ==
  /\ Posted \in [TaskSlots -> TaskSlots \cup {NoTask}]
  /\ \A s, d \in TaskSlots : Posted[s] = d <=> OffersTo(s, d)

LEMMA PostedIs == KernelInv => PostedFacts
<1>. SUFFICES ASSUME KernelInv PROVE PostedFacts
  OBVIOUS
<1>0. /\ OneWait /\ staged \in [TaskSlots -> TaskSlots \cup {NoTask}] /\ NoTask \notin TaskSlots
  BY Zenon, QueueTypes
<1>. DEFINE Pick(s) == CHOOSE d \in TaskSlots : \E i \in Entries : Parked(s, d, i)
            P(s) == IF staged[s] # NoTask THEN staged[s]
                    ELSE IF Sending(s) THEN Pick(s) ELSE NoTask
<1>1. ASSUME NEW s \in TaskSlots
      PROVE  P(s) \in TaskSlots \cup {NoTask} /\ \A d \in TaskSlots : P(s) = d <=> OffersTo(s, d)
  <2>1. CASE staged[s] # NoTask
    <3>1. \A d \in TaskSlots, i \in Entries : ~ Parked(s, d, i)
      BY Zenon, <1>0, <2>1 DEF OneWait
    <3>2. P(s) = staged[s]
      BY Zenon, <2>1
    <3>. HIDE DEF P
    <3>. QED BY Zenon, <1>0, <3>1, <3>2 DEF OffersTo
  <2>2. CASE staged[s] = NoTask /\ Sending(s)
    <3>1. \E d \in TaskSlots : \E i \in Entries : Parked(s, d, i)
      BY Zenon, <2>2 DEF Sending
    <3>2. Pick(s) \in TaskSlots /\ \E i \in Entries : Parked(s, Pick(s), i)
      BY Zenon, <3>1
    <3>3. P(s) = Pick(s)
      BY Zenon, <2>2
    <3>. HIDE DEF P, Pick
    <3>4. \A d \in TaskSlots, i \in Entries : Parked(s, d, i) => d = Pick(s)
      BY Zenon, <1>0, <3>2 DEF OneWait
    <3>5. \A d \in TaskSlots : OffersTo(s, d) <=> d = Pick(s)
      BY Zenon, <1>0, <2>2, <3>2, <3>4 DEF OffersTo
    <3>. QED BY Zenon, <3>2, <3>3, <3>5
  <2>3. CASE staged[s] = NoTask /\ ~ Sending(s)
    <3>1. \A d \in TaskSlots : ~ OffersTo(s, d)
      BY Zenon, <1>0, <2>3 DEF Sending, OffersTo
    <3>2. P(s) = NoTask
      BY Zenon, <2>3
    <3>. HIDE DEF P
    <3>. QED BY Zenon, <1>0, <3>1, <3>2
  <2>. QED BY Zenon, <2>1, <2>2, <2>3
<1>2. Posted = [ s \in TaskSlots |-> P(s) ]
  BY Zenon DEF Posted
<1>. HIDE DEF P
<1>. QED BY <1>1, <1>2 DEF PostedFacts

\* Posted follows the queues.
LEMMA PostedKept ==
  ASSUME PostedFacts, PostedFacts',
         \A s, d \in TaskSlots : OffersTo(s, d)' <=> OffersTo(s, d)
  PROVE  Posted' = Posted
<1>1. \A s \in TaskSlots : Posted'[s] = Posted[s]
  BY Zenon DEF PostedFacts
<1>. QED BY <1>1 DEF PostedFacts

LEMMA PostedSet ==
  ASSUME PostedFacts, PostedFacts', NEW v \in TaskSlots, NEW w \in TaskSlots \cup {NoTask},
         \A d \in TaskSlots : OffersTo(v, d)' <=> d = w,
         \A s, d \in TaskSlots : s # v => (OffersTo(s, d)' <=> OffersTo(s, d))
  PROVE  Posted' = [Posted EXCEPT ![v] = w]
<1>1. NoTask \notin TaskSlots
  BY SlotFacts DEF NoTask
<1>2. \A s \in TaskSlots : s # v => Posted'[s] = Posted[s]
  BY Zenon DEF PostedFacts
<1>3. Posted'[v] = w
  BY Zenon, <1>1 DEF PostedFacts
<1>. QED BY <1>2, <1>3 DEF PostedFacts
\* The four ways the queues change, as updates of Posted.
LEMMA OfferedParked ==
  ASSUME KernelInv, KernelInv', NEW me \in TaskSlots, NEW dst \in TaskSlots, NEW i \in Entries,
         ~ Sending(me), pending[dst][i] = NoTask,
         pending' = [pending EXCEPT ![dst][i] = me], staged' = staged
  PROVE  Posted' = [Posted EXCEPT ![me] = dst]
<1>0. /\ pending \in [TaskSlots -> [Entries -> TaskSlots \cup {NoTask}]] /\ NoTask \notin TaskSlots
      /\ staged[me] = NoTask /\ \A d \in TaskSlots, j \in Entries : ~ Parked(me, d, j)
  BY Zenon, QueueTypes DEF Sending
<1>1. \A s, d \in TaskSlots, j \in Entries :
        Parked(s, d, j)' <=> (s = me /\ d = dst /\ j = i) \/ Parked(s, d, j)
  BY <1>0 DEF Parked
<1>2. \A d \in TaskSlots : OffersTo(me, d)' <=> d = dst
  BY Zenon, <1>0, <1>1 DEF OffersTo
<1>3. \A s, d \in TaskSlots : s # me => (OffersTo(s, d)' <=> OffersTo(s, d))
  BY Zenon, <1>1 DEF OffersTo
<1>4. PostedFacts /\ PostedFacts'
  BY PostedIs, PTL
<1>. QED BY Zenon, <1>2, <1>3, <1>4, PostedSet

LEMMA OfferedStaged ==
  ASSUME KernelInv, KernelInv', NEW me \in TaskSlots, NEW dst \in TaskSlots,
         ~ Sending(me), staged' = [staged EXCEPT ![me] = dst], pending' = pending
  PROVE  Posted' = [Posted EXCEPT ![me] = dst]
<1>0. /\ staged \in [TaskSlots -> TaskSlots \cup {NoTask}]
      /\ \A d \in TaskSlots, j \in Entries : ~ Parked(me, d, j)
  BY Zenon, QueueTypes DEF Sending
<1>1. \A s, d \in TaskSlots, j \in Entries : Parked(s, d, j)' <=> Parked(s, d, j)
  BY DEF Parked
<1>2. staged'[me] = dst /\ \A s \in TaskSlots : s # me => staged'[s] = staged[s]
  BY <1>0
<1>3. \A d \in TaskSlots : OffersTo(me, d)' <=> d = dst
  BY Zenon, <1>0, <1>1, <1>2 DEF OffersTo
<1>4. \A s, d \in TaskSlots : s # me => (OffersTo(s, d)' <=> OffersTo(s, d))
  BY Zenon, <1>1, <1>2 DEF OffersTo
<1>5. PostedFacts /\ PostedFacts'
  BY PostedIs, PTL
<1>. QED BY Zenon, <1>3, <1>4, <1>5, PostedSet

LEMMA TakenParked ==
  ASSUME KernelInv, KernelInv', NEW me \in TaskSlots, NEW src \in TaskSlots, NEW i \in Entries,
         pending[me][i] = src, pending' = [pending EXCEPT ![me][i] = NoTask], staged' = staged
  PROVE  /\ Posted[src] = me
         /\ Posted' = [Posted EXCEPT ![src] = NoTask]
<1>0. /\ pending \in [TaskSlots -> [Entries -> TaskSlots \cup {NoTask}]] /\ NoTask \notin TaskSlots
      /\ OneWait /\ Parked(src, me, i)
  BY Zenon, QueueTypes DEF Parked
<1>1. staged[src] = NoTask /\ \A d \in TaskSlots, j \in Entries : Parked(src, d, j) => me = d /\ i = j
  BY Zenon, <1>0 DEF OneWait
<1>2. \A s, d \in TaskSlots, j \in Entries :
        Parked(s, d, j)' <=> Parked(s, d, j) /\ ~ (d = me /\ j = i)
  BY <1>0 DEF Parked
<1>3. \A s \in TaskSlots : s # src => ~ Parked(s, me, i)
  BY DEF Parked
<1>4. \A d \in TaskSlots : OffersTo(src, d)' <=> d = NoTask
  BY Zenon, <1>0, <1>1, <1>2 DEF OffersTo
<1>5. \A s, d \in TaskSlots : s # src => (OffersTo(s, d)' <=> OffersTo(s, d))
  BY Zenon, <1>2, <1>3 DEF OffersTo
<1>6. PostedFacts /\ PostedFacts'
  BY PostedIs, PTL
<1>7. Posted[src] = me
  BY Zenon, <1>0, <1>6 DEF PostedFacts, OffersTo
<1>. QED BY ZenonT(40), <1>4, <1>5, <1>6, <1>7, PostedSet

LEMMA TakenStaged ==
  ASSUME KernelInv, KernelInv', NEW me \in TaskSlots, NEW src \in TaskSlots,
         staged[src] = me, staged' = [staged EXCEPT ![src] = NoTask], pending' = pending
  PROVE  /\ Posted[src] = me
         /\ Posted' = [Posted EXCEPT ![src] = NoTask]
<1>0. staged \in [TaskSlots -> TaskSlots \cup {NoTask}] /\ NoTask \notin TaskSlots /\ OneWait
  BY Zenon, QueueTypes
<1>1. \A d \in TaskSlots, j \in Entries : ~ Parked(src, d, j)
  BY Zenon, <1>0 DEF OneWait
<1>2. \A s, d \in TaskSlots, j \in Entries : Parked(s, d, j)' <=> Parked(s, d, j)
  BY DEF Parked
<1>3. staged'[src] = NoTask /\ \A s \in TaskSlots : s # src => staged'[s] = staged[s]
  BY <1>0
<1>4. \A d \in TaskSlots : OffersTo(src, d)' <=> d = NoTask
  BY Zenon, <1>0, <1>1, <1>2, <1>3 DEF OffersTo
<1>5. \A s, d \in TaskSlots : s # src => (OffersTo(s, d)' <=> OffersTo(s, d))
  BY Zenon, <1>2, <1>3 DEF OffersTo
<1>6. PostedFacts /\ PostedFacts'
  BY PostedIs, PTL
<1>7. Posted[src] = me
  BY Zenon, <1>6 DEF PostedFacts, OffersTo
<1>. QED BY Zenon, <1>4, <1>5, <1>6, <1>7, PostedSet
\* Nothing else touches the queues, the filters or the buffers.
LEMMA ElseNothing ==
  ASSUME NoKills, KernelInv, [Next]_vars
  PROVE  \/ UNCHANGED << recv, out, pending, staged >>
         \/ \E c \in CPUS, d \in TaskSlots : SendDirect(c, d) \/ SendBlock(c, d)
         \/ \E c \in CPUS, f \in Filters :
              ReceivePending(c, f) \/ ReceiveStaged(c, f) \/ ReceiveBlock(c, f)
<1>1. CASE UNCHANGED vars
  BY Zenon, <1>1 DEF vars
<1>2. CASE Enter
  BY Zenon, <1>2 DEF Enter, ipcVars
<1>3. ASSUME NEW c \in CPUS, Tick(c) \/ IdleLoop(c)
      PROVE  UNCHANGED << recv, out, pending, staged >>
  BY ZenonT(30), <1>3 DEF Tick, TickReap, TickIdle, TickKernel, TickUser, IdleLoop, ipcVars
<1>4. ASSUME NEW c \in CPUS, NEW x, Sleep(c, x) \/ Yield(c) \/ OtherSyscall(c) \/ WaitIrq(c)
               \/ WaitIrqDone(c) \/ Exit(c)
      PROVE  UNCHANGED << recv, out, pending, staged >>
  BY Zenon, <1>4 DEF Sleep, Yield, OtherSyscall, WaitIrq, WaitIrqDone, Exit, ipcVars
<1>5. ASSUME NEW c \in CPUS, Fault(c)
      PROVE  UNCHANGED << recv, out, pending, staged >>
  <2>1. recv[current[c]] = NoTask /\ recv' = [recv EXCEPT ![current[c]] = NoTask]
        /\ UNCHANGED << out, pending, staged >>
    BY Zenon, <1>5, CallerWaitsNot DEF Fault
  <2>2. recv \in [TaskSlots -> Filters \cup {NoTask}]
    BY Zenon, QueueTypes
  <2>3. recv' = recv
    BY SMTT(30), <2>1, <2>2
  <2>. QED BY Zenon, <2>1, <2>3
<1>6. ASSUME NEW c \in CPUS, NEW x, Spawn(c, x)
      PROVE  UNCHANGED << recv, out, pending, staged >>
  BY Zenon, <1>6 DEF Spawn, Spawned
<1>7. ASSUME NEW c \in CPUS, NEW x, ExitTask(c, x) \/ Exec(c, x) PROVE FALSE
  BY Zenon, <1>7, KillsAreOut DEF ExitTask, Exec
<1>. QED BY ZenonT(30), <1>1, <1>2, <1>3, <1>4, <1>5, <1>6, <1>7 DEF Next, UserStep

\* The caller of send or receive is idle in the abstract specification.
LEMMA CallerIdle ==
  ASSUME KernelInv, NEW c \in CPUS, NEW call, Calls(c, call)
  PROVE  /\ current[c] \in TaskSlots /\ ~ Sending(current[c])
         /\ Abstract!Idle(current[c])
<1>. DEFINE me == current[c]
<1>1. /\ me \in TaskSlots /\ recv[me] = NoTask /\ staged[me] = NoTask
      /\ \A d \in TaskSlots, i \in Entries : pending[d][i] # me
  BY Zenon, CallerWaitsNot
<1>2. NoTask \notin TaskSlots
  BY Zenon, QueueTypes
<1>. HIDE DEF me
<1>3. ~ Sending(me) /\ \A d \in TaskSlots : ~ OffersTo(me, d)
  BY Zenon, <1>1, <1>2 DEF Sending, OffersTo, Parked
<1>4. Posted[me] = NoTask
  BY Zenon, <1>1, <1>3, PostedIs DEF PostedFacts
<1>. QED BY Zenon, <1>1, <1>3, <1>4 DEF Abstract!Idle, me

\* Every step of the kernel is a step of the rendezvous, or leaves it alone.
LEMMA AbstractStep ==
  ASSUME NoKills, KernelInv, KernelInv', DeadWaitForNothing, [Next]_vars
  PROVE  [Abstract!ANext]_(Abstract!avars)
<1>0. PostedFacts /\ PostedFacts'
  BY PostedIs, PTL
<1>1. CASE UNCHANGED << recv, out, pending, staged >>
  <2>1. \A s, d \in TaskSlots : OffersTo(s, d)' <=> OffersTo(s, d)
    BY Zenon, <1>1 DEF OffersTo, Parked
  <2>2. Posted' = Posted
    BY Zenon, <1>0, <2>1, PostedKept
  <2>. QED BY Zenon, <1>1, <2>2 DEF Abstract!avars
<1>2. ASSUME NEW c \in CPUS, NEW d \in TaskSlots, SendDirect(c, d)
      PROVE  Abstract!HandOver(current[c], d)
  <2>1. Abstract!Idle(current[c])
    BY Zenon, <1>2, CallerIdle DEF SendDirect, SendsTo
  <2>2. \A s, e \in TaskSlots : OffersTo(s, e)' <=> OffersTo(s, e)
    BY Zenon, <1>2 DEF SendDirect, OffersTo, Parked
  <2>3. Posted' = Posted
    BY ZenonT(40), <1>0, <2>2, PostedKept
  <2>. QED BY ZenonT(40), <1>2, <2>1, <2>3
           DEF SendDirect, SendsTo, Matches, Abstract!HandOver, Abstract!Accepts
<1>3. ASSUME NEW c \in CPUS, NEW d \in TaskSlots, SendBlock(c, d)
      PROVE  Abstract!Offer(current[c], d)
  <2>1. current[c] \in TaskSlots /\ ~ Sending(current[c]) /\ Abstract!Idle(current[c])
    BY Zenon, <1>3, CallerIdle DEF SendBlock, SendsTo
  <2>2. Posted' = [Posted EXCEPT ![current[c]] = d]
    <3>1. CASE staged' = [staged EXCEPT ![current[c]] = d] /\ pending' = pending
      BY Zenon, <2>1, <3>1, OfferedStaged
    <3>2. ASSUME staged' = staged, NEW i \in Entries, pending[d][i] = NoTask,
                 pending' = [pending EXCEPT ![d][i] = current[c]]
          PROVE  Posted' = [Posted EXCEPT ![current[c]] = d]
      BY Zenon, <2>1, <3>2, OfferedParked
    <3>. QED BY ZenonT(40), <1>3, <3>1, <3>2, EntryFound
  <2>. QED BY ZenonT(40), <1>3, <2>1, <2>2
           DEF SendBlock, SendsTo, Matches, Abstract!Offer, Abstract!Accepts
<1>4. ASSUME NEW c \in CPUS, NEW f \in Filters, ReceivePending(c, f)
      PROVE  \E src \in TaskSlots : Abstract!Take(current[c], src, f)
  <2>1. Abstract!Idle(current[c])
    BY Zenon, <1>4, CallerIdle DEF ReceivePending, Receives
  <2>2. PICK i \in Entries, src \in TaskSlots : TakesParked(c, f, i, src)
    BY Zenon, <1>4, PendingFound
  <2>3. Posted[src] = current[c] /\ Posted' = [Posted EXCEPT ![src] = NoTask]
    BY Zenon, <2>2, TakenParked DEF TakesParked
  <2>. QED BY Zenon, <2>1, <2>2, <2>3 DEF TakesParked, Matches, Abstract!Take, Abstract!Accepts
<1>5. ASSUME NEW c \in CPUS, NEW f \in Filters, ReceiveStaged(c, f)
      PROVE  \E src \in TaskSlots : Abstract!Take(current[c], src, f)
  <2>1. Abstract!Idle(current[c])
    BY Zenon, <1>5, CallerIdle DEF ReceiveStaged, Receives
  <2>2. PICK src \in TaskSlots : TakesStaged(c, f, src)
    BY Zenon, <1>5, StagedFound
  <2>3. Posted[src] = current[c] /\ Posted' = [Posted EXCEPT ![src] = NoTask]
    BY Zenon, <2>2, TakenStaged DEF TakesStaged
  <2>. QED BY Zenon, <2>1, <2>2, <2>3 DEF TakesStaged, Matches, Abstract!Take, Abstract!Accepts
\* A receiver blocks only if there is no message: those it skips are of dead
\* senders, and the dead have none.
<1>6. ASSUME NEW c \in CPUS, NEW f \in Filters, ReceiveBlock(c, f)
      PROVE  Abstract!Ask(current[c], f)
  <2>1. current[c] \in TaskSlots /\ Abstract!Idle(current[c])
    BY Zenon, <1>6, CallerIdle DEF ReceiveBlock, Receives
  <2>2. NoTask \notin TaskSlots
    BY Zenon, QueueTypes
  <2>3. ASSUME NEW src \in TaskSlots, Posted[src] = current[c], Matches(f, src) PROVE FALSE
    <3>1. OffersTo(src, current[c])
      BY Zenon, <1>0, <2>1, <2>3 DEF PostedFacts
    <3>2. ASSUME NEW i \in Entries, Parked(src, current[c], i) PROVE FALSE
      <4>1. i \in PendingHits(current[c], f)
        BY Zenon, <2>2, <2>3, <3>2 DEF Parked, PendingHits
      <4>. QED BY Zenon, <1>6, <4>1 DEF ReceiveBlock
    <3>3. staged[src] = current[c]
      BY Zenon, <3>1, <3>2 DEF OffersTo
    <3>4. src \in Ws
      BY Zenon, <2>1, <2>2, <3>3 DEF Ws, Waits, Sending
    <3>5. src \in StagedHits(current[c], f)
      BY Zenon, <2>3, <3>3, <3>4 DEF StagedHits, DeadWaitForNothing
    <3>. QED BY Zenon, <1>6, <3>5 DEF ReceiveBlock
  <2>4. \A s, e \in TaskSlots : OffersTo(s, e)' <=> OffersTo(s, e)
    BY Zenon, <1>6 DEF ReceiveBlock, OffersTo, Parked
  <2>5. Posted' = Posted
    BY Zenon, <1>0, <2>4, PostedKept
  <2>. QED BY ZenonT(40), <1>6, <2>1, <2>3, <2>5
           DEF ReceiveBlock, Matches, Abstract!Ask, Abstract!Accepts
<1>7. ASSUME NEW c \in CPUS, NEW call, Calls(c, call) PROVE current[c] \in TaskSlots
  BY Zenon, <1>7, CallerWaitsNot
<1>8. ASSUME NEW c \in CPUS, NEW d \in TaskSlots, SendDirect(c, d) \/ SendBlock(c, d)
      PROVE  Abstract!ANext
  <2>1. current[c] \in TaskSlots
    BY ZenonT(40), <1>7, <1>8 DEF SendDirect, SendBlock, SendsTo
  <2>. QED BY ZenonT(40), <1>2, <1>3, <1>8, <2>1 DEF Abstract!ANext
<1>9. ASSUME NEW c \in CPUS, NEW f \in Filters,
             ReceivePending(c, f) \/ ReceiveStaged(c, f) \/ ReceiveBlock(c, f)
      PROVE  Abstract!ANext
  <2>1. current[c] \in TaskSlots
    BY Zenon, <1>7, <1>9 DEF ReceivePending, ReceiveStaged, ReceiveBlock, Receives
  <2>2. f \in TaskSlots \cup {M_ANY}
    BY Zenon DEF Filters
  <2>. QED BY ZenonT(40), <1>4, <1>5, <1>6, <1>9, <2>1, <2>2 DEF Abstract!ANext
<1>. QED BY ZenonT(40), <1>1, <1>8, <1>9, ElseNothing
\* While no task retires another, the scheduler, the parking entries and the
\* staged messages together are the rendezvous that sys_send and sys_receive
\* promise: each message is handed over once, to the receiver it names, with
\* a filter that accepts it, and a receiver blocks only when there is none.
THEOREM Implements ==
  ASSUME HarmlessBoot, NoKills
  PROVE  Spec => ImplementsRendezvous
<1>1. Init => Abstract!AInit
  <2>. SUFFICES ASSUME Init PROVE Abstract!AInit
    OBVIOUS
  <2>1. KernelInv
    BY Zenon, InitInv
  <2>2. NoTask \notin TaskSlots
    BY Zenon, <2>1, QueueTypes
  <2>3. \A s, d \in TaskSlots : ~ OffersTo(s, d)
    <3>1. /\ staged = [ s \in TaskSlots |-> NoTask ]
          /\ pending = [ s \in TaskSlots |-> [ i \in Entries |-> NoTask ] ]
      BY Zenon DEF Init
    <3>. QED BY <2>2, <3>1 DEF OffersTo, Parked
  <2>4. PostedFacts
    BY Zenon, <2>1, PostedIs
  <2>5. \A s \in TaskSlots : Posted[s] = NoTask
    BY Zenon, <2>3, <2>4 DEF PostedFacts
  <2>6. Posted = [ t \in TaskSlots |-> NoTask ]
    BY SMTT(30), <2>4, <2>5 DEF PostedFacts
  <2>. QED BY Zenon, <2>6 DEF Init, Abstract!AInit
<1>2. Init => DeadWaitForNothing
  <2>. SUFFICES ASSUME Init, NEW s \in TaskSlots PROVE state[s] # "Zombie"
    BY Zenon DEF DeadWaitForNothing
  <2>1. s \in Slots
    BY SlotFacts
  <2>2. state = [ t \in Slots |-> IF t \notin TaskSlots THEN "Running"
                                  ELSE IF BOOT[t] # "" THEN "Ready" ELSE "Free" ]
    BY Zenon DEF Init
  <2>. QED BY <2>1, <2>2
<1>3. KernelInv /\ DeadWaitForNothing /\ [Next]_vars => DeadWaitForNothing'
  BY Zenon, DeadStep
<1>4. KernelInv /\ KernelInv' /\ DeadWaitForNothing /\ [Next]_vars
        => [Abstract!ANext]_(Abstract!avars)
  BY Zenon, AbstractStep
<1>. QED BY <1>1, <1>2, <1>3, <1>4, KernelInvariant, PTL
         DEF Spec, ImplementsRendezvous, Abstract!ASpec
=============================================================================
