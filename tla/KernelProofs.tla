---------------------------- MODULE KernelProofs ----------------------------
(***************************************************************************)
(* Theorems about Kernel, for every number of CPUs, slots and entries, every*)
(* workload and every priority table: the variables keep their types, and,  *)
(* when the wake-up record the boot leaves is harmless (HarmlessBoot), a    *)
(* task is executed by one CPU only, a blocked task waits for exactly one   *)
(* thing and no receiver is parked beside a message it accepts.             *)
(***************************************************************************)
EXTENDS Kernel, WellFoundedInduction, TLAPS

-----------------------------------------------------------------------------
(* Least elements *)

NatLess == { p \in Nat \X Nat : p[1] < p[2] }

\* A nonempty set of naturals has a least element.
LEMMA LeastNat ==
  ASSUME NEW S \in SUBSET Nat, S # {}
  PROVE  \E x \in S : \A y \in S : x =< y
<1>1. IsWellFoundedOn(NatLess, Nat)
  BY NatLessThanWellFounded DEF OpToRel, NatLess
<1>2. \E x \in S : \A y \in S : ~ (<<y, x>> \in NatLess)
  BY Zenon, <1>1, WFMin
<1>3. PICK x \in S : \A y \in S : ~ (<<y, x>> \in NatLess)
  BY <1>2
<1>4. \A y \in S : x =< y
  <2>1. TAKE y \in S
  <2>2. x \in Nat /\ y \in Nat
    OBVIOUS
  <2>3. ~ (y < x)
    BY Zenon, <1>3, <2>2 DEF NatLess
  <2>. QED BY <2>2, <2>3
<1>. QED BY <1>4

\* Min (the first free entry, the first matching sender, the first free slot)
\* is a member of the set searched.
LEMMA MinMember ==
  ASSUME NEW S \in SUBSET Nat, S # {}
  PROVE  Min(S) \in S
BY Zenon, LeastNat DEF Min

\* The entries of a queue of parked senders are numbered.
LEMMA EntriesNat == Entries \subseteq Nat
BY DEF Entries

\* The boot CPU is one of the CPUs.
LEMMA BootCpu == 0 \in CPUS
BY RunQueueAssumption DEF CPUS

-----------------------------------------------------------------------------
(* The picks *)

LEMMA SlotFacts ==
  /\ TaskSlots \subseteq Slots
  /\ Slots \subseteq Nat
  /\ 0 \in Slots /\ 0 \notin TaskSlots
  /\ \A c \in CPUS : IdleSlot(c) \in Slots \ TaskSlots
<1>. USE RunQueueAssumption DEF Slots, CPUS, IdleSlot
<1>1. TaskSlots \subseteq Slots /\ Slots \subseteq Nat
  BY DEF TaskSlots
<1>2. 0 \in CPUS /\ 0 \in Slots
  OBVIOUS
<1>3. \A c \in CPUS : IdleSlot(c) \in Slots
  OBVIOUS
<1>. QED BY <1>1, <1>2, <1>3 DEF TaskSlots

\* Walking forward always ends at a natural distance below MAX_TASKS.
LEMMA ForwardType ==
  ASSUME NEW s \in Slots, NEW cur \in Slots
  PROVE  Forward(s, cur) \in 0 .. MAX_TASKS - 1
<1>1. MAX_TASKS \in Nat \ {0} /\ s + MAX_TASKS - cur - 1 \in Nat
  BY RunQueueAssumption DEF Slots
<1>. QED BY <1>1 DEF Forward

\* pick_next's search has a result whenever a candidate exists.
LEMMA BestExists ==
  ASSUME NEW R \in SUBSET Slots, R # {},
         NEW prio \in [Slots -> Nat], NEW cur \in Slots
  PROVE  \E s \in R : \A t \in R :
           \/ prio[s] < prio[t]
           \/ prio[s] = prio[t] /\ Forward(s, cur) =< Forward(t, cur)
<1>. DEFINE P == { prio[s] : s \in R }
<1>1. P \in SUBSET Nat /\ P # {}
  OBVIOUS
<1>2. PICK p \in P : \A q \in P : p =< q
  BY Zenon, <1>1, LeastNat
<1>. DEFINE B == { s \in R : prio[s] = p }
            D == { Forward(s, cur) : s \in B }
<1>3. D \in SUBSET Nat /\ D # {}
  BY ForwardType, <1>2, RunQueueAssumption
<1>. HIDE DEF D
<1>4. PICK d \in D : \A e \in D : d =< e
  BY <1>3, LeastNat
<1>5. PICK s \in B : Forward(s, cur) = d
  BY <1>4 DEF D
<1>6. ASSUME NEW t \in R
      PROVE  \/ prio[s] < prio[t]
             \/ prio[s] = prio[t] /\ Forward(s, cur) =< Forward(t, cur)
  <2>1. prio[s] = p /\ prio[t] \in P /\ p =< prio[t] /\ p \in Nat /\ prio[t] \in Nat
    BY <1>1, <1>2, <1>5
  <2>2. CASE prio[t] = p
    <3>1. Forward(t, cur) \in D
      BY <2>2 DEF D
    <3>. QED BY <3>1, <1>4, <1>5, <2>1, <2>2
  <2>3. CASE prio[t] # p
    BY <2>1, <2>3
  <2>. QED BY <2>2, <2>3
<1>. QED BY <1>5, <1>6

LEMMA PrioType ==
  ASSUME NEW nm
  PROVE  Prio(nm) \in [Slots -> Nat]
<1>1. \A n \in Names : PRIO[n] \in Nat
  <2>1. PRIO \in [Names -> 0 .. PRIO_IDLE - 1]
    BY Zenon, KernelAssumption
  <2>2. 0 .. PRIO_IDLE - 1 \subseteq Nat
    BY DEF PRIO_IDLE
  <2>. QED BY <2>1, <2>2
<1>2. ASSUME NEW s \in Slots
      PROVE  (IF nm[s] \in Names THEN PRIO[nm[s]] ELSE PRIO_IDLE) \in Nat
  BY <1>1 DEF PRIO_IDLE
<1>. QED BY <1>2 DEF Prio

\* What a CPU may switch to: its idle slot, or a Ready task.
Eligible(st, c) == { s \in TaskSlots : st[s] = "Ready" } \cup {IdleSlot(c)}

LEMMA RunnableEligible ==
  ASSUME NEW st, NEW c \in CPUS
  PROVE  Runnable(st, c) \subseteq Eligible(st, c) /\ Runnable(st, c) \subseteq Slots
BY DEF Runnable, Eligible, TaskSlots

LEMMA PickNextEligible ==
  ASSUME NEW st, NEW nm, NEW cur \in Slots, NEW c \in CPUS
  PROVE  pick_next(st, Prio(nm), cur, c) \in Eligible(st, c)
<1>. DEFINE R == Runnable(st, c)
<1>1. CASE R = {}
  BY <1>1 DEF pick_next, Eligible
<1>2. CASE R # {}
  <2>1. \E s \in R : \A t \in R :
           \/ Prio(nm)[s] < Prio(nm)[t]
           \/ Prio(nm)[s] = Prio(nm)[t] /\ Forward(s, cur) =< Forward(t, cur)
    BY <1>2, BestExists, PrioType, RunnableEligible
  <2>2. pick_next(st, Prio(nm), cur, c) \in R
    BY <1>2, <2>1 DEF pick_next
  <2>. QED BY <2>2, RunnableEligible
<1>. QED BY <1>1, <1>2

LEMMA PickNextRrEligible ==
  ASSUME NEW st, NEW cur \in Slots, NEW c \in CPUS, NEW x
  PROVE  pick_next_rr(st, cur, c, x) \in Eligible(st, c)
<1>. DEFINE R == Runnable(st, c) \ {x}
            D == { Forward(s, cur) : s \in R }
<1>1. CASE R = {}
  BY <1>1 DEF pick_next_rr, Eligible
<1>2. CASE R # {}
  <2>1. D \in SUBSET Nat /\ D # {}
    BY <1>2, ForwardType, RunnableEligible, RunQueueAssumption
  <2>. HIDE DEF D
  <2>2. PICK d \in D : \A e \in D : d =< e
    BY <2>1, LeastNat
  <2>3. \E s \in R : \A t \in R : Forward(s, cur) =< Forward(t, cur)
    BY <2>2 DEF D
  <2>4. pick_next_rr(st, cur, c, x) \in R
    BY <1>2, <2>3 DEF pick_next_rr
  <2>. QED BY <2>4, RunnableEligible
<1>. QED BY <1>1, <1>2

-----------------------------------------------------------------------------
(* Type correctness *)

StateType == [Slots -> States]
Someone == TaskSlots \cup {NoTask}

CurrentType == [CPUS -> Slots]

LEMMA PickTypes ==
  ASSUME current \in CurrentType, NEW c \in CPUS, NEW st
  PROVE  /\ PickNext(st, c) \in Slots
         /\ pick_next_rr(st, current[c], c, current[c]) \in Slots
<1>1. current[c] \in Slots /\ Eligible(st, c) \subseteq Slots
  BY Zenon, SlotFacts DEF CurrentType, Eligible
<1>2. PickNext(st, c) \in Eligible(st, c)
  BY <1>1, PickNextEligible DEF PickNext
<1>3. pick_next_rr(st, current[c], c, current[c]) \in Eligible(st, c)
  BY <1>1, PickNextRrEligible
<1>. QED BY <1>1, <1>2, <1>3

LEMMA SwitchToType ==
  ASSUME current \in CurrentType, NEW c \in CPUS, NEW st \in StateType, NEW n \in Slots,
         SwitchTo(c, st, n) \/ Stay(st)
  PROVE  state' \in StateType /\ current' \in CurrentType
BY DEF SwitchTo, Stay, StateType, CurrentType, States

LEMMA SwitchAwayType ==
  ASSUME current \in CurrentType, NEW c \in CPUS, NEW st \in StateType,
         switch_away(c, st)
  PROVE  state' \in StateType /\ current' \in CurrentType
BY PickTypes, SwitchToType DEF switch_away

\* Rotating the current task to Ready keeps the type.
LEMMA ReadyType ==
  ASSUME NEW st \in StateType, NEW s \in Slots, NEW v \in States
  PROVE  [st EXCEPT ![s] = v] \in StateType
BY DEF StateType

LEMMA RescheduleType ==
  ASSUME current \in CurrentType, NEW c \in CPUS, NEW st \in StateType, NEW nm,
         NEW w \in Someone, reschedule(c, st, nm, w)
  PROVE  state' \in StateType /\ current' \in CurrentType /\ woken' \in Someone
<1>1. [st EXCEPT ![current[c]] = "Ready"] \in StateType
  BY Zenon, ReadyType DEF CurrentType, States
<1>2. w # NoTask => w \in Slots
  BY SlotFacts DEF Someone
<1>3. \/ Stay(st)
      \/ w # NoTask /\ SwitchTo(c, [st EXCEPT ![current[c]] = "Ready"], w)
  BY DEF reschedule
<1>4. state' \in StateType /\ current' \in CurrentType
  BY Zenon, <1>1, <1>2, <1>3, SwitchToType, SlotFacts
<1>. QED BY <1>4 DEF reschedule, Someone

LEMMA SwitchBestType ==
  ASSUME current \in CurrentType, NEW c \in CPUS, NEW st \in StateType,
         NEW b \in BOOLEAN, switch_best(c, st, b)
  PROVE  state' \in StateType /\ current' \in CurrentType
<1>1. [st EXCEPT ![current[c]] = "Ready"] \in StateType
  BY Zenon, ReadyType DEF CurrentType, States
<1>2. PICK n \in Slots : Stay(st) \/ SwitchTo(c, [st EXCEPT ![current[c]] = "Ready"], n)
  BY PickTypes DEF switch_best
<1>. QED BY <1>1, <1>2, SwitchToType

LEMMA CallerIsTask ==
  ASSUME TypeOK, NEW c \in CPUS
  PROVE  /\ current \in CurrentType /\ state \in StateType /\ current[c] \in Slots
         /\ \A call : Calls(c, call) => current[c] \in TaskSlots
BY Zenon DEF TypeOK, CurrentType, StateType, Calls

\* Message passing keeps the types.
LEMMA IpcType ==
  ASSUME TypeOK, NEW c \in CPUS
  PROVE  /\ \A dst \in TaskSlots : SendDirect(c, dst) \/ SendBlock(c, dst) => TypeOK'
         /\ \A f \in Filters : ReceivePending(c, f) \/ ReceiveStaged(c, f)
                                 \/ ReceiveBlock(c, f) => TypeOK'
<1>. DEFINE me == current[c]
<1>0. /\ current \in CurrentType /\ state \in StateType /\ me \in Slots
      /\ \A call : Calls(c, call) => me \in TaskSlots
      /\ TaskSlots \subseteq Slots /\ TaskSlots \subseteq Nat /\ 0 \notin TaskSlots
  BY CallerIsTask, SlotFacts
<1>p. pending \in [TaskSlots -> [Entries -> TaskSlots \cup {NoTask}]]
  BY Zenon DEF TypeOK
<1>e. Entries \subseteq Nat
  BY Zenon, EntriesNat
<1>st. ASSUME NEW s \in Slots, NEW v \in States
       PROVE  [state EXCEPT ![s] = v] \in StateType
  BY <1>0, ReadyType
<1>1. ASSUME NEW dst \in TaskSlots, SendDirect(c, dst) PROVE TypeOK'
  <2>1. me \in TaskSlots
    BY <1>0, <1>1 DEF SendDirect, SendsTo
  <2>2. state' \in StateType /\ current' \in CurrentType /\ woken' \in Someone
    BY Zenon, <1>0, <1>st, <1>1, RescheduleType DEF SendDirect, Someone, States
  <2>. QED BY Zenon, <1>1, <2>1, <2>2 DEF SendDirect, TypeOK, StateType, CurrentType, Someone
<1>2. ASSUME NEW dst \in TaskSlots, SendBlock(c, dst) PROVE TypeOK'
  <2>1. me \in TaskSlots
    BY <1>0, <1>2 DEF SendBlock, SendsTo
  <2>2. state' \in StateType /\ current' \in CurrentType
    BY Zenon, <1>0, <1>st, <1>2, SwitchAwayType DEF SendBlock, States
  <2>3. pending' \in [TaskSlots -> [Entries -> TaskSlots \cup {NoTask}]]
    <3>1. \/ \E i : pending' = [pending EXCEPT ![dst][i] = me]
          \/ pending' = pending
      BY <1>2 DEF SendBlock
    <3>. QED BY SMTT(30), <1>p, <2>1, <3>1
  <2>. QED BY ZenonT(30), <1>2, <2>1, <2>2, <2>3 DEF SendBlock, TypeOK, StateType, CurrentType
<1>3. ASSUME NEW f \in Filters, ReceivePending(c, f) PROVE TypeOK'
  <2>1. me \in TaskSlots
    BY <1>0, <1>3 DEF ReceivePending, Receives
  <2>. DEFINE i == Min(PendingHits(me, f))
              src == pending[me][i]
  <2>2. i \in PendingHits(me, f)
    <3>1. PendingHits(me, f) \in SUBSET Nat /\ PendingHits(me, f) # {}
      BY <1>3, <1>e DEF ReceivePending, PendingHits
    <3>. QED BY SMTT(30), <3>1, MinMember
  <2>3. i \in Entries /\ src \in TaskSlots
    BY ZenonT(40), <1>p, <2>1, <2>2 DEF PendingHits
  <2>. HIDE DEF i
  <2>4. \/ reschedule(c, [state EXCEPT ![src] = "Ready"], name, src)
        \/ reschedule(c, state, name, woken)
    BY <1>3 DEF ReceivePending, i
  <2>5. state' \in StateType /\ current' \in CurrentType /\ woken' \in Someone
    BY Zenon, <1>0, <1>st, <2>3, <2>4, RescheduleType DEF Someone, States, TypeOK
  <2>6. /\ pending' = [pending EXCEPT ![me][i] = NoTask]
        /\ out' = [out EXCEPT ![me] = src]
        /\ UNCHANGED << name, recv, staged, sleep, waiting, ttbr0, entered >>
    BY <1>3 DEF ReceivePending, i
  <2>. QED BY Zenon, <2>1, <2>3, <2>5, <2>6 DEF TypeOK, StateType, CurrentType, Someone
<1>4. ASSUME NEW f \in Filters, ReceiveStaged(c, f) PROVE TypeOK'
  <2>1. me \in TaskSlots
    BY <1>0, <1>4 DEF ReceiveStaged, Receives
  <2>. DEFINE src == Min(StagedHits(me, f))
  <2>2. src \in StagedHits(me, f)
    <3>1. StagedHits(me, f) \in SUBSET Nat /\ StagedHits(me, f) # {}
      BY Zenon, <1>0, <1>4 DEF ReceiveStaged, StagedHits
    <3>. QED BY <3>1, MinMember
  <2>3. src \in TaskSlots
    BY <2>2 DEF StagedHits
  <2>4. /\ staged' = [staged EXCEPT ![src] = NoTask]
        /\ out' = [out EXCEPT ![me] = src]
        /\ reschedule(c, [state EXCEPT ![src] = "Ready"], name, src)
        /\ UNCHANGED << name, recv, pending, sleep, waiting, ttbr0, entered >>
    BY <1>4 DEF ReceiveStaged
  <2>. HIDE DEF src
  <2>5. state' \in StateType /\ current' \in CurrentType /\ woken' \in Someone
    BY Zenon, <1>0, <1>st, <2>3, <2>4, RescheduleType DEF Someone, States
  <2>. QED BY Zenon, <2>1, <2>3, <2>4, <2>5 DEF TypeOK, StateType, CurrentType, Someone
<1>5. ASSUME NEW f \in Filters, ReceiveBlock(c, f) PROVE TypeOK'
  <2>1. me \in TaskSlots
    BY <1>0, <1>5 DEF ReceiveBlock, Receives
  <2>2. state' \in StateType /\ current' \in CurrentType
    BY Zenon, <1>0, <1>st, <1>5, SwitchAwayType DEF ReceiveBlock, States
  <2>. QED BY Zenon, <1>5, <2>1, <2>2 DEF ReceiveBlock, TypeOK, StateType, CurrentType
<1>. QED BY <1>1, <1>2, <1>3, <1>4, <1>5

\* The calls that pass no message keep the types.
LEMMA CallType ==
  ASSUME TypeOK, NEW c \in CPUS
  PROVE  /\ \A ms \in 1 .. MAX_SLEEP : Sleep(c, ms) => TypeOK'
         /\ Yield(c) \/ OtherSyscall(c) \/ WaitIrq(c) \/ WaitIrqDone(c)
              \/ Exit(c) \/ Fault(c) => TypeOK'
<1>. DEFINE me == current[c]
<1>0. /\ current \in CurrentType /\ state \in StateType /\ me \in Slots
      /\ \A call : Calls(c, call) => me \in TaskSlots
      /\ woken \in Someone
  BY Zenon, CallerIsTask DEF TypeOK, Someone
<1>st. ASSUME NEW v \in States PROVE [state EXCEPT ![me] = v] \in StateType
  BY <1>0, ReadyType
<1>1. ASSUME NEW ms \in 1 .. MAX_SLEEP, Sleep(c, ms) PROVE TypeOK'
  <2>1. me \in TaskSlots
    BY <1>0, <1>1 DEF Sleep
  <2>2. state' \in StateType /\ current' \in CurrentType
    BY <1>0, <1>st, <1>1, SwitchAwayType DEF Sleep, States
  <2>3. ms \in 0 .. MAX_SLEEP
    <3>1. MAX_SLEEP \in Nat
      BY Zenon, KernelAssumption
    <3>. QED BY <3>1
  <2>. QED BY Zenon, <1>1, <2>1, <2>2, <2>3 DEF Sleep, TypeOK, StateType, CurrentType, ipcVars
<1>2. ASSUME Yield(c) PROVE TypeOK'
  <2>1. state' \in StateType /\ current' \in CurrentType
    BY Zenon, <1>0, <1>2, SwitchBestType DEF Yield
  <2>. QED BY Zenon, <1>2, <2>1 DEF Yield, TypeOK, StateType, CurrentType, ipcVars
<1>3. ASSUME OtherSyscall(c) PROVE TypeOK'
  <2>1. state' \in StateType /\ current' \in CurrentType /\ woken' \in Someone
    BY <1>0, <1>3, RescheduleType DEF OtherSyscall
  <2>. QED BY Zenon, <1>3, <2>1 DEF OtherSyscall, TypeOK, StateType, CurrentType, Someone, ipcVars
<1>4. ASSUME WaitIrq(c) \/ WaitIrqDone(c) PROVE TypeOK'
  <2>1. waiting' \in [TaskSlots -> BOOLEAN]
    BY Zenon, <1>4 DEF WaitIrq, WaitIrqDone, TypeOK
  <2>2. UNCHANGED << state, name, current, ipcVars, sleep, ttbr0, woken, entered >>
    BY <1>4 DEF WaitIrq, WaitIrqDone
  <2>. QED BY Zenon, <2>1, <2>2 DEF TypeOK, ipcVars
<1>5. ASSUME Exit(c) PROVE TypeOK'
  <2>1. state' \in StateType /\ current' \in CurrentType
    BY <1>0, <1>st, <1>5, SwitchAwayType DEF Exit, States
  <2>. QED BY Zenon, <1>5, <2>1 DEF Exit, TypeOK, StateType, CurrentType, ipcVars
<1>6. ASSUME Fault(c) PROVE TypeOK'
  <2>1. state' \in StateType /\ current' \in CurrentType
    BY <1>0, <1>st, <1>6, SwitchAwayType DEF Fault, States
  <2>. QED BY Zenon, <1>6, <2>1 DEF Fault, TypeOK, StateType, CurrentType
<1>. QED BY <1>1, <1>2, <1>3, <1>4, <1>5, <1>6

RecvType == [TaskSlots -> Filters \cup {NoTask}]
TablesType == [TaskSlots -> BOOLEAN]

\* So do kill, spawn and exec.
LEMMA LifeType ==
  ASSUME TypeOK, NEW c \in CPUS
  PROVE  /\ \A v \in TaskSlots : ExitTask(c, v) => TypeOK'
         /\ \A n \in Names : Spawn(c, n) \/ Exec(c, n) => TypeOK'
<1>0. /\ current \in CurrentType /\ state \in StateType /\ woken \in Someone
      /\ recv \in RecvType /\ ttbr0 \in TablesType /\ name \in [Slots -> Names \cup {""}]
      /\ TaskSlots \subseteq Slots /\ TaskSlots \subseteq Nat
  BY Zenon, CallerIsTask, SlotFacts DEF TypeOK, Someone, RecvType, TablesType
<1>1. ASSUME NEW v \in TaskSlots
      PROVE  /\ Killed(v) \in StateType /\ RecvAfterKill(v) \in RecvType
             /\ TablesAfterKill(v, current[c]) \in TablesType
  <2>1. Killed(v) \in StateType
    BY Zenon, <1>0, ReadyType DEF Killed, States
  <2>2. RecvAfterKill(v) \in RecvType
    BY Zenon, <1>0 DEF RecvAfterKill, RecvType
  <2>3. TablesAfterKill(v, current[c]) \in TablesType
    BY Zenon, <1>0 DEF TablesAfterKill, TablesType
  <2>. QED BY <2>1, <2>2, <2>3
<1>2. ASSUME NEW v \in TaskSlots, ExitTask(c, v) PROVE TypeOK'
  <2>1. state' \in StateType /\ current' \in CurrentType /\ woken' \in Someone
    BY Zenon, <1>0, <1>1, <1>2, RescheduleType DEF ExitTask
  <2>2. recv' \in RecvType /\ ttbr0' \in TablesType
    BY <1>1, <1>2 DEF ExitTask
  <2>. QED BY Zenon, <1>2, <2>1, <2>2 DEF ExitTask, TypeOK, StateType, CurrentType, Someone,
                                   RecvType, TablesType
<1>3. ASSUME NEW n \in Names, NEW st \in StateType, NEW rc \in RecvType,
             NEW tt \in TablesType, Spawned(c, n, st, rc, tt)
      PROVE  TypeOK'
  <2>. DEFINE s == Min(FreeSlots)
  <2>1. FreeSlots # {} => s \in TaskSlots
    <3>1. FreeSlots \in SUBSET Nat /\ FreeSlots \subseteq TaskSlots
      BY Zenon, <1>0 DEF FreeSlots
    <3>. QED BY Zenon, <3>1, MinMember
  <2>. HIDE DEF s
  <2>2. \/ /\ ttbr0' = tt /\ name' = name
           /\ reschedule(c, st, name, woken)
        \/ /\ s \in TaskSlots
           /\ ttbr0' = [tt EXCEPT ![s] = TRUE]
           /\ name' = [name EXCEPT ![s] = n]
           /\ reschedule(c, [st EXCEPT ![s] = "Ready"], [name EXCEPT ![s] = n], s)
    BY <1>3, <2>1 DEF Spawned, s
  <2>3. s \in TaskSlots => [st EXCEPT ![s] = "Ready"] \in StateType
    BY Zenon, <1>0, ReadyType DEF States
  <2>4. state' \in StateType /\ current' \in CurrentType /\ woken' \in Someone
    BY Zenon, <1>0, <2>2, <2>3, RescheduleType DEF Someone
  <2>5. ttbr0' \in TablesType /\ name' \in [Slots -> Names \cup {""}]
    BY ZenonT(30), <1>0, <2>2 DEF TablesType
  <2>. QED BY Zenon, <1>3, <2>4, <2>5 DEF Spawned, TypeOK, StateType, CurrentType, Someone,
                                   RecvType, TablesType
<1>4. ASSUME NEW n \in Names, Spawn(c, n) PROVE TypeOK'
  BY Zenon, <1>0, <1>3, <1>4 DEF Spawn
<1>5. ASSUME NEW n \in Names, Exec(c, n) PROVE TypeOK'
  <2>1. Live(n) \in SUBSET Nat /\ Live(n) \subseteq TaskSlots
    BY Zenon, <1>0 DEF Live
  <2>2. Live(n) # {} => Min(Live(n)) \in TaskSlots
    BY <2>1, MinMember
  <2>. QED BY Zenon, <1>0, <1>1, <1>3, <1>5, <2>2 DEF Exec
<1>. QED BY <1>2, <1>4, <1>5

\* And the ticks and the idle contexts.
LEMMA TickType ==
  ASSUME TypeOK, NEW c \in CPUS, Tick(c)
  PROVE  TypeOK'
<1>0. current \in CurrentType /\ state \in StateType /\ TaskSlots \subseteq Slots
  BY CallerIsTask, SlotFacts
<1>1. Woken \in StateType
  BY <1>0 DEF Woken, StateType, States
<1>2. TickSleep => sleep' \in [TaskSlots -> 0 .. MAX_SLEEP]
  <2>1. MAX_SLEEP \in Nat
    BY Zenon, KernelAssumption
  <2>2. sleep \in [TaskSlots -> 0 .. MAX_SLEEP]
    BY Zenon DEF TypeOK
  <2>. QED BY <2>1, <2>2 DEF TickSleep
<1>3. TickSleep /\ UNCHANGED << name, ipcVars, waiting, ttbr0, woken, entered >>
  BY Zenon DEF Tick, TickReap, TickIdle, TickKernel, TickUser
<1>4. \/ \E n \in Slots : SwitchTo(c, Woken, n) \/ Stay(Woken)
      \/ switch_best(c, Woken, FALSE)
  <2>1. PickNext(Woken, c) \in Slots
    BY <1>0, PickTypes
  <2>. QED BY Zenon, <2>1 DEF Tick, TickReap, TickIdle, TickKernel, TickUser
<1>5. state' \in StateType /\ current' \in CurrentType
  BY Zenon, <1>0, <1>1, <1>4, SwitchToType, SwitchBestType
<1>. QED BY Zenon, <1>2, <1>3, <1>5 DEF TypeOK, StateType, CurrentType, ipcVars

LEMMA IdleType ==
  ASSUME TypeOK, Enter \/ \E c \in CPUS : IdleLoop(c)
  PROVE  TypeOK'
<1>0. current \in CurrentType /\ state \in StateType /\ 0 \in CPUS
  <2>1. 0 \in CPUS
    BY Zenon, BootCpu
  <2>. QED BY <2>1, CallerIsTask
<1>1. PICK c \in CPUS, st \in StateType, n \in Slots : SwitchTo(c, st, n) \/ Stay(st)
  <2>1. CASE Enter
    <3>1. PickNext(state, 0) \in Slots
      BY <1>0, PickTypes
    <3>. QED BY <1>0, <2>1, <3>1 DEF Enter
  <2>2. CASE \E c \in CPUS : IdleLoop(c)
    <3>1. PICK c \in CPUS : IdleLoop(c)
      BY <2>2
    <3>2. PickNext(state, c) \in Slots /\ IdleSlot(c) \in Slots
      BY <1>0, PickTypes, SlotFacts
    <3>3. [state EXCEPT ![IdleSlot(c)] = "Ready"] \in StateType
      BY Zenon, <1>0, <3>2, ReadyType DEF States
    <3>. QED BY <3>1, <3>2, <3>3 DEF IdleLoop
  <2>. QED BY <2>1, <2>2
<1>2. state' \in StateType /\ current' \in CurrentType
  BY <1>0, <1>1, SwitchToType
<1>3. UNCHANGED << name, ipcVars, sleep, waiting, ttbr0, woken >> /\ entered' \in BOOLEAN
  BY Zenon DEF Enter, IdleLoop, TypeOK
<1>. QED BY Zenon, <1>2, <1>3 DEF TypeOK, StateType, CurrentType, ipcVars

LEMMA InitType == Init => TypeOK
<1>. SUFFICES ASSUME Init PROVE TypeOK
  OBVIOUS
<1>1. BOOT \in [TaskSlots -> Names \cup {""}] /\ BOOT_WOKEN \in TaskSlots \cup {NoTask}
  BY Zenon, KernelAssumption
<1>2. 0 \in Slots /\ TaskSlots \subseteq Slots
  BY SlotFacts
<1>3. state \in [Slots -> States] /\ name \in [Slots -> Names \cup {""}]
  BY Zenon, <1>1, <1>2 DEF Init, States
<1>4. ttbr0 \in [TaskSlots -> BOOLEAN]
  BY Zenon DEF Init
<1>5. sleep \in [TaskSlots -> 0 .. MAX_SLEEP]
  <2>1. sleep = [ s \in TaskSlots |-> 0 ]
    BY Zenon DEF Init
  <2>2. MAX_SLEEP \in Nat
    BY Zenon, KernelAssumption
  <2>. QED BY <2>1, <2>2
<1>. QED BY Zenon, <1>1, <1>2, <1>3, <1>4, <1>5 DEF Init, TypeOK

LEMMA TypeStep == TypeOK /\ [Next]_vars => TypeOK'
<1>. SUFFICES ASSUME TypeOK, [Next]_vars PROVE TypeOK'
  OBVIOUS
<1>1. CASE UNCHANGED vars
  BY Zenon, <1>1 DEF vars, TypeOK
<1>2. CASE Enter \/ \E c \in CPUS : IdleLoop(c)
  BY <1>2, IdleType
<1>3. ASSUME NEW c \in CPUS, Tick(c) PROVE TypeOK'
  BY <1>3, TickType
<1>4. ASSUME NEW c \in CPUS, UserStep(c) PROVE TypeOK'
  BY <1>4, IpcType, CallType, LifeType DEF UserStep
<1>. QED BY <1>1, <1>2, <1>3, <1>4 DEF Next

\* Type correctness of the kernel core: every slot, queue entry, filter and
\* priority lookup of task.rs and syscall.rs stays inside its array.
THEOREM TypeCorrect == Spec => []TypeOK
BY InitType, TypeStep, PTL DEF Spec

-----------------------------------------------------------------------------
(* One CPU per task, one wait per blocked task *)

Ws == { s \in TaskSlots : Waits(s) }

\* The scheduling part of KernelInv, as a relation between the task states,
\* the slots the CPUs execute and the set of waiting tasks.
Core(st, cur, W) ==
  /\ \A c \in CPUS : /\ cur[c] \in TaskSlots \cup {0, IdleSlot(c)}
                     /\ cur[c] \in TaskSlots => /\ st[cur[c]] \in {"Running", "Zombie"}
                                                /\ cur[c] \notin W
  /\ \A c, d \in CPUS : cur[c] = cur[d] /\ cur[c] \in TaskSlots => c = d
  /\ \A s \in TaskSlots :
       /\ st[s] = "Running" => \E c \in CPUS : cur[c] = s
       /\ st[s] = "Blocked" => s \in W
       /\ st[s] \in {"Free", "Ready", "Running"} => s \notin W

\* The same with CPU c left out: it is about to leave the task it executed.
Away(st, c, cur, W) ==
  /\ \A d \in CPUS \ {c} :
       /\ cur[d] \in TaskSlots \cup {0, IdleSlot(d)}
       /\ cur[d] \in TaskSlots => st[cur[d]] \in {"Running", "Zombie"} /\ cur[d] \notin W
  /\ \A d, e \in CPUS \ {c} : cur[d] = cur[e] /\ cur[d] \in TaskSlots => d = e
  /\ \A s \in TaskSlots :
       /\ st[s] = "Running" => \E d \in CPUS \ {c} : cur[d] = s
       /\ st[s] = "Blocked" => s \in W
       /\ st[s] \in {"Free", "Ready", "Running"} => s \notin W

CoreInv == HarmlessWoken /\ OneWait /\ Core(state, current, Ws)

LEMMA InvCore ==
  KernelInv <=> TypeOK /\ CoreInv /\ (entered \/ current[0] = 0)
BY DEF KernelInv, CoreInv, OneCpuPerTask, WaitsForOneThing, Core, Ws

\* A CPU that leaves its task may switch to anything eligible.
LEMMA SwitchCore ==
  ASSUME current \in CurrentType, NEW c \in CPUS, NEW st \in StateType, NEW W,
         Away(st, c, current, W), NEW n \in Eligible(st, c), SwitchTo(c, st, n)
  PROVE  Core(state', current', W)
<1>1. /\ state' = [st EXCEPT ![n] = "Running"]
      /\ current' = [current EXCEPT ![c] = n]
      /\ n \in Slots /\ st \in [Slots -> States] /\ current \in [CPUS -> Slots]
      /\ n \in TaskSlots => st[n] = "Ready"
      /\ n \in TaskSlots \cup {0, IdleSlot(c)}
  BY SMTT(30), SlotFacts DEF SwitchTo, Eligible, StateType, CurrentType
<1>2. ASSUME NEW d \in CPUS
      PROVE  /\ current'[d] \in TaskSlots \cup {0, IdleSlot(d)}
             /\ current'[d] \in TaskSlots => /\ state'[current'[d]] \in {"Running", "Zombie"}
                                             /\ current'[d] \notin W
  BY SMTT(30), <1>1, SlotFacts DEF Away
<1>3. ASSUME NEW d \in CPUS, NEW e \in CPUS, current'[d] = current'[e],
             current'[d] \in TaskSlots
      PROVE  d = e
  BY SMTT(30), <1>1, <1>3 DEF Away
<1>4. ASSUME NEW s \in TaskSlots
      PROVE  /\ state'[s] = "Running" => \E d \in CPUS : current'[d] = s
             /\ state'[s] = "Blocked" => s \in W
             /\ state'[s] \in {"Free", "Ready", "Running"} => s \notin W
  BY <1>1, SlotFacts DEF Away
<1>. QED BY <1>2, <1>3, <1>4 DEF Core

LEMMA SwitchAwayCore ==
  ASSUME current \in CurrentType, NEW c \in CPUS, NEW st \in StateType, NEW W,
         Away(st, c, current, W), switch_away(c, st)
  PROVE  Core(state', current', W)
<1>1. current[c] \in Slots
  BY DEF CurrentType
<1>2. PickNext(st, c) \in Eligible(st, c)
  BY <1>1, PickNextEligible DEF PickNext
<1>. QED BY <1>2, SwitchCore DEF switch_away

\* The three ways to leave a task: it dies, goes back in line or blocks.
LEMMA LeaveCore ==
  ASSUME current \in CurrentType, NEW c \in CPUS, NEW st \in StateType, NEW W,
         Core(st, current, W), current[c] \in TaskSlots
  PROVE  /\ Away([st EXCEPT ![current[c]] = "Zombie"], c, current, W)
         /\ Away([st EXCEPT ![current[c]] = "Ready"], c, current, W)
         /\ Away([st EXCEPT ![current[c]] = "Blocked"], c, current, W \cup {current[c]})
<1>1. TaskSlots \subseteq Slots /\ st \in [Slots -> States] /\ current \in [CPUS -> Slots]
  BY SlotFacts DEF StateType, CurrentType
<1>2. \A d \in CPUS \ {c} : current[d] # current[c]
  BY SMTT(30) DEF Core
<1>3. Away([st EXCEPT ![current[c]] = "Zombie"], c, current, W)
  BY SMTT(30), <1>1, <1>2 DEF Core, Away
<1>4. Away([st EXCEPT ![current[c]] = "Ready"], c, current, W)
  BY SMTT(30), <1>1, <1>2 DEF Core, Away
<1>5. Away([st EXCEPT ![current[c]] = "Blocked"], c, current, W \cup {current[c]})
  BY SMTT(30), <1>1, <1>2 DEF Core, Away
<1>. QED BY <1>3, <1>4, <1>5

LEMMA RescheduleCore ==
  ASSUME current \in CurrentType, NEW c \in CPUS, NEW st \in StateType, NEW W, NEW nm,
         Core(st, current, W), current[c] \in TaskSlots, NEW w \in Someone,
         w # NoTask => st[w] = "Ready", reschedule(c, st, nm, w)
  PROVE  Core(state', current', W) /\ woken' = NoTask
<1>. DEFINE go == [st EXCEPT ![current[c]] = "Ready"]
<1>1. CASE Stay(st)
  BY SMTT(30), <1>1 DEF Stay, reschedule
<1>2. CASE w # NoTask /\ SwitchTo(c, go, w)
  <2>1. TaskSlots \subseteq Slots /\ go \in StateType
    BY Zenon, SlotFacts, ReadyType DEF States
  <2>2. w \in Eligible(go, c)
    BY <1>2, <2>1 DEF Eligible, Someone, StateType
  <2>3. Away(go, c, current, W)
    BY Zenon, LeaveCore
  <2>4. Core(state', current', W)
    BY <1>2, <2>1, <2>2, <2>3, SwitchCore
  <2>. QED BY <2>4 DEF reschedule
<1>. QED BY SMTT(30), <1>1, <1>2 DEF reschedule

LEMMA SwitchBestCore ==
  ASSUME current \in CurrentType, NEW c \in CPUS, NEW st \in StateType, NEW W,
         Core(st, current, W), current[c] \in TaskSlots,
         NEW b \in BOOLEAN, switch_best(c, st, b)
  PROVE  Core(state', current', W)
<1>. DEFINE go == [st EXCEPT ![current[c]] = "Ready"]
<1>1. TaskSlots \subseteq Slots /\ go \in StateType /\ current[c] \in Slots
  BY ZenonT(30), SlotFacts, ReadyType DEF States
<1>2. Eligible(st, c) \subseteq Eligible(go, c)
  BY <1>1 DEF Eligible, StateType
<1>3. /\ PickNext(st, c) \in Eligible(st, c)
      /\ pick_next_rr(st, current[c], c, current[c]) \in Eligible(st, c)
  BY SMTT(30), <1>1, PickNextEligible, PickNextRrEligible DEF PickNext
<1>4. Stay(st) \/ \E n \in Eligible(st, c) : SwitchTo(c, go, n)
  BY <1>3 DEF switch_best
<1>5. CASE Stay(st)
  BY <1>5 DEF Stay
<1>6. ASSUME NEW n \in Eligible(st, c), SwitchTo(c, go, n) PROVE Core(state', current', W)
  BY Zenon, <1>1, <1>2, <1>6, LeaveCore, SwitchCore
<1>. QED BY Zenon, <1>4, <1>5, <1>6

\* A task nobody executes may be made Ready once it no longer waits.
LEMMA WakeCore ==
  ASSUME current \in CurrentType, NEW st \in StateType, NEW W, NEW V,
         Core(st, current, W), NEW s \in TaskSlots,
         \A c \in CPUS : current[c] # s, s \notin V,
         \A t \in TaskSlots \ {s} : t \in V <=> t \in W
  PROVE  Core([st EXCEPT ![s] = "Ready"], current, V)
<1>. DEFINE up == [st EXCEPT ![s] = "Ready"]
<1>1. /\ \A t \in TaskSlots : up[t] = IF t = s THEN "Ready" ELSE st[t]
      /\ current \in [CPUS -> Slots]
  BY SlotFacts DEF StateType, CurrentType
<1>. HIDE DEF up
<1>2. ASSUME NEW c \in CPUS
      PROVE  /\ current[c] \in TaskSlots \cup {0, IdleSlot(c)}
             /\ current[c] \in TaskSlots => /\ up[current[c]] \in {"Running", "Zombie"}
                                            /\ current[c] \notin V
  BY <1>1 DEF Core
<1>3. ASSUME NEW t \in TaskSlots
      PROVE  /\ up[t] = "Running" => \E c \in CPUS : current[c] = t
             /\ up[t] = "Blocked" => t \in V
             /\ up[t] \in {"Free", "Ready", "Running"} => t \notin V
  BY <1>1 DEF Core
<1>. QED BY <1>2, <1>3 DEF Core, up

\* Any task may be killed, and stop receiving, at any time.
LEMMA KillCore ==
  ASSUME current \in CurrentType, NEW st \in StateType, NEW W, NEW V,
         Core(st, current, W), NEW s \in TaskSlots, V \subseteq W,
         \A t \in TaskSlots \ {s} : t \in V <=> t \in W
  PROVE  Core([st EXCEPT ![s] = "Zombie"], current, V)
BY SMTT(30), SlotFacts DEF Core, StateType, CurrentType

(* What each operation does to the waits *)

waitVars == << recv, pending, staged, sleep >>

\* Every wait is the same for the tasks other than s.
SameButFor(s) == \A t \in TaskSlots \ {s} : t \in Ws' <=> t \in Ws

LEMMA WaitsKept ==
  ASSUME OneWait, UNCHANGED waitVars
  PROVE  OneWait' /\ Ws' = Ws
BY SMTT(30) DEF OneWait, Ws, waitVars, Waits, Receiving, Sleeping, Sending, Parked

LEMMA RecvCleared ==
  ASSUME TypeOK, OneWait, NEW v \in TaskSlots, recv' = [recv EXCEPT ![v] = NoTask],
         UNCHANGED << pending, staged, sleep >>
  PROVE  /\ OneWait' /\ Ws' \subseteq Ws /\ SameButFor(v)
         /\ Receiving(v) => v \notin Ws'
<1>1. \A t \in TaskSlots : recv'[t] = IF t = v THEN NoTask ELSE recv[t]
  BY Zenon DEF TypeOK
<1>2. \A t \in TaskSlots : (Sending(t)' <=> Sending(t)) /\ (Sleeping(t)' <=> Sleeping(t))
  BY DEF Sending, Sleeping, Parked
<1>3. \A t, d \in TaskSlots, i \in Entries : Parked(t, d, i)' <=> Parked(t, d, i)
  BY DEF Parked
<1>4. \A t \in TaskSlots : /\ Receiving(t)' => Receiving(t)
                           /\ t # v => (Receiving(t)' <=> Receiving(t))
                           /\ t = v => ~ Receiving(t)'
  BY SMTT(30), <1>1 DEF Receiving
<1>5. OneWait'
  BY SMTT(30), <1>2, <1>3, <1>4 DEF OneWait
<1>. QED BY <1>2, <1>4, <1>5 DEF Ws, Waits, SameButFor, OneWait

\* ReceiveBlock: the caller, which waited for nothing, now waits to receive.
LEMMA RecvSet ==
  ASSUME TypeOK, OneWait, NEW v \in TaskSlots, v \notin Ws, NEW f \in Filters,
         recv' = [recv EXCEPT ![v] = f], UNCHANGED << pending, staged, sleep >>
  PROVE  OneWait' /\ Ws' = Ws \cup {v}
<1>0. f # NoTask
  BY SlotFacts DEF Filters, NoTask, M_ANY
<1>1. \A t \in TaskSlots : recv'[t] = IF t = v THEN f ELSE recv[t]
  BY Zenon DEF TypeOK
<1>2. \A t \in TaskSlots : (Sending(t)' <=> Sending(t)) /\ (Sleeping(t)' <=> Sleeping(t))
  BY SMTT(30) DEF Sending, Sleeping, Parked
<1>3. \A t, d \in TaskSlots, i \in Entries : Parked(t, d, i)' <=> Parked(t, d, i)
  BY DEF Parked
<1>4. \A t \in TaskSlots : Receiving(t)' <=> (t = v \/ Receiving(t))
  BY SMTT(30), <1>0, <1>1 DEF Receiving
<1>5. OneWait'
  BY <1>2, <1>3, <1>4 DEF OneWait, Ws, Waits
<1>. QED BY <1>2, <1>4, <1>5 DEF Ws, Waits

\* Sleep.
LEMMA SleepSet ==
  ASSUME TypeOK, OneWait, NEW v \in TaskSlots, v \notin Ws, NEW ms \in 1 .. MAX_SLEEP,
         sleep' = [sleep EXCEPT ![v] = ms], UNCHANGED << recv, pending, staged >>
  PROVE  OneWait' /\ Ws' = Ws \cup {v}
<1>0. ms # 0
  OBVIOUS
<1>1. \A t \in TaskSlots : sleep'[t] = IF t = v THEN ms ELSE sleep[t]
  BY Zenon DEF TypeOK
<1>2. \A t \in TaskSlots : (Sending(t)' <=> Sending(t)) /\ (Receiving(t)' <=> Receiving(t))
  BY DEF Sending, Receiving, Parked
<1>3. \A t, d \in TaskSlots, i \in Entries : Parked(t, d, i)' <=> Parked(t, d, i)
  BY DEF Parked
<1>4. \A t \in TaskSlots : Sleeping(t)' <=> (t = v \/ Sleeping(t))
  BY SMTT(30), <1>0, <1>1 DEF Sleeping
<1>5. OneWait'
  BY SMTT(30), <1>2, <1>3, <1>4 DEF OneWait, Ws, Waits
<1>. QED BY <1>2, <1>4, <1>5 DEF Ws, Waits

\* wake_sleepers: the expired sleepers, and nobody else, stop waiting.
LEMMA SleepTicked ==
  ASSUME TypeOK, OneWait, TickSleep, UNCHANGED << recv, pending, staged >>
  PROVE  OneWait' /\ Ws' = Ws \ Expired
<1>1. \A t \in TaskSlots : /\ sleep'[t] = IF sleep[t] = 0 THEN 0 ELSE sleep[t] - 1
                           /\ sleep[t] \in Nat
  <2>1. sleep \in [TaskSlots -> 0 .. MAX_SLEEP]
    BY ZenonT(30) DEF TypeOK
  <2>. QED BY <2>1 DEF TickSleep
<1>2. \A t \in TaskSlots : (Sending(t)' <=> Sending(t)) /\ (Receiving(t)' <=> Receiving(t))
  BY DEF Sending, Receiving, Parked
<1>3. \A t, d \in TaskSlots, i \in Entries : Parked(t, d, i)' <=> Parked(t, d, i)
  BY DEF Parked
<1>4. \A t \in TaskSlots : /\ Sleeping(t)' <=> (Sleeping(t) /\ t \notin Expired)
                           /\ t \in Expired => Sleeping(t)
  BY SMTT(30), <1>1 DEF Sleeping, Expired
<1>5. OneWait'
  BY SMTT(30), <1>2, <1>3, <1>4 DEF OneWait
<1>. QED BY <1>2, <1>4, <1>5 DEF Ws, Waits, OneWait

\* SendBlock into a free entry: the caller is parked there and nowhere else.
LEMMA ParkSet ==
  ASSUME TypeOK, OneWait, NEW v \in TaskSlots, v \notin Ws, NEW dst \in TaskSlots,
         NEW i \in Entries, pending[dst][i] = NoTask,
         pending' = [pending EXCEPT ![dst][i] = v], UNCHANGED << recv, staged, sleep >>
  PROVE  OneWait' /\ Ws' = Ws \cup {v}
<1>0. 0 \notin TaskSlots
  BY SlotFacts
<1>p. pending \in [TaskSlots -> [Entries -> TaskSlots \cup {NoTask}]]
  BY Zenon DEF TypeOK
<1>1. \A t, d \in TaskSlots, j \in Entries :
        Parked(t, d, j)' <=> ((t = v /\ d = dst /\ j = i) \/ Parked(t, d, j))
  BY <1>0, <1>p DEF Parked, NoTask
<1>2. \A t \in TaskSlots : /\ Receiving(t)' <=> Receiving(t)
                           /\ Sleeping(t)' <=> Sleeping(t)
                           /\ staged'[t] = staged[t]
  BY SMTT(30) DEF Receiving, Sleeping
<1>3. \A t \in TaskSlots : Sending(t)' <=> (t = v \/ Sending(t))
  BY <1>1, <1>2 DEF Sending
<1>4. ~ Sending(v) /\ ~ Receiving(v) /\ ~ Sleeping(v) /\ staged[v] = NoTask
      /\ \A d \in TaskSlots, j \in Entries : ~ Parked(v, d, j)
  BY SMTT(30) DEF Ws, Waits, Sending
<1>5. OneWait'
  BY SMTT(30), <1>1, <1>2, <1>3, <1>4 DEF OneWait
<1>. QED BY SMTT(30), <1>2, <1>3, <1>5 DEF Ws, Waits

\* SendBlock on a full array: the caller's message is staged on itself.
LEMMA StageSet ==
  ASSUME TypeOK, OneWait, NEW v \in TaskSlots, v \notin Ws, NEW dst \in TaskSlots,
         staged' = [staged EXCEPT ![v] = dst], UNCHANGED << recv, pending, sleep >>
  PROVE  OneWait' /\ Ws' = Ws \cup {v}
<1>0. 0 \notin TaskSlots
  BY SlotFacts
<1>1. \A t \in TaskSlots : staged'[t] = IF t = v THEN dst ELSE staged[t]
  BY Zenon DEF TypeOK
<1>2. \A t \in TaskSlots : (Receiving(t)' <=> Receiving(t)) /\ (Sleeping(t)' <=> Sleeping(t))
  BY DEF Receiving, Sleeping
<1>3. \A t, d \in TaskSlots, j \in Entries : Parked(t, d, j)' <=> Parked(t, d, j)
  BY SMTT(30) DEF Parked
<1>4. \A t \in TaskSlots : Sending(t)' <=> (t = v \/ Sending(t))
  BY SMTT(30), <1>0, <1>1, <1>3 DEF Sending, NoTask
<1>5. ~ Sending(v) /\ ~ Receiving(v) /\ ~ Sleeping(v)
      /\ \A d \in TaskSlots, j \in Entries : ~ Parked(v, d, j)
  BY DEF Ws, Waits, Sending
<1>6. OneWait'
  BY SMTT(30), <1>1, <1>2, <1>3, <1>4, <1>5 DEF OneWait
<1>. QED BY SMTT(30), <1>2, <1>4, <1>6 DEF Ws, Waits

\* ReceivePending: the sender whose entry is emptied waits no longer.
LEMMA ParkCleared ==
  ASSUME TypeOK, OneWait, NEW me \in TaskSlots, NEW i \in Entries,
         NEW src \in TaskSlots, pending[me][i] = src,
         pending' = [pending EXCEPT ![me][i] = NoTask], UNCHANGED << recv, staged, sleep >>
  PROVE  OneWait' /\ src \in Ws /\ Ws' = Ws \ {src}
<1>0. 0 \notin TaskSlots
  BY SlotFacts
<1>p. pending \in [TaskSlots -> [Entries -> TaskSlots \cup {NoTask}]]
  BY Zenon DEF TypeOK
<1>1. \A t, d \in TaskSlots, j \in Entries :
        Parked(t, d, j)' <=> (Parked(t, d, j) /\ ~ (d = me /\ j = i))
  BY <1>0, <1>p DEF Parked, NoTask
<1>2. \A t \in TaskSlots : /\ Receiving(t)' <=> Receiving(t)
                           /\ Sleeping(t)' <=> Sleeping(t)
                           /\ staged'[t] = staged[t]
  BY DEF Receiving, Sleeping
<1>3. Parked(src, me, i) /\ Sending(src)
  BY DEF Parked, Sending
<1>4. /\ staged[src] = NoTask /\ ~ Receiving(src) /\ ~ Sleeping(src)
      /\ \A d \in TaskSlots, j \in Entries : Parked(src, d, j) => d = me /\ j = i
  BY <1>3 DEF OneWait
<1>5. \A t \in TaskSlots : Sending(t)' <=> (t # src /\ Sending(t))
  <2>1. ~ Sending(src)'
    BY <1>1, <1>2, <1>4 DEF Sending
  <2>2. ASSUME NEW t \in TaskSlots, t # src PROVE Sending(t)' <=> Sending(t)
    <3>1. ~ Parked(t, me, i)
      BY <2>2 DEF Parked
    <3>. QED BY <1>1, <1>2, <3>1 DEF Sending
  <2>. QED BY <2>1, <2>2
<1>6. OneWait'
  BY SMTT(30), <1>1, <1>2, <1>5 DEF OneWait
<1>. QED BY SMTT(30), <1>2, <1>3, <1>4, <1>5, <1>6 DEF Ws, Waits

\* ReceiveStaged: so does the sender whose staged message is taken.
LEMMA StageCleared ==
  ASSUME TypeOK, OneWait, NEW src \in TaskSlots, staged[src] # NoTask,
         staged' = [staged EXCEPT ![src] = NoTask], UNCHANGED << recv, pending, sleep >>
  PROVE  OneWait' /\ src \in Ws /\ Ws' = Ws \ {src}
<1>1. \A t \in TaskSlots : staged'[t] = IF t = src THEN NoTask ELSE staged[t]
  BY ZenonT(30) DEF TypeOK
<1>2. \A t \in TaskSlots : (Receiving(t)' <=> Receiving(t)) /\ (Sleeping(t)' <=> Sleeping(t))
  BY DEF Receiving, Sleeping
<1>3. \A t, d \in TaskSlots, j \in Entries : Parked(t, d, j)' <=> Parked(t, d, j)
  BY DEF Parked
<1>4. /\ Sending(src) /\ ~ Receiving(src) /\ ~ Sleeping(src)
      /\ \A d \in TaskSlots, j \in Entries : ~ Parked(src, d, j)
  BY DEF OneWait, Sending
<1>5. \A t \in TaskSlots : Sending(t)' <=> (t # src /\ Sending(t))
  BY SMTT(30), <1>1, <1>3, <1>4 DEF Sending
<1>6. OneWait'
  BY SMTT(30), <1>1, <1>2, <1>3, <1>5 DEF OneWait
<1>. QED BY <1>2, <1>4, <1>5, <1>6 DEF Ws, Waits

-----------------------------------------------------------------------------
(* Every step keeps KernelInv *)

\* What a step starts from, and what its caller is.
LEMMA Start ==
  ASSUME KernelInv, NEW c \in CPUS
  PROVE  /\ TypeOK /\ HarmlessWoken /\ OneWait /\ Core(state, current, Ws)
         /\ current \in CurrentType /\ state \in StateType /\ current[c] \in Slots
         /\ \A call : Calls(c, call) => current[c] \in TaskSlots
         /\ \A call, st : Calls(c, call) /\ reschedule(c, st, name, woken)
                          => reschedule(c, st, name, NoTask)
         /\ current[c] \in TaskSlots => current[c] \notin Ws
         /\ TaskSlots \subseteq Slots /\ TaskSlots \subseteq Nat /\ 0 \notin TaskSlots
<1>1. TypeOK
  BY DEF KernelInv
<1>2. HarmlessWoken /\ OneWait /\ Core(state, current, Ws)
  BY SMTT(30), InvCore DEF CoreInv
<1>3. current[c] \in TaskSlots => current[c] \notin Ws
  BY SMTT(30), <1>2 DEF Core
<1>4. ASSUME NEW call, NEW st, Calls(c, call), reschedule(c, st, name, woken)
      PROVE  reschedule(c, st, name, NoTask)
  <2>1. name[current[c]] \in Names /\ current[c] \in Slots
    BY Zenon, <1>4, SlotFacts DEF Calls
  <2>2. PRIO \in [Names -> 0 .. PRIO_IDLE - 1]
    BY Zenon, KernelAssumption
  <2>3. woken \in TaskSlots \cup {NoTask} /\ TaskSlots \subseteq Slots
    BY ZenonT(40), <1>1, SlotFacts DEF TypeOK
  <2>4. woken # NoTask => ~ (Prio(name)[woken] < Prio(name)[current[c]])
    <3>. SUFFICES ASSUME woken # NoTask
                  PROVE  ~ (Prio(name)[woken] < Prio(name)[current[c]])
      OBVIOUS
    <3>1. /\ woken \in Slots
          /\ name[woken] \in Names
          /\ PRIO[name[current[c]]] =< PRIO[name[woken]]
      BY SMTT(30), <1>2, <2>1, <2>3 DEF HarmlessWoken
    <3>2. /\ Prio(name)[woken] = PRIO[name[woken]]
          /\ Prio(name)[current[c]] = PRIO[name[current[c]]]
      BY SMTT(30), <2>1, <3>1 DEF Prio
    <3>3. PRIO[name[woken]] \in Int /\ PRIO[name[current[c]]] \in Int
      BY SMTT(30), <2>1, <2>2, <3>1 DEF PRIO_IDLE
    <3>. QED BY SMTT(30), <3>1, <3>2, <3>3
  <2>. QED BY <1>4, <2>4 DEF reschedule
<1>. QED BY SMTT(30), <1>1, <1>2, <1>3, <1>4, CallerIsTask, SlotFacts

LEMMA SendInv ==
  ASSUME KernelInv, TypeOK', NEW c \in CPUS, NEW dst \in TaskSlots,
         SendDirect(c, dst) \/ SendBlock(c, dst)
  PROVE  CoreInv'
<1>. DEFINE me == current[c]
<1>0. /\ TypeOK /\ HarmlessWoken /\ OneWait /\ Core(state, current, Ws)
      /\ current \in CurrentType /\ state \in StateType
      /\ me \in TaskSlots /\ me \notin Ws /\ TaskSlots \subseteq Slots
      /\ TaskSlots \subseteq Nat /\ 0 \notin TaskSlots
  BY SMTT(30), Start DEF SendDirect, SendBlock, SendsTo
<1>1. CASE SendDirect(c, dst)
  <2>1. /\ recv[dst] # NoTask /\ recv' = [recv EXCEPT ![dst] = NoTask]
        /\ reschedule(c, [state EXCEPT ![dst] = "Ready"], name, dst)
        /\ UNCHANGED << pending, staged, sleep >>
    BY <1>1 DEF SendDirect
  <2>2. OneWait' /\ Ws' \subseteq Ws /\ SameButFor(dst) /\ dst \notin Ws'
    BY ZenonT(40), <1>0, <2>1, RecvCleared DEF Receiving
  <2>3. dst \in Ws /\ \A d \in CPUS : current[d] # dst
    BY SMTT(30), <1>0, <2>1 DEF Ws, Waits, Receiving, Core
  <2>4. Core([state EXCEPT ![dst] = "Ready"], current, Ws')
    BY SMTT(30), <1>0, <2>2, <2>3, WakeCore DEF SameButFor
  <2>5. /\ [state EXCEPT ![dst] = "Ready"] \in StateType
        /\ [state EXCEPT ![dst] = "Ready"][dst] = "Ready"
    BY <1>0 DEF StateType, States
  <2>6. Core(state', current', Ws') /\ woken' = NoTask
    BY ZenonT(40), <1>0, <2>1, <2>4, <2>5, RescheduleCore DEF Someone
  <2>. QED BY SMTT(30), <2>2, <2>6 DEF CoreInv, HarmlessWoken
<1>2. CASE SendBlock(c, dst)
  <2>1. OneWait' /\ Ws' = Ws \cup {me}
    <3>1. CASE FreeEntries(dst) # {}
      <4>1. FreeEntries(dst) \in SUBSET Nat
        BY Zenon, EntriesNat DEF FreeEntries
      <4>2. Min(FreeEntries(dst)) \in FreeEntries(dst)
        BY SMTT(30), <3>1, <4>1, MinMember
      <4>3. PICK i \in FreeEntries(dst) : pending' = [pending EXCEPT ![dst][i] = me]
        BY SMTT(30), <1>2, <3>1, <4>2 DEF SendBlock
      <4>4. i \in Entries /\ pending[dst][i] = NoTask
        BY SMTT(30) DEF FreeEntries
      <4>5. UNCHANGED << recv, staged, sleep >>
        BY <1>2, <3>1 DEF SendBlock
      <4>. QED BY Zenon, <1>0, <4>3, <4>4, <4>5, ParkSet
    <3>2. CASE FreeEntries(dst) = {}
      <4>1. staged' = [staged EXCEPT ![me] = dst] /\ UNCHANGED << recv, pending, sleep >>
        BY <1>2, <3>2 DEF SendBlock
      <4>. QED BY ZenonT(40), <1>0, <4>1, StageSet
    <3>. QED BY <3>1, <3>2
  <2>2. Away([state EXCEPT ![me] = "Blocked"], c, current, Ws \cup {me})
    BY Zenon, <1>0, LeaveCore
  <2>3. [state EXCEPT ![me] = "Blocked"] \in StateType
    BY ZenonT(30), <1>0, ReadyType DEF States
  <2>4. Core(state', current', Ws')
    BY SMTT(30), <1>0, <1>2, <2>1, <2>2, <2>3, SwitchAwayCore DEF SendBlock
  <2>. QED BY SMTT(30), <1>0, <1>2, <2>1, <2>4 DEF CoreInv, HarmlessWoken, SendBlock
<1>. QED BY SMTT(30), <1>1, <1>2

LEMMA ReceiveInv ==
  ASSUME KernelInv, TypeOK', NEW c \in CPUS, NEW f \in Filters,
         ReceivePending(c, f) \/ ReceiveStaged(c, f) \/ ReceiveBlock(c, f)
  PROVE  CoreInv'
<1>. DEFINE me == current[c]
<1>0. /\ TypeOK /\ HarmlessWoken /\ OneWait /\ Core(state, current, Ws)
      /\ current \in CurrentType /\ state \in StateType
      /\ me \in TaskSlots /\ me \notin Ws /\ TaskSlots \subseteq Slots
      /\ TaskSlots \subseteq Nat /\ 0 \notin TaskSlots
  BY ZenonT(30), Start DEF ReceivePending, ReceiveStaged, ReceiveBlock, Receives
\* Taking the message of src: src waits no longer and may be made Ready.
<1>1. ASSUME NEW src \in TaskSlots, OneWait', src \in Ws, Ws' = Ws \ {src},
             \/ reschedule(c, [state EXCEPT ![src] = "Ready"], name, src)
             \/ state[src] = "Zombie" /\ reschedule(c, state, name, NoTask)
      PROVE  CoreInv'
  <2>1. \A d \in CPUS : current[d] # src
    BY SMTT(30), <1>0, <1>1 DEF Core
  <2>2. Core([state EXCEPT ![src] = "Ready"], current, Ws')
    BY SMTT(30), <1>0, <1>1, <2>1, WakeCore
  <2>3. /\ [state EXCEPT ![src] = "Ready"] \in StateType
        /\ [state EXCEPT ![src] = "Ready"][src] = "Ready"
    BY SMTT(30), <1>0 DEF StateType, States
  <2>4. state[src] = "Zombie" => Core(state, current, Ws')
    BY <1>0, <1>1 DEF Core
  <2>5. Core(state', current', Ws') /\ woken' = NoTask
    BY ZenonT(40), <1>0, <1>1, <2>2, <2>3, <2>4, RescheduleCore DEF Someone
  <2>. QED BY SMTT(30), <1>1, <2>5 DEF CoreInv, HarmlessWoken
<1>2. CASE ReceivePending(c, f)
  <2>. DEFINE i == Min(PendingHits(me, f))
              src == pending[me][i]
  <2>1. i \in PendingHits(me, f)
    <3>1. Entries \subseteq Nat
      BY Zenon, EntriesNat
    <3>2. PendingHits(me, f) \in SUBSET Nat /\ PendingHits(me, f) # {}
      BY ZenonT(30), <1>2, <3>1 DEF ReceivePending, PendingHits
    <3>. QED BY <3>2, MinMember
  <2>2. i \in Entries /\ src \in TaskSlots
    <3>1. pending \in [TaskSlots -> [Entries -> TaskSlots \cup {NoTask}]]
      BY Zenon, <1>0 DEF TypeOK
    <3>. QED BY ZenonT(30), <1>0, <2>1, <3>1 DEF PendingHits
  <2>3. /\ \/ reschedule(c, [state EXCEPT ![src] = "Ready"], name, src)
           \/ state[src] = "Zombie" /\ reschedule(c, state, name, NoTask)
        /\ pending' = [pending EXCEPT ![me][i] = NoTask]
        /\ UNCHANGED << recv, staged, sleep >>
    BY Zenon, <1>2, Start DEF ReceivePending, Receives
  <2>. HIDE DEF i
  <2>4. OneWait' /\ src \in Ws /\ Ws' = Ws \ {src}
    BY ZenonT(30), <1>0, <2>2, <2>3, ParkCleared
  <2>. QED BY SMTT(30), <1>1, <2>2, <2>3, <2>4
<1>3. CASE ReceiveStaged(c, f)
  <2>. DEFINE src == Min(StagedHits(me, f))
  <2>1. src \in StagedHits(me, f)
    <3>1. StagedHits(me, f) \in SUBSET Nat /\ StagedHits(me, f) # {}
      BY ZenonT(40), <1>0, <1>3 DEF ReceiveStaged, StagedHits
    <3>. QED BY <3>1, MinMember
  <2>2. /\ staged' = [staged EXCEPT ![src] = NoTask]
        /\ reschedule(c, [state EXCEPT ![src] = "Ready"], name, src)
        /\ UNCHANGED << recv, pending, sleep >>
    BY <1>3 DEF ReceiveStaged
  <2>. HIDE DEF src
  <2>3. src \in TaskSlots /\ staged[src] # NoTask
    BY <1>0, <2>1 DEF StagedHits, NoTask
  <2>4. OneWait' /\ src \in Ws /\ Ws' = Ws \ {src}
    BY ZenonT(30), <1>0, <2>2, <2>3, StageCleared
  <2>. QED BY SMTT(30), <1>1, <2>2, <2>3, <2>4
<1>4. CASE ReceiveBlock(c, f)
  <2>1. OneWait' /\ Ws' = Ws \cup {me}
    BY Zenon, <1>0, <1>4, RecvSet DEF ReceiveBlock
  <2>2. Away([state EXCEPT ![me] = "Blocked"], c, current, Ws \cup {me})
    BY Zenon, <1>0, LeaveCore
  <2>3. [state EXCEPT ![me] = "Blocked"] \in StateType
    BY ZenonT(40), <1>0, ReadyType DEF States
  <2>4. Core(state', current', Ws')
    BY SMTT(30), <1>0, <1>4, <2>1, <2>2, <2>3, SwitchAwayCore DEF ReceiveBlock
  <2>. QED BY Zenon, <1>0, <1>4, <2>1, <2>4 DEF CoreInv, HarmlessWoken, ReceiveBlock
<1>. QED BY ZenonT(30), <1>2, <1>3, <1>4

LEMMA CallInv ==
  ASSUME KernelInv, TypeOK', NEW c \in CPUS,
         \/ \E ms \in 1 .. MAX_SLEEP : Sleep(c, ms)
         \/ Yield(c) \/ OtherSyscall(c) \/ WaitIrq(c) \/ WaitIrqDone(c)
         \/ Exit(c) \/ Fault(c)
  PROVE  CoreInv'
<1>. DEFINE me == current[c]
<1>0. /\ TypeOK /\ HarmlessWoken /\ OneWait /\ Core(state, current, Ws)
      /\ current \in CurrentType /\ state \in StateType
      /\ me \in TaskSlots /\ me \notin Ws /\ TaskSlots \subseteq Slots
  BY ZenonT(30), Start DEF Sleep, Yield, OtherSyscall, WaitIrq, WaitIrqDone, Exit, Fault
<1>st. ASSUME NEW v \in States PROVE [state EXCEPT ![me] = v] \in StateType
  BY <1>0, ReadyType
<1>1. ASSUME NEW ms \in 1 .. MAX_SLEEP, Sleep(c, ms) PROVE CoreInv'
  <2>1. OneWait' /\ Ws' = Ws \cup {me}
    BY Zenon, <1>0, <1>1, SleepSet DEF Sleep, ipcVars
  <2>2. Away([state EXCEPT ![me] = "Blocked"], c, current, Ws \cup {me})
    BY ZenonT(30), <1>0, LeaveCore
  <2>3. Core(state', current', Ws')
    BY SMTT(30), <1>0, <1>1, <1>st, <2>1, <2>2, SwitchAwayCore DEF Sleep, States
  <2>. QED BY Zenon, <1>0, <1>1, <2>1, <2>3 DEF CoreInv, HarmlessWoken, Sleep
<1>2. CASE Yield(c)
  <2>1. OneWait' /\ Ws' = Ws
    BY <1>0, <1>2, WaitsKept DEF Yield, ipcVars, waitVars
  <2>2. Core(state', current', Ws)
    BY ZenonT(30), <1>0, <1>2, SwitchBestCore DEF Yield
  <2>. QED BY ZenonT(30), <1>0, <1>2, <2>1, <2>2 DEF CoreInv, HarmlessWoken, Yield
<1>3. CASE OtherSyscall(c)
  <2>1. OneWait' /\ Ws' = Ws
    BY <1>0, <1>3, WaitsKept DEF OtherSyscall, ipcVars, waitVars
  <2>2. reschedule(c, state, name, NoTask)
    BY ZenonT(30), <1>3, Start DEF OtherSyscall
  <2>3. Core(state', current', Ws) /\ woken' = NoTask
    BY ZenonT(30), <1>0, <2>2, RescheduleCore DEF Someone
  <2>. QED BY ZenonT(40), <2>1, <2>3 DEF CoreInv, HarmlessWoken
<1>4. CASE WaitIrq(c) \/ WaitIrqDone(c)
  <2>1. UNCHANGED << state, name, current, waitVars, woken >>
    BY <1>4 DEF WaitIrq, WaitIrqDone, ipcVars, waitVars
  <2>2. OneWait' /\ Ws' = Ws
    BY ZenonT(30), <1>0, <2>1, WaitsKept
  <2>. QED BY ZenonT(30), <1>0, <2>1, <2>2 DEF CoreInv, HarmlessWoken
<1>5. CASE Exit(c)
  <2>1. OneWait' /\ Ws' = Ws
    BY <1>0, <1>5, WaitsKept DEF Exit, ipcVars, waitVars
  <2>2. Away([state EXCEPT ![me] = "Zombie"], c, current, Ws)
    BY ZenonT(30), <1>0, LeaveCore
  <2>3. Core(state', current', Ws)
    BY SMTT(30), <1>0, <1>5, <1>st, <2>2, SwitchAwayCore DEF Exit, States
  <2>. QED BY ZenonT(30), <1>0, <1>5, <2>1, <2>3 DEF CoreInv, HarmlessWoken, Exit
<1>6. CASE Fault(c)
  <2>1. OneWait' /\ Ws' \subseteq Ws /\ SameButFor(me)
    BY ZenonT(30), <1>0, <1>6, RecvCleared DEF Fault
  <2>2. Ws' = Ws
    BY SMTT(30), <1>0, <2>1 DEF SameButFor, Ws
  <2>3. Away([state EXCEPT ![me] = "Zombie"], c, current, Ws)
    BY Zenon, <1>0, LeaveCore
  <2>4. Core(state', current', Ws)
    BY SMTT(30), <1>0, <1>6, <1>st, <2>3, SwitchAwayCore DEF Fault, States
  <2>. QED BY ZenonT(40), <1>0, <1>6, <2>1, <2>2, <2>4 DEF CoreInv, HarmlessWoken, Fault
<1>. QED BY ZenonT(30), <1>1, <1>2, <1>3, <1>4, <1>5, <1>6

LEMMA LifeInv ==
  ASSUME KernelInv, TypeOK', NEW c \in CPUS,
         \/ \E v \in TaskSlots : ExitTask(c, v)
         \/ \E n \in Names : Spawn(c, n) \/ Exec(c, n)
  PROVE  CoreInv'
<1>0. /\ TypeOK /\ HarmlessWoken /\ OneWait /\ Core(state, current, Ws)
      /\ current \in CurrentType /\ state \in StateType
      /\ current[c] \in TaskSlots /\ TaskSlots \subseteq Slots /\ TaskSlots \subseteq Nat
  BY SMTT(30), Start DEF ExitTask, Spawn, Exec
<1>tail. \A st : reschedule(c, st, name, woken) => reschedule(c, st, name, NoTask)
  BY Start DEF ExitTask, Spawn, Exec
<1>1. ASSUME NEW v \in TaskSlots PROVE Killed(v) \in StateType
  BY Zenon, <1>0, ReadyType DEF Killed, States
\* Killing v: it stops receiving, the other waits are untouched.
<1>2. ASSUME NEW v \in TaskSlots, recv' = RecvAfterKill(v),
             UNCHANGED << pending, staged, sleep >>
      PROVE  OneWait' /\ Core(Killed(v), current, Ws')
  <2>1. OneWait' /\ Ws' \subseteq Ws /\ SameButFor(v)
    BY ZenonT(30), <1>0, <1>2, RecvCleared DEF RecvAfterKill
  <2>. QED BY <1>0, <2>1, KillCore DEF Killed, SameButFor
<1>3. ASSUME NEW v \in TaskSlots, ExitTask(c, v) PROVE CoreInv'
  <2>1. OneWait' /\ Core(Killed(v), current, Ws')
    BY SMTT(30), <1>2, <1>3 DEF ExitTask
  <2>2. reschedule(c, Killed(v), name, NoTask)
    BY <1>3, Start DEF ExitTask
  <2>3. Core(state', current', Ws') /\ woken' = NoTask
    BY ZenonT(30), <1>0, <1>1, <1>3, <2>1, <2>2, RescheduleCore DEF Someone
  <2>. QED BY ZenonT(40), <2>1, <2>3 DEF CoreInv, HarmlessWoken
\* Spawning into a slot that was free before the step.
<1>4. ASSUME NEW n, NEW st \in StateType, NEW rc, NEW tt, Spawned(c, n, st, rc, tt),
             OneWait', Core(st, current, Ws'),
             \A s \in FreeSlots : st[s] = "Free"
      PROVE  CoreInv'
  <2>1. CASE FreeSlots = {}
    <3>1. reschedule(c, st, name, NoTask)
      BY <1>4, <2>1, <1>tail DEF Spawned
    <3>2. Core(state', current', Ws') /\ woken' = NoTask
      BY ZenonT(40), <1>0, <1>4, <3>1, RescheduleCore DEF Someone
    <3>. QED BY ZenonT(40), <1>4, <3>2 DEF CoreInv, HarmlessWoken
  <2>2. CASE FreeSlots # {}
    <3>. DEFINE s == Min(FreeSlots)
    <3>1. s \in FreeSlots
      <4>1. FreeSlots \in SUBSET Nat
        BY ZenonT(30), <1>0 DEF FreeSlots
      <4>. QED BY <2>2, <4>1, MinMember
    <3>2. \E nm : reschedule(c, [st EXCEPT ![s] = "Ready"], nm, s)
      BY <1>4, <2>2 DEF Spawned
    <3>. HIDE DEF s
    <3>3. s \in TaskSlots /\ st[s] = "Free"
      BY Zenon, <1>4, <3>1 DEF FreeSlots
    <3>4. (\A d \in CPUS : current[d] # s) /\ s \notin Ws'
      BY ZenonT(30), <1>4, <3>3 DEF Core
    <3>5. Core([st EXCEPT ![s] = "Ready"], current, Ws')
      BY ZenonT(30), <1>0, <1>4, <3>3, <3>4, WakeCore
    <3>6. /\ [st EXCEPT ![s] = "Ready"] \in StateType
          /\ [st EXCEPT ![s] = "Ready"][s] = "Ready"
      BY SMTT(30), <1>0, <3>3 DEF StateType, States
    <3>7. Core(state', current', Ws') /\ woken' = NoTask
      BY SMTT(30), <1>0, <3>2, <3>3, <3>5, <3>6, RescheduleCore DEF Someone
    <3>. QED BY Zenon, <1>4, <3>7 DEF CoreInv, HarmlessWoken
  <2>. QED BY <2>1, <2>2
\* Spawning without killing first.
<1>5. ASSUME NEW n, Spawned(c, n, state, recv, ttbr0) PROVE CoreInv'
  <2>1. OneWait' /\ Ws' = Ws
    BY SMTT(30), <1>0, <1>5, WaitsKept DEF Spawned, waitVars
  <2>. QED BY SMTT(30), <1>0, <1>4, <1>5, <2>1 DEF FreeSlots
<1>6. ASSUME NEW n \in Names, Exec(c, n), Live(n) # {} PROVE CoreInv'
  <2>. DEFINE v == Min(Live(n))
  <2>1. v \in Live(n)
    <3>1. Live(n) \in SUBSET Nat
      BY ZenonT(30), <1>0 DEF Live
    <3>. QED BY <1>6, <3>1, MinMember
  <2>2. Spawned(c, n, Killed(v), RecvAfterKill(v), TablesAfterKill(v, current[c]))
    BY SMTT(30), <1>6 DEF Exec
  <2>. HIDE DEF v
  <2>3. v \in TaskSlots /\ state[v] # "Free"
    BY SMTT(30), <2>1 DEF Live
  <2>4. OneWait' /\ Core(Killed(v), current, Ws')
    BY SMTT(30), <1>2, <2>2, <2>3 DEF Spawned
  <2>5. \A s \in FreeSlots : Killed(v)[s] = "Free"
    BY <1>0, <2>3 DEF FreeSlots, Killed, StateType
  <2>. QED BY SMTT(30), <1>1, <1>4, <2>2, <2>3, <2>4, <2>5
<1>. QED BY SMTT(30), <1>3, <1>5, <1>6 DEF Spawn, Exec

\* A CPU whose task is dead or is no task can be seen as having left it.
LEMMA AwayCore ==
  ASSUME NEW c \in CPUS, NEW st, NEW W, Core(st, current, W),
         current[c] \in TaskSlots => st[current[c]] # "Running"
  PROVE  Away(st, c, current, W)
BY ZenonT(30) DEF Core, Away

LEMMA TickInv ==
  ASSUME KernelInv, TypeOK', NEW c \in CPUS, Tick(c)
  PROVE  CoreInv'
<1>0. /\ TypeOK /\ HarmlessWoken /\ OneWait /\ Core(state, current, Ws)
      /\ current \in CurrentType /\ state \in StateType /\ current[c] \in Slots
      /\ TaskSlots \subseteq Slots
  BY Start
<1>1. OneWait' /\ Ws' = Ws \ Expired
  <2>1. TickSleep /\ UNCHANGED << recv, pending, staged >>
    BY ZenonT(30) DEF Tick, TickReap, TickIdle, TickKernel, TickUser, ipcVars
  <2>. QED BY <1>0, <2>1, SleepTicked
<1>2. Woken \in StateType
  BY <1>0 DEF Woken, StateType, States
<1>3. Core(Woken, current, Ws')
  <2>1. Expired \subseteq Ws /\ \A d \in CPUS : current[d] \notin Expired
    <3>1. \A s \in TaskSlots : sleep[s] = 1 => Sleeping(s)
      BY SMTT(30) DEF Sleeping
    <3>. QED BY <1>0, <3>1 DEF Expired, Ws, Waits, Core
  <2>2. \A s \in TaskSlots : Woken[s] = IF s \in Expired THEN "Ready" ELSE state[s]
    BY <1>0 DEF Woken
  <2>. QED BY SMTT(30), <1>0, <1>1, <2>1, <2>2 DEF Core
<1>4. PickNext(Woken, c) \in Eligible(Woken, c)
  BY ZenonT(30), <1>0, PickNextEligible DEF PickNext
<1>5. CASE Stay(Woken)
  BY ZenonT(30), <1>0, <1>1, <1>3, <1>5 DEF CoreInv, HarmlessWoken, Stay, Tick, TickReap, TickIdle, TickKernel, TickUser
<1>6. CASE TickUser(c)
  <2>1. Core(state', current', Ws')
    BY ZenonT(30), <1>0, <1>2, <1>3, <1>6, SwitchBestCore DEF TickUser, FromEl0
  <2>. QED BY ZenonT(30), <1>0, <1>1, <1>6, <2>1 DEF CoreInv, HarmlessWoken, TickUser
<1>7. CASE (TickReap(c) \/ TickIdle(c)) /\ SwitchTo(c, Woken, PickNext(Woken, c))
  <2>1. current[c] \in TaskSlots => Woken[current[c]] # "Running"
    BY SMTT(30), <1>7, SlotFacts DEF TickReap, TickIdle, CurZombie
  <2>2. Away(Woken, c, current, Ws')
    BY SMTT(30), <1>3, <2>1, AwayCore
  <2>3. Core(state', current', Ws')
    BY SMTT(30), <1>0, <1>2, <1>4, <1>7, <2>2, SwitchCore
  <2>. QED BY ZenonT(30), <1>0, <1>1, <1>7, <2>3 DEF CoreInv, HarmlessWoken, TickReap, TickIdle
<1>. QED BY ZenonT(30), <1>5, <1>6, <1>7 DEF Tick, TickReap, TickIdle, TickKernel

LEMMA IdleInv ==
  ASSUME KernelInv, TypeOK', Enter \/ \E c \in CPUS : IdleLoop(c)
  PROVE  CoreInv'
<1>00. 0 \in CPUS
  BY Zenon, BootCpu
<1>0. /\ TypeOK /\ HarmlessWoken /\ OneWait /\ Core(state, current, Ws)
      /\ current \in CurrentType /\ state \in StateType
  BY ZenonT(30), <1>00, Start
<1>1. OneWait' /\ Ws' = Ws /\ HarmlessWoken'
  BY ZenonT(40), <1>0, WaitsKept DEF HarmlessWoken, Enter, IdleLoop, ipcVars, waitVars
<1>2. ASSUME NEW c \in CPUS
      PROVE  PickNext(state, c) \in Eligible(state, c)
  <2>1. current[c] \in Slots
    BY SMTT(30), <1>0 DEF CurrentType
  <2>. QED BY <2>1, PickNextEligible DEF PickNext
<1>3. CASE Enter
  <2>1. CASE Stay(state)
    BY ZenonT(30), <1>0, <1>1, <2>1 DEF Stay, CoreInv
  <2>2. CASE SwitchTo(0, state, PickNext(state, 0))
    <3>1. current[0] = 0 /\ 0 \notin TaskSlots
      BY SMTT(30), <1>3, SlotFacts DEF Enter, KernelInv
    <3>2. Away(state, 0, current, Ws)
      BY <1>00, <1>0, <3>1, AwayCore
    <3>3. Core(state', current', Ws)
      BY ZenonT(30), <1>00, <1>0, <1>2, <2>2, <3>2, SwitchCore
    <3>. QED BY ZenonT(30), <1>1, <3>3 DEF CoreInv, HarmlessWoken
  <2>. QED BY <1>3, <2>1, <2>2 DEF Enter
<1>4. ASSUME NEW c \in CPUS, IdleLoop(c) PROVE CoreInv'
  <2>. DEFINE st == [state EXCEPT ![IdleSlot(c)] = "Ready"]
  <2>1. /\ IdleSlot(c) \in Slots \ TaskSlots /\ TaskSlots \subseteq Slots
        /\ current[c] \notin TaskSlots
    BY SMTT(30), <1>4, SlotFacts DEF IdleLoop
  <2>2. st \in StateType /\ \A s \in TaskSlots : st[s] = state[s]
    BY <1>0, <2>1 DEF StateType, States
  <2>. HIDE DEF st
  <2>3. Core(st, current, Ws)
    BY ZenonT(30), <1>0, <2>2 DEF Core
  <2>4. Away(st, c, current, Ws)
    BY SMTT(30), <2>1, <2>3, AwayCore
  <2>5. PickNext(state, c) \in Eligible(st, c)
    BY SMTT(30), <1>2, <2>2 DEF Eligible
  <2>6. SwitchTo(c, st, PickNext(state, c))
    BY <1>4 DEF IdleLoop, st
  <2>7. Core(state', current', Ws)
    BY ZenonT(30), <1>0, <2>2, <2>4, <2>5, <2>6, SwitchCore
  <2>. QED BY ZenonT(30), <1>1, <2>7 DEF CoreInv, HarmlessWoken
<1>. QED BY <1>3, <1>4

\* A CPU changes no other CPU's current task, and leaves `entered` alone.
LEMMA OwnCpu ==
  ASSUME current \in CurrentType, NEW c \in CPUS, UserStep(c) \/ Tick(c) \/ IdleLoop(c)
  PROVE  /\ entered' = entered
         /\ \A d \in CPUS \ {c} : current'[d] = current[d]
<1>1. ASSUME NEW st, NEW n, SwitchTo(c, st, n) \/ Stay(st)
      PROVE  \A d \in CPUS \ {c} : current'[d] = current[d]
  BY ZenonT(30), <1>1 DEF SwitchTo, Stay, CurrentType
<1>2. ASSUME NEW st, NEW nm, NEW w, reschedule(c, st, nm, w)
      PROVE  \A d \in CPUS \ {c} : current'[d] = current[d]
  BY ZenonT(30), <1>1, <1>2 DEF reschedule
<1>3. ASSUME NEW st, NEW b, switch_best(c, st, b)
      PROVE  \A d \in CPUS \ {c} : current'[d] = current[d]
  BY ZenonT(30), <1>1, <1>3 DEF switch_best
<1>4. ASSUME NEW st, switch_away(c, st)
      PROVE  \A d \in CPUS \ {c} : current'[d] = current[d]
  BY ZenonT(30), <1>1, <1>4 DEF switch_away
<1>5. CASE Tick(c)
  BY ZenonT(30), <1>1, <1>3, <1>5 DEF Tick, TickReap, TickIdle, TickKernel, TickUser
<1>6. CASE IdleLoop(c)
  BY ZenonT(30), <1>1, <1>6 DEF IdleLoop
<1>7. ASSUME NEW dst, SendDirect(c, dst) \/ SendBlock(c, dst)
      PROVE  /\ entered' = entered
             /\ \A d \in CPUS \ {c} : current'[d] = current[d]
  BY ZenonT(30), <1>2, <1>4, <1>7 DEF SendDirect, SendBlock
<1>8. ASSUME NEW f, ReceivePending(c, f) \/ ReceiveStaged(c, f) \/ ReceiveBlock(c, f)
      PROVE  /\ entered' = entered
             /\ \A d \in CPUS \ {c} : current'[d] = current[d]
  BY ZenonT(30), <1>2, <1>4, <1>8 DEF ReceivePending, ReceiveStaged, ReceiveBlock
<1>9. ASSUME NEW ms, Sleep(c, ms) \/ Yield(c) \/ OtherSyscall(c) \/ WaitIrq(c)
                     \/ WaitIrqDone(c) \/ Exit(c) \/ Fault(c)
      PROVE  /\ entered' = entered
             /\ \A d \in CPUS \ {c} : current'[d] = current[d]
  BY ZenonT(30), <1>2, <1>3, <1>4, <1>9
     DEF Sleep, Yield, OtherSyscall, WaitIrq, WaitIrqDone, Exit, Fault
<1>10. ASSUME NEW v, ExitTask(c, v) \/ Spawn(c, v) \/ Exec(c, v)
       PROVE  /\ entered' = entered
              /\ \A d \in CPUS \ {c} : current'[d] = current[d]
  BY ZenonT(30), <1>2, <1>10 DEF ExitTask, Spawn, Exec, Spawned
<1>. QED BY ZenonT(30), <1>5, <1>6, <1>7, <1>8, <1>9, <1>10 DEF UserStep

\* CPU 0 stays in the boot context until it enters the scheduler.
LEMMA BootStep ==
  ASSUME KernelInv, [Next]_vars
  PROVE  (entered \/ current[0] = 0)'
<1>0. /\ 0 \in CPUS /\ current \in CurrentType /\ 0 \notin TaskSlots
      /\ entered \/ current[0] = 0
  BY SMTT(30), RunQueueAssumption, Start DEF CPUS, KernelInv
<1>1. CASE Enter \/ UNCHANGED vars
  BY <1>0, <1>1 DEF Enter, vars
<1>2. ASSUME NEW c \in CPUS, UserStep(c) \/ Tick(c) \/ IdleLoop(c)
      PROVE  (entered \/ current[0] = 0)'
  <2>1. entered' = entered /\ \A d \in CPUS \ {c} : current'[d] = current[d]
    BY <1>0, <1>2, OwnCpu
  <2>2. CASE c # 0
    BY <1>0, <2>1, <2>2
  <2>3. CASE c = 0
    <3>1. current[0] # 0
      BY ZenonT(30), <1>0, <1>2, <2>3
         DEF UserStep, SendDirect, SendBlock, SendsTo, ReceivePending, ReceiveStaged,
             ReceiveBlock, Receives, Sleep, Yield, OtherSyscall, WaitIrq, WaitIrqDone,
             Exit, Fault, ExitTask, Spawn, Exec, Calls,
             Tick, TickReap, TickIdle, TickKernel, TickUser, TickTaken, IdleLoop
    <3>. QED BY ZenonT(30), <1>0, <2>1, <3>1
  <2>. QED BY SMTT(30), <2>2, <2>3
<1>. QED BY ZenonT(30), <1>1, <1>2 DEF Next

LEMMA InitInv == HarmlessBoot /\ Init => KernelInv
<1>. SUFFICES ASSUME HarmlessBoot, Init PROVE KernelInv
  OBVIOUS
<1>1. TypeOK /\ TaskSlots \subseteq Slots /\ 0 \notin TaskSlots
  BY InitType, SlotFacts
<1>2. \A s \in TaskSlots : /\ state[s] \in {"Ready", "Free"}
                           /\ recv[s] = NoTask /\ sleep[s] = 0 /\ staged[s] = NoTask
                           /\ \A i \in Entries : pending[s][i] = NoTask
  BY Zenon, <1>1 DEF Init
<1>3. \A s \in TaskSlots : s # NoTask
  BY ZenonT(30), <1>1 DEF NoTask
<1>4. \A s \in TaskSlots : ~ Receiving(s) /\ ~ Sleeping(s) /\ ~ Sending(s) /\ ~ Waits(s)
                           /\ \A d \in TaskSlots, i \in Entries : ~ Parked(s, d, i)
  BY ZenonT(30), <1>2, <1>3 DEF Receiving, Sleeping, Sending, Parked, Waits
<1>5. OneWait
  BY ZenonT(30), <1>4 DEF OneWait
<1>6. Core(state, current, Ws)
  <2>1. current = [ c \in CPUS |-> 0 ]
    BY Zenon DEF Init
  <2>. QED BY <1>1, <1>2, <1>4, <2>1 DEF Core, Ws
<1>7. current[0] = 0 /\ HarmlessWoken
  <2>1. 0 \in CPUS
    BY Zenon, BootCpu
  <2>2. /\ current = [ c \in CPUS |-> 0 ] /\ woken = BOOT_WOKEN
        /\ name = [ s \in Slots |-> IF s \in TaskSlots THEN BOOT[s] ELSE "" ]
    BY Zenon DEF Init
  <2>3. BOOT_WOKEN \in TaskSlots \cup {NoTask}
    BY ZenonT(30), KernelAssumption
  <2>4. woken # NoTask => name[woken] = BOOT[BOOT_WOKEN]
    BY Zenon, <1>1, <2>2, <2>3
  <2>. QED BY ZenonT(30), <2>1, <2>2, <2>4 DEF HarmlessBoot, HarmlessWoken
<1>. QED BY <1>1, <1>5, <1>6, <1>7, InvCore DEF CoreInv, HarmlessWoken

LEMMA InvStep == KernelInv /\ [Next]_vars => KernelInv'
<1>. SUFFICES ASSUME KernelInv, [Next]_vars PROVE KernelInv'
  OBVIOUS
<1>1. TypeOK'
  BY TypeStep DEF KernelInv
<1>2. CoreInv'
  <2>1. CASE UNCHANGED vars
    <3>1. CoreInv /\ OneWait
      BY SMTT(30), InvCore DEF CoreInv
    <3>2. OneWait' /\ Ws' = Ws
      BY SMTT(30), <2>1, <3>1, WaitsKept DEF vars, waitVars
    <3>. QED BY ZenonT(30), <2>1, <3>1, <3>2 DEF CoreInv, HarmlessWoken, vars
  <2>2. CASE Enter \/ \E c \in CPUS : IdleLoop(c)
    BY <1>1, <2>2, IdleInv
  <2>3. ASSUME NEW c \in CPUS, Tick(c) PROVE CoreInv'
    BY SMTT(30), <1>1, <2>3, TickInv
  <2>4. ASSUME NEW c \in CPUS, UserStep(c) PROVE CoreInv'
    BY SMTT(30), <1>1, <2>4, SendInv, ReceiveInv, CallInv, LifeInv DEF UserStep
  <2>. QED BY ZenonT(30), <2>1, <2>2, <2>3, <2>4 DEF Next
<1>3. (entered \/ current[0] = 0)'
  BY BootStep
<1>. QED
  <2>1. KernelInv' <=> TypeOK' /\ CoreInv' /\ (entered \/ current[0] = 0)'
    BY InvCore, PTL
  <2>. QED BY <1>1, <1>2, <1>3, <2>1

\* KernelInv is an invariant of every run whose boot leaves a harmless wake-up
\* record (Scheduler::woken, set by the last spawn_user before enter): none, or
\* one naming a task no program is worse than, which no reschedule acts upon.
THEOREM KernelInvariant ==
  ASSUME HarmlessBoot
  PROVE  Spec => []KernelInv
<1>1. Init => KernelInv
  BY InitInv
<1>. QED BY <1>1, InvStep, PTL DEF Spec

\* SCHED_LOCK and the Ready/Running discipline of task.rs do keep every task
\* on one CPU at a time: for any number of CPUs, tasks and kills.
THEOREM OneCpu ==
  ASSUME HarmlessBoot
  PROVE  Spec => []OneCpuPerTask
<1>1. KernelInv => OneCpuPerTask
  BY DEF KernelInv
<1>. QED BY <1>1, KernelInvariant, PTL

\* sys_send, sys_receive, sys_sleep, kill and the tick never leave a blocked
\* task without a wake-up, with two, or a runnable one with one left over.
THEOREM OneWaitEach ==
  ASSUME HarmlessBoot
  PROVE  Spec => []WaitsForOneThing
<1>1. KernelInv => WaitsForOneThing
  BY ZenonT(30) DEF KernelInv
<1>. QED BY <1>1, KernelInvariant, PTL

-----------------------------------------------------------------------------
(* No missed rendezvous *)

\* A dead slot no CPU executes is not revived by a switch.
LEMMA SwitchKeepsDead ==
  ASSUME current \in CurrentType, NEW c \in CPUS, NEW st \in StateType,
         NEW s \in TaskSlots, st[s] = "Zombie", current[c] # s
  PROVE  /\ switch_away(c, st) => state'[s] = "Zombie"
         /\ \A b \in BOOLEAN : switch_best(c, st, b) => state'[s] = "Zombie"
         /\ \A nm, w : w # s /\ reschedule(c, st, nm, w) => state'[s] = "Zombie"
         /\ \A n \in Eligible(st, c) : SwitchTo(c, st, n) => state'[s] = "Zombie"
         /\ Stay(st) => state'[s] = "Zombie"
<1>. DEFINE go == [st EXCEPT ![current[c]] = "Ready"]
<1>1. /\ s \in Slots /\ current[c] \in Slots /\ go[s] = "Zombie" /\ st \in [Slots -> States]
      /\ go \in [Slots -> States]
  BY SMTT(30), SlotFacts DEF StateType, CurrentType, States
<1>2. ASSUME NEW st2 \in [Slots -> States], st2[s] = "Zombie", NEW n, n # s,
             SwitchTo(c, st2, n)
      PROVE  state'[s] = "Zombie"
  BY SMTT(30), <1>1, <1>2 DEF SwitchTo
<1>3. s \notin Eligible(st, c)
  BY SMTT(30), SlotFacts DEF Eligible
<1>4. PickNext(st, c) # s /\ pick_next_rr(st, current[c], c, current[c]) # s
  <2>1. PickNext(st, c) \in Eligible(st, c)
    BY SMTT(30), <1>1, PickNextEligible DEF PickNext
  <2>2. pick_next_rr(st, current[c], c, current[c]) \in Eligible(st, c)
    BY <1>1, PickNextRrEligible
  <2>. QED BY SMTT(30), <1>3, <2>1, <2>2
<1>5. Stay(st) => state'[s] = "Zombie"
  BY ZenonT(30) DEF Stay
<1>6. switch_away(c, st) => state'[s] = "Zombie"
  BY ZenonT(30), <1>1, <1>2, <1>4 DEF switch_away
<1>7. ASSUME NEW b \in BOOLEAN, switch_best(c, st, b) PROVE state'[s] = "Zombie"
  <2>1. \/ Stay(st)
        \/ SwitchTo(c, go, PickNext(st, c))
        \/ SwitchTo(c, go, pick_next_rr(st, current[c], c, current[c]))
    BY ZenonT(30), <1>7 DEF switch_best
  <2>. QED BY ZenonT(30), <1>1, <1>2, <1>4, <1>5, <2>1
<1>8. ASSUME NEW nm, NEW w, w # s, reschedule(c, st, nm, w) PROVE state'[s] = "Zombie"
  <2>1. Stay(st) \/ SwitchTo(c, go, w)
    BY ZenonT(30), <1>8 DEF reschedule
  <2>. QED BY ZenonT(30), <1>1, <1>2, <1>5, <1>8, <2>1
<1>. QED BY ZenonT(30), <1>1, <1>2, <1>3, <1>5, <1>6, <1>7, <1>8

\* A task killed while its message was staged stays dead: it neither runs nor
\* sleeps nor receives, and the receivers skip it.
LEMMA StagedDeadStays ==
  ASSUME KernelInv, Next, NEW s \in TaskSlots, state[s] = "Zombie", staged[s] # NoTask
  PROVE  state'[s] = "Zombie"
<1>1. /\ state \in StateType /\ current \in CurrentType
      /\ TaskSlots \subseteq Slots /\ TaskSlots \subseteq Nat /\ 0 \notin TaskSlots
      /\ \A c \in CPUS : current[c] # s
      /\ recv[s] = NoTask /\ sleep[s] = 0
      /\ \A d \in TaskSlots, i \in Entries : pending[d][i] # s
  <2>1. 0 \in CPUS
    BY Zenon, BootCpu
  <2>2. Sending(s) /\ Waits(s)
    BY Zenon DEF Sending, Waits
  <2>3. OneWait /\ \A c \in CPUS : current[c] \in TaskSlots => ~ Waits(current[c])
    BY ZenonT(30) DEF KernelInv, WaitsForOneThing
  <2>4. recv[s] = NoTask /\ sleep[s] = 0
        /\ \A d \in TaskSlots, i \in Entries : pending[d][i] # s
    BY ZenonT(30), <2>2, <2>3 DEF OneWait, Receiving, Sleeping, Parked
  <2>. QED BY ZenonT(30), <2>1, <2>2, <2>3, <2>4, Start
<1>2. ASSUME NEW t \in TaskSlots, NEW v \in States, t # s
      PROVE  [state EXCEPT ![t] = v] \in StateType /\ [state EXCEPT ![t] = v][s] = "Zombie"
  BY <1>1, <1>2, ReadyType DEF StateType
<1>3. ASSUME NEW t \in TaskSlots
      PROVE  [state EXCEPT ![t] = "Zombie"] \in StateType
             /\ [state EXCEPT ![t] = "Zombie"][s] = "Zombie"
  BY <1>1, ReadyType DEF StateType, States
<1>4. s # NoTask
  BY ZenonT(30), <1>1 DEF NoTask
<1>5. ASSUME NEW c \in CPUS, UserStep(c) PROVE state'[s] = "Zombie"
  <2>. DEFINE me == current[c]
  <2>0. me # s /\ \A call : Calls(c, call) => me \in TaskSlots
    BY ZenonT(30), <1>1 DEF Calls
  <2>tail. ASSUME NEW call, NEW st, Calls(c, call), reschedule(c, st, name, woken)
           PROVE  reschedule(c, st, name, NoTask)
    BY ZenonT(30), <2>tail, Start
  <2>1. ASSUME NEW dst \in TaskSlots, SendDirect(c, dst) PROVE state'[s] = "Zombie"
    <3>1. dst # s /\ reschedule(c, [state EXCEPT ![dst] = "Ready"], name, dst)
      BY ZenonT(30), <1>1, <2>1 DEF SendDirect
    <3>. QED BY ZenonT(30), <1>1, <1>2, <2>0, <3>1, SwitchKeepsDead DEF States
  <2>2. ASSUME switch_away(c, [state EXCEPT ![me] = "Blocked"]), me \in TaskSlots
        PROVE  state'[s] = "Zombie"
    BY ZenonT(30), <1>1, <1>2, <2>0, <2>2, SwitchKeepsDead DEF States
  <2>3. ASSUME switch_away(c, [state EXCEPT ![me] = "Zombie"]), me \in TaskSlots
        PROVE  state'[s] = "Zombie"
    BY ZenonT(30), <1>1, <1>3, <2>0, <2>3, SwitchKeepsDead
  <2>4. ASSUME NEW f \in Filters, ReceivePending(c, f) PROVE state'[s] = "Zombie"
    <3>. DEFINE i == Min(PendingHits(me, f))
                src == pending[me][i]
    <3>1. me \in TaskSlots /\ PendingHits(me, f) # {}
      BY <2>0, <2>4 DEF ReceivePending, Receives
    <3>2. PendingHits(me, f) \in SUBSET Nat
      BY Zenon, EntriesNat DEF PendingHits
    <3>3. i \in PendingHits(me, f)
      BY ZenonT(30), <3>1, <3>2, MinMember
    <3>4. src \in TaskSlots /\ src # s
      <4>1. pending \in [TaskSlots -> [Entries -> TaskSlots \cup {NoTask}]]
        BY Zenon DEF KernelInv, TypeOK
      <4>. QED BY ZenonT(30), <1>1, <3>1, <3>3, <4>1 DEF PendingHits
    <3>5. \/ reschedule(c, [state EXCEPT ![src] = "Ready"], name, src)
          \/ reschedule(c, state, name, NoTask)
      BY <2>4, <2>tail DEF ReceivePending, Receives
    <3>. QED BY ZenonT(30), <1>1, <1>2, <1>4, <2>0, <3>4, <3>5, SwitchKeepsDead DEF States
  <2>5. ASSUME NEW f \in Filters, ReceiveStaged(c, f) PROVE state'[s] = "Zombie"
    <3>. DEFINE src == Min(StagedHits(me, f))
    <3>1. StagedHits(me, f) \in SUBSET Nat /\ StagedHits(me, f) # {}
      BY ZenonT(30), <1>1, <2>5 DEF ReceiveStaged, StagedHits
    <3>2. src \in StagedHits(me, f)
      BY ZenonT(30), <3>1, MinMember
    <3>3. src \in TaskSlots /\ src # s
      BY <3>2 DEF StagedHits
    <3>4. reschedule(c, [state EXCEPT ![src] = "Ready"], name, src)
      BY ZenonT(30), <2>5 DEF ReceiveStaged
    <3>. QED BY ZenonT(30), <1>1, <1>2, <2>0, <3>3, <3>4, SwitchKeepsDead DEF States
  <2>6. ASSUME NEW st \in StateType, st[s] = "Zombie", NEW n, NEW call, Calls(c, call),
               Spawned(c, n, st, recv', ttbr0)
               \/ \E rc, tt : Spawned(c, n, st, rc, tt)
        PROVE  state'[s] = "Zombie"
    <3>1. CASE FreeSlots = {}
      <4>1. reschedule(c, st, name, NoTask)
        BY ZenonT(30), <2>6, <2>tail, <3>1 DEF Spawned
      <4>. QED BY ZenonT(30), <1>1, <1>4, <2>0, <2>6, <4>1, SwitchKeepsDead
    <3>2. CASE FreeSlots # {}
      <4>. DEFINE x == Min(FreeSlots)
      <4>1. x \in FreeSlots
        BY <1>1, <3>2, MinMember DEF FreeSlots
      <4>2. x \in TaskSlots /\ x # s
        BY ZenonT(30), <4>1 DEF FreeSlots
      <4>3. reschedule(c, [st EXCEPT ![x] = "Ready"], [name EXCEPT ![x] = n], x)
        BY ZenonT(30), <2>6, <3>2 DEF Spawned
      <4>. HIDE DEF x
      <4>4. [st EXCEPT ![x] = "Ready"] \in StateType /\ [st EXCEPT ![x] = "Ready"][s] = "Zombie"
        BY ZenonT(30), <1>1, <2>6, <4>2, ReadyType DEF StateType, States
      <4>. QED BY ZenonT(30), <1>1, <2>0, <4>2, <4>3, <4>4, SwitchKeepsDead
    <3>. QED BY ZenonT(30), <3>1, <3>2
  <2>7. ASSUME NEW n, Spawn(c, n) \/ Exec(c, n) PROVE state'[s] = "Zombie"
    <3>1. CASE Live(n) # {}
      <4>1. Min(Live(n)) \in TaskSlots
        <5>1. Live(n) \in SUBSET Nat /\ Live(n) \subseteq TaskSlots
          BY ZenonT(30), <1>1 DEF Live
        <5>. QED BY <3>1, <5>1, MinMember
      <4>2. Killed(Min(Live(n))) \in StateType /\ Killed(Min(Live(n)))[s] = "Zombie"
        BY ZenonT(30), <1>3, <4>1 DEF Killed
      <4>. QED BY ZenonT(30), <1>1, <2>6, <2>7, <4>2 DEF Spawn, Exec
    <3>2. CASE Live(n) = {}
      BY ZenonT(30), <1>1, <2>6, <2>7, <3>2 DEF Spawn, Exec
    <3>. QED BY ZenonT(30), <3>1, <3>2
  <2>8. ASSUME NEW v \in TaskSlots, ExitTask(c, v) PROVE state'[s] = "Zombie"
    <3>1. reschedule(c, Killed(v), name, NoTask)
      BY ZenonT(30), <2>8, <2>tail DEF ExitTask
    <3>. QED BY ZenonT(30), <1>1, <1>3, <1>4, <2>0, <3>1, SwitchKeepsDead DEF Killed
  <2>9. CASE Yield(c) \/ OtherSyscall(c) \/ WaitIrq(c) \/ WaitIrqDone(c)
    <3>1. OtherSyscall(c) => reschedule(c, state, name, NoTask)
      BY ZenonT(30), <2>tail DEF OtherSyscall
    <3>. QED BY ZenonT(30), <1>1, <1>4, <2>0, <2>9, <3>1, SwitchKeepsDead
             DEF Yield, WaitIrq, WaitIrqDone
  <2>10. ASSUME NEW x, SendBlock(c, x) \/ ReceiveBlock(c, x) \/ Sleep(c, x)
         PROVE  state'[s] = "Zombie"
    <3>1. switch_away(c, [state EXCEPT ![me] = "Blocked"])
      BY Zenon, <2>10 DEF SendBlock, ReceiveBlock, Sleep
    <3>2. me \in TaskSlots
      BY Zenon, <2>0, <2>10 DEF SendBlock, SendsTo, ReceiveBlock, Receives, Sleep
    <3>. QED BY Zenon, <2>2, <3>1, <3>2
  <2>11. CASE Exit(c) \/ Fault(c)
    <3>1. switch_away(c, [state EXCEPT ![me] = "Zombie"]) /\ me \in TaskSlots
      BY Zenon, <2>0, <2>11 DEF Exit, Fault
    <3>. QED BY Zenon, <2>3, <3>1
  <2>. QED BY ZenonT(30), <1>5, <2>1, <2>4, <2>5, <2>7, <2>8, <2>9, <2>10, <2>11 DEF UserStep
<1>6. ASSUME NEW c \in CPUS, Tick(c) PROVE state'[s] = "Zombie"
  <2>1. Woken \in StateType /\ Woken[s] = "Zombie" /\ current[c] # s
    BY SMTT(30), <1>1 DEF Woken, Expired, StateType, States
  <2>2. PickNext(Woken, c) \in Eligible(Woken, c)
    <3>1. current[c] \in Slots
      BY SMTT(30), <1>1 DEF CurrentType
    <3>. QED BY SMTT(30), <3>1, PickNextEligible DEF PickNext
  <2>. QED BY ZenonT(30), <1>1, <1>6, <2>1, <2>2, SwitchKeepsDead
           DEF Tick, TickReap, TickIdle, TickKernel, TickUser
<1>7. ASSUME NEW c \in CPUS, IdleLoop(c) \/ (Enter /\ c = 0) PROVE state'[s] = "Zombie"
  <2>1. /\ IdleSlot(c) \in Slots /\ IdleSlot(c) # s /\ current[c] \in Slots
        /\ state \in [Slots -> States] /\ s \in Slots
    BY ZenonT(30), <1>1, SlotFacts DEF CurrentType, StateType
  <2>2. PickNext(state, c) \in Eligible(state, c)
    BY SMTT(30), <2>1, PickNextEligible DEF PickNext
  <2>3. PickNext(state, c) # s
    BY SMTT(30), <2>1, <2>2 DEF Eligible
  <2>4. \/ Stay(state) \/ SwitchTo(c, state, PickNext(state, c))
        \/ SwitchTo(c, [state EXCEPT ![IdleSlot(c)] = "Ready"], PickNext(state, c))
    BY <1>7 DEF IdleLoop, Enter
  <2>. QED BY <1>1, <2>1, <2>3, <2>4 DEF SwitchTo, Stay, StateType
<1>. QED
  <2>1. 0 \in CPUS
    BY Zenon, BootCpu
  <2>. QED BY ZenonT(30), <1>5, <1>6, <1>7, <2>1 DEF Next

\* Steps that only take things out of the queues.
Drains ==
  \A r \in TaskSlots :
    /\ recv'[r] \in {recv[r], NoTask} /\ staged'[r] \in {staged[r], NoTask}
    /\ \A i \in Entries : pending'[r][i] \in {pending[r][i], NoTask}

\* Every step but a send and a receive that block does no more than that.
LEMMA DrainSteps ==
  ASSUME TypeOK, Next,
         ~ \E c \in CPUS : \/ \E d \in TaskSlots : SendBlock(c, d)
                           \/ \E f \in Filters : ReceiveBlock(c, f)
  PROVE  Drains
<1>0. /\ recv \in [TaskSlots -> Filters \cup {NoTask}]
      /\ pending \in [TaskSlots -> [Entries -> TaskSlots \cup {NoTask}]]
      /\ staged \in [TaskSlots -> TaskSlots \cup {NoTask}]
  BY ZenonT(30) DEF TypeOK
<1>1. ASSUME UNCHANGED << recv, pending, staged >> PROVE Drains
  BY SMTT(30), <1>1 DEF Drains
<1>2. ASSUME NEW v, recv' = [recv EXCEPT ![v] = NoTask], UNCHANGED << pending, staged >>
      PROVE  Drains
  BY <1>0, <1>2 DEF Drains
<1>3. CASE Enter
  BY ZenonT(30), <1>1, <1>3 DEF Enter, ipcVars
<1>4. ASSUME NEW c \in CPUS, Tick(c) \/ IdleLoop(c) PROVE Drains
  BY ZenonT(30), <1>1, <1>4 DEF Tick, TickReap, TickIdle, TickKernel, TickUser, IdleLoop, ipcVars
<1>5. ASSUME NEW c \in CPUS, UserStep(c) PROVE Drains
  <2>1. ASSUME NEW d \in TaskSlots, SendDirect(c, d) PROVE Drains
    BY ZenonT(30), <1>2, <2>1 DEF SendDirect
  <2>2. ASSUME NEW f \in Filters, ReceivePending(c, f) PROVE Drains
    <3>1. PICK i : pending' = [pending EXCEPT ![current[c]][i] = NoTask]
      BY ZenonT(40), <2>2 DEF ReceivePending
    <3>2. UNCHANGED << recv, staged >>
      BY SMTT(30), <2>2 DEF ReceivePending
    <3>3. \A r \in TaskSlots, j \in Entries : pending'[r][j] \in {pending[r][j], NoTask}
      BY SMTT(30), <1>0, <3>1
    <3>. QED BY Zenon, <3>2, <3>3 DEF Drains
  <2>3. ASSUME NEW f \in Filters, ReceiveStaged(c, f) PROVE Drains
    <3>1. PICK x : staged' = [staged EXCEPT ![x] = NoTask]
      BY ZenonT(40), <2>3 DEF ReceiveStaged
    <3>2. UNCHANGED << recv, pending >>
      BY <2>3 DEF ReceiveStaged
    <3>. QED BY <1>0, <3>1, <3>2 DEF Drains
  <2>4. ASSUME NEW x, Sleep(c, x) \/ Yield(c) \/ OtherSyscall(c) \/ WaitIrq(c)
                      \/ WaitIrqDone(c) \/ Exit(c)
        PROVE  Drains
    BY Zenon, <1>1, <2>4 DEF Sleep, Yield, OtherSyscall, WaitIrq, WaitIrqDone, Exit, ipcVars
  <2>5. CASE Fault(c)
    BY Zenon, <1>2, <2>5 DEF Fault
  <2>6. ASSUME NEW v \in TaskSlots, ExitTask(c, v) PROVE Drains
    BY ZenonT(30), <1>2, <2>6 DEF ExitTask, RecvAfterKill
  <2>7. ASSUME NEW n, Spawn(c, n) \/ Exec(c, n) PROVE Drains
    <3>1. /\ UNCHANGED << pending, staged >>
          /\ recv' = recv \/ \E v : recv' = [recv EXCEPT ![v] = NoTask]
      BY Zenon, <2>7 DEF Spawn, Exec, Spawned, RecvAfterKill
    <3>. QED BY <1>1, <1>2, <3>1
  <2>. QED BY SMTT(30), <1>5, <2>1, <2>2, <2>3, <2>4, <2>5, <2>6, <2>7 DEF UserStep
<1>. QED BY <1>3, <1>4, <1>5 DEF Next

LEMMA MissedStep ==
  ASSUME KernelInv, NoMissedRendezvous, [Next]_vars
  PROVE  NoMissedRendezvous'
<1>0. /\ TypeOK /\ recv \in [TaskSlots -> Filters \cup {NoTask}]
      /\ pending \in [TaskSlots -> [Entries -> TaskSlots \cup {NoTask}]]
      /\ staged \in [TaskSlots -> TaskSlots \cup {NoTask}]
      /\ NoTask \notin TaskSlots /\ M_ANY # NoTask /\ M_ANY \notin TaskSlots
  <2>1. TypeOK
    BY Zenon DEF KernelInv
  <2>2. NoTask \notin TaskSlots /\ M_ANY # NoTask /\ M_ANY \notin TaskSlots
    BY SMTT(30), SlotFacts DEF NoTask, M_ANY
  <2>. QED BY Zenon, <2>1, <2>2 DEF TypeOK
<1>1. CASE UNCHANGED vars
  BY SMTT(30), <1>1 DEF NoMissedRendezvous, Parked, vars
<1>. SUFFICES ASSUME Next, NEW r \in TaskSlots, NEW s \in TaskSlots,
                     recv'[r] \in {s, M_ANY}
              PROVE  /\ \A i \in Entries : pending'[r][i] # s
                     /\ staged'[s] = r => state'[s] = "Zombie"
  BY SMTT(30), <1>1 DEF NoMissedRendezvous, Parked
<1>2. state[s] = "Zombie" /\ staged[s] = r => state'[s] = "Zombie"
  <2>1. r # NoTask
    BY ZenonT(30), <1>0
  <2>. QED BY <2>1, StagedDeadStays
<1>3. recv[r] \in {s, M_ANY} => /\ \A i \in Entries : pending[r][i] # s
                                /\ staged[s] = r => state[s] = "Zombie"
  BY ZenonT(30) DEF NoMissedRendezvous, Parked
\* The caller parks or stages only where the receiver does not accept it.
<1>4. ASSUME NEW c \in CPUS, NEW d \in TaskSlots, SendBlock(c, d)
      PROVE  /\ \A i \in Entries : pending'[r][i] # s
             /\ staged'[s] = r => state'[s] = "Zombie"
  <2>1. /\ recv' = recv /\ ~ (recv[d] # NoTask /\ Matches(recv[d], current[c]))
        /\ \/ staged' = staged
              /\ \E i : pending' = [pending EXCEPT ![d][i] = current[c]]
           \/ staged' = [staged EXCEPT ![current[c]] = d] /\ pending' = pending
    BY ZenonT(30), <1>4 DEF SendBlock
  <2>2. ~ (s = current[c] /\ r = d)
    BY ZenonT(30), <1>0, <2>1 DEF Matches
  <2>3. CASE staged' = staged
             /\ \E i : pending' = [pending EXCEPT ![d][i] = current[c]]
    <3>1. PICK j : pending' = [pending EXCEPT ![d][j] = current[c]]
      BY ZenonT(40), <2>3
    <3>2. ASSUME NEW i \in Entries PROVE pending'[r][i] # s
      <4>1. pending[r][i] # s
        BY ZenonT(40), <1>3, <2>1
      <4>2. pending'[r][i] = IF r = d /\ i = j THEN current[c] ELSE pending[r][i]
        BY <1>0, <3>1
      <4>. QED BY <2>2, <4>1, <4>2
    <3>3. staged'[s] = r => state'[s] = "Zombie"
      BY Zenon, <1>2, <1>3, <2>1, <2>3
    <3>. QED BY Zenon, <3>2, <3>3
  <2>4. CASE staged' = [staged EXCEPT ![current[c]] = d] /\ pending' = pending
    BY Zenon, <1>0, <1>2, <1>3, <2>1, <2>2, <2>4
  <2>. QED BY SMTT(30), <2>1, <2>3, <2>4
\* The caller blocks only when nothing it accepts is there.
<1>5. ASSUME NEW c \in CPUS, NEW f \in Filters, ReceiveBlock(c, f)
      PROVE  /\ \A i \in Entries : pending'[r][i] # s
             /\ staged'[s] = r => state'[s] = "Zombie"
  <2>1. /\ PendingHits(current[c], f) = {} /\ StagedHits(current[c], f) = {}
        /\ recv' = [recv EXCEPT ![current[c]] = f] /\ UNCHANGED << pending, staged >>
    BY ZenonT(30), <1>5 DEF ReceiveBlock
  <2>2. CASE r = current[c]
    <3>1. Matches(f, s)
      BY SMTT(30), <1>0, <2>1, <2>2 DEF Matches
    <3>2. \A i \in Entries : pending[r][i] # s
      BY SMTT(30), <1>0, <2>1, <2>2, <3>1 DEF PendingHits
    <3>3. staged[s] = r => state[s] = "Zombie"
      BY ZenonT(30), <2>1, <2>2, <3>1 DEF StagedHits
    <3>. QED BY ZenonT(30), <1>2, <2>1, <3>2, <3>3
  <2>3. CASE r # current[c]
    BY ZenonT(30), <1>0, <1>2, <1>3, <2>1, <2>3
  <2>. QED BY ZenonT(30), <2>2, <2>3
<1>6. CASE Drains
  BY Zenon, <1>0, <1>2, <1>3, <1>6 DEF Drains
<1>. QED BY ZenonT(30), <1>0, <1>4, <1>5, <1>6, DrainSteps

\* A receiver is never left blocked beside a message it would take, for any
\* number of senders, receivers and CPUs, kills included.
THEOREM NoneMissed ==
  ASSUME HarmlessBoot
  PROVE  Spec => []NoMissedRendezvous
<1>1. Init => NoMissedRendezvous
  <2>1. NoTask \notin TaskSlots /\ M_ANY # NoTask
    BY SlotFacts DEF NoTask, M_ANY
  <2>2. Init => recv = [ s \in TaskSlots |-> NoTask ]
    BY Zenon DEF Init
  <2>. QED BY <2>1, <2>2 DEF NoMissedRendezvous
<1>2. KernelInv /\ NoMissedRendezvous /\ [Next]_vars => NoMissedRendezvous'
  BY MissedStep
<1>. QED BY <1>1, <1>2, KernelInvariant, PTL DEF Spec
=============================================================================
