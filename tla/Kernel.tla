------------------------------- MODULE Kernel -------------------------------
(***************************************************************************)
(* The kernel core: scheduling, synchronous IPC and task life cycle         *)
(* (src/kernel/src/sched/task.rs, ipc/syscall.rs, server.rs, smp.rs,        *)
(* arch/aarch64/exception.rs).                                              *)
(*                                                                         *)
(* Every scheduling entry point runs under SCHED_LOCK with interrupts       *)
(* masked, from taking the lock to the store in context_switch_unlock that  *)
(* releases it, so one action models one critical section.  A CPU executes  *)
(* the task in slot current[c]; user programs are arbitrary sequences of    *)
(* the calls CALLS allows to their name.                                    *)
(***************************************************************************)
EXTENDS RunQueue, FiniteSetsExt

CONSTANTS
  MAX_PENDING_SENDERS,  \* length of a task's pending-sender array (2)
  PRIO,                 \* server name -> priority (SERVER_PRIOS)
  CALLS,                \* server name -> the kinds of step its program takes
  PEERS,                \* server name -> the names its program sends to
  BOOT,                 \* names of the tasks spawned at boot, in slot order
  BOOT_WOKEN,           \* slot recorded in `woken` when the system starts
  MAX_SLEEP             \* bound on a sleep, in ticks (60000)

Names == DOMAIN PRIO
PRIO_IDLE == 255
M_ANY == -1
NoTask == 0             \* no task: slot 0 never sends, waits or is woken

VARIABLES
  state,     \* slot -> Free, Ready, Running, Blocked or Zombie
  name,      \* slot -> name of the task ("" for the others)
  current,   \* CPU  -> slot it executes (PerCpu::current)
  recv,      \* slot -> recv_filter while recv_blocked, else NoTask
  out,       \* slot -> sender of the message in its receive buffer
  pending,   \* slot -> pending_senders: sender parked in each entry
  staged,    \* slot -> send_full_wait: destination of its staged message
  sleep,     \* slot -> ticks left to its sleep_deadline (0: none)
  waiting,   \* slot -> inside the SYS_WAIT_IRQ loop (EL1, IRQs unmasked)
  ttbr0,     \* slot -> its page tables are allocated (ttbr0 # 0)
  woken,     \* Scheduler::woken: slot the syscall tail considers
  entered    \* kmain has called sched::enter

vars == << state, name, current, recv, out, pending, staged, sleep, waiting,
           ttbr0, woken, entered >>
ipcVars == << recv, out, pending, staged >>

States == {"Free", "Ready", "Running", "Blocked", "Zombie"}
Filters == TaskSlots \cup {M_ANY}
Entries == 1 .. MAX_PENDING_SENDERS

ASSUME KernelAssumption ==
  /\ MAX_PENDING_SENDERS \in Nat \ {0}
  /\ MAX_SLEEP \in Nat \ {0}
  /\ PRIO \in [Names -> 0 .. PRIO_IDLE - 1]
  /\ BOOT \in [TaskSlots -> Names \cup {""}]
  /\ BOOT_WOKEN \in TaskSlots \cup {NoTask}

TypeOK ==
  /\ state \in [Slots -> States]
  /\ name \in [Slots -> Names \cup {""}]
  /\ current \in [CPUS -> Slots]
  /\ recv \in [TaskSlots -> Filters \cup {NoTask}]
  /\ out \in [TaskSlots -> TaskSlots \cup {NoTask}]
  /\ pending \in [TaskSlots -> [Entries -> TaskSlots \cup {NoTask}]]
  /\ staged \in [TaskSlots -> TaskSlots \cup {NoTask}]
  /\ sleep \in [TaskSlots -> 0 .. MAX_SLEEP]
  /\ waiting \in [TaskSlots -> BOOLEAN]
  /\ ttbr0 \in [TaskSlots -> BOOLEAN]
  /\ woken \in TaskSlots \cup {NoTask}
  /\ entered \in BOOLEAN

-----------------------------------------------------------------------------
(* Boot: kmain has spawned the BOOT tasks and bring_up has created the idle  *)
(* tasks (add_idle leaves them Running); no CPU has picked a task yet, and   *)
(* every PerCpu::current still has its static value 0.                       *)

Init ==
  /\ state = [ s \in Slots |-> IF s \notin TaskSlots THEN "Running"
                               ELSE IF BOOT[s] # "" THEN "Ready" ELSE "Free" ]
  /\ name = [ s \in Slots |-> IF s \in TaskSlots THEN BOOT[s] ELSE "" ]
  /\ current = [ c \in CPUS |-> 0 ]
  /\ recv = [ s \in TaskSlots |-> NoTask ]
  /\ out = [ s \in TaskSlots |-> NoTask ]
  /\ pending = [ s \in TaskSlots |-> [ i \in Entries |-> NoTask ] ]
  /\ staged = [ s \in TaskSlots |-> NoTask ]
  /\ sleep = [ s \in TaskSlots |-> 0 ]
  /\ waiting = [ s \in TaskSlots |-> FALSE ]
  /\ ttbr0 = [ s \in TaskSlots |-> BOOT[s] # "" ]
  /\ woken = BOOT_WOKEN
  /\ entered = FALSE

-----------------------------------------------------------------------------
(* Switching *)

Prio(nm) == [ s \in Slots |-> IF nm[s] \in Names THEN PRIO[nm[s]] ELSE PRIO_IDLE ]

PickNext(st, c) == pick_next(st, Prio(name), current[c], c)

\* Make `next` Running and resume it on CPU c; st holds every other state.
SwitchTo(c, st, next) ==
  /\ state' = [st EXCEPT ![next] = "Running"]
  /\ current' = [current EXCEPT ![c] = next]

Stay(st) == state' = st /\ UNCHANGED current

\* syscall.rs switch_away: the caller is Blocked or Zombie in st.  (The
\* sleep_deadline = 0 a sleeper stores once resumed repeats wake_sleepers'.)
switch_away(c, st) == SwitchTo(c, st, PickNext(st, c))

\* task.rs reschedule, the tail of every syscall that did not switch: run the
\* task this syscall woke at once if its priority is strictly better.
reschedule(c, st, nm, w) ==
  /\ woken' = NoTask
  /\ LET cur == current[c] IN
     IF w # NoTask /\ Prio(nm)[w] < Prio(nm)[cur]
     THEN SwitchTo(c, [st EXCEPT ![cur] = "Ready"], w)
     ELSE Stay(st)

\* task.rs switch_best: rotate a Running current task out.
switch_best(c, st, strict) ==
  LET cur  == current[c]
      next == IF strict THEN PickNext(st, c)
                        ELSE pick_next_rr(st, cur, c, cur)
  IN IF \/ cur = 0 \/ st[cur] # "Running"
        \/ next = cur \/ next = 0
        \/ strict /\ Prio(name)[next] >= Prio(name)[cur]
     THEN Stay(st)
     ELSE SwitchTo(c, [st EXCEPT ![cur] = "Ready"], next)

\* The program in the current slot of CPU c makes the call `call`.
Calls(c, call) ==
  /\ current[c] \in TaskSlots
  /\ ~ waiting[current[c]]
  /\ \E n \in Names : name[current[c]] = n /\ call \in CALLS[n]

-----------------------------------------------------------------------------
(* IPC: sys_send and sys_receive *)

Matches_Unfiltered(filter, src) == TRUE
Matches(filter, src) == filter = M_ANY \/ filter = src

SendsTo(c, dst) ==
  /\ Calls(c, "send")
  /\ dst # current[c] /\ state[dst] # "Free"
  /\ name[dst] \in PEERS[name[current[c]]]

\* The receiver already waits for us: deliver() and wake it.
SendDirect(c, dst) ==
  LET me == current[c] IN
  /\ SendsTo(c, dst)
  /\ recv[dst] # NoTask /\ Matches(recv[dst], me)
  /\ out' = [out EXCEPT ![dst] = me]
  /\ recv' = [recv EXCEPT ![dst] = NoTask]
  /\ reschedule(c, [state EXCEPT ![dst] = "Ready"], name, dst)
  /\ UNCHANGED << name, pending, staged, sleep, waiting, ttbr0, entered >>

FreeEntries_Overwrite(dst) == Entries
FreeEntries(dst) == { i \in Entries : pending[dst][i] = NoTask }

\* It does not: park in its first free entry, or stage the message when the
\* array is full, and block either way.
SendBlock(c, dst) ==
  LET me == current[c] IN
  /\ SendsTo(c, dst)
  /\ ~ (recv[dst] # NoTask /\ Matches(recv[dst], me))
  /\ IF FreeEntries(dst) # {}
     THEN /\ pending' = [pending EXCEPT ![dst][Min(FreeEntries(dst))] = me]
          /\ UNCHANGED staged
     ELSE /\ staged' = [staged EXCEPT ![me] = dst]
          /\ UNCHANGED pending
  /\ switch_away(c, [state EXCEPT ![me] = "Blocked"])
  /\ UNCHANGED << name, recv, out, sleep, waiting, ttbr0, woken, entered >>

Receives(c, filter) ==
  Calls(c, IF filter = M_ANY THEN "receive_any" ELSE "receive_from")

PendingHits_SkipDead(me, filter) ==
  { i \in Entries : /\ pending[me][i] # NoTask /\ Matches(filter, pending[me][i])
                    /\ state[pending[me][i]] # "Zombie" }
PendingHits(me, filter) ==
  { i \in Entries : pending[me][i] # NoTask /\ Matches(filter, pending[me][i]) }

\* Take the first parked message that matches; a sender that was killed
\* while parked is not woken.
ReceivePending(c, filter) ==
  LET me  == current[c]
      i   == Min(PendingHits(me, filter))
      src == pending[me][i]
  IN
  /\ Receives(c, filter) /\ PendingHits(me, filter) # {}
  /\ pending' = [pending EXCEPT ![me][i] = NoTask]
  /\ out' = [out EXCEPT ![me] = src]
  /\ IF state[src] # "Zombie"
     THEN reschedule(c, [state EXCEPT ![src] = "Ready"], name, src)
     ELSE reschedule(c, state, name, woken)
  /\ UNCHANGED << name, recv, staged, sleep, waiting, ttbr0, entered >>

StagedHits(me, filter) ==
  { s \in TaskSlots : staged[s] = me /\ Matches(filter, s) /\ state[s] # "Zombie" }

\* Nothing parked: take the message of the first sender staged on us.
ReceiveStaged(c, filter) ==
  LET me  == current[c]
      src == Min(StagedHits(me, filter))
  IN
  /\ Receives(c, filter) /\ PendingHits(me, filter) = {}
  /\ StagedHits(me, filter) # {}
  /\ staged' = [staged EXCEPT ![src] = NoTask]
  /\ out' = [out EXCEPT ![me] = src]
  /\ reschedule(c, [state EXCEPT ![src] = "Ready"], name, src)
  /\ UNCHANGED << name, recv, pending, sleep, waiting, ttbr0, entered >>

\* Nothing at all: block until a sender finds us.
ReceiveBlock(c, filter) ==
  LET me == current[c] IN
  /\ Receives(c, filter) /\ PendingHits(me, filter) = {}
  /\ StagedHits(me, filter) = {}
  /\ recv' = [recv EXCEPT ![me] = filter]
  /\ out' = [out EXCEPT ![me] = NoTask]
  /\ switch_away(c, [state EXCEPT ![me] = "Blocked"])
  /\ UNCHANGED << name, pending, staged, sleep, waiting, ttbr0, woken, entered >>

-----------------------------------------------------------------------------
(* The other calls *)

\* sys_sleep; the argument is clamped to at least one tick.
Sleep(c, ms) ==
  LET me == current[c] IN
  /\ Calls(c, "sleep")
  /\ sleep' = [sleep EXCEPT ![me] = ms]
  /\ switch_away(c, [state EXCEPT ![me] = "Blocked"])
  /\ UNCHANGED << name, ipcVars, waiting, ttbr0, woken, entered >>

\* yield_cpu: only a strictly better task takes the CPU.
Yield(c) ==
  /\ Calls(c, "yield")
  /\ switch_best(c, state, TRUE)
  /\ UNCHANGED << name, ipcVars, sleep, waiting, ttbr0, woken, entered >>

\* Any call that changes no task (SYS_LOG, SYS_WHO, one that fails, ...)
\* still ends in the tail.
OtherSyscall(c) ==
  /\ Calls(c, "other")
  /\ reschedule(c, state, name, woken)
  /\ UNCHANGED << name, ipcVars, sleep, waiting, ttbr0, entered >>

\* sys_wait_irq runs without the lock: the task stays current, at EL1, until
\* its interrupt has been recorded.
WaitIrq(c) ==
  /\ Calls(c, "wait_irq")
  /\ waiting' = [waiting EXCEPT ![current[c]] = TRUE]
  /\ UNCHANGED << state, name, current, ipcVars, sleep, ttbr0, woken, entered >>

WaitIrqDone(c) ==
  /\ current[c] \in TaskSlots /\ waiting[current[c]]
  /\ waiting' = [waiting EXCEPT ![current[c]] = FALSE]
  /\ UNCHANGED << state, name, current, ipcVars, sleep, ttbr0, woken, entered >>

\* exit_current.  The tables of a task that exits are leaked, not freed.
Exit(c) ==
  /\ Calls(c, "exit")
  /\ switch_away(c, [state EXCEPT ![current[c]] = "Zombie"])
  /\ UNCHANGED << name, ipcVars, sleep, waiting, ttbr0, woken, entered >>

\* kill_faulting_task: an abort at EL0 the VM-fault resolver declined.
Fault(c) ==
  /\ Calls(c, "fault")
  /\ recv' = [recv EXCEPT ![current[c]] = NoTask]
  /\ switch_away(c, [state EXCEPT ![current[c]] = "Zombie"])
  /\ UNCHANGED << name, out, pending, staged, sleep, waiting, ttbr0, woken, entered >>

\* kill_task_locked(victim), called from a syscall of task me: the tables are
\* freed unless the victim is the caller itself.
Killed(victim) == [state EXCEPT ![victim] = "Zombie"]
RecvAfterKill(victim) == [recv EXCEPT ![victim] = NoTask]
TablesAfterKill(victim, me) ==
  IF victim # me THEN [ttbr0 EXCEPT ![victim] = FALSE] ELSE ttbr0

\* sys_exit_task
ExitTask(c, victim) ==
  /\ Calls(c, "kill") /\ state[victim] # "Free"
  /\ recv' = RecvAfterKill(victim)
  /\ ttbr0' = TablesAfterKill(victim, current[c])
  /\ reschedule(c, Killed(victim), name, woken)
  /\ UNCHANGED << name, out, pending, staged, sleep, waiting, entered >>

FreeSlots == { s \in TaskSlots : state[s] = "Free" }

\* spawn_by_name_locked, from the states st, receives rc and tables tt left
\* by the caller: the first free slot, or error -8 when there is none.
Spawned(c, n, st, rc, tt) ==
  /\ recv' = rc
  /\ IF FreeSlots = {}
     THEN /\ ttbr0' = tt /\ UNCHANGED name
          /\ reschedule(c, st, name, woken)
     ELSE LET s == Min(FreeSlots) IN
          /\ ttbr0' = [tt EXCEPT ![s] = TRUE]
          /\ name' = [name EXCEPT ![s] = n]
          /\ reschedule(c, [st EXCEPT ![s] = "Ready"], [name EXCEPT ![s] = n], s)
  /\ UNCHANGED << out, pending, staged, sleep, waiting, entered >>

\* sys_spawn
Spawn(c, n) == Calls(c, "spawn") /\ Spawned(c, n, state, recv, ttbr0)

\* The live tasks called n (exec and who look the first one up).
Live(n) == { s \in TaskSlots : name[s] = n /\ state[s] \notin {"Free", "Zombie"} }

\* sys_exec: retire the first live task of that name, then spawn.
Exec(c, n) ==
  /\ Calls(c, "exec")
  /\ IF Live(n) = {} THEN Spawned(c, n, state, recv, ttbr0)
     ELSE LET v == Min(Live(n)) IN
          Spawned(c, n, Killed(v), RecvAfterKill(v), TablesAfterKill(v, current[c]))

-----------------------------------------------------------------------------
(* The timer tick: irq_handler (PPI 30) and tick_preempt *)

\* kmain resumes, and halts, with interrupts masked: a CPU 0 that fell back
\* to the boot context takes no tick.
TickTaken(c) == c # 0 \/ current[0] # 0

\* wake_sleepers, after the tick has been counted
Expired_NoDeadline == { s \in TaskSlots : sleep[s] =< 1 }
Expired == { s \in TaskSlots : sleep[s] = 1 }
Woken == [ s \in Slots |-> IF s \in Expired THEN "Ready" ELSE state[s] ]
TickSleep_Kept ==
  sleep' = [ s \in TaskSlots |-> IF sleep[s] =< 1 THEN sleep[s] ELSE sleep[s] - 1 ]
TickSleep_Unguarded == sleep' = [ s \in TaskSlots |-> sleep[s] - 1 ]
TickSleep == sleep' = [ s \in TaskSlots |-> IF sleep[s] = 0 THEN 0 ELSE sleep[s] - 1 ]

CurZombie(c) == Woken[current[c]] = "Zombie"

\* A task killed while it ran is switched out, if another one is runnable.
TickReap(c) ==
  LET next == PickNext(Woken, c) IN
  /\ TickTaken(c) /\ CurZombie(c) /\ TickSleep
  /\ IF next \notin {current[c], IdleSlot(c)}
     THEN SwitchTo(c, Woken, next) ELSE Stay(Woken)
  /\ UNCHANGED << name, ipcVars, waiting, ttbr0, woken, entered >>

\* In the idle context a sleeper that expired is run at once.
TickIdle(c) ==
  LET next == PickNext(Woken, c) IN
  /\ TickTaken(c) /\ ~ CurZombie(c) /\ current[c] = IdleSlot(c) /\ TickSleep
  /\ IF Expired # {} /\ next # IdleSlot(c)
     THEN SwitchTo(c, Woken, next) ELSE Stay(Woken)
  /\ UNCHANGED << name, ipcVars, waiting, ttbr0, woken, entered >>

FromEl0(c) == current[c] \in TaskSlots /\ ~ waiting[current[c]]

\* Inside the kernel (the wait loop; a secondary that has not yet run a task
\* and whose current is still 0) the tick does not preempt.
TickKernel(c) ==
  /\ TickTaken(c) /\ ~ CurZombie(c) /\ current[c] # IdleSlot(c) /\ ~ FromEl0(c)
  /\ TickSleep /\ Stay(Woken)
  /\ UNCHANGED << name, ipcVars, waiting, ttbr0, woken, entered >>

\* At EL0 it rotates to the next runnable slot.
TickUser(c) ==
  /\ TickTaken(c) /\ ~ CurZombie(c) /\ FromEl0(c) /\ TickSleep
  /\ switch_best(c, Woken, FALSE)
  /\ UNCHANGED << name, ipcVars, waiting, ttbr0, woken, entered >>

Tick(c) == TickReap(c) \/ TickIdle(c) \/ TickKernel(c) \/ TickUser(c)

-----------------------------------------------------------------------------
(* The idle contexts *)

\* sched::enter, called by kmain on CPU 0 once the boot tasks exist.
Enter ==
  /\ ~ entered /\ entered' = TRUE
  /\ LET next == PickNext(state, 0) IN
     IF next = IdleSlot(0) THEN Stay(state) ELSE SwitchTo(0, state, next)
  /\ UNCHANGED << name, ipcVars, sleep, waiting, ttbr0, woken >>

\* One round of secondary_enter's loop (woken from wfi by the tick or an SGI).
IdleLoop(c) ==
  LET idle == IdleSlot(c)
      next == PickNext(state, c) IN
  /\ c # 0 /\ current[c] \in {0, idle} /\ next # idle
  /\ SwitchTo(c, [state EXCEPT ![idle] = "Ready"], next)
  /\ UNCHANGED << name, ipcVars, sleep, waiting, ttbr0, woken, entered >>

-----------------------------------------------------------------------------

UserStep(c) ==
  \/ \E dst \in TaskSlots : SendDirect(c, dst) \/ SendBlock(c, dst)
  \/ \E f \in Filters :
       ReceivePending(c, f) \/ ReceiveStaged(c, f) \/ ReceiveBlock(c, f)
  \/ \E ms \in 1 .. MAX_SLEEP : Sleep(c, ms)
  \/ Yield(c) \/ OtherSyscall(c)
  \/ WaitIrq(c) \/ WaitIrqDone(c)
  \/ Exit(c) \/ Fault(c)
  \/ \E v \in TaskSlots : ExitTask(c, v)
  \/ \E n \in Names : Spawn(c, n) \/ Exec(c, n)

Next ==
  \/ Enter
  \/ \E c \in CPUS : UserStep(c) \/ Tick(c) \/ IdleLoop(c)

Spec == Init /\ [][Next]_vars

\* Every CPU's timer keeps ticking and every parked secondary is woken by it;
\* a program need not ever make another call.
Fairness ==
  /\ WF_vars(Enter)
  /\ \A c \in CPUS : WF_vars(Tick(c)) /\ WF_vars(IdleLoop(c))

FairSpec == Spec /\ Fairness

-----------------------------------------------------------------------------
(* Safety *)

\* What a blocked task waits for: a message, a deadline, or that its own
\* message, parked in an entry of a receiver or staged on itself, is taken.
Receiving(s) == recv[s] # NoTask
Sleeping(s) == sleep[s] # 0
Parked(s, d, i) == pending[d][i] = s
Sending(s) == staged[s] # NoTask \/ \E d \in TaskSlots, i \in Entries : Parked(s, d, i)

\* A task is executed by at most one CPU, and only a task that runs (or was
\* killed while it ran) is executed at all: what SCHED_LOCK and "only Ready
\* tasks are candidates" are for (task.rs:24).
OneCpuPerTask ==
  /\ \A c, d \in CPUS :
       current[c] = current[d] /\ current[c] \in TaskSlots => c = d
  /\ \A c \in CPUS :
       current[c] \in TaskSlots => state[current[c]] \in {"Running", "Zombie"}
  /\ \A s \in TaskSlots :
       state[s] = "Running" => \E c \in CPUS : current[c] = s

\* A blocked task has exactly one thing that will wake it (a receive, a
\* sleep, or one message in one queue), and a runnable task has none left
\* over: no wake-up is lost and no later one hits a task that moved on.
Waits(s) == Receiving(s) \/ Sleeping(s) \/ Sending(s)
OneWait ==
  \A s \in TaskSlots :
    /\ ~ (Receiving(s) /\ Sleeping(s))
    /\ Sending(s) => ~ (Receiving(s) \/ Sleeping(s))
    /\ \A d, e \in TaskSlots, i, j \in Entries :
         Parked(s, d, i) => /\ staged[s] = NoTask
                            /\ Parked(s, e, j) => d = e /\ i = j
WaitsForOneThing ==
  /\ OneWait
  /\ \A s \in TaskSlots :
       /\ state[s] = "Blocked" => Waits(s)
       /\ state[s] \in {"Free", "Ready", "Running"} => ~ Waits(s)

\* kmain leaves the slot it spawned last in `woken`, and the first syscall tail
\* believes it.  That is harmless when no program is outranked by that task.
HarmlessBoot ==
  BOOT_WOKEN # NoTask =>
    /\ BOOT[BOOT_WOKEN] \in Names
    /\ \A n \in Names : PRIO[n] =< PRIO[BOOT[BOOT_WOKEN]]
HarmlessWoken ==
  woken # NoTask => /\ name[woken] \in Names
                    /\ \A n \in Names : PRIO[n] =< PRIO[name[woken]]

\* The inductive strengthening: no tail is misled by `woken`, CPU 0 is in the
\* boot context until it enters, every CPU executes a task, its own idle slot
\* or (before its first switch) slot 0, and an executed task, even a killed
\* one, waits for nothing.
KernelInv ==
  /\ TypeOK /\ HarmlessWoken
  /\ entered \/ current[0] = 0
  /\ OneCpuPerTask /\ WaitsForOneThing
  /\ \A c \in CPUS : /\ current[c] \in TaskSlots \cup {0, IdleSlot(c)}
                     /\ current[c] \in TaskSlots => ~ Waits(current[c])

\* A task never stays blocked in receive while a message it would accept is
\* parked in its array or staged on it by a live sender: the check and the
\* block in sys_send and sys_receive are one critical section.
NoMissedRendezvous ==
  \A r, s \in TaskSlots : recv[r] \in {s, M_ANY} =>
    /\ \A i \in Entries : ~ Parked(s, r, i)
    /\ staged[s] = r => state[s] = "Zombie"

\* A message leaves a queue only into the buffer of the task it was sent to:
\* no queued message is dropped or redirected, whoever is killed meanwhile.  This
\* is so of a sender killed while parked, too: sys_receive copies its message
\* and skips only the wake-up (syscall.rs:254), where its comment has the message
\* dropped with the sender.
QueuedMessageIsTaken ==
  [][\A s, d \in TaskSlots :
       /\ \A i \in Entries : Parked(s, d, i) /\ ~ Parked(s, d, i)' => out'[d] = s
       /\ staged[s] = d /\ staged'[s] # d => out'[d] = s]_vars

\* A blocked sender is made runnable only by the step that takes its message,
\* and a blocked receiver only by one that fills its buffer from a sender its
\* filter accepts ("a resumed send knows its message was consumed",
\* syscall.rs:205).
WokenByRendezvous ==
  [][\A s \in TaskSlots : state[s] = "Blocked" /\ state'[s] \in {"Ready", "Running"} =>
       /\ Sending(s) => ~ Sending(s)'
       /\ Receiving(s) => out'[s] # NoTask /\ Matches(recv[s], out'[s])]_vars

\* Scheduler and queues together implement the rendezvous: a message counts
\* as offered from the call that parks or stages it until the receiver takes
\* it.  (As long as no task kills another: a killed sender stays parked.)
Posted ==
  [ s \in TaskSlots |->
      IF staged[s] # NoTask THEN staged[s]
      ELSE IF Sending(s) THEN CHOOSE d \in TaskSlots : \E i \in Entries : Parked(s, d, i)
      ELSE NoTask ]

Abstract == INSTANCE Rendezvous
       WITH Task <- TaskSlots, None <- NoTask, Any <- M_ANY,
            posted <- Posted, want <- recv, inbox <- out

ImplementsRendezvous == Abstract!ASpec

-----------------------------------------------------------------------------
(* Progress *)

\* A task in sys_sleep is woken by some later tick.
SleepersWake == \A s \in TaskSlots : Sleeping(s) ~> ~ Sleeping(s)

\* The tick rotation serves "every ready task ... even while a higher-priority
\* task stays busy" (task.rs:560): no task stays Ready for ever.
ReadyTasksRun == \A s \in TaskSlots : state[s] = "Ready" ~> state[s] # "Ready"

\* What remains of it when tasks also block and wake: once nobody blocks any
\* more, every task, whatever its priority, keeps getting the CPU.
BusyTasksRotate ==
  <>[](\A s \in TaskSlots : state[s] # "Blocked")
    => \A s \in TaskSlots : []<>(state[s] # "Ready")

-----------------------------------------------------------------------------
(* What comments of the code promise and the code does not keep *)

\* task.rs:1109 "A zombie that is Blocked is never woken: every wake site skips
\* non-Ready/Zombie tasks": a killed task no CPU executes stays dead.
BlockedZombieStaysDead ==
  [][\A s \in TaskSlots :
       state[s] = "Zombie" /\ (\A c \in CPUS : current[c] # s) => state'[s] = "Zombie"]_vars

\* page_table.rs:484 "Must be called when a task is killed *and its tables are
\* no longer active*": no CPU executes a task whose tables were freed.
FreedTablesInactive ==
  \A c \in CPUS : current[c] \in TaskSlots => ttbr0[current[c]]
=============================================================================
