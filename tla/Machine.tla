------------------------------ MODULE Machine ------------------------------
(***************************************************************************)
(* Cores, interrupt masks and SCHED_LOCK, below the granularity of Kernel:  *)
(* the spin lock (sync.rs), interrupt entry and the handlers of the tick,   *)
(* of device interrupts and of the SGI poke (arch/aarch64/exception.rs,     *)
(* irq.rs, gic.rs, timer.rs), SYS_WAIT_IRQ (ipc/syscall.rs), the bring-up   *)
(* of secondaries and their idle loop (smp.rs, main.rs, sched/task.rs).     *)
(*                                                                         *)
(* A core has its main context, at pc[c], and at most one handler on top of *)
(* it, at h[c]; a handler runs with interrupts masked.  Which task runs is  *)
(* left to Kernel: here `work` says that some task is Ready.                *)
(***************************************************************************)
EXTENDS Integers, FiniteSets

CONSTANTS
  Secondaries,  \* cores 1 .. MAX_CPUS - 1
  WaitCores,    \* cores on which the driver calls SYS_WAIT_IRQ
  ASSERTS       \* bound: how often the device raises its interrupt

Cores == {0} \cup Secondaries

ASSUME MachineAssumption ==
  /\ Secondaries \subseteq Nat \ {0} /\ IsFiniteSet(Secondaries)
  /\ WaitCores \subseteq Cores /\ ASSERTS \in Nat

VARIABLES
  pc,        \* core -> where its main context is
  h,         \* core -> where its interrupt handler is ("none": not in one)
  masked,    \* core -> PSTATE.I of the main context
  back,      \* secondary -> where its idle context was switched away
  held,      \* SCHED_LOCK.held
  armed,     \* cores whose tick is armed
  sgi,       \* cores with SGI 3 pending
  online,    \* PerCpu::online
  parked,    \* secondaries whose idle task is Running
  work,      \* a task is Ready
  line,      \* level of the device's interrupt line
  spi,       \* the line is enabled in the distributor
  bit,       \* its bit in irq::PENDING
  asserted,  \* times the device raised the line
  returned   \* times SYS_WAIT_IRQ returned

machineVars == << pc, h, masked, back, held, armed, sgi, online, parked,
                  work, line, spi, bit, asserted, returned >>
irqVars == << line, spi, bit, asserted, returned >>
schedVars == << parked, work, online >>

MachineInit ==
  /\ pc = [ c \in Cores |-> IF c = 0 THEN "bring_up" ELSE "off" ]
  /\ h = [ c \in Cores |-> "none" ]
  /\ masked = [ c \in Cores |-> c # 0 ]   \* kmain's init_tick has unmasked
  /\ back = [ c \in Secondaries |-> "pick" ]
  /\ held = FALSE
  /\ armed = {0} /\ sgi = {}
  /\ online = {} /\ parked = {} /\ work = FALSE
  /\ line = FALSE /\ spi = FALSE /\ bit = FALSE
  /\ asserted = 0 /\ returned = 0

\* The main context of c executes, and goes from one place to another.
At(c, p) == h[c] = "none" /\ pc[c] = p
Goto(c, p) == pc' = [ pc EXCEPT ![c] = p ]
daifset(c) == masked' = [ masked EXCEPT ![c] = TRUE ]
daifclr(c) == masked' = [ masked EXCEPT ![c] = FALSE ]

-----------------------------------------------------------------------------
(* SpinLock *)

lock == ~held /\ held' = TRUE
unlock == held' = FALSE

-----------------------------------------------------------------------------
(* Interrupts.  A pending interrupt is taken when the core is unmasked; a   *)
(* core asleep in wfi wakes first.  Device interrupts are routed to core 0. *)

Signalled(c) == c \in sgi \/ (c = 0 /\ line /\ spi)

Woken(c) == CASE pc[c] = "w_asleep" -> "w_check"
              [] pc[c] = "asleep" -> "daifset"
              [] OTHER -> pc[c]

Enters(c, at) ==
  /\ h[c] = "none" /\ ~masked[c]
  /\ h' = [ h EXCEPT ![c] = at ]
  /\ Goto(c, Woken(c))

InIdle(c) == pc[c] \in {"pick", "picking", "daifclr", "wfi", "asleep", "daifset"}

\* irq_handler, PPI 30, which may fire at any moment once it is armed: count,
\* re-arm, EOI; tick_preempt takes the lock.
TakeTick(c) ==
  /\ c \in armed
  /\ Enters(c, "t_lock")
  /\ UNCHANGED << masked, back, held, armed, sgi, schedVars, irqVars >>

\* irq_handler, SGI 3: waking the core is the whole job.
TakePoke(c) ==
  /\ c \in sgi
  /\ Enters(c, "none")
  /\ sgi' = sgi \ {c}
  /\ UNCHANGED << masked, back, held, armed, schedVars, irqVars >>

\* irq_handler, device interrupt: note_pending, then disable_irq, then
\* poke_other_cpus.
TakeDevice ==
  /\ line /\ spi
  /\ Enters(0, "d_disable")
  /\ bit' = TRUE
  /\ UNCHANGED << masked, back, held, armed, sgi, schedVars, line, spi,
                  asserted, returned >>

\* The bug of leaving the level-triggered line enabled.
disable_irq_Skipped == UNCHANGED spi

disable_irq == spi' = FALSE

DeviceDisable ==
  /\ h[0] = "d_disable"
  /\ disable_irq
  /\ h' = [ h EXCEPT ![0] = "d_poke" ]
  /\ UNCHANGED << pc, masked, back, held, armed, sgi, schedVars, line, bit,
                  asserted, returned >>

poke_other_cpus ==
  /\ h[0] = "d_poke"
  /\ sgi' = sgi \cup (online \cap Secondaries)
  /\ h' = [ h EXCEPT ![0] = "none" ]
  /\ UNCHANGED << pc, masked, back, held, armed, schedVars, irqVars >>

tick_preempt_Locks(c) ==
  /\ h[c] = "t_lock" /\ lock
  /\ h' = [ h EXCEPT ![c] = "t_locked" ]
  /\ UNCHANGED << pc, masked, back, armed, sgi, schedVars, irqVars >>

\* wake_sleepers may make a task Ready and then pokes the parked cores.  In
\* the idle context of a secondary the woken task is switched to at once;
\* the idle slot stays Running.
tick_preempt_Unlocks(c) ==
  /\ h[c] = "t_locked" /\ unlock
  /\ h' = [ h EXCEPT ![c] = "none" ]
  /\ \/ UNCHANGED << pc, masked, back, work, sgi >>
     \/ /\ ~work
        /\ sgi' = sgi \cup (parked \cap online)
        /\ IF c \in Secondaries /\ InIdle(c)
           THEN /\ back' = [ back EXCEPT ![c] = pc[c] ]
                /\ Goto(c, "user") /\ daifclr(c)
                /\ UNCHANGED work
           ELSE work' = TRUE /\ UNCHANGED << pc, masked, back >>
  /\ UNCHANGED << armed, parked, online, irqVars >>

-----------------------------------------------------------------------------
(* Bring-up *)

\* smp::bring_up: mask, set_online(0).
bring_up ==
  /\ At(0, "bring_up")
  /\ daifset(0) /\ online' = {0} /\ Goto(0, "add_idle")
  /\ UNCHANGED << h, back, held, armed, sgi, parked, work, irqVars >>

\* add_idle, for every secondary, each under the lock.
add_idle ==
  /\ \/ /\ At(0, "add_idle") /\ lock /\ Goto(0, "adding")
        /\ UNCHANGED parked
     \/ /\ At(0, "adding") /\ unlock
        /\ \E c \in Secondaries \ parked :
              /\ parked' = parked \cup {c}
              /\ Goto(0, IF parked' = Secondaries THEN "cpu_on" ELSE "add_idle")
  /\ UNCHANGED << h, masked, back, armed, sgi, online, work, irqVars >>

LastOff(c) == \A d \in Secondaries \ {c} : pc[d] # "off"

\* PSCI CPU_ON of the next core: it starts, or is not there; only then does
\* bring_up mark it online.
cpu_on(c) ==
  /\ At(0, "cpu_on") /\ pc[c] = "off"
  /\ \E there \in BOOLEAN :
        pc' = [ pc EXCEPT ![c] = IF there THEN "init" ELSE "absent",
                          ![0] = IF there THEN "set_online"
                                 ELSE IF LastOff(c) THEN "enter" ELSE "cpu_on" ]
  /\ UNCHANGED << h, masked, back, held, armed, sgi, schedVars, irqVars >>

set_online ==
  /\ At(0, "set_online")
  /\ online' = online \cup { c \in Secondaries : pc[c] \notin {"off", "absent"} }
  /\ Goto(0, IF \E c \in Secondaries : pc[c] = "off" THEN "cpu_on" ELSE "enter")
  /\ UNCHANGED << h, masked, back, held, armed, sgi, parked, work,
                  irqVars >>

\* sched::enter: pick the first task under the lock and switch to it.
enter ==
  /\ \/ At(0, "enter") /\ lock /\ Goto(0, "entering") /\ UNCHANGED masked
     \/ At(0, "entering") /\ unlock /\ Goto(0, "user") /\ daifclr(0)
  /\ UNCHANGED << h, back, armed, sgi, schedVars, irqVars >>

\* The bug of a secondary without a tick of its own.
kmain_secondary_entry_NoTick(c) ==
  /\ At(c, "init")
  /\ daifclr(c) /\ Goto(c, "pick")
  /\ UNCHANGED << h, back, held, armed, sgi, schedVars, irqVars >>

\* init_tick arms the core's tick and ends unmasked.
init_tick(c) == armed' = armed \cup {c} /\ daifclr(c)

kmain_secondary_entry(c) ==
  /\ At(c, "init")
  /\ init_tick(c) /\ Goto(c, "pick")
  /\ UNCHANGED << h, back, held, sgi, schedVars, irqVars >>

-----------------------------------------------------------------------------
(* secondary_enter: the idle loop *)

\* A Ready task is switched to (the idle slot becomes Ready, the lock is
\* freed between save and restore); without one the core parks.
secondary_enter(c) ==
  /\ \/ /\ At(c, "pick") /\ lock /\ Goto(c, "picking")
        /\ UNCHANGED << masked, back, parked, work >>
     \/ /\ At(c, "picking") /\ unlock
        /\ IF work
           THEN /\ work' = FALSE /\ parked' = parked \ {c}
                /\ back' = [ back EXCEPT ![c] = "pick" ]
                /\ Goto(c, "user") /\ daifclr(c)
           ELSE Goto(c, "daifclr") /\ UNCHANGED << masked, back, parked, work >>
     \/ /\ At(c, "daifclr") /\ daifclr(c) /\ Goto(c, "wfi")
        /\ UNCHANGED << held, back, parked, work >>
     \/ /\ At(c, "wfi") /\ Goto(c, IF Signalled(c) THEN "daifset" ELSE "asleep")
        /\ UNCHANGED << held, masked, back, parked, work >>
     \/ /\ At(c, "daifset") /\ daifset(c) /\ Goto(c, "pick")
        /\ UNCHANGED << held, back, parked, work >>
  /\ UNCHANGED << h, armed, sgi, online, irqVars >>

-----------------------------------------------------------------------------
(* System calls of the task that runs on c *)

\* tanix_syscall runs the whole call under the lock, interrupts masked.  It
\* may make a task Ready (deliver pokes the parked cores), and on a
\* secondary it may block: switch_away resumes the idle context.
tanix_syscall(c) ==
  /\ \/ /\ At(c, "user") /\ daifset(c) /\ Goto(c, "s_lock")
        /\ UNCHANGED << held, sgi, parked, work >>
     \/ /\ At(c, "s_lock") /\ lock /\ Goto(c, "s_locked")
        /\ UNCHANGED << masked, sgi, parked, work >>
     \/ /\ At(c, "s_locked") /\ unlock /\ Goto(c, "user") /\ daifclr(c)
        /\ work' \in {work, TRUE}
        /\ sgi' = IF work' = work THEN sgi ELSE sgi \cup (parked \cap online)
        /\ UNCHANGED parked
     \/ /\ c \in Secondaries /\ At(c, "s_locked") /\ unlock
        /\ parked' = parked \cup {c}
        /\ Goto(c, back[c])
        /\ masked' = [ masked EXCEPT ![c] = back[c] = "pick" ]
        /\ UNCHANGED << sgi, work >>
  /\ UNCHANGED << h, back, armed, online, irqVars >>

\* The bug of not enabling the line again.
enable_irq_Skipped == UNCHANGED spi

enable_irq == spi' = TRUE

AwaitsIrq(c) == pc[c] \in {"w_take", "w_daifclr", "w_check", "w_wfi", "w_asleep",
                         "w_daifset"}

\* sys_wait_irq: no lock.  enable_irq; take_pending returns at once; else
\* unmask, and sleep until the bit is seen; mask and clear the bit.
sys_wait_irq(c) ==
  /\ \/ /\ At(c, "user") /\ \A d \in Cores : ~AwaitsIrq(d) /\ pc[d] # "w_ack"
        /\ daifset(c) /\ enable_irq /\ Goto(c, "w_take")
        /\ UNCHANGED << line, bit, returned >>
     \/ /\ At(c, "w_take")
        /\ IF bit THEN /\ bit' = FALSE /\ returned' = returned + 1
                       /\ Goto(c, "w_ack") /\ daifclr(c)
                  ELSE Goto(c, "w_daifclr") /\ UNCHANGED << bit, returned, masked >>
        /\ UNCHANGED << line, spi >>
     \/ /\ At(c, "w_daifclr") /\ daifclr(c) /\ Goto(c, "w_check")
        /\ UNCHANGED << line, spi, bit, returned >>
     \/ /\ At(c, "w_check") /\ Goto(c, IF bit THEN "w_daifset" ELSE "w_wfi")
        /\ UNCHANGED << masked, line, spi, bit, returned >>
     \/ /\ At(c, "w_wfi") /\ Goto(c, IF Signalled(c) THEN "w_check" ELSE "w_asleep")
        /\ UNCHANGED << masked, line, spi, bit, returned >>
     \/ /\ At(c, "w_daifset") /\ Goto(c, "w_ack") /\ daifclr(c)
        /\ bit' = FALSE /\ returned' = returned + 1
        /\ UNCHANGED << line, spi >>
     \* the driver, back in EL0, acknowledges at the device
     \/ /\ At(c, "w_ack") /\ line' = FALSE /\ Goto(c, "user")
        /\ UNCHANGED << masked, spi, bit, returned >>
  /\ UNCHANGED << h, back, held, armed, sgi, schedVars, asserted >>

\* The device (QEMU): raises its line.
DeviceRaises ==
  /\ ~line /\ asserted < ASSERTS
  /\ line' = TRUE /\ asserted' = asserted + 1
  /\ UNCHANGED << pc, h, masked, back, held, armed, sgi, schedVars, spi,
                  bit, returned >>

-----------------------------------------------------------------------------

Handlers(c) ==
  \/ TakeTick(c) \/ TakePoke(c)
  \/ tick_preempt_Locks(c) \/ tick_preempt_Unlocks(c)

MachineNext ==
  \/ bring_up \/ add_idle \/ set_online \/ enter
  \/ TakeDevice \/ DeviceDisable \/ poke_other_cpus \/ DeviceRaises
  \/ \E c \in Cores : Handlers(c) \/ tanix_syscall(c)
  \/ \E c \in WaitCores : sys_wait_irq(c)
  \/ \E c \in Secondaries :
        cpu_on(c) \/ kmain_secondary_entry(c) \/ secondary_enter(c)

\* What the main context of a core executes on its own account.
KernelStep(c) ==
  \/ c = 0 /\ (bring_up \/ add_idle \/ set_online \/ enter)
  \/ c = 0 /\ \E d \in Secondaries : cpu_on(d)
  \/ c \in Secondaries /\ (kmain_secondary_entry(c) \/ secondary_enter(c))
  \/ pc[c] # "user" /\ (tanix_syscall(c) \/ (c \in WaitCores /\ sys_wait_irq(c)))

\* A core executes its next instruction, or takes an interrupt that is
\* pending, in finite time, and ticks leave time for both; a lock freed again
\* and again is got in the end by a core that spins on it.  The device, and
\* the task that may enter the kernel, owe nothing.
MachineFairness ==
  /\ SF_machineVars(TakeDevice)
  /\ WF_machineVars(DeviceDisable \/ poke_other_cpus)
  /\ \A c \in Cores :
        /\ SF_machineVars(KernelStep(c))
        /\ WF_machineVars(TakeTick(c) \/ TakePoke(c))
        /\ SF_machineVars(tick_preempt_Locks(c))
        /\ WF_machineVars(tick_preempt_Unlocks(c))

MachineSpec == MachineInit /\ [][MachineNext]_machineVars
MachineFairSpec == MachineSpec /\ MachineFairness

-----------------------------------------------------------------------------
(* Properties *)

\* The tick handler of c spins on a lock that the context it interrupted
\* holds: c never executes again.
SelfDeadlocked(c) ==
  h[c] = "t_lock" /\ pc[c] \in {"picking", "adding", "entering", "s_locked"}

\* A return of SYS_WAIT_IRQ is due to an interrupt of its own: the level
\* that stays up until the driver acknowledges it ends no second wait.
EveryReturnHasItsInterrupt == returned <= asserted

Halted == \E c \in Cores : SelfDeadlocked(c)

\* A driver in SYS_WAIT_IRQ whose device raises its line returns, wherever
\* the interrupt lands between the first check and the wfi, unless a core has
\* deadlocked on itself.
InterruptEndsWait ==
  \A c \in WaitCores : (AwaitsIrq(c) /\ line) ~> (~AwaitsIrq(c) \/ Halted)

\* A parked secondary does not sleep through a Ready task, even when the
\* poke lands between its look at the run queue and its wfi.
ParkedCorePicksWork ==
  \A c \in Secondaries :
    (work /\ pc[c] = "asleep") ~> (~work \/ ~InIdle(c) \/ Halted)

=============================================================================
