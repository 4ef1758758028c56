------------------------------ MODULE RunQueue ------------------------------
(***************************************************************************)
(* The global run queue (src/kernel/src/sched/task.rs, smp.rs): a fixed     *)
(* array of task slots.  Slot 0 is the boot context, which serves as CPU    *)
(* 0's idle fallback; every secondary CPU owns one idle slot, placed from   *)
(* IDLE_SLOT_BASE on; the remaining slots hold tasks.  The two pick         *)
(* functions are pure: they scan the slots for a Ready task the CPU may run.*)
(***************************************************************************)
EXTENDS Integers

CONSTANTS
  NCPUS,            \* online CPUs (at most smp::MAX_CPUS = 4)
  MAX_TASKS,        \* slots of the task array (32)
  IDLE_SLOT_BASE    \* first idle slot of a secondary (16)

ASSUME RunQueueAssumption ==
  /\ NCPUS \in Nat \ {0}
  /\ MAX_TASKS \in Nat
  /\ IDLE_SLOT_BASE \in Nat \ {0}
  /\ IDLE_SLOT_BASE + NCPUS - 1 =< MAX_TASKS

CPUS  == 0 .. NCPUS - 1
Slots == 0 .. MAX_TASKS - 1

\* smp::idle_slot
IdleSlot(cpu) == IF cpu = 0 THEN 0 ELSE IDLE_SLOT_BASE + cpu - 1

TaskSlots == { s \in Slots : \A c \in CPUS : s # IdleSlot(c) }

\* The slots a pick of CPU `cpu` considers: Ready, past slot 0, and not the
\* idle task of another core (the only tasks with a cpu_affinity).
Runnable_Stolen(state, cpu) ==
  { s \in Slots \ {0} : /\ state[s] \in {"Ready", "Running"}
                        /\ \A d \in CPUS : s = IdleSlot(d) => d = cpu }
Runnable(state, cpu) ==
  { s \in Slots \ {0} : /\ state[s] = "Ready"
                        /\ \A d \in CPUS : s = IdleSlot(d) => d = cpu }

\* Distance from slot cur to slot s, walking forward through the array.
Forward(s, cur) == (s + MAX_TASKS - cur - 1) % MAX_TASKS

\* Scheduler::pick_next: the best priority (0 is the highest) wins, ties go
\* to the nearest slot ahead of the CPU's current one.
pick_next(state, prio, cur, cpu) ==
  LET R == Runnable(state, cpu) IN
  IF R = {} THEN IdleSlot(cpu)
  ELSE CHOOSE s \in R : \A t \in R :
         \/ prio[s] < prio[t]
         \/ prio[s] = prio[t] /\ Forward(s, cur) =< Forward(t, cur)

\* Scheduler::pick_next_rr: the nearest runnable slot ahead, whatever its
\* priority; the preempted slot `exclude` is passed over.
pick_next_rr_First(state, cur, cpu, exclude) ==
  LET R == Runnable(state, cpu) \ {exclude} IN
  IF R = {} THEN IdleSlot(cpu) ELSE CHOOSE s \in R : \A t \in R : s =< t
pick_next_rr(state, cur, cpu, exclude) ==
  LET R == Runnable(state, cpu) \ {exclude} IN
  IF R = {} THEN IdleSlot(cpu)
  ELSE CHOOSE s \in R : \A t \in R : Forward(s, cur) =< Forward(t, cur)
=============================================================================
