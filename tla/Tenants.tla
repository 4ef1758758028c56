------------------------------ MODULE Tenants ------------------------------
(***************************************************************************)
(* Co-tenant guests on the bare-metal hypervisor backend: vcpu_run,          *)
(* vm_yield_entry and the tick that cuts a slice (hypervisor/backend.rs,     *)
(* vectors.s), the tenant rotation (vm/sched.rs), and the virtqueue each     *)
(* tenant shares with the kernel (virtio/mod.rs, virtio/transport.rs).      *)
(*                                                                         *)
(* A register file is abstracted to a place: how many instructions of the   *)
(* guest are done, or Foreign for a place outside the guest.  A message is   *)
(* its number.                                                             *)
(***************************************************************************)
EXTENDS Integers, Sequences

CONSTANTS
  TENANTS,      \* number of tenants (the code has 3)
  RING,         \* QUEUE_SIZE of the shared virtqueue
  QUANTUM,      \* quantum_ticks
  MAX_PASSES,   \* max_passes
  STEPS,        \* instructions a guest executes before it parks
  Draining      \* bound: tenants that reach their drain

ASSUME TenantsAssumption ==
  /\ TENANTS \in Nat \ {0} /\ RING \in Nat \ {0} /\ QUANTUM \in Nat \ {0}
  /\ MAX_PASSES \in Nat /\ STEPS \in Nat

Ids == 0 .. TENANTS - 1
None == -1
Foreign == -1

VARIABLES
  cpu,        \* what CPU 0 executes: "loop", "entering", "stub", "guest",
              \* "exited", "done"
  active,     \* ACTIVE_VM
  unmasked,   \* PSTATE.I is clear
  place,      \* the register file, while a guest runs
  vm,         \* tenant -> VmRecord
  executed,   \* tenant -> instructions its guest has executed
  pass, slot, cursor, stopped, runs,  \* locals of sched::run and its Tenants
  ring,       \* tenant -> its virtqueue
  misread     \* tenants for which an echo of an earlier print was counted

tenantVars == << cpu, active, unmasked, place, vm, executed, pass, slot,
                 cursor, stopped, runs, ring, misread >>
schedLocals == << pass, slot, cursor, stopped, runs >>

\* VirtioTransport::new: indices zero, buffers empty.  `buf` and the rings
\* are shared memory; seen, answered are the guest's shadow indices, polled is
\* last_used_idx, holding what the guest has read and not answered yet; overrun
\* records that the kernel posted over a buffer the guest had not returned.
EmptyRing ==
  [ tx_desc |-> 0, buf |-> [ d \in 0 .. RING - 1 |-> 0 ],
    avail |-> [ d \in 0 .. RING - 1 |-> 0 ], avail_idx |-> 0,
    used |-> [ d \in 0 .. RING - 1 |-> [ id |-> 0, of |-> 0 ] ], used_idx |-> 0,
    seen |-> 0, polled |-> 0, holding |-> << >>, desc |-> 0,
    overrun |-> FALSE ]

\* vm_create, and the info blocks sched::run publishes.
TenantsInit ==
  /\ cpu = "loop" /\ active = None
  /\ unmasked = TRUE              \* init_tick ends unmasked
  /\ place = Foreign
  /\ vm = [ t \in Ids |-> [ started |-> FALSE, running |-> FALSE,
                            in_guest |-> FALSE, preempted |-> FALSE,
                            budget |-> 0, lr |-> "none", at |-> Foreign ] ]
  /\ executed = [ t \in Ids |-> 0 ]
  /\ pass = 1 /\ slot = 0 /\ cursor = 0
  /\ stopped = {} /\ runs = [ t \in Ids |-> 0 ]
  /\ ring = [ t \in Ids |-> EmptyRing ]
  /\ misread = {}

-----------------------------------------------------------------------------
(* The virtqueue *)

\* send_print and post_avail: the next descriptor, whatever became of its
\* previous use.
send_print(q) ==
  [ q EXCEPT !.desc = q.tx_desc,
             !.buf[q.tx_desc] = q.avail_idx + 1,
             !.avail[q.avail_idx % RING] = q.tx_desc,
             !.avail_idx = @ + 1,
             !.overrun = @ \/ q.avail_idx + 1 - q.used_idx > RING,
             !.tx_desc = (@ + 1) % RING ]

\* guest_poll_avail reads the next posted buffer ...
guest_poll_avail(q) ==
  LET d == q.avail[q.seen % RING]
  IN  [ q EXCEPT !.holding = << d, q.buf[d] >>, !.seen = @ + 1 ]

\* ... and guest_put_used returns it; the echo says what was read.
guest_put_used(q) ==
  [ q EXCEPT !.used[q.used_idx % RING] = [ id |-> q.holding[1], of |-> q.holding[2] ],
             !.used_idx = @ + 1,
             !.holding = << >> ]

\* The bug of polling the used ring from its start.
Replies_FromStart(q) == { q.used[i % RING] : i \in 0 .. q.used_idx - 1 }

\* poll_replies: the entries from last_used_idx on.
Replies(q) == { q.used[i % RING] : i \in q.polled .. q.used_idx - 1 }

-----------------------------------------------------------------------------
(* sched::run *)

Live == Ids \ stopped

\* The round-robin scan from cursor.
NextTenant ==
  CHOOSE t \in Live :
    \A u \in Live : (t - cursor) % TENANTS <= (u - cursor) % TENANTS

\* One slice: post the heartbeat, then vcpu_run up to the point where the CPU
\* may leave for the guest.
vcpu_run_Entry(t) ==
  [ vm[t] EXCEPT !.at = IF vm[t].started THEN @ ELSE 0,
                 !.lr = IF vm[t].started THEN @ ELSE "entry",
                 !.started = TRUE, !.running = TRUE, !.in_guest = TRUE,
                 !.budget = QUANTUM ]

StartSlice ==
  /\ cpu = "loop" /\ pass <= MAX_PASSES /\ slot < TENANTS /\ Live # {}
  /\ LET t == NextTenant
     IN  /\ cursor' = (t + 1) % TENANTS
         /\ ring' = [ ring EXCEPT ![t] = send_print(@) ]
         /\ ~vm[t].running
         /\ vm' = [ vm EXCEPT ![t] = vcpu_run_Entry(t) ]
         /\ active' = t
  /\ cpu' = "entering"
  /\ UNCHANGED << unmasked, place, executed, pass, slot, stopped, runs, misread >>

\* A pass ends after TENANTS slices, or when every tenant has parked.
EndPass ==
  /\ cpu = "loop" /\ pass <= MAX_PASSES
  /\ slot = TENANTS \/ Live = {}
  /\ pass' = pass + 1 /\ slot' = 0
  /\ cpu' = IF pass' > MAX_PASSES \/ Live = {} THEN "done" ELSE "loop"
  /\ UNCHANGED << active, unmasked, place, vm, executed, cursor, stopped, runs,
                  ring, misread >>

-----------------------------------------------------------------------------
(* Entering and leaving a guest *)

\* The bug of unmasking before the resume stub has run.
SpsrUnmasked_Always(ctx) == TRUE

\* A context that resumes through restore_preempted_guest stays masked.
SpsrUnmasked(ctx) == ctx.lr # "stub"

\* enter_guest: context_switch loads the saved file.
enter_guest ==
  /\ cpu = "entering"
  /\ unmasked' = SpsrUnmasked(vm[active])
  /\ IF vm[active].lr = "stub"
     THEN cpu' = "stub" /\ place' = Foreign
     ELSE cpu' = "guest" /\ place' = vm[active].at
  /\ UNCHANGED << active, vm, executed, schedLocals, ring, misread >>

\* restore_preempted_guest: rebuild the file from the frame, eret.
restore_preempted_guest ==
  /\ cpu = "stub"
  /\ cpu' = "guest" /\ place' = vm[active].at /\ unmasked' = TRUE
  /\ UNCHANGED << active, vm, executed, schedLocals, ring, misread >>

\* Back in vcpu_run after enter_guest, masked: both exits converge here.
Exits == cpu' = "exited" /\ unmasked' = FALSE /\ place' = Foreign

\* vm_yield_entry masks, and context_switch saves the guest.
vm_yield_entry ==
  /\ cpu = "guest"
  /\ vm' = [ vm EXCEPT ![active].lr = "yield", ![active].at = place ]
  /\ Exits
  /\ UNCHANGED << active, executed, schedLocals, ring, misread >>

\* The bug of a tick that charges nobody.
tick_guest_NeverCharges(rec) ==
  vm' = [ vm EXCEPT ![active] = rec ] /\ UNCHANGED << cpu, unmasked, place >>

\* tick_guest, reached through guest_tick_active: charge the slice, or take
\* the interrupted file for the guest's and resume the VMM loop.
tick_guest(rec) ==
  IF rec.budget > 0
  THEN /\ vm' = [ vm EXCEPT ![active].budget = @ - 1 ]
       /\ UNCHANGED << cpu, unmasked, place >>
  ELSE /\ vm' = [ vm EXCEPT ![active].lr = "stub", ![active].at = place,
                            ![active].preempted = TRUE ]
       /\ Exits

\* The tick lands wherever interrupts are open while a guest is active.  The
\* instructions between in_guest := true and the switch take less than a
\* slice: the tick that would capture them does not land there.
Tick ==
  /\ unmasked /\ active # None /\ vm[active].in_guest
  /\ cpu = "entering" => vm[active].budget > 0
  /\ tick_guest(vm[active])
  /\ UNCHANGED << active, executed, schedLocals, ring, misread >>

\* The tail of vcpu_run and of the slice: clear the flags, collect replies,
\* drop a tenant that has parked.
EndSlice ==
  /\ cpu = "exited"
  /\ LET t == active
         q == ring[t]
     IN  /\ vm' = [ vm EXCEPT ![t].in_guest = FALSE, ![t].running = FALSE,
                              ![t].preempted = FALSE ]
         /\ runs' = [ runs EXCEPT ![t] = @ + 1 ]
         /\ misread' = IF \E r \in Replies(q) : r.id = q.desc /\ r.of # q.avail_idx
                       THEN misread \cup {t} ELSE misread
         /\ ring' = [ ring EXCEPT ![t].polled = q.used_idx ]
         /\ stopped' = IF executed[t] = STEPS THEN stopped \cup {t} ELSE stopped
  /\ active' = None /\ slot' = slot + 1 /\ cpu' = "loop"
  /\ UNCHANGED << unmasked, place, executed, pass, cursor >>

-----------------------------------------------------------------------------
(* The guest: instructions of its own, and the idle loop's drain, which a   *)
(* tick may cut between reading a buffer and answering it.                   *)

GuestExecutes ==
  /\ cpu = "guest" /\ executed[active] < STEPS
  /\ executed' = [ executed EXCEPT ![active] = @ + 1 ]
  /\ place' = place + 1
  /\ UNCHANGED << cpu, active, unmasked, vm, schedLocals, ring, misread >>

GuestDrains ==
  /\ cpu = "guest" /\ active \in Draining
  /\ LET q == ring[active]
     IN  ring' = [ ring EXCEPT ![active] =
           IF q.holding # << >> THEN guest_put_used(q) ELSE guest_poll_avail(q) ]
  /\ ring[active].holding # << >> \/ ring[active].seen # ring[active].avail_idx
  /\ UNCHANGED << cpu, active, unmasked, place, vm, executed, schedLocals, misread >>

TenantsNext ==
  \/ StartSlice \/ EndPass \/ EndSlice
  \/ enter_guest \/ restore_preempted_guest \/ vm_yield_entry \/ Tick
  \/ GuestExecutes \/ GuestDrains

\* The kernel executes, and the timer ticks; a guest owes nothing.
TenantsFairness ==
  /\ WF_tenantVars(StartSlice \/ EndPass \/ EndSlice)
  /\ WF_tenantVars(enter_guest \/ restore_preempted_guest)
  /\ WF_tenantVars(Tick)

TenantsSpec == TenantsInit /\ [][TenantsNext]_tenantVars
TenantsFairSpec == TenantsSpec /\ TenantsFairness

-----------------------------------------------------------------------------
(* Properties *)

\* A preempted or yielded vCPU continues exactly where it stopped: the file
\* that runs, or is saved, is at the guest's own last instruction, wherever
\* the tick landed (on entry, in the resume stub, in the guest).
ResumesWhereItStopped ==
  /\ cpu = "guest" => place = executed[active]
  /\ \A t \in Ids :
       vm[t].started /\ ~(cpu = "guest" /\ active = t) => vm[t].at = executed[t]

\* What sched::run counts as the echo of a run answers the Print of that run,
\* as long as the ring was never overrun.
EchoAnswersItsPrint ==
  \A t \in misread : ring[t].overrun

\* A guest that never yields cannot keep the CPU: the rotation ends.
RotationEnds == <>(cpu = "done")

=============================================================================
