---------------------------- MODULE MC_Platform ----------------------------
(***************************************************************************)
(* Interrupts and what waits for them, checked in one run: the cores and    *)
(* the GIC, the block driver, the co-tenant scheduler, and the boot-time    *)
(* dialogue with a guest.  They share no state: a behaviour picks one part  *)
(* at the start and only that part moves (see MC_Network).                  *)
(***************************************************************************)
EXTENDS Blk, Machine, Tenants, Vmm

VARIABLE part

platVars == << part, blkVars, machineVars, tenantVars, vmmVars >>

Init ==
  /\ part \in {"blk", "machine", "tenants", "vmm"}
  /\ BlkInit /\ MachineInit /\ TenantsInit /\ VmmInit

\* Only part p may move.
Only(p) ==
  /\ part = p /\ UNCHANGED part
  /\ p # "blk" => UNCHANGED blkVars
  /\ p # "machine" => UNCHANGED machineVars
  /\ p # "tenants" => UNCHANGED tenantVars
  /\ p # "vmm" => UNCHANGED vmmVars

Next ==
  \/ Only("blk") /\ BlkNext
  \/ Only("machine") /\ MachineNext
  \/ Only("tenants") /\ TenantsNext
  \/ Only("vmm") /\ VmmNext

\* BlkFairSpec, MachineFairness, TenantsFairness and VmmFairSpec, condition by
\* condition.
Fairness ==
  /\ WF_platVars(\/ Only("blk") /\ wait_irq(FALSE)
                 \/ Only("machine") /\ (DeviceDisable \/ poke_other_cpus)
                 \/ Only("tenants") /\ (StartSlice \/ EndPass \/ EndSlice)
                 \/ Only("vmm") /\ Kernel)
  /\ WF_platVars(\/ Only("blk") /\ Completed
                 \/ Only("machine") /\ (TakeTick(0) \/ TakePoke(0))
                 \/ Only("tenants") /\ (enter_guest \/ restore_preempted_guest)
                 \/ Only("vmm") /\ Guest)
  /\ WF_platVars(\/ Only("blk") /\ BlkDevice
                 \/ Only("machine") /\ (TakeTick(1) \/ TakePoke(1))
                 \/ Only("tenants") /\ Tick)
  /\ SF_platVars(Only("machine") /\ TakeDevice)
  /\ \A c \in {0, 1} :
       /\ SF_platVars(Only("machine") /\ KernelStep(c))
       /\ SF_platVars(Only("machine") /\ tick_preempt_Locks(c))
       /\ WF_platVars(Only("machine") /\ tick_preempt_Unlocks(c))

Spec == Init /\ [][Next]_platVars /\ Fairness

-----------------------------------------------------------------------------
(* What must happen, for the behaviours in which that part moves.           *)

\* RotationEnds of Tenants: a guest that never yields cannot keep the CPU from
\* sched::run, because tick_guest cuts its slice.
RotationIsOver == part = "tenants" => RotationEnds

\* DialogueCompletes of Vmm: kmain ends with the pongs in order and the
\* acknowledgement, whenever the doorbells are delivered.
DialogueIsComplete == part = "vmm" => DialogueCompletes
=============================================================================
