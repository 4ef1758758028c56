--------------------------- MODULE TenantsProofs ---------------------------
(***************************************************************************)
(* A guest of the co-tenant scheduler continues exactly where it stopped,   *)
(* for every number of tenants, quantum, guest length and pass count, and   *)
(* wherever the tick lands.  The invariant adds what keeps the tick away    *)
(* from a register file that is not the guest's: the resume stub and the    *)
(* tail of a slice run masked, and a slice has an active, started tenant.   *)
(***************************************************************************)
EXTENDS Tenants, WellFoundedInduction, TLAPS

NatLess == { p \in Nat \X Nat : p[1] < p[2] }

\* A nonempty set of naturals has a least element.
LEMMA LeastNatural ==
  ASSUME NEW S \in SUBSET Nat, S # {}
  PROVE  \E x \in S : \A y \in S : x <= y
<1>1. IsWellFoundedOn(NatLess, Nat)
  BY NatLessThanWellFounded DEF OpToRel, NatLess
<1>2. PICK x \in S : \A y \in S : ~ (<<y, x>> \in NatLess)
  BY Zenon, <1>1, WFMin
<1>3. ASSUME NEW y \in S PROVE x <= y
  <2>1. x \in Nat /\ y \in Nat
    OBVIOUS
  <2>2. ~ (y < x)
    BY Zenon, <1>2, <2>1 DEF NatLess
  <2>. QED BY <2>1, <2>2
<1>. QED BY <1>3

\* The round-robin scan from cursor finds a tenant that still lives.
LEMMA NextTenantLives ==
  ASSUME cursor \in Ids, Live # {}
  PROVE  NextTenant \in Live
<1>. DEFINE far(t) == (t - cursor) % TENANTS
            D == { far(t) : t \in Live }
<1>1. \A t \in Live : far(t) \in Nat
  BY TenantsAssumption DEF Live, Ids
<1>2. D \in SUBSET Nat /\ D # {}
  BY Zenon, <1>1
<1>3. PICK d \in D : \A e \in D : d <= e
  BY Zenon, <1>2, LeastNatural
<1>4. PICK t \in Live : far(t) = d
  BY Zenon, <1>3
<1>5. \A u \in Live : far(t) <= far(u)
  BY Zenon, <1>3, <1>4
<1>. QED BY Zenon, <1>4, <1>5 DEF NextTenant

-----------------------------------------------------------------------------
(* Steps on the VM table *)

VmRecord == [ started : BOOLEAN, running : BOOLEAN, in_guest : BOOLEAN,
              preempted : BOOLEAN, budget : Nat,
              lr : {"none", "entry", "yield", "stub"}, at : Int ]

\* Replacing the record of one tenant leaves the others alone.
LEMMA OneRecord ==
  ASSUME NEW v \in [Ids -> VmRecord], NEW a \in Ids, NEW rec \in VmRecord,
         NEW w, w = [ v EXCEPT ![a] = rec ]
  PROVE  /\ w \in [Ids -> VmRecord]
         /\ w[a].at = rec.at /\ w[a].started = rec.started
         /\ \A t \in Ids : t # a => w[t].at = v[t].at /\ w[t].started = v[t].started
OBVIOUS

\* vcpu_run prepares the context of a new tenant at its entry, and leaves the
\* context of one that has run alone.
LEMMA EntryPrepared ==
  ASSUME NEW t \in Ids, vm[t] \in VmRecord
  PROVE  /\ vcpu_run_Entry(t) \in VmRecord
         /\ vcpu_run_Entry(t).started = TRUE
         /\ vcpu_run_Entry(t).at = IF vm[t].started THEN vm[t].at ELSE 0
<1>. USE TenantsAssumption DEF vcpu_run_Entry, VmRecord
<1>1. QUANTUM \in Nat
  OBVIOUS
<1>2. CASE vm[t].started
  BY Zenon, <1>2
<1>3. CASE ~ vm[t].started
  <2>1. PICK set \in BOOLEAN : set = TRUE
    BY Zenon
  <2>2. PICK start \in Int : start = 0
    OBVIOUS
  <2>3. vcpu_run_Entry(t) = [ vm[t] EXCEPT !.at = start, !.lr = "entry", !.started = set,
                              !.running = set, !.in_guest = set, !.budget = QUANTUM ]
    BY Zenon, <1>3, <2>1, <2>2
  <2>. HIDE DEF vcpu_run_Entry
  <2>4. /\ vcpu_run_Entry(t) \in VmRecord
        /\ vcpu_run_Entry(t).started = set /\ vcpu_run_Entry(t).at = start
    <3>1. vcpu_run_Entry(t) =
            [ started |-> set, running |-> set, in_guest |-> set, preempted |-> vm[t].preempted,
              budget |-> QUANTUM, lr |-> "entry", at |-> start ]
      BY Zenon, <2>3
    <3>2. vm[t].preempted \in BOOLEAN
      BY Zenon
    <3>3. "entry" \in {"none", "entry", "yield", "stub"}
      BY Zenon
    <3>. QED BY <1>1, <3>1, <3>2, <3>3
  <2>. QED BY Zenon, <1>3, <2>1, <2>2, <2>4
<1>. QED BY Zenon, <1>2, <1>3

-----------------------------------------------------------------------------
InSlice == cpu \in {"entering", "stub", "guest", "exited"}

TenantsInv ==
  /\ cpu \in {"loop", "entering", "stub", "guest", "exited", "done"}
  /\ vm \in [Ids -> VmRecord]
  /\ executed \in [Ids -> Nat]
  /\ place \in Int /\ cursor \in Ids
  /\ InSlice => active \in Ids /\ vm[active].started
  /\ ~ InSlice => active = None
  /\ cpu \in {"stub", "exited"} => unmasked = FALSE
  /\ \A t \in Ids : vm[t].started = FALSE => executed[t] = 0
  /\ ResumesWhereItStopped

LEMMA TenantsInvInit == TenantsInit => TenantsInv
BY TenantsAssumption DEF TenantsInit, TenantsInv, VmRecord, InSlice, Ids, None, Foreign,
   ResumesWhereItStopped

LEMMA TenantsInvStep == TenantsInv /\ [TenantsNext]_tenantVars => TenantsInv'
<1>. SUFFICES ASSUME TenantsInv, [TenantsNext]_tenantVars PROVE TenantsInv'
  OBVIOUS
<1>. USE DEF TenantsInv, ResumesWhereItStopped, InSlice
<1>0. None \notin Ids
  BY TenantsAssumption DEF None, Ids
<1>1. CASE StartSlice
  <2>. DEFINE t == NextTenant
  <2>1. t \in Ids
    BY Zenon, <1>1, NextTenantLives DEF StartSlice, Live
  <2>2. /\ cpu = "loop" /\ cpu' = "entering" /\ active' = t
        /\ cursor' = (t + 1) % TENANTS
        /\ vm' = [ vm EXCEPT ![t] = vcpu_run_Entry(t) ]
        /\ UNCHANGED << place, executed >>
    BY Zenon, <1>1 DEF StartSlice
  <2>. HIDE DEF t
  <2>3. cursor' \in Ids
    BY <2>1, <2>2, TenantsAssumption DEF Ids
  <2>4. /\ vcpu_run_Entry(t) \in VmRecord /\ vcpu_run_Entry(t).started = TRUE
        /\ vcpu_run_Entry(t).at = IF vm[t].started THEN vm[t].at ELSE 0
    BY Zenon, <2>1, EntryPrepared
  <2>5. vcpu_run_Entry(t).at = executed[t]
    BY <2>1, <2>2, <2>4
  <2>. QED BY <2>1, <2>2, <2>3, <2>4, <2>5
<1>2. CASE EndPass
  BY <1>2 DEF EndPass
<1>3. CASE EndSlice
  <2>1. /\ cpu = "exited" /\ cpu' = "loop" /\ active' = None
        /\ vm' = [ vm EXCEPT ![active].in_guest = FALSE, ![active].running = FALSE,
                             ![active].preempted = FALSE ]
        /\ UNCHANGED << unmasked, place, executed, cursor >>
    BY Zenon, <1>3 DEF EndSlice
  <2>2. vm' \in [Ids -> VmRecord]
        /\ \A t \in Ids : vm'[t].started = vm[t].started /\ vm'[t].at = vm[t].at
    <3>. DEFINE rec == [ vm[active] EXCEPT !.in_guest = FALSE, !.running = FALSE,
                                           !.preempted = FALSE ]
    <3>1. active \in Ids /\ vm[active] \in VmRecord
      BY <2>1
    <3>2. vm' = [ vm EXCEPT ![active] = rec ]
      BY Zenon, <2>1
    <3>3. rec \in VmRecord /\ rec.started = vm[active].started /\ rec.at = vm[active].at
      BY Zenon, <3>1 DEF VmRecord
    <3>. HIDE DEF rec
    <3>. QED BY <3>1, <3>2, <3>3, OneRecord
  <2>. QED BY <2>1, <2>2
<1>4. CASE enter_guest
  <2>1. /\ cpu = "entering" /\ UNCHANGED << active, vm, executed, cursor >>
        /\ IF vm[active].lr = "stub"
           THEN cpu' = "stub" /\ place' = Foreign
           ELSE cpu' = "guest" /\ place' = vm[active].at
        /\ unmasked' = SpsrUnmasked(vm[active])
    BY Zenon, <1>4 DEF enter_guest, schedLocals
  <2>2. CASE vm[active].lr = "stub"
    <3>1. unmasked' = FALSE
      BY Zenon, <2>1, <2>2 DEF SpsrUnmasked
    <3>. QED BY <2>1, <2>2, <3>1 DEF Foreign
  <2>3. CASE vm[active].lr # "stub"
    BY <2>1, <2>3
  <2>. QED BY Zenon, <2>2, <2>3
<1>5. CASE restore_preempted_guest
  BY <1>5 DEF restore_preempted_guest, schedLocals
<1>6. CASE vm_yield_entry
  <2>1. /\ cpu = "guest" /\ cpu' = "exited" /\ unmasked' = FALSE /\ place' = Foreign
        /\ vm' = [ vm EXCEPT ![active].lr = "yield", ![active].at = place ]
        /\ UNCHANGED << active, executed, cursor >>
    BY Zenon, <1>6 DEF vm_yield_entry, Exits, schedLocals
  <2>2. /\ vm' \in [Ids -> VmRecord] /\ vm'[active].at = place
        /\ \A t \in Ids : vm'[t].started = vm[t].started
        /\ \A t \in Ids : t # active => vm'[t].at = vm[t].at
    <3>. DEFINE rec == [ vm[active] EXCEPT !.lr = "yield", !.at = place ]
    <3>1. active \in Ids /\ vm[active] \in VmRecord
      BY <2>1
    <3>2. vm' = [ vm EXCEPT ![active] = rec ]
      BY Zenon, <2>1
    <3>3. rec \in VmRecord /\ rec.started = vm[active].started /\ rec.at = place
      BY Zenon, <3>1 DEF VmRecord
    <3>. HIDE DEF rec
    <3>. QED BY <3>1, <3>2, <3>3, OneRecord
  <2>. QED BY <2>1, <2>2 DEF Foreign
<1>7. CASE Tick
  <2>1. /\ unmasked /\ UNCHANGED << active, executed, cursor >>
        /\ cpu = "entering" => vm[active].budget > 0
        /\ active # None /\ tick_guest(vm[active])
    BY Zenon, <1>7 DEF Tick, schedLocals
  <2>2. cpu \in {"entering", "guest"} /\ active \in Ids
    BY Zenon, <2>1
  <2>3. CASE vm[active].budget > 0
    <3>1. vm' = [ vm EXCEPT ![active].budget = @ - 1 ] /\ UNCHANGED << cpu, unmasked, place >>
      BY Zenon, <2>1, <2>3 DEF tick_guest
    <3>2. vm' \in [Ids -> VmRecord]
          /\ \A t \in Ids : vm'[t].started = vm[t].started /\ vm'[t].at = vm[t].at
      BY <2>2, <2>3, <3>1 DEF VmRecord
    <3>. QED BY <2>1, <3>1, <3>2
  <2>4. CASE ~ (vm[active].budget > 0)
    <3>1. /\ vm' = [ vm EXCEPT ![active].lr = "stub", ![active].at = place,
                               ![active].preempted = TRUE ]
          /\ cpu' = "exited" /\ unmasked' = FALSE /\ place' = Foreign
      BY Zenon, <2>1, <2>4 DEF tick_guest, Exits
    <3>2. cpu = "guest"
      BY Zenon, <2>1, <2>2, <2>4
    <3>3. /\ vm' \in [Ids -> VmRecord] /\ vm'[active].at = place
          /\ \A t \in Ids : vm'[t].started = vm[t].started
          /\ \A t \in Ids : t # active => vm'[t].at = vm[t].at
      <4>. DEFINE rec == [ vm[active] EXCEPT !.lr = "stub", !.at = place,
                                             !.preempted = TRUE ]
      <4>1. vm[active] \in VmRecord
        BY <2>2
      <4>2. vm' = [ vm EXCEPT ![active] = rec ]
        BY Zenon, <3>1
      <4>3. rec \in VmRecord /\ rec.started = vm[active].started /\ rec.at = place
        BY Zenon, <4>1 DEF VmRecord
      <4>. HIDE DEF rec
      <4>. QED BY <2>2, <4>2, <4>3, OneRecord
    <3>. QED BY <2>1, <2>2, <3>1, <3>2, <3>3 DEF Foreign
  <2>. QED BY Zenon, <2>3, <2>4
<1>8. CASE GuestExecutes
  <2>1. /\ cpu = "guest" /\ executed' = [ executed EXCEPT ![active] = @ + 1 ]
        /\ place' = place + 1 /\ UNCHANGED << cpu, active, unmasked, vm, cursor >>
    BY Zenon, <1>8 DEF GuestExecutes, schedLocals
  <2>. QED BY <2>1
<1>9. CASE GuestDrains \/ UNCHANGED tenantVars
  BY <1>9 DEF GuestDrains, schedLocals, tenantVars
<1>. QED
  BY Zenon, <1>1, <1>2, <1>3, <1>4, <1>5, <1>6, <1>7, <1>8, <1>9 DEF TenantsNext

\* vcpu_run, vm_yield_entry, tick_guest and restore_preempted_guest together
\* never lose or repeat an instruction of a guest.
THEOREM Resumes == TenantsSpec => []ResumesWhereItStopped
<1>1. TenantsInv => ResumesWhereItStopped
  BY Zenon DEF TenantsInv
<1>. QED BY TenantsInvInit, TenantsInvStep, <1>1, PTL DEF TenantsSpec
-----------------------------------------------------------------------------
(* The virtqueue of a tenant *)

Slots == 0 .. RING - 1

Queues ==
  [ tx_desc : Slots, buf : [Slots -> Nat], avail : [Slots -> Slots], avail_idx : Nat,
    used : [Slots -> [id : Slots, of : Nat]], used_idx : Nat, seen : Nat, polled : Nat,
    holding : {<< >>} \cup (Slots \X Nat), desc : Slots, overrun : BOOLEAN ]

\* Message i + 1 is in slot i % RING; the guest holds at most one message.
InOrder(q) ==
  /\ q.polled <= q.used_idx /\ q.seen <= q.avail_idx
  /\ q.holding = << >> => q.seen = q.used_idx
  /\ q.holding # << >> => q.seen = q.used_idx + 1 /\ q.holding[1] = q.used_idx % RING
  /\ q.tx_desc = q.avail_idx % RING
  /\ q.avail_idx > 0 => q.desc = (q.avail_idx - 1) % RING
  /\ \A i \in 0 .. q.avail_idx - 1 : q.avail[i % RING] = i % RING

\* Without an overrun nothing that is still read has been written over.
Intact(q) ==
  /\ q.avail_idx - q.polled <= RING
  /\ q.holding # << >> => q.holding[2] = q.used_idx + 1
  /\ \A i \in q.used_idx .. q.avail_idx - 1 : q.buf[i % RING] = i + 1
  /\ \A i \in q.polled .. q.used_idx - 1 : q.used[i % RING] = [id |-> i % RING, of |-> i + 1]

QueueInv(q) == q \in Queues /\ InOrder(q) /\ (q.overrun = FALSE => Intact(q))

LEMMA SlotOf == ASSUME NEW i \in Nat PROVE i % RING \in Slots
BY TenantsAssumption DEF Slots

\* Fewer than RING numbers in a row are in different slots.
LEMMA SameSlot ==
  ASSUME NEW a \in Nat, NEW b \in Nat, a <= b, b - a < RING, a % RING = b % RING
  PROVE  a = b
<1>. DEFINE x == a \div RING
            y == b \div RING
<1>0. RING \in Nat \ {0}
  BY TenantsAssumption
<1>1. x \in Nat /\ y \in Nat /\ a % RING \in Nat
  BY <1>0
<1>2. a = RING * x + (a % RING) /\ b = RING * y + (b % RING)
  BY <1>0
<1>. HIDE DEF x, y
<1>3. b - a = RING * (y - x)
  BY <1>0, <1>1, <1>2
<1>4. y - x >= 1 => RING * (y - x) >= RING
  BY <1>0, <1>1
<1>5. y - x <= -1 => RING * (y - x) <= -RING
  BY <1>0, <1>1
<1>6. y - x = 0
  BY <1>0, <1>1, <1>3, <1>4, <1>5
<1>. QED BY <1>0, <1>3, <1>6

LEMMA NextSlot ==
  ASSUME NEW n \in Nat
  PROVE  ((n % RING) + 1) % RING = (n + 1) % RING
<1>. DEFINE x == n \div RING
            d == n % RING
            y == (n + 1) \div RING
            e == (n + 1) % RING
<1>0. RING \in Nat \ {0}
  BY TenantsAssumption
<1>1. x \in Nat /\ y \in Nat /\ d \in 0 .. RING - 1 /\ e \in 0 .. RING - 1
  BY <1>0
<1>2. n = RING * x + d /\ n + 1 = RING * y + e
  BY <1>0
<1>. HIDE DEF x, y, d, e
<1>3. RING * (y - x) = d + 1 - e
  BY <1>0, <1>1, <1>2
<1>4. (y - x >= 2 => RING * (y - x) >= 2 * RING) /\ (y - x <= -1 => RING * (y - x) <= -RING)
  BY <1>0, <1>1
<1>5. (y - x = 0 => e = d + 1) /\ (y - x = 1 => e = d + 1 - RING)
  BY <1>0, <1>1, <1>3
<1>6. y - x = 0 \/ y - x = 1
  BY <1>0, <1>1, <1>3, <1>4
<1>7. e = d + 1 \/ (d + 1 = RING /\ e = 0)
  BY <1>0, <1>1, <1>5, <1>6
<1>8. (d + 1) % RING = e
  BY <1>0, <1>1, <1>7
<1>. QED BY <1>8 DEF d, e

\* send_print: the kernel has collected every reply before it posts.
LEMMA SendKeeps ==
  ASSUME NEW q, QueueInv(q), q.polled = q.used_idx
  PROVE  /\ QueueInv(send_print(q))
         /\ q.overrun => send_print(q).overrun
<1>. DEFINE n == q.avail_idx
            d == n % RING
            buf == [q.buf EXCEPT ![d] = n + 1]
            avail == [q.avail EXCEPT ![d] = d]
            o == q.overrun \/ n + 1 - q.used_idx > RING
            k == send_print(q)
<1>0. /\ q \in Queues /\ n \in Nat /\ q.used_idx \in Nat /\ d = q.tx_desc /\ d \in Slots
      /\ q.overrun \in BOOLEAN /\ RING \in Nat \ {0}
  BY Zenon, TenantsAssumption, SlotOf DEF QueueInv, InOrder, Queues
<1>12. k = [q EXCEPT !.desc = q.tx_desc, !.buf = [q.buf EXCEPT ![q.tx_desc] = q.avail_idx + 1],
                     !.avail = [q.avail EXCEPT ![q.avail_idx % RING] = q.tx_desc],
                     !.avail_idx = q.avail_idx + 1, !.overrun = o,
                     !.tx_desc = (q.tx_desc + 1) % RING]
  BY Zenon DEF send_print
<1>13. k = [q EXCEPT !.desc = d, !.buf = buf, !.avail = avail, !.avail_idx = n + 1,
                     !.overrun = o, !.tx_desc = (d + 1) % RING]
  BY Zenon, <1>0, <1>12
<1>14. PICK b, a, w, z : b = buf /\ a = avail /\ w = o /\ z = (d + 1) % RING
  BY Zenon
<1>15. PICK m : m = n + 1
  BY Zenon
<1>1. k = [tx_desc |-> (d + 1) % RING, buf |-> buf, avail |-> avail, avail_idx |-> n + 1,
           used |-> q.used, used_idx |-> q.used_idx, seen |-> q.seen, polled |-> q.polled,
           holding |-> q.holding, desc |-> d, overrun |-> o]
  <2>. HIDE DEF buf, avail, o, d, k, n
  <2>1. k = [q EXCEPT !.desc = d, !.buf = b, !.avail = a, !.avail_idx = m, !.overrun = w, !.tx_desc = z]
    BY Zenon, <1>13, <1>14, <1>15
  <2>2. k = [tx_desc |-> z, buf |-> b, avail |-> a, avail_idx |-> m,
             used |-> q.used, used_idx |-> q.used_idx, seen |-> q.seen, polled |-> q.polled,
             holding |-> q.holding, desc |-> d, overrun |-> w]
    BY Zenon, <1>0, <2>1 DEF Queues
  <2>. QED BY Zenon, <1>14, <1>15, <2>2
<1>2. (d + 1) % RING = (n + 1) % RING
  BY Zenon, <1>0, NextSlot
<1>3. buf \in [Slots -> Nat] /\ avail \in [Slots -> Slots] /\ o \in BOOLEAN
  BY <1>0 DEF Queues
<1>4. (n + 1) % RING \in Slots
  BY <1>0, SlotOf
<1>5. ASSUME NEW i \in 0 .. n - 1 PROVE avail[i % RING] = i % RING
  <2>1. PICK s \in Slots : s = i % RING
    BY <1>0, SlotOf
  <2>2. q.avail[s] = s
    BY <2>1 DEF QueueInv, InOrder
  <2>3. avail[s] = s
    <3>. HIDE DEF d
    <3>. QED BY <1>0, <2>2 DEF Queues
  <2>. QED BY Zenon, <2>1, <2>3
<1>6. avail[d] = d /\ buf[d] = n + 1
  BY <1>0 DEF Queues
<1>7. ASSUME n + 1 - q.used_idx <= RING, NEW i \in q.used_idx .. n - 1
      PROVE  buf[i % RING] = q.buf[i % RING]
  <2>1. i \in Nat /\ i # n /\ i <= n /\ n - i < RING
    BY <1>0, <1>7
  <2>2. i % RING # d /\ i % RING \in Slots
    BY <1>0, <2>1, SameSlot, SlotOf
  <2>. QED BY <1>0, <2>2 DEF Queues
<1>. HIDE DEF n, d, buf, avail, o, k
<1>8. k \in Queues
  <2>1. (d + 1) % RING \in Slots /\ n + 1 \in Nat /\ d \in Slots
    BY <1>0, <1>2, <1>4
  <2>2. /\ q.used \in [Slots -> [id : Slots, of : Nat]] /\ q.used_idx \in Nat /\ q.seen \in Nat
        /\ q.polled \in Nat /\ q.holding \in {<< >>} \cup (Slots \X Nat)
    BY Zenon, <1>0 DEF Queues
  <2>. QED BY Zenon, <1>1, <1>3, <2>1, <2>2 DEF Queues
<1>9. InOrder(k)
  <2>1. \A i \in 0 .. n : avail[i % RING] = i % RING
    BY <1>0, <1>5, <1>6 DEF d
  <2>2. /\ k.polled = q.polled /\ k.used_idx = q.used_idx /\ k.seen = q.seen
        /\ k.holding = q.holding /\ k.tx_desc = (n + 1) % RING /\ k.desc = d
        /\ k.avail_idx = n + 1 /\ k.avail = avail
    BY Zenon, <1>1, <1>2
  <2>3. k.seen <= k.avail_idx /\ k.avail_idx - 1 = n /\ k.polled <= k.used_idx
    BY <1>0, <2>2 DEF QueueInv, InOrder, Queues, n
  <2>4. k.desc = (k.avail_idx - 1) % RING
    BY Zenon, <2>2, <2>3 DEF d
  <2>5. \A i \in 0 .. k.avail_idx - 1 : k.avail[i % RING] = i % RING
    BY Zenon, <2>1, <2>2, <2>3
  <2>. QED BY Zenon, <2>2, <2>3, <2>4, <2>5 DEF InOrder, QueueInv
<1>10. ASSUME o = FALSE PROVE Intact(k)
  <2>1. q.overrun = FALSE /\ n + 1 - q.used_idx <= RING
    BY <1>0, <1>10 DEF o
  <2>2. Intact(q)
    BY <2>1 DEF QueueInv
  <2>3. ASSUME NEW i \in q.used_idx .. n PROVE buf[i % RING] = i + 1
    <3>1. CASE i = n
      BY Zenon, <1>6, <3>1 DEF d
    <3>2. CASE i # n
      <4>1. i \in q.used_idx .. n - 1
        BY <1>0, <3>2
      <4>. QED BY Zenon, <1>7, <2>1, <2>2, <4>1 DEF Intact, n
    <3>. QED BY <3>1, <3>2
  <2>4. /\ k.polled = q.used_idx /\ k.used_idx = q.used_idx /\ k.holding = q.holding
        /\ k.avail_idx = n + 1 /\ k.buf = buf /\ k.used = q.used
    BY Zenon, <1>1
  <2>5. k.avail_idx - 1 = n /\ k.avail_idx - k.polled <= RING /\ k.polled = q.polled
    BY <1>0, <2>1, <2>4
  <2>. QED BY Zenon, <2>1, <2>2, <2>3, <2>4, <2>5 DEF Intact
<1>11. q.overrun => o
  BY DEF o
<1>16. k.overrun = o
  BY Zenon, <1>1
<1>. QED BY Zenon, <1>16, <1>8, <1>9, <1>10, <1>11 DEF QueueInv, k

\* guest_poll_avail reads message used_idx + 1.
LEMMA PollKeeps ==
  ASSUME NEW q, QueueInv(q), q.holding = << >>, q.seen # q.avail_idx
  PROVE  LET k == guest_poll_avail(q) IN
         QueueInv(k) /\ k.overrun = q.overrun
<1>. DEFINE u == q.used_idx
            d == u % RING
            h == << d, q.buf[d] >>
            k == guest_poll_avail(q)
<1>0. /\ q \in Queues /\ u \in Nat /\ q.seen = u /\ u < q.avail_idx /\ q.avail_idx \in Nat
      /\ d \in Slots
  <2>1. q \in Queues /\ q.seen = u /\ q.seen <= q.avail_idx
    BY Zenon DEF QueueInv, InOrder
  <2>2. u \in Nat /\ q.avail_idx \in Nat
    BY <2>1 DEF Queues
  <2>3. u < q.avail_idx
    BY <2>1, <2>2
  <2>. QED BY Zenon, <2>1, <2>2, <2>3, SlotOf
<1>1. q.avail[u % RING] = d
  BY <1>0 DEF QueueInv, InOrder
<1>2. k = [q EXCEPT !.holding = h, !.seen = q.seen + 1]
  BY Zenon, <1>0, <1>1 DEF guest_poll_avail
<1>3. h \in Slots \X Nat /\ h # << >> /\ h[1] = d /\ h[2] = q.buf[d]
  BY <1>0 DEF Queues
<1>4. PICK m \in Nat : m = q.seen + 1
  BY <1>0
<1>. HIDE DEF h, k, d
<1>5. /\ k \in Queues
      /\ k.holding = h /\ k.seen = m /\ k.tx_desc = q.tx_desc /\ k.buf = q.buf
      /\ k.avail = q.avail /\ k.avail_idx = q.avail_idx /\ k.used = q.used
      /\ k.used_idx = q.used_idx /\ k.polled = q.polled /\ k.desc = q.desc
      /\ k.overrun = q.overrun
  <2>1. k = [q EXCEPT !.holding = h, !.seen = m]
    BY Zenon, <1>2, <1>4
  <2>. QED BY Zenon, <1>0, <1>3, <2>1 DEF Queues
<1>6. m = u + 1 /\ m <= q.avail_idx
  BY <1>0, <1>4
<1>7. InOrder(k)
  BY Zenon, <1>3, <1>5, <1>6 DEF InOrder, QueueInv, d
<1>8. ASSUME q.overrun = FALSE PROVE Intact(k)
  <2>1. Intact(q)
    BY Zenon, <1>8 DEF QueueInv
  <2>2. u \in q.used_idx .. q.avail_idx - 1
    BY <1>0
  <2>3. q.buf[d] = u + 1
    BY Zenon, <2>1, <2>2 DEF Intact, d
  <2>. QED BY ZenonT(40), <1>3, <1>5, <2>1, <2>3 DEF Intact
<1>. QED BY Zenon, <1>5, <1>7, <1>8 DEF QueueInv, k

\* guest_put_used returns it in slot used_idx % RING.
LEMMA PutKeeps ==
  ASSUME NEW q, QueueInv(q), q.holding # << >>
  PROVE  LET k == guest_put_used(q) IN
         QueueInv(k) /\ k.overrun = q.overrun
<1>. DEFINE u == q.used_idx
            d == u % RING
            r == [id |-> q.holding[1], of |-> q.holding[2]]
            used == [q.used EXCEPT ![d] = r]
            k == guest_put_used(q)
<1>0. /\ q \in Queues /\ u \in Nat /\ q.seen = u + 1 /\ u < q.avail_idx /\ q.avail_idx \in Nat
      /\ q.polled \in Nat /\ q.polled <= u /\ d \in Slots /\ q.holding[1] = d
      /\ q.holding \in Slots \X Nat
  <2>1. /\ q \in Queues /\ q.seen = u + 1 /\ q.seen <= q.avail_idx /\ q.polled <= u
        /\ q.holding[1] = d
    BY Zenon DEF QueueInv, InOrder
  <2>2. u \in Nat /\ q.avail_idx \in Nat /\ q.polled \in Nat /\ q.holding \in Slots \X Nat
    BY <2>1 DEF Queues
  <2>3. u < q.avail_idx
    BY <2>1, <2>2
  <2>. QED BY Zenon, <2>1, <2>2, <2>3, SlotOf
<1>1. r \in [id : Slots, of : Nat] /\ r.id = d /\ r.of = q.holding[2]
  BY <1>0
<1>2. k = [q EXCEPT !.used = used, !.used_idx = q.used_idx + 1, !.holding = << >>]
  BY Zenon DEF guest_put_used
<1>3. PICK m \in Nat : m = q.used_idx + 1
  BY <1>0
<1>. HIDE DEF d, r, k
<1>4. used \in [Slots -> [id : Slots, of : Nat]] /\ used[d] = r
      /\ \A s \in Slots : s # d => used[s] = q.used[s]
  BY SMTT(30), <1>0, <1>1 DEF Queues
<1>. HIDE DEF used
<1>5. /\ k \in Queues
      /\ k.holding = << >> /\ k.seen = q.seen /\ k.tx_desc = q.tx_desc /\ k.buf = q.buf
      /\ k.avail = q.avail /\ k.avail_idx = q.avail_idx /\ k.used = used
      /\ k.used_idx = m /\ k.polled = q.polled /\ k.desc = q.desc /\ k.overrun = q.overrun
  <2>1. k = [q EXCEPT !.used = used, !.used_idx = m, !.holding = << >>]
    BY Zenon, <1>2, <1>3
  <2>. QED BY Zenon, <1>0, <1>4, <2>1 DEF Queues
<1>6. m = u + 1 /\ q.polled <= m
  BY <1>0, <1>3
<1>7. InOrder(k)
  BY Zenon, <1>0, <1>5, <1>6 DEF InOrder, QueueInv
<1>8. ASSUME q.overrun = FALSE PROVE Intact(k)
  <2>1. Intact(q) /\ q.avail_idx - q.polled <= RING
    BY Zenon, <1>8 DEF QueueInv, Intact
  <2>2. r = [id |-> d, of |-> u + 1]
    BY Zenon, <1>0, <2>1 DEF Intact, r
  <2>3. \A i \in m .. q.avail_idx - 1 : i \in u .. q.avail_idx - 1
    BY <1>0, <1>6
  <2>4. ASSUME NEW i \in q.polled .. m - 1 PROVE used[i % RING] = [id |-> i % RING, of |-> i + 1]
    <3>1. CASE i = u
      BY Zenon, <1>4, <2>2, <3>1 DEF d
    <3>2. CASE i # u
      <4>1. i \in q.polled .. u - 1 /\ i \in Nat /\ i <= u
        BY SMTT(30), <1>0, <1>6, <3>2
      <4>2. u - i < RING
        BY SMTT(30), <1>0, <2>1, <4>1, TenantsAssumption
      <4>3. i % RING # d /\ i % RING \in Slots
        BY Zenon, <1>0, <3>2, <4>1, <4>2, SameSlot, SlotOf DEF d
      <4>. QED BY Zenon, <1>4, <2>1, <4>1, <4>3 DEF Intact
    <3>. QED BY <3>1, <3>2
  <2>. QED BY Zenon, <1>5, <2>1, <2>3, <2>4 DEF Intact
<1>. QED BY Zenon, <1>5, <1>7, <1>8 DEF QueueInv, k

\* poll_replies leaves nothing uncollected.
LEMMA CollectKeeps ==
  ASSUME NEW q, QueueInv(q)
  PROVE  LET k == [q EXCEPT !.polled = q.used_idx] IN
         QueueInv(k) /\ k.overrun = q.overrun /\ k.polled = k.used_idx
<1>. DEFINE k == [q EXCEPT !.polled = q.used_idx]
<1>1. /\ q \in Queues /\ q.used_idx \in Nat /\ q.polled \in Nat /\ q.avail_idx \in Nat
      /\ q.polled <= q.used_idx
  BY DEF QueueInv, InOrder, Queues
<1>2. /\ k \in Queues
      /\ k.holding = q.holding /\ k.seen = q.seen /\ k.tx_desc = q.tx_desc /\ k.buf = q.buf
      /\ k.avail = q.avail /\ k.avail_idx = q.avail_idx /\ k.used = q.used
      /\ k.used_idx = q.used_idx /\ k.polled = q.used_idx /\ k.desc = q.desc
      /\ k.overrun = q.overrun
  BY Zenon, <1>1 DEF Queues
<1>. HIDE DEF k
<1>3. q.used_idx <= q.used_idx
  BY <1>1
<1>4. InOrder(k)
  BY Zenon, <1>2, <1>3 DEF InOrder, QueueInv
<1>5. \A i \in q.used_idx .. q.used_idx - 1 : FALSE
  BY <1>1
<1>6. q.avail_idx - q.polled <= RING => q.avail_idx - q.used_idx <= RING
  BY <1>1, TenantsAssumption
<1>7. q.overrun = FALSE => Intact(k)
  BY Zenon, <1>2, <1>5, <1>6 DEF Intact, QueueInv
<1>. QED BY Zenon, <1>2, <1>4, <1>7 DEF QueueInv, k

\* A reply that names the descriptor of this run answers the message of this run.
LEMMA EchoIsOwn ==
  ASSUME NEW q, QueueInv(q), q.overrun = FALSE, NEW r \in Replies(q), r.id = q.desc
  PROVE  r.of = q.avail_idx
<1>1. PICK i \in q.polled .. q.used_idx - 1 : r = q.used[i % RING]
  BY Zenon DEF Replies
<1>2. Intact(q) /\ q.avail_idx - q.polled <= RING
  BY Zenon DEF QueueInv, Intact
<1>3. r = [id |-> i % RING, of |-> i + 1]
  BY Zenon, <1>1, <1>2 DEF Intact
<1>4. /\ q.used_idx \in Nat /\ q.polled \in Nat /\ q.avail_idx \in Nat
      /\ q.used_idx <= q.avail_idx
  BY DEF QueueInv, InOrder, Queues
<1>5. /\ i \in Nat /\ q.avail_idx > 0 /\ q.avail_idx - 1 \in Nat /\ i <= q.avail_idx - 1
      /\ (q.avail_idx - 1) - i < RING
  BY <1>2, <1>4, TenantsAssumption
<1>6. i % RING = (q.avail_idx - 1) % RING
  BY Zenon, <1>3, <1>5 DEF QueueInv, InOrder
<1>7. i = q.avail_idx - 1
  BY Zenon, <1>5, <1>6, SameSlot
<1>. QED BY <1>3, <1>4, <1>7

-----------------------------------------------------------------------------
\* Every queue is in order, and only the tenant that runs has replies that
\* were not collected.
EchoInv ==
  /\ \A t \in Ids : QueueInv(ring[t])
  /\ ring \in [Ids -> Queues] /\ misread \subseteq Ids
  /\ \A t \in Ids : ~ (InSlice /\ active = t) => ring[t].polled = ring[t].used_idx
  /\ EchoAnswersItsPrint

\* A step that changes the queue of one tenant.
LEMMA OneQueue ==
  ASSUME EchoInv, NEW a \in Ids, NEW q, QueueInv(q), ring[a].overrun => q.overrun,
         ring' = [ring EXCEPT ![a] = q], 
         misread' = misread \/ (misread' = misread \cup {a} /\ q.overrun),
         \A t \in Ids \ {a} : ~ (InSlice' /\ active' = t) => ~ (InSlice /\ active = t),
         (InSlice' /\ active' = a) \/ q.polled = q.used_idx
  PROVE  EchoInv'
<1>1. q \in Queues /\ ring \in [Ids -> Queues]
  BY Zenon DEF QueueInv, EchoInv
<1>2. ring' \in [Ids -> Queues] /\ ring'[a] = q /\ \A t \in Ids \ {a} : ring'[t] = ring[t]
  BY <1>1
<1>3. \A t \in Ids : QueueInv(ring'[t])
  BY Zenon, <1>2 DEF EchoInv
<1>4. ASSUME NEW t \in Ids, ~ (InSlice' /\ active' = t)
      PROVE  ring'[t].polled = ring'[t].used_idx
  <2>1. CASE t = a
    BY Zenon, <1>2, <1>4, <2>1
  <2>2. CASE t # a
    <3>1. ~ (InSlice /\ active = t) /\ ring'[t] = ring[t]
      BY Zenon, <1>2, <1>4, <2>2
    <3>. QED BY Zenon, <3>1 DEF EchoInv
  <2>. QED BY Zenon, <2>1, <2>2
<1>5. misread' \subseteq Ids /\ \A t \in misread' : ring'[t].overrun
  BY Zenon, <1>2 DEF EchoInv, EchoAnswersItsPrint
<1>6. \A t \in Ids : QueueInv(ring[t])'
  BY Zenon, <1>3 DEF QueueInv, InOrder, Intact
<1>. QED BY Zenon, <1>2, <1>4, <1>5, <1>6 DEF EchoInv, EchoAnswersItsPrint

LEMMA EchoInvInit == TenantsInit => EchoInv
<1>. SUFFICES ASSUME TenantsInit PROVE EchoInv
  OBVIOUS
<1>1. /\ ring = [t \in Ids |-> EmptyRing] /\ misread = {}
      /\ cpu = "loop"
  BY DEF TenantsInit
<1>2. RING \in Nat /\ RING > 0 /\ 0 \in Slots /\ 0 % RING = 0
  BY TenantsAssumption DEF Slots
<1>3. EmptyRing \in Queues
  BY <1>2 DEF EmptyRing, Queues, Slots
<1>4. InOrder(EmptyRing) /\ EmptyRing.polled = EmptyRing.used_idx
  BY <1>2 DEF EmptyRing, InOrder
<1>5. Intact(EmptyRing)
  BY <1>2 DEF EmptyRing, Intact
<1>. HIDE DEF Slots
<1>6. QueueInv(EmptyRing)
  BY Zenon, <1>3, <1>4, <1>5 DEF QueueInv
<1>7. \A t \in Ids : ring[t] = EmptyRing
  BY Zenon, <1>1
<1>8. ring \in [Ids -> Queues]
  BY Zenon, <1>1, <1>3
<1>. QED BY Zenon, <1>1, <1>4, <1>6, <1>7, <1>8 DEF EchoInv, EchoAnswersItsPrint

LEMMA EchoInvStep == TenantsInv /\ EchoInv /\ [TenantsNext]_tenantVars => EchoInv'
<1>. SUFFICES ASSUME TenantsInv, EchoInv, [TenantsNext]_tenantVars PROVE EchoInv'
  OBVIOUS
<1>0. None \notin Ids
  BY TenantsAssumption DEF None, Ids
<1>1. CASE StartSlice
  <2>1. PICK t \in Ids : t = NextTenant
    BY Zenon, <1>1, NextTenantLives DEF StartSlice, Live, TenantsInv
  <2>2. /\ cpu = "loop" /\ cpu' = "entering" /\ active' = t /\ misread' = misread
        /\ ring' = [ring EXCEPT ![t] = send_print(ring[t])]
    BY Zenon, <1>1, <2>1 DEF StartSlice
  <2>3. ~ InSlice /\ InSlice'
    BY <2>2 DEF InSlice
  <2>4. QueueInv(ring[t]) /\ ring[t].polled = ring[t].used_idx
    BY Zenon, <2>3 DEF EchoInv
  <2>5. QueueInv(send_print(ring[t])) /\ (ring[t].overrun => send_print(ring[t]).overrun)
    BY Zenon, <2>4, SendKeeps
  <2>6. PICK q : q = send_print(ring[t])
    BY Zenon
  <2>. QED BY Zenon, <2>2, <2>3, <2>5, <2>6, OneQueue
<1>2. CASE EndSlice
  <2>1. /\ cpu = "exited" /\ cpu' = "loop" /\ active' = None
        /\ ring' = [ring EXCEPT ![active].polled = ring[active].used_idx]
        /\ misread' = IF \E r \in Replies(ring[active]) :
                           r.id = ring[active].desc /\ r.of # ring[active].avail_idx
                      THEN misread \cup {active} ELSE misread
    BY Zenon, <1>2 DEF EndSlice
  <2>2. PICK a \in Ids : a = active
    BY Zenon, <2>1 DEF TenantsInv, InSlice
  <2>3. PICK q : q = [ring[a] EXCEPT !.polled = ring[a].used_idx]
    BY Zenon
  <2>4. QueueInv(ring[a])
    BY Zenon DEF EchoInv
  <2>5. QueueInv(q) /\ q.overrun = ring[a].overrun /\ q.polled = q.used_idx
    BY Zenon, <2>3, <2>4, CollectKeeps
  <2>6. ring' = [ring EXCEPT ![a] = q]
    BY Zenon, <2>1, <2>2, <2>3
  <2>7. ring[a].overrun \in BOOLEAN
    BY <2>4 DEF QueueInv, Queues
  <2>8. misread' = misread \/ (misread' = misread \cup {a} /\ q.overrun)
    BY Zenon, <2>1, <2>2, <2>4, <2>5, <2>7, EchoIsOwn
  <2>9. InSlice /\ ~ InSlice'
    BY <2>1 DEF InSlice
  <2>. QED BY Zenon, <2>2, <2>5, <2>6, <2>8, <2>9, OneQueue
<1>3. CASE GuestDrains
  <2>1. /\ cpu = "guest" /\ UNCHANGED << cpu, active, misread >>
        /\ ring' = [ring EXCEPT ![active] =
              IF ring[active].holding # << >> THEN guest_put_used(ring[active])
              ELSE guest_poll_avail(ring[active])]
        /\ ring[active].holding # << >> \/ ring[active].seen # ring[active].avail_idx
    BY Zenon, <1>3 DEF GuestDrains
  <2>2. PICK a \in Ids : a = active
    BY Zenon, <2>1 DEF TenantsInv, InSlice
  <2>3. InSlice /\ InSlice' /\ active' = a
    BY <2>1, <2>2 DEF InSlice
  <2>4. QueueInv(ring[a])
    BY Zenon DEF EchoInv
  <2>5. CASE ring[a].holding # << >>
    <3>1. PICK q : q = guest_put_used(ring[a])
      BY Zenon
    <3>2. QueueInv(q) /\ q.overrun = ring[a].overrun
      BY Zenon, <2>4, <2>5, <3>1, PutKeeps
    <3>3. ring' = [ring EXCEPT ![a] = q] /\ misread' = misread
      BY Zenon, <2>1, <2>2, <2>5, <3>1
    <3>. QED BY Zenon, <2>2, <2>3, <3>2, <3>3, OneQueue
  <2>6. CASE ring[a].holding = << >>
    <3>1. PICK q : q = guest_poll_avail(ring[a])
      BY Zenon
    <3>2. QueueInv(q) /\ q.overrun = ring[a].overrun
      BY Zenon, <2>1, <2>2, <2>4, <2>6, <3>1, PollKeeps
    <3>3. ring' = [ring EXCEPT ![a] = q] /\ misread' = misread
      BY Zenon, <2>1, <2>2, <2>6, <3>1
    <3>. QED BY Zenon, <2>2, <2>3, <3>2, <3>3, OneQueue
  <2>. QED BY Zenon, <2>5, <2>6
<1>4. ASSUME UNCHANGED << ring, misread, active >>, InSlice' = InSlice PROVE EchoInv'
  BY ZenonT(40), <1>4 DEF EchoInv, EchoAnswersItsPrint, QueueInv, InOrder, Intact
<1>5. CASE EndPass
  <2>1. cpu = "loop" /\ cpu' \in {"loop", "done"} /\ UNCHANGED << ring, misread, active >>
    BY Zenon, <1>5 DEF EndPass
  <2>2. InSlice' = InSlice
    BY <2>1 DEF InSlice
  <2>. QED BY Zenon, <1>4, <2>1, <2>2
<1>6. CASE enter_guest \/ restore_preempted_guest \/ vm_yield_entry \/ GuestExecutes
  <2>1. /\ cpu \in {"entering", "stub", "guest"} /\ cpu' \in {"stub", "guest", "exited"}
        /\ UNCHANGED << ring, misread, active >>
    BY Zenon, <1>6 DEF enter_guest, restore_preempted_guest, vm_yield_entry, GuestExecutes, Exits
  <2>2. InSlice' = InSlice
    BY <2>1 DEF InSlice
  <2>. QED BY Zenon, <1>4, <2>1, <2>2
<1>7. CASE Tick
  <2>1. UNCHANGED << ring, misread, active >> /\ active # None /\ tick_guest(vm[active])
    BY Zenon, <1>7 DEF Tick
  <2>2. InSlice
    BY Zenon, <2>1 DEF TenantsInv
  <2>3. cpu' = cpu \/ cpu' = "exited"
    BY Zenon, <2>1 DEF tick_guest, Exits
  <2>4. InSlice'
    BY <2>2, <2>3 DEF InSlice
  <2>5. InSlice' = InSlice
    BY <2>2, <2>4 DEF InSlice
  <2>. QED BY Zenon, <1>4, <2>1, <2>5
<1>8. CASE UNCHANGED tenantVars
  <2>1. UNCHANGED << ring, misread, active >> /\ InSlice' = InSlice
    BY Zenon, <1>8 DEF tenantVars, InSlice
  <2>. QED BY Zenon, <1>4, <2>1
<1>. QED
  BY Zenon, <1>1, <1>2, <1>3, <1>5, <1>6, <1>7, <1>8 DEF TenantsNext

\* For every ring size and every way the tick cuts the guest's drain: an echo
\* that poll_replies counts answers the Print of its own run, until the kernel
\* posts over a buffer the guest has not returned (send_print, poll_replies).
THEOREM EchoesAreOwn == TenantsSpec => []EchoAnswersItsPrint
<1>1. EchoInv => EchoAnswersItsPrint
  BY Zenon DEF EchoInv
<1>. QED BY TenantsInvInit, TenantsInvStep, EchoInvInit, EchoInvStep, <1>1, PTL DEF TenantsSpec
=============================================================================
