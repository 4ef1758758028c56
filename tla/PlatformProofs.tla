--------------------------- MODULE PlatformProofs ---------------------------
(***************************************************************************)
(* Theorems about the parts under the kernel: the EL3 monitor, and the      *)
(* cores' interrupt wait with what the distributor and the ticks do to it.  *)
(* Their models share no variable; each part has invariants of its own.     *)
(***************************************************************************)
EXTENDS Monitor, Machine, WellFoundedInduction, TLAPS

-----------------------------------------------------------------------------
(***************************************************************************)
(* Theorems about Monitor, for every number of store slots, keys, cores and *)
(* timer periods: the secure store answers with the last blob stored, no    *)
(* two seals use one key and one counter, every expiry of the secure timer  *)
(* is counted once, and a parked core starts at the address CPU_ON gave.    *)
(*                                                                         *)
(* The four parts of the monitor touch disjoint variables, so each has an   *)
(* inductive invariant of its own.                                         *)
(***************************************************************************)

(* The secure timer *)

\* The poll loop is between ISTATUS and the count only with FIQ masked and an
\* expiry outstanding: the handler cannot count it first.
TickInv ==
  /\ ticks \in Nat /\ expiries \in Nat /\ istatus \in BOOLEAN
  /\ secure \in [ pc : {"none", "loop", "tick", "returned"}, left : Nat,
                  masked : BOOLEAN ]
  /\ secure.pc = "tick" => istatus /\ secure.masked
  /\ SecureTicksCountedOnce

LEMMA TickInit == MonitorInit => TickInv
<1>. SUFFICES ASSUME MonitorInit PROVE TickInv
  OBVIOUS
<1>1. /\ ticks = 0 /\ expiries = 0 /\ ~ istatus /\ istatus \in BOOLEAN
      /\ secure = [pc |-> "none", left |-> 0, masked |-> TRUE]
  BY Zenon DEF MonitorInit, monitor_el3_init
<1>. QED BY <1>1 DEF TickInv, SecureTicksCountedOnce

LEMMA TickStep == TickInv /\ [MonitorNext]_monVars => TickInv'
<1>. SUFFICES ASSUME TickInv, [MonitorNext]_monVars PROVE TickInv'
  OBVIOUS
<1>. USE DEF TickInv, SecureTicksCountedOnce
<1>1. CASE UNCHANGED payload
  BY <1>1 DEF payload
<1>2. CASE enter_secure
  BY <1>2, MonitorAssumption DEF enter_secure
<1>3. CASE TimerExpires
  <2>1. /\ ~ istatus /\ istatus' /\ istatus' \in BOOLEAN
        /\ expiries' = expiries + 1 /\ UNCHANGED << secure, ticks >>
    BY Zenon, <1>3 DEF TimerExpires
  <2>. QED BY <2>1
<1>4. CASE sec_loop
  <2>1. /\ secure.left > 1 /\ UNCHANGED << ticks, istatus, expiries >>
        /\ secure' = IF istatus
                     THEN [pc |-> "tick", left |-> secure.left - 1, masked |-> TRUE]
                     ELSE [secure EXCEPT !.left = @ - 1]
        /\ secure.pc = "loop"
    BY Zenon, <1>4 DEF sec_loop
  <2>2. CASE istatus
    BY <2>1, <2>2
  <2>3. CASE ~ istatus
    BY <2>1, <2>3
  <2>. QED BY <2>2, <2>3
<1>5. CASE sec_loop_Counts
  <2>1. /\ secure.pc = "tick" /\ ticks' = ticks + 1
        /\ ~ istatus' /\ istatus' \in BOOLEAN /\ UNCHANGED expiries
        /\ secure' = [secure EXCEPT !.pc = "loop", !.masked = FALSE]
    BY Zenon, <1>5 DEF sec_loop_Counts, sec_tick_increment
  <2>2. istatus /\ ticks + 1 = expiries
    BY <2>1
  <2>3. secure' \in [ pc : {"loop"}, left : Nat, masked : BOOLEAN ]
    BY Zenon, <2>1
  <2>. QED BY <2>1, <2>2, <2>3
<1>6. CASE sec_fiq
  <2>1. /\ ~ secure.masked /\ istatus /\ ticks' = ticks + 1
        /\ ~ istatus' /\ istatus' \in BOOLEAN /\ UNCHANGED << secure, expiries >>
    BY Zenon, <1>6 DEF sec_fiq, sec_tick_increment
  <2>. QED BY <2>1
<1>7. CASE sec_done
  BY <1>7 DEF sec_done
<1>8. ASSUME \/ \E n \in BlobNames, b \in Blobs : sec_svc_storage_put(n, b)
             \/ \E k \in KeyIds : secure_keybox_gen(k)
             \/ \E k \in KeyIds, encrypt \in BOOLEAN : keybox_cipher(k, encrypt)
      PROVE  UNCHANGED payload
  BY Zenon, <1>8 DEF sec_svc_storage_put, secure_keybox_gen, keybox_cipher,
     monitor_smc_dispatch
<1>9. ASSUME \/ \E c \in PARKED : psci_cpu_on_Begins(c)
             \/ \E c \in PARKED, w \in {"magic", "entry"} : psci_cpu_on_Stores(c, w)
             \/ \E c \in PARKED : psci_cpu_on_Wakes(c)
             \/ \E c \in PARKED : monitor_park_loop(c)
             \/ UNCHANGED monVars
      PROVE  UNCHANGED payload
  BY Zenon, <1>9 DEF psci_cpu_on_Begins, psci_cpu_on_Stores,
     psci_cpu_on_Wakes, monitor_park_loop, monVars
<1>. QED
  BY Zenon, <1>1, <1>2, <1>3, <1>4, <1>5, <1>6, <1>7, <1>8, <1>9 DEF MonitorNext

\* Every expiry of the secure timer is counted exactly once, by the FIQ handler
\* or by the poll loop of sec_payload.s, for every number of iterations and
\* expiries.
THEOREM TicksCounted == MonitorSpec => []SecureTicksCountedOnce
<1>1. TickInv => SecureTicksCountedOnce
  BY Zenon DEF TickInv
<1>. QED BY TickInit, TickStep, <1>1, PTL DEF MonitorSpec

-----------------------------------------------------------------------------
(* CPU_ON *)

\* What CPU_ON has left to do for core c: its command is complete, and was not
\* taken unless the core has started.
Complete(c) ==
  slots[c].entry = SecondaryEntry /\ (startedAt[c] = "parked" => slots[c].magic)

\* A command is complete before its SGI is sent; a word that psci_cpu_on has
\* stored is in the slot, the magic unless the core has started; and a magic
\* without its entry means that the entry is about to be stored.
SlotInv ==
  /\ slots \in [PARKED -> [ magic : BOOLEAN, entry : {NoEntry, SecondaryEntry} ]]
  /\ \A c \in PARKED :
       /\ slots[c].magic => \/ slots[c].entry = SecondaryEntry
                            \/ c \notin wake /\ Storing(c, "entry")
       /\ c \in wake \/ calling = <<"wake", c>> => Complete(c)
       /\ calling[1] = "stores" /\ calling[2] = c =>
            /\ c \notin wake
            /\ startedAt[c] = "parked" /\ "magic" \notin calling[3] => slots[c].magic
            /\ "entry" \notin calling[3] => slots[c].entry = SecondaryEntry
       /\ startedAt[c] \notin {"parked", SecondaryEntry} => c \in early
  /\ startedAt \in [PARKED -> {"parked", NoEntry, SecondaryEntry}]
  /\ secure.pc \in {"loop", "tick"} => calling = <<"secure">>

LEMMA SlotInit == MonitorInit => SlotInv
BY DEF MonitorInit, monitor_el3_init, SlotInv, Complete, Storing

LEMMA SlotStep == SlotInv /\ [MonitorNext]_monVars => SlotInv'
<1>. SUFFICES ASSUME SlotInv, [MonitorNext]_monVars PROVE SlotInv'
  OBVIOUS
<1>1. ASSUME UNCHANGED << psci, calling >>,
             secure'.pc \in {"loop", "tick"} => secure.pc \in {"loop", "tick"}
      PROVE  SlotInv'
  BY Zenon, <1>1 DEF psci, SlotInv, Complete, Storing
<1>2. ASSUME UNCHANGED psci, calling[1] # "stores",
             \/ calling' = <<"secure">>
             \/ calling' = <<"kernel">> /\ secure'.pc = "returned"
      PROVE  SlotInv'
  BY <1>2 DEF psci, SlotInv, Complete, Storing
<1>3. ASSUME NEW c \in PARKED, psci_cpu_on_Begins(c) PROVE SlotInv'
  BY <1>3 DEF psci_cpu_on_Begins, psci, payload, SlotInv, Complete, Storing
<1>4. ASSUME NEW c \in PARKED, NEW w \in {"magic", "entry"}, psci_cpu_on_Stores(c, w)
      PROVE  SlotInv'
  <2>1. /\ Storing(c, w) /\ UNCHANGED << wake, startedAt, early, secure >>
        /\ StoreWord(c, w) /\ calling' = AfterStore(c, w)
    BY Zenon, <1>4 DEF psci_cpu_on_Stores, payload
  <2>2. secure'.pc \notin {"loop", "tick"}
    BY <2>1 DEF SlotInv, Storing
  <2>3. calling' = <<"wake", c>> \/ calling' = <<"stores", c, calling[3] \ {w}>>
    BY Zenon, <2>1 DEF AfterStore
  <2>4. calling' = <<"wake", c>> => calling[3] = {w}
    BY <2>1 DEF AfterStore
  <2>5. CASE w = "magic"
    <3>1. /\ slots' = [slots EXCEPT ![c].magic = TRUE]
          /\ slots' \in [PARKED -> [ magic : BOOLEAN, entry : {NoEntry, SecondaryEntry} ]]
      BY <2>1, <2>5 DEF StoreWord, SlotInv
    <3>2. /\ \A d \in PARKED : slots'[d].entry = slots[d].entry
          /\ \A d \in PARKED \ {c} : slots'[d].magic = slots[d].magic
          /\ slots'[c].magic
      BY <3>1 DEF SlotInv
    <3>. QED BY <2>1, <2>2, <2>3, <2>4, <2>5, <3>1, <3>2 DEF SlotInv, Complete, Storing
  <2>6. CASE w = "entry"
    <3>1. /\ slots' = [slots EXCEPT ![c].entry = SecondaryEntry]
          /\ slots' \in [PARKED -> [ magic : BOOLEAN, entry : {NoEntry, SecondaryEntry} ]]
      BY <2>1, <2>6 DEF StoreWord, SlotInv
    <3>2. /\ \A d \in PARKED : slots'[d].magic = slots[d].magic
          /\ \A d \in PARKED \ {c} : slots'[d].entry = slots[d].entry
          /\ slots'[c].entry = SecondaryEntry
      BY <3>1 DEF SlotInv
    <3>. QED BY <2>1, <2>2, <2>3, <2>4, <2>6, <3>1, <3>2 DEF SlotInv, Complete, Storing
  <2>. QED BY Zenon, <2>5, <2>6
<1>5. ASSUME NEW c \in PARKED, psci_cpu_on_Wakes(c) PROVE SlotInv'
  BY <1>5 DEF psci_cpu_on_Wakes, payload, SlotInv, Complete, Storing
<1>6. ASSUME NEW c \in PARKED, monitor_park_loop(c) PROVE SlotInv'
  <2>1. /\ startedAt[c] = "parked" /\ slots[c].magic
        /\ slots' = [slots EXCEPT ![c].magic = FALSE]
        /\ startedAt' = [startedAt EXCEPT ![c] = slots[c].entry]
        /\ UNCHANGED << wake, calling, secure >>
    BY Zenon, <1>6 DEF monitor_park_loop, payload
  <2>2. early \subseteq early' /\ (c \notin wake /\ Storing(c, "entry") => c \in early')
    BY Zenon, <1>6 DEF monitor_park_loop
  <2>3. /\ slots' \in [PARKED -> [ magic : BOOLEAN, entry : {NoEntry, SecondaryEntry} ]]
        /\ \A d \in PARKED : slots'[d].entry = slots[d].entry
        /\ \A d \in PARKED \ {c} : slots'[d].magic = slots[d].magic
        /\ ~ slots'[c].magic
    BY <2>1 DEF SlotInv
  <2>4. /\ startedAt' \in [PARKED -> {"parked", NoEntry, SecondaryEntry}]
        /\ startedAt'[c] = slots[c].entry /\ slots[c].entry # "parked"
        /\ \A d \in PARKED \ {c} : startedAt'[d] = startedAt[d]
    BY <2>1 DEF SlotInv, NoEntry, SecondaryEntry
  <2>5. slots[c].entry = SecondaryEntry \/ c \in early'
    BY Zenon, <2>1, <2>2 DEF SlotInv
  <2>. QED
    BY <2>1, <2>2, <2>3, <2>4, <2>5 DEF SlotInv, Complete, Storing
<1>7. ASSUME \/ \E n \in BlobNames, b \in Blobs : sec_svc_storage_put(n, b)
             \/ \E k \in KeyIds : secure_keybox_gen(k)
             \/ \E k \in KeyIds, encrypt \in BOOLEAN : keybox_cipher(k, encrypt)
             \/ UNCHANGED monVars
      PROVE  UNCHANGED << psci, calling, secure >>
  BY Zenon, <1>7 DEF sec_svc_storage_put, secure_keybox_gen, keybox_cipher,
     monitor_smc_dispatch, monVars, payload
<1>8. ASSUME TimerExpires \/ sec_loop \/ sec_loop_Counts \/ sec_fiq
      PROVE  UNCHANGED << psci, calling >> /\ secure.pc \in {"loop", "tick"}
  BY Zenon, <1>8 DEF TimerExpires, sec_loop, sec_loop_Counts, sec_fiq
<1>9. CASE enter_secure
  <2>1. calling = <<"kernel">> /\ UNCHANGED psci /\ calling' = <<"secure">>
    BY Zenon, <1>9 DEF enter_secure
  <2>2. calling[1] # "stores"
    BY <2>1
  <2>. QED BY Zenon, <1>2, <2>1, <2>2
<1>10. CASE sec_done
  <2>1. /\ secure.pc = "loop" /\ UNCHANGED psci /\ calling' = <<"kernel">>
        /\ secure' = [ pc |-> "returned", left |-> 0, masked |-> TRUE ]
    BY Zenon, <1>10 DEF sec_done
  <2>2. secure'.pc = "returned" /\ calling = <<"secure">>
    BY <2>1 DEF SlotInv
  <2>3. calling[1] # "stores"
    BY <2>2
  <2>. QED BY Zenon, <1>2, <2>1, <2>2, <2>3
<1>. QED
  BY Zenon, <1>1, <1>3, <1>4, <1>5, <1>6, <1>7, <1>8, <1>9, <1>10 DEF MonitorNext

\* Whatever the order in which psci_cpu_on's two stores reach the slot, and
\* whenever monitor_park_loop looks at it, a core whose CPU_ON has returned runs
\* where it was asked or still has its whole command, unless it left WFI unasked
\* between the two stores.
THEOREM Started == MonitorSpec => []StartedWhereAsked
<1>1. SlotInv => StartedWhereAsked
  BY DEF SlotInv, StartedWhereAsked, Complete
<1>. QED BY SlotInit, SlotStep, <1>1, PTL DEF MonitorSpec

-----------------------------------------------------------------------------
(* The keybox *)

\* Keys are minted once, valid slots hold different keys, and a key's counter
\* is past every counter it has sealed with.
SealInv ==
  /\ gens \in Nat
  /\ keybox \in [KeyIds -> [ valid : BOOLEAN, key : Nat, ctr : Nat ]]
  /\ \A k \in KeyIds : keybox[k].valid => keybox[k].key \in 1 .. gens
  /\ \A k, l \in KeyIds :
       keybox[k].valid /\ keybox[l].valid /\ keybox[k].key = keybox[l].key => k = l
  /\ sealedWith \subseteq (1 .. gens) \X Nat
  /\ \A p \in sealedWith : \A k \in KeyIds :
       keybox[k].valid /\ keybox[k].key = p[1] => p[2] < keybox[k].ctr
  /\ padTwice = FALSE

LEMMA SealInit == MonitorInit => SealInv
BY DEF MonitorInit, monitor_el3_init, SealInv

LEMMA SealStep == SealInv /\ [MonitorNext]_monVars => SealInv'
<1>. SUFFICES ASSUME SealInv, [MonitorNext]_monVars PROVE SealInv'
  OBVIOUS
<1>1. CASE UNCHANGED << keybox, gens, sealedWith, padTwice >>
  BY <1>1 DEF SealInv
<1>2. ASSUME NEW id \in KeyIds, secure_keybox_gen(id) PROVE SealInv'
  <2>1. /\ gens' = gens + 1 /\ UNCHANGED << sealedWith, padTwice >>
        /\ keybox' = [keybox EXCEPT ![id] = [valid |-> TRUE, key |-> gens + 1, ctr |-> 0]]
    BY Zenon, <1>2 DEF secure_keybox_gen
  <2>. QED BY <2>1 DEF SealInv
<1>3. ASSUME NEW id \in KeyIds, NEW encrypt \in BOOLEAN, keybox_cipher(id, encrypt)
      PROVE  SealInv'
  <2>. DEFINE k == keybox[id]
  <2>1. PICK next \in NextCtr(k.ctr) : keybox' = [keybox EXCEPT ![id].ctr = next]
    BY Zenon, <1>3 DEF keybox_cipher
  <2>2. next = k.ctr + 1 /\ next \in Nat
    BY <2>1 DEF NextCtr, SealInv
  <2>3. /\ k.valid /\ gens' = gens
        /\ sealedWith' = IF encrypt THEN sealedWith \cup {<<k.key, k.ctr>>}
                                    ELSE sealedWith
        /\ padTwice' = (padTwice \/ (encrypt /\ <<k.key, k.ctr>> \in sealedWith))
    BY Zenon, <1>3 DEF keybox_cipher, xtea_cfb
  <2>4. <<k.key, k.ctr>> \notin sealedWith
    BY <2>3 DEF SealInv
  <2>5. padTwice' = FALSE
    BY Zenon, <2>3, <2>4 DEF SealInv
  <2>6. sealedWith' \subseteq sealedWith \cup {<<k.key, k.ctr>>}
    BY Zenon, <2>3
  <2>. QED BY <2>1, <2>2, <2>3, <2>5, <2>6 DEF SealInv
<1>4. ASSUME \/ \E n \in BlobNames, b \in Blobs : sec_svc_storage_put(n, b)
             \/ UNCHANGED monVars
      PROVE  UNCHANGED << keybox, gens, sealedWith, padTwice >>
  BY Zenon, <1>4 DEF sec_svc_storage_put, monVars, services
<1>5. ASSUME \/ \E c \in PARKED : psci_cpu_on_Begins(c)
             \/ \E c \in PARKED, w \in {"magic", "entry"} : psci_cpu_on_Stores(c, w)
             \/ \E c \in PARKED : psci_cpu_on_Wakes(c)
             \/ \E c \in PARKED : monitor_park_loop(c)
             \/ enter_secure \/ TimerExpires \/ sec_loop \/ sec_loop_Counts
             \/ sec_fiq \/ sec_done
      PROVE  UNCHANGED << keybox, gens, sealedWith, padTwice >>
  <2>1. UNCHANGED services
    BY Zenon, <1>5 DEF psci_cpu_on_Begins, psci_cpu_on_Stores, psci_cpu_on_Wakes,
       monitor_park_loop, enter_secure, TimerExpires, sec_loop, sec_loop_Counts,
       sec_fiq, sec_done
  <2>. QED BY Zenon, <2>1 DEF services
<1>. QED
  BY Zenon, <1>1, <1>2, <1>3, <1>4, <1>5 DEF MonitorNext

\* keybox_cipher never seals twice with one key and one counter, whatever the
\* largest counter, the keys and the order of seals, unseals and new keys.
THEOREM NoSharedPad == MonitorSpec => []SealsNeverSharePad
<1>1. SealInv => SealsNeverSharePad
  BY DEF SealInv, SealsNeverSharePad
<1>. QED BY SealInit, SealStep, <1>1, PTL DEF MonitorSpec

-----------------------------------------------------------------------------
(* The secure store *)

NatLess == { p \in Nat \X Nat : p[1] < p[2] }

\* A nonempty set of naturals has a least element: the search for a slot finds
\* one whenever there is one.
LEMMA LeastSlot ==
  ASSUME NEW S \in SUBSET Nat, S # {}
  PROVE  \E x \in S : \A y \in S : x <= y
<1>1. IsWellFoundedOn(NatLess, Nat)
  BY NatLessThanWellFounded DEF OpToRel, NatLess
<1>2. PICK x \in S : \A y \in S : ~ (<<y, x>> \in NatLess)
  BY Zenon, <1>1, WFMin
<1>3. ASSUME NEW y \in S PROVE x <= y
  <2>1. x \in Nat /\ y \in Nat
    OBVIOUS
  <2>2. ~ (y < x)
    BY Zenon, <1>2, <2>1 DEF NatLess
  <2>. QED BY <2>1, <2>2
<1>. QED BY <1>3

StoreSlots == 1 .. STORE_SLOTS

\* A name has at most one slot, which holds the blob of its last PUT, and a
\* name that was never stored has none.
StoreInv ==
  /\ store \in [StoreSlots -> [ used : BOOLEAN, name : BlobNames \cup {"-"},
                                blob : Blobs \cup {"-"} ]]
  /\ \A i, j \in StoreSlots :
       store[i].used /\ store[j].used /\ store[i].name = store[j].name => i = j
  /\ \A i \in StoreSlots : store[i].used =>
       /\ store[i].name \in DOMAIN lastPut
       /\ lastPut[store[i].name] = store[i].blob
  /\ \A n \in DOMAIN lastPut : \E i \in StoreSlots : store[i].used /\ store[i].name = n

LEMMA StoreInit == MonitorInit => StoreInv
<1>. SUFFICES ASSUME MonitorInit PROVE StoreInv
  OBVIOUS
<1>1. store = [i \in StoreSlots |-> Free] /\ lastPut = << >>
  BY Zenon DEF MonitorInit, monitor_el3_init, StoreSlots
<1>2. \A i \in StoreSlots : ~ store[i].used
  BY <1>1 DEF Free
<1>3. DOMAIN lastPut = {}
  BY <1>1
<1>4. store \in [StoreSlots -> [ used : BOOLEAN, name : BlobNames \cup {"-"},
                                 blob : Blobs \cup {"-"} ]]
  BY <1>1 DEF Free
<1>. QED BY Zenon, <1>2, <1>3, <1>4 DEF StoreInv

\* The slot PUT takes holds that name already, or is free and no slot holds it.
LEMMA PutSlotFacts ==
  ASSUME NEW n, NEW i \in PutSlot(n)
  PROVE  /\ i \in StoreSlots
         /\ \/ store[i].used /\ store[i].name = n
            \/ ~ store[i].used /\ \A j \in StoreSlots : ~ (store[j].used /\ store[j].name = n)
<1>. DEFINE named == { j \in 1 .. STORE_SLOTS : store[j].used /\ store[j].name = n }
            clear == { j \in 1 .. STORE_SLOTS : ~ store[j].used }
            first(S) == CHOOSE j \in S : \A k \in S : j <= k
<1>1. named \in SUBSET Nat /\ clear \in SUBSET Nat
  OBVIOUS
<1>2. i \in IF named # {} THEN {first(named)} ELSE IF clear # {} THEN {first(clear)} ELSE {}
  BY Zenon DEF PutSlot
<1>3. ASSUME NEW S \in SUBSET Nat, S # {} PROVE first(S) \in S
  BY Zenon, <1>3, LeastSlot
<1>4. CASE named # {}
  <2>1. i \in named
    BY Zenon, <1>1, <1>2, <1>3, <1>4
  <2>. QED BY Zenon, <2>1 DEF StoreSlots
<1>5. CASE named = {}
  <2>1. i \in clear
    BY Zenon, <1>1, <1>2, <1>3, <1>5
  <2>2. \A j \in StoreSlots : ~ (store[j].used /\ store[j].name = n)
    BY Zenon, <1>5 DEF StoreSlots
  <2>. QED BY Zenon, <2>1, <2>2 DEF StoreSlots
<1>. QED BY Zenon, <1>4, <1>5

LEMMA StoreStep == StoreInv /\ [MonitorNext]_monVars => StoreInv'
<1>. SUFFICES ASSUME StoreInv, [MonitorNext]_monVars PROVE StoreInv'
  OBVIOUS
<1>1. CASE UNCHANGED << store, lastPut >>
  BY <1>1 DEF StoreInv, StoreSlots
<1>2. ASSUME NEW n \in BlobNames, NEW b \in Blobs, sec_svc_storage_put(n, b)
      PROVE  StoreInv'
  <2>. DEFINE full == [used |-> TRUE, name |-> n, blob |-> b]
  <2>1. PICK i \in PutSlot(n) :
          /\ store' = [store EXCEPT ![i] = full]
          /\ lastPut' = [m \in DOMAIN lastPut \cup {n} |-> IF m = n THEN b ELSE lastPut[m]]
    BY Zenon, <1>2 DEF sec_svc_storage_put
  <2>2. i \in StoreSlots
    BY Zenon, <2>1, PutSlotFacts
  <2>3. \A j \in StoreSlots : j # i => ~ (store[j].used /\ store[j].name = n)
    <3>1. CASE store[i].used /\ store[i].name = n
      BY <2>2, <3>1 DEF StoreInv
    <3>2. CASE \A j \in StoreSlots : ~ (store[j].used /\ store[j].name = n)
      BY Zenon, <3>2
    <3>. QED BY Zenon, <2>1, PutSlotFacts, <3>1, <3>2
  <2>4. /\ store' \in [StoreSlots -> [ used : BOOLEAN, name : BlobNames \cup {"-"},
                                       blob : Blobs \cup {"-"} ]]
        /\ store'[i] = full /\ \A j \in StoreSlots : j # i => store'[j] = store[j]
    BY <2>1, <2>2 DEF StoreInv
  <2>5. full.used /\ full.name = n /\ full.blob = b
    OBVIOUS
  <2>6. /\ DOMAIN lastPut' = DOMAIN lastPut \cup {n} /\ lastPut'[n] = b
        /\ \A m \in DOMAIN lastPut : m # n => lastPut'[m] = lastPut[m]
    BY Zenon, <2>1
  <2>7. \A j, k \in StoreSlots :
          store'[j].used /\ store'[k].used /\ store'[j].name = store'[k].name => j = k
    BY <2>3, <2>4, <2>5 DEF StoreInv
  <2>8. \A j \in StoreSlots : store'[j].used =>
          store'[j].name \in DOMAIN lastPut' /\ lastPut'[store'[j].name] = store'[j].blob
    BY <2>3, <2>4, <2>5, <2>6 DEF StoreInv
  <2>9. ASSUME NEW m \in DOMAIN lastPut'
        PROVE  \E j \in StoreSlots : store'[j].used /\ store'[j].name = m
    <3>1. CASE m = n
      BY Zenon, <2>2, <2>4, <2>5, <3>1
    <3>2. CASE m # n
      <4>1. PICK j \in StoreSlots : store[j].used /\ store[j].name = m
        BY Zenon, <2>6, <3>2 DEF StoreInv
      <4>2. j # i
        BY Zenon, <2>1, <3>2, <4>1, PutSlotFacts
      <4>. QED BY Zenon, <2>4, <4>1, <4>2
    <3>. QED BY Zenon, <3>1, <3>2
  <2>. QED BY Zenon, <2>4, <2>7, <2>8, <2>9 DEF StoreInv
<1>3. ASSUME \/ \E k \in KeyIds : secure_keybox_gen(k)
             \/ \E k \in KeyIds, encrypt \in BOOLEAN : keybox_cipher(k, encrypt)
      PROVE  UNCHANGED << store, lastPut >>
  BY Zenon, <1>3 DEF secure_keybox_gen, keybox_cipher
<1>4. ASSUME \/ \E c \in PARKED : psci_cpu_on_Begins(c)
             \/ \E c \in PARKED, w \in {"magic", "entry"} : psci_cpu_on_Stores(c, w)
             \/ \E c \in PARKED : psci_cpu_on_Wakes(c)
             \/ \E c \in PARKED : monitor_park_loop(c)
             \/ enter_secure \/ TimerExpires \/ sec_loop \/ sec_loop_Counts
             \/ sec_fiq \/ sec_done \/ UNCHANGED monVars
      PROVE  UNCHANGED << store, lastPut >>
  <2>1. UNCHANGED services
    BY Zenon, <1>4 DEF psci_cpu_on_Begins, psci_cpu_on_Stores, psci_cpu_on_Wakes,
       monitor_park_loop, enter_secure, TimerExpires, sec_loop, sec_loop_Counts,
       sec_fiq, sec_done, monVars
  <2>. QED BY Zenon, <2>1 DEF services
<1>. QED BY Zenon, <1>1, <1>2, <1>3, <1>4 DEF MonitorNext

\* SEC_STORAGE_GET returns the blob of the last successful PUT of that name, for
\* every number of slots and every order of names: sec_svc_storage_put looks for
\* the name before it takes a free slot.
THEOREM LastPutIsRead == MonitorSpec => []StoreHoldsLastPut
<1>1. ASSUME StoreInv, NEW n \in BlobNames
      PROVE  sec_svc_storage_get(n) =
               IF n \in DOMAIN lastPut THEN lastPut[n] ELSE "absent"
  <2>. DEFINE named == { i \in 1 .. STORE_SLOTS : store[i].used /\ store[i].name = n }
              first == CHOOSE i \in named : \A j \in named : i <= j
  <2>1. sec_svc_storage_get(n) = IF named = {} THEN "absent" ELSE store[first].blob
    BY Zenon DEF sec_svc_storage_get
  <2>2. CASE named = {}
    <3>1. n \notin DOMAIN lastPut
      BY Zenon, <1>1, <2>2 DEF StoreInv, StoreSlots
    <3>. QED BY Zenon, <2>1, <2>2, <3>1
  <2>3. CASE named # {}
    <3>1. named \in SUBSET Nat
      OBVIOUS
    <3>2. first \in named
      BY Zenon, <2>3, <3>1, LeastSlot
    <3>. HIDE DEF first
    <3>3. first \in StoreSlots /\ store[first].used /\ store[first].name = n
      BY Zenon, <3>2 DEF StoreSlots
    <3>4. n \in DOMAIN lastPut /\ lastPut[n] = store[first].blob
      BY <1>1, <3>3 DEF StoreInv
    <3>. QED BY Zenon, <2>1, <2>3, <3>4
  <2>. QED BY Zenon, <2>2, <2>3
<1>2. StoreInv => StoreHoldsLastPut
  BY Zenon, <1>1 DEF StoreHoldsLastPut
<1>. QED BY StoreInit, StoreStep, <1>2, PTL DEF MonitorSpec

-----------------------------------------------------------------------------
(***************************************************************************)
(* SYS_WAIT_IRQ returns at most once per interrupt of the device, for every *)
(* number of cores, whichever of them waits, and whatever the ticks, pokes  *)
(* and other system calls do meanwhile.  The invariant counts an interrupt  *)
(* that is raised and not yet recorded, or recorded and not yet consumed,   *)
(* as still owed, and says when the line may be enabled in the distributor. *)
(***************************************************************************)

IdlePlaces == {"pick", "picking", "daifclr", "wfi", "asleep", "daifset"}
WaitPlaces == {"w_take", "w_daifclr", "w_check", "w_wfi", "w_asleep", "w_daifset"}
BootPlaces == {"bring_up", "add_idle", "adding", "cpu_on", "set_online", "enter",
               "entering", "off", "absent", "init"}
CallPlaces == {"user", "s_lock", "s_locked"}
Places == BootPlaces \cup CallPlaces \cup IdlePlaces \cup WaitPlaces \cup {"w_ack"}
HandlerPlaces == {"none", "t_lock", "t_locked", "d_disable", "d_poke"}

Busy(c) == pc[c] \in WaitPlaces \cup {"w_ack"}

\* The handler has recorded the interrupt and is about to mask its line.
Masking == h[0] = "d_disable"

\* Interrupts the driver has not been told of.
Owed == IF bit \/ (line /\ \A c \in Cores : pc[c] # "w_ack") THEN 1 ELSE 0

IrqInv ==
  /\ pc \in [Cores -> Places] /\ h \in [Cores -> HandlerPlaces]
  /\ back \in [Secondaries -> IdlePlaces]
  /\ {line, spi, bit} \subseteq BOOLEAN
  /\ asserted \in Nat /\ returned \in Nat
  \* one core at a time waits or acknowledges
  /\ \A c, d \in Cores : Busy(c) /\ Busy(d) => c = d
  \* the line stays up until it is acknowledged, and the bit is gone by then
  /\ bit => line
  /\ \A c \in Cores : pc[c] = "w_ack" => line /\ ~ bit
  \* a core that has seen the bit is the only one that clears it
  /\ \A c \in Cores : pc[c] = "w_daifset" => bit
  \* while an interrupt is recorded or being acknowledged, the line is masked
  \* or the handler is about to mask it
  /\ bit \/ (\E c \in Cores : pc[c] = "w_ack") => ~ spi \/ Masking
  \* the line is enabled, and the bit set, on behalf of a waiting core
  /\ spi /\ ~ Masking => \E c \in Cores : pc[c] \in WaitPlaces
  /\ bit => \E c \in Cores : pc[c] \in WaitPlaces
  /\ returned + Owed <= asserted

LEMMA IrqInvInit == MachineInit => IrqInv
<1>. SUFFICES ASSUME MachineInit PROVE IrqInv
  OBVIOUS
<1>1. /\ line = FALSE /\ spi = FALSE /\ bit = FALSE /\ asserted = 0 /\ returned = 0
      /\ {line, spi, bit} \subseteq BOOLEAN
  BY Zenon DEF MachineInit
<1>2. /\ pc = [ c \in Cores |-> IF c = 0 THEN "bring_up" ELSE "off" ]
      /\ h = [ c \in Cores |-> "none" ] /\ back = [ c \in Secondaries |-> "pick" ]
  BY Zenon DEF MachineInit
<1>3. Owed = 0
  BY Zenon, <1>1 DEF Owed
<1>4. \A c \in Cores : pc[c] \in {"bring_up", "off"}
  BY <1>2
<1>5. \A c \in Cores : pc[c] # "w_ack" /\ pc[c] # "w_daifset" /\ ~ Busy(c)
  BY <1>4 DEF Busy, WaitPlaces
<1>6. /\ pc \in [Cores -> Places] /\ h \in [Cores -> HandlerPlaces]
      /\ back \in [Secondaries -> IdlePlaces]
  BY <1>2 DEF IdlePlaces, Places, BootPlaces, HandlerPlaces
<1>7. asserted \in Nat /\ returned \in Nat /\ returned + Owed <= asserted
  BY <1>1, <1>3
<1>. QED BY Zenon, <1>1, <1>5, <1>6, <1>7 DEF IrqInv

-----------------------------------------------------------------------------
(* Steps that have nothing to do with the device *)

\* A core that goes from p to q neither enters nor leaves the wait and the
\* acknowledgement.
SameKind(p, q) ==
  /\ q \in WaitPlaces <=> p \in WaitPlaces
  /\ q = "w_ack" <=> p = "w_ack"
  /\ q = "w_daifset" => p = "w_daifset"

\* A step that leaves the device, the bit and the line alone, and moves no core
\* into or out of the wait and the acknowledgement, keeps the invariant.
LEMMA Elsewhere ==
  ASSUME IrqInv, UNCHANGED irqVars, Masking' <=> Masking,
         pc' \in [Cores -> Places], h' \in [Cores -> HandlerPlaces],
         back' \in [Secondaries -> IdlePlaces],
         \A c \in Cores : SameKind(pc[c], pc'[c])
  PROVE  IrqInv'
<1>1. UNCHANGED << line, spi, bit, asserted, returned >>
  BY Zenon DEF irqVars
<1>2. \A c \in Cores : Busy(c)' <=> Busy(c)
  BY Zenon DEF Busy, SameKind
<1>3. \A c \in Cores : /\ pc'[c] = "w_ack" <=> pc[c] = "w_ack"
                       /\ pc'[c] \in WaitPlaces <=> pc[c] \in WaitPlaces
                       /\ pc'[c] = "w_daifset" => pc[c] = "w_daifset"
  BY Zenon DEF SameKind
<1>4. Owed' = Owed
  BY Zenon, <1>1, <1>3 DEF Owed
<1>. QED BY Zenon, <1>1, <1>2, <1>3, <1>4 DEF IrqInv

\* The same for a step of one core, in its main context or in a handler.
LEMMA Moves ==
  ASSUME IrqInv, UNCHANGED irqVars, NEW c \in Cores,
         \/ UNCHANGED h
         \/ \E x \in HandlerPlaces \ {"d_disable"} :
               h[c] # "d_disable" /\ h' = [ h EXCEPT ![c] = x ],
         \/ UNCHANGED pc
         \/ \E p \in Places : SameKind(pc[c], p) /\ pc' = [ pc EXCEPT ![c] = p ],
         back' \in [Secondaries -> IdlePlaces]
  PROVE  IrqInv'
<1>1. pc \in [Cores -> Places] /\ h \in [Cores -> HandlerPlaces]
  BY Zenon DEF IrqInv
<1>2. 0 \in Cores
  BY DEF Cores
<1>3. h' \in [Cores -> HandlerPlaces] /\ (Masking' <=> Masking)
  BY <1>1, <1>2 DEF Masking
<1>4. \A p : SameKind(p, p)
  BY DEF SameKind
<1>5. pc' \in [Cores -> Places] /\ \A d \in Cores : SameKind(pc[d], pc'[d])
  BY <1>1, <1>4
<1>. QED BY Zenon, <1>3, <1>5, Elsewhere

LEMMA SameKindElsewhere ==
  ASSUME NEW p \in BootPlaces \cup CallPlaces \cup IdlePlaces,
         NEW q \in BootPlaces \cup CallPlaces \cup IdlePlaces
  PROVE  SameKind(p, q) /\ q \in Places
BY DEF SameKind, BootPlaces, CallPlaces, IdlePlaces, WaitPlaces, Places

Outside == BootPlaces \cup CallPlaces \cup IdlePlaces

\* A step of the main context of c, outside the wait and the acknowledgement.
LEMMA MainMoves ==
  ASSUME IrqInv, UNCHANGED << irqVars, h >>, NEW c \in Cores,
         NEW p \in Outside, pc[c] \in Outside, pc' = [ pc EXCEPT ![c] = p ],
         back' \in [Secondaries -> IdlePlaces]
  PROVE  IrqInv'
BY Zenon, Moves, SameKindElsewhere DEF Outside

LEMMA BootStep ==
  ASSUME IrqInv, bring_up \/ add_idle \/ set_online \/ enter
  PROVE  IrqInv'
<1>1. UNCHANGED << irqVars, h >> /\ back' \in [Secondaries -> IdlePlaces]
  BY Zenon DEF IrqInv, bring_up, add_idle, set_online, enter
<1>2. PICK p \in Outside : pc' = [ pc EXCEPT ![0] = p ]
  BY DEF bring_up, add_idle, set_online, enter, Goto, Outside, BootPlaces, CallPlaces
<1>3. pc[0] \in Outside
  BY DEF bring_up, add_idle, set_online, enter, At, Outside, BootPlaces
<1>4. 0 \in Cores
  BY DEF Cores
<1>. QED BY Zenon, <1>1, <1>2, <1>3, <1>4, MainMoves

LEMMA SecondaryStep ==
  ASSUME IrqInv, NEW c \in Secondaries,
         kmain_secondary_entry(c) \/ secondary_enter(c)
  PROVE  IrqInv'
<1>1. UNCHANGED << irqVars, h >>
  BY Zenon DEF kmain_secondary_entry, secondary_enter
<1>2. PICK p \in Outside : pc' = [ pc EXCEPT ![c] = p ]
  BY SMTT(30) DEF kmain_secondary_entry, secondary_enter, Goto, Outside, CallPlaces, IdlePlaces
<1>3. pc[c] \in Outside
  BY DEF kmain_secondary_entry, secondary_enter, At, Outside, BootPlaces, IdlePlaces
<1>4. UNCHANGED back \/ back' = [ back EXCEPT ![c] = "pick" ]
  BY Zenon DEF kmain_secondary_entry, secondary_enter
<1>5. back' \in [Secondaries -> IdlePlaces]
  BY <1>4 DEF IrqInv, IdlePlaces
<1>6. c \in Cores
  BY DEF Cores
<1>. QED BY Zenon, <1>1, <1>2, <1>3, <1>5, <1>6, MainMoves

LEMMA CpuOnStep ==
  ASSUME IrqInv, NEW c \in Secondaries, cpu_on(c)
  PROVE  IrqInv'
<1>1. UNCHANGED << irqVars, h, back >>
  BY Zenon DEF cpu_on
<1>2. PICK p \in Outside, q \in Outside : pc' = [ pc EXCEPT ![c] = p, ![0] = q ]
  BY Zenon DEF cpu_on, Outside, BootPlaces
<1>3. pc[c] \in Outside /\ pc[0] \in Outside
  BY DEF cpu_on, At, Outside, BootPlaces
<1>4. \A x : SameKind(x, x)
  BY DEF SameKind
<1>5. SameKind(pc[c], p) /\ SameKind(pc[0], q) /\ SameKind(pc[c], q)
      /\ p \in Places /\ q \in Places
  BY Zenon, <1>3, SameKindElsewhere DEF Outside
<1>6. pc \in [Cores -> Places]
  BY Zenon DEF IrqInv
<1>7. pc' \in [Cores -> Places] /\ \A d \in Cores : SameKind(pc[d], pc'[d])
  BY Zenon, <1>2, <1>4, <1>5, <1>6
<1>8. (Masking' <=> Masking) /\ h' \in [Cores -> HandlerPlaces]
      /\ back' \in [Secondaries -> IdlePlaces]
  BY Zenon, <1>1 DEF Masking, IrqInv
<1>. QED BY Zenon, <1>1, <1>7, <1>8, Elsewhere

LEMMA SyscallStep ==
  ASSUME IrqInv, NEW c \in Cores, tanix_syscall(c)
  PROVE  IrqInv'
<1>1. UNCHANGED << irqVars, h >> /\ back' \in [Secondaries -> IdlePlaces]
  BY Zenon DEF IrqInv, tanix_syscall
<1>2. c \in Secondaries => back[c] \in Outside
  BY DEF IrqInv, Outside
<1>3. \/ \E p \in CallPlaces : pc' = [ pc EXCEPT ![c] = p ]
      \/ c \in Secondaries /\ pc' = [ pc EXCEPT ![c] = back[c] ]
  BY Zenon DEF tanix_syscall, Goto, CallPlaces
<1>4. PICK p \in Outside : pc' = [ pc EXCEPT ![c] = p ]
  BY Zenon, <1>2, <1>3 DEF Outside
<1>5. pc[c] \in Outside
  BY Zenon DEF tanix_syscall, At, Outside, CallPlaces
<1>. QED BY Zenon, <1>1, <1>4, <1>5, MainMoves

\* An interrupt wakes a sleeping core within the idle loop or the wait.
LEMMA WokenIsSameKind ==
  ASSUME NEW c \in Cores, IrqInv
  PROVE  SameKind(pc[c], Woken(c)) /\ Woken(c) \in Places
<1>1. pc[c] \in Places
  BY DEF IrqInv
<1>. QED BY <1>1 DEF Woken, SameKind, WaitPlaces, IdlePlaces, Places

LEMMA HandlerStep ==
  ASSUME IrqInv, NEW c \in Cores, Handlers(c)
  PROVE  IrqInv'
<1>0. h \in [Cores -> HandlerPlaces] /\ back \in [Secondaries -> IdlePlaces]
  BY Zenon DEF IrqInv
<1>1. CASE TakeTick(c) \/ TakePoke(c)
  <2>1. UNCHANGED << irqVars, back >>
    BY Zenon, <1>1 DEF TakeTick, TakePoke
  <2>2. /\ h[c] = "none" /\ pc' = [ pc EXCEPT ![c] = Woken(c) ]
        /\ \E x \in {"t_lock", "none"} : h' = [ h EXCEPT ![c] = x ]
    BY <1>1 DEF TakeTick, TakePoke, Enters, Goto
  <2>3. \E x \in HandlerPlaces \ {"d_disable"} :
           h[c] # "d_disable" /\ h' = [ h EXCEPT ![c] = x ]
    BY Zenon, <2>2 DEF HandlerPlaces
  <2>. QED BY Zenon, <1>0, <2>1, <2>2, <2>3, WokenIsSameKind, Moves
<1>2. CASE tick_preempt_Locks(c)
  <2>1. UNCHANGED << irqVars, back, pc >>
    BY Zenon, <1>2 DEF tick_preempt_Locks
  <2>2. \E x \in HandlerPlaces \ {"d_disable"} :
           h[c] # "d_disable" /\ h' = [ h EXCEPT ![c] = x ]
    BY Zenon, <1>2 DEF tick_preempt_Locks, HandlerPlaces
  <2>. QED BY Zenon, <1>0, <2>1, <2>2, Moves
<1>3. CASE tick_preempt_Unlocks(c)
  <2>1. UNCHANGED irqVars
    BY Zenon, <1>3 DEF tick_preempt_Unlocks
  <2>2. \E x \in HandlerPlaces \ {"d_disable"} :
           h[c] # "d_disable" /\ h' = [ h EXCEPT ![c] = x ]
    BY Zenon, <1>3 DEF tick_preempt_Unlocks, HandlerPlaces
  <2>3. CASE UNCHANGED << pc, back >>
    BY Zenon, <1>0, <2>1, <2>2, <2>3, Moves
  <2>4. CASE /\ c \in Secondaries /\ InIdle(c)
             /\ back' = [ back EXCEPT ![c] = pc[c] ]
             /\ pc' = [ pc EXCEPT ![c] = "user" ]
    <3>1. pc[c] \in IdlePlaces
      BY Zenon, <2>4 DEF InIdle, IdlePlaces
    <3>2. back' \in [Secondaries -> IdlePlaces]
      BY <1>0, <2>4, <3>1
    <3>3. SameKind(pc[c], "user") /\ "user" \in Places
      BY <3>1, SameKindElsewhere DEF CallPlaces
    <3>. QED BY Zenon, <2>1, <2>2, <2>4, <3>2, <3>3, Moves
  <2>. QED BY Zenon, <1>3, <2>3, <2>4 DEF tick_preempt_Unlocks, Goto
<1>. QED BY Zenon, <1>1, <1>2, <1>3 DEF Handlers

-----------------------------------------------------------------------------
(* The device, its handler and the wait *)

LEMMA DeviceStep ==
  ASSUME IrqInv, TakeDevice \/ DeviceDisable \/ poke_other_cpus \/ DeviceRaises
  PROVE  IrqInv'
<1>0. /\ h \in [Cores -> HandlerPlaces] /\ pc \in [Cores -> Places] /\ 0 \in Cores
      /\ returned + Owed <= asserted /\ asserted \in Nat /\ returned \in Nat
  BY Zenon DEF IrqInv, Cores
<1>1. CASE TakeDevice
  <2>1. /\ line /\ spi /\ bit' = TRUE /\ h[0] = "none"
        /\ h' = [ h EXCEPT ![0] = "d_disable" ]
        /\ pc' = [ pc EXCEPT ![0] = Woken(0) ]
        /\ UNCHANGED << back, line, spi, asserted, returned >>
    BY Zenon, <1>1 DEF TakeDevice, Enters, Goto
  <2>2. h' \in [Cores -> HandlerPlaces] /\ Masking' /\ ~ Masking
    BY <1>0, <2>1 DEF Masking, HandlerPlaces
  <2>3. ~ bit /\ \A c \in Cores : pc[c] # "w_ack"
    BY Zenon, <2>1, <2>2 DEF IrqInv
  <2>4. \A p : SameKind(p, p)
    BY DEF SameKind
  <2>5. pc' \in [Cores -> Places] /\ \A d \in Cores : SameKind(pc[d], pc'[d])
    BY <1>0, <2>1, <2>4, WokenIsSameKind
  <2>6. \A c \in Cores : /\ pc'[c] # "w_ack" /\ (Busy(c)' <=> Busy(c))
                         /\ pc'[c] \in WaitPlaces <=> pc[c] \in WaitPlaces
    BY Zenon, <2>3, <2>5 DEF SameKind, Busy
  <2>7. \E c \in Cores : pc'[c] \in WaitPlaces
    BY Zenon, <2>1, <2>2, <2>6 DEF IrqInv
  <2>8. Owed = 1 /\ Owed' = 1
    BY Zenon, <2>1, <2>3 DEF Owed
  <2>. QED BY Zenon, <1>0, <2>1, <2>2, <2>5, <2>6, <2>7, <2>8 DEF IrqInv
<1>2. CASE DeviceDisable
  <2>1. /\ spi' = FALSE /\ h' = [ h EXCEPT ![0] = "d_poke" ]
        /\ UNCHANGED << pc, back, line, bit, asserted, returned >>
    BY Zenon, <1>2 DEF DeviceDisable, disable_irq
  <2>2. h' \in [Cores -> HandlerPlaces]
    BY <1>0, <2>1 DEF HandlerPlaces
  <2>3. Owed' = Owed /\ \A c \in Cores : Busy(c)' <=> Busy(c)
    BY Zenon, <2>1 DEF Owed, Busy
  <2>. QED BY Zenon, <2>1, <2>2, <2>3 DEF IrqInv
<1>3. CASE poke_other_cpus
  <2>1. UNCHANGED << irqVars, back, pc >> /\ back' \in [Secondaries -> IdlePlaces]
    BY Zenon, <1>3 DEF poke_other_cpus, IrqInv
  <2>2. \E x \in HandlerPlaces \ {"d_disable"} :
           h[0] # "d_disable" /\ h' = [ h EXCEPT ![0] = x ]
    BY Zenon, <1>3 DEF poke_other_cpus, HandlerPlaces
  <2>. QED BY Zenon, <1>0, <2>1, <2>2, Moves
<1>4. CASE DeviceRaises
  <2>1. /\ ~ line /\ line' = TRUE /\ asserted' = asserted + 1
        /\ UNCHANGED << pc, h, back, spi, bit, returned >>
    BY Zenon, <1>4 DEF DeviceRaises
  <2>2. ~ bit /\ \A c \in Cores : pc[c] # "w_ack"
    BY Zenon, <2>1 DEF IrqInv
  <2>3. Owed = 0 /\ Owed' = 1 /\ (Masking' <=> Masking)
        /\ \A c \in Cores : Busy(c)' <=> Busy(c)
    BY Zenon, <2>1, <2>2 DEF Owed, Busy, Masking
  <2>4. asserted' \in Nat /\ returned' + Owed' <= asserted'
    BY <1>0, <2>1, <2>3
  <2>. QED BY Zenon, <2>1, <2>2, <2>3, <2>4 DEF IrqInv
<1>. QED BY Zenon, <1>1, <1>2, <1>3, <1>4

\* The bit is consumed: the wait returns and the driver has yet to acknowledge.
LEMMA Returns ==
  ASSUME IrqInv, NEW c \in Cores, pc[c] \in WaitPlaces, bit, bit' = FALSE,
         returned' = returned + 1, pc' = [ pc EXCEPT ![c] = "w_ack" ],
         UNCHANGED << h, back, line, spi, asserted >>
  PROVE  IrqInv'
<1>1. /\ pc \in [Cores -> Places] /\ returned + Owed <= asserted
      /\ asserted \in Nat /\ returned \in Nat
  BY Zenon DEF IrqInv
<1>2. pc' \in [Cores -> Places] /\ pc'[c] = "w_ack"
      /\ \A d \in Cores \ {c} : pc'[d] = pc[d]
  BY <1>1 DEF Places
<1>3. \A d \in Cores \ {c} : ~ Busy(d)
  BY Zenon DEF IrqInv, Busy
<1>4. \A d \in Cores \ {c} : /\ ~ Busy(d)' /\ pc'[d] # "w_daifset"
                             /\ pc'[d] # "w_ack"
  BY <1>2, <1>3 DEF Busy, WaitPlaces
<1>5. pc'[c] # "w_daifset"
  BY <1>2
<1>6. Owed = 1 /\ Owed' = 0
  BY Zenon, <1>2 DEF Owed
<1>7. returned' \in Nat /\ returned' + Owed' <= asserted'
  BY <1>1, <1>6
<1>8. line /\ (~ spi \/ Masking) /\ (Masking' <=> Masking)
  BY Zenon DEF IrqInv, Masking
<1>9. \A d, e \in Cores : Busy(d)' /\ Busy(e)' => d = e
  BY Zenon, <1>4
<1>10. /\ \A d \in Cores : pc'[d] = "w_ack" => line' /\ ~ bit'
       /\ \A d \in Cores : pc'[d] # "w_daifset"
  BY Zenon, <1>4, <1>5, <1>8
<1>11. {line', spi', bit'} \subseteq BOOLEAN
  BY Zenon DEF IrqInv
<1>. QED BY Zenon, <1>1, <1>2, <1>7, <1>8, <1>9, <1>10, <1>11 DEF IrqInv

LEMMA WaitStep ==
  ASSUME IrqInv, NEW c \in Cores, sys_wait_irq(c)
  PROVE  IrqInv'
<1>0. /\ pc \in [Cores -> Places] /\ back \in [Secondaries -> IdlePlaces]
      /\ UNCHANGED << h, back, asserted >>
  BY Zenon DEF IrqInv, sys_wait_irq
<1>1. CASE /\ pc[c] = "user" /\ \A d \in Cores : ~AwaitsIrq(d) /\ pc[d] # "w_ack"
           /\ spi' = TRUE /\ pc' = [ pc EXCEPT ![c] = "w_take" ]
           /\ UNCHANGED << line, bit, returned >>
  <2>1. \A d \in Cores : pc[d] \notin WaitPlaces /\ ~ Busy(d)
    BY Zenon, <1>1 DEF AwaitsIrq, WaitPlaces, Busy
  <2>2. ~ bit
    BY Zenon, <2>1 DEF IrqInv
  <2>3. pc' \in [Cores -> Places] /\ pc'[c] = "w_take"
        /\ \A d \in Cores \ {c} : pc'[d] = pc[d]
    BY <1>0, <1>1 DEF Places, WaitPlaces
  <2>4. pc'[c] \in WaitPlaces /\ pc'[c] # "w_ack" /\ pc'[c] # "w_daifset"
    BY <2>3 DEF WaitPlaces
  <2>5. \A d \in Cores \ {c} : /\ ~ Busy(d)' /\ pc'[d] # "w_daifset"
                               /\ pc'[d] # "w_ack"
    BY <2>1, <2>3 DEF Busy, WaitPlaces
  <2>6. \A d \in Cores : pc'[d] # "w_ack" /\ pc'[d] # "w_daifset"
    BY Zenon, <2>4, <2>5
  <2>7. Owed' = Owed
    BY Zenon, <1>1, <2>6 DEF Owed
  <2>8. \A d, e \in Cores : Busy(d)' /\ Busy(e)' => d = e
    BY Zenon, <2>5
  <2>. QED BY Zenon, <1>0, <1>1, <2>2, <2>3, <2>4, <2>6, <2>7, <2>8 DEF IrqInv
<1>2. CASE /\ pc[c] = "w_take" /\ bit /\ bit' = FALSE /\ returned' = returned + 1
           /\ pc' = [ pc EXCEPT ![c] = "w_ack" ] /\ UNCHANGED << line, spi >>
  <2>1. pc[c] \in WaitPlaces
    BY <1>2 DEF WaitPlaces
  <2>. QED BY Zenon, <1>0, <1>2, <2>1, Returns
<1>3. CASE /\ \E p, q \in WaitPlaces : /\ pc[c] = p /\ pc' = [ pc EXCEPT ![c] = q ]
                                       /\ q # "w_daifset"
           /\ UNCHANGED irqVars
  <2>1. PICK q \in WaitPlaces : pc' = [ pc EXCEPT ![c] = q ] /\ q # "w_daifset"
    BY Zenon, <1>3
  <2>2. SameKind(pc[c], q) /\ q \in Places
    BY <1>3, <2>1 DEF SameKind, WaitPlaces, Places
  <2>. QED BY Zenon, <1>0, <1>3, <2>1, <2>2, Moves
<1>4. CASE /\ pc[c] = "w_check" /\ bit /\ pc' = [ pc EXCEPT ![c] = "w_daifset" ]
           /\ UNCHANGED irqVars
  <2>1. UNCHANGED << line, spi, bit, asserted, returned >>
    BY Zenon, <1>4 DEF irqVars
  <2>2. pc' \in [Cores -> Places] /\ pc'[c] = "w_daifset"
        /\ \A d \in Cores \ {c} : pc'[d] = pc[d]
    BY <1>0, <1>4 DEF Places, WaitPlaces
  <2>3. pc[c] \in WaitPlaces /\ pc'[c] \in WaitPlaces /\ pc'[c] # "w_ack"
        /\ pc[c] # "w_ack"
    BY <1>4, <2>2 DEF WaitPlaces
  <2>4. \A d \in Cores : /\ Busy(d)' <=> Busy(d)
                         /\ pc'[d] = "w_ack" <=> pc[d] = "w_ack"
                         /\ pc'[d] \in WaitPlaces <=> pc[d] \in WaitPlaces
    BY Zenon, <2>2, <2>3 DEF Busy
  <2>5. Owed' = Owed /\ (Masking' <=> Masking)
    BY Zenon, <1>0, <2>1, <2>4 DEF Owed, Masking
  <2>. QED BY Zenon, <1>0, <1>4, <2>1, <2>2, <2>4, <2>5 DEF IrqInv
<1>5. CASE /\ pc[c] = "w_daifset" /\ pc' = [ pc EXCEPT ![c] = "w_ack" ]
           /\ bit' = FALSE /\ returned' = returned + 1 /\ UNCHANGED << line, spi >>
  <2>1. pc[c] \in WaitPlaces /\ bit
    BY Zenon, <1>5 DEF WaitPlaces, IrqInv
  <2>. QED BY Zenon, <1>0, <1>5, <2>1, Returns
<1>6. CASE /\ pc[c] = "w_ack" /\ line' = FALSE /\ pc' = [ pc EXCEPT ![c] = "user" ]
           /\ UNCHANGED << spi, bit, returned >>
  <2>1. ~ bit /\ line /\ (~ spi \/ Masking) /\ (Masking' <=> Masking)
    BY Zenon, <1>0, <1>6 DEF IrqInv, Masking
  <2>2. \A d \in Cores \ {c} : ~ Busy(d)
    BY Zenon, <1>6 DEF IrqInv, Busy
  <2>3. pc' \in [Cores -> Places] /\ pc'[c] = "user"
        /\ \A d \in Cores \ {c} : pc'[d] = pc[d]
    BY <1>0, <1>6 DEF Places, CallPlaces
  <2>4. \A d \in Cores : /\ ~ Busy(d)' /\ pc'[d] # "w_daifset" /\ pc'[d] # "w_ack"
    BY <2>2, <2>3 DEF Busy, WaitPlaces
  <2>5. Owed = 0 /\ Owed' = 0
    BY Zenon, <1>6, <2>1 DEF Owed
  <2>. QED BY Zenon, <1>0, <1>6, <2>1, <2>3, <2>4, <2>5 DEF IrqInv
<1>. QED
  <2>1. CASE /\ At(c, "w_take") /\ ~ bit /\ Goto(c, "w_daifclr")
             /\ UNCHANGED << line, spi, bit, returned >>
    BY Zenon, <1>0, <1>3, <2>1 DEF At, Goto, WaitPlaces, irqVars
  <2>2. CASE /\ At(c, "w_daifclr") /\ Goto(c, "w_check")
             /\ UNCHANGED << line, spi, bit, returned >>
    BY Zenon, <1>0, <1>3, <2>2 DEF At, Goto, WaitPlaces, irqVars
  <2>3. CASE /\ At(c, "w_check") /\ Goto(c, IF bit THEN "w_daifset" ELSE "w_wfi")
             /\ UNCHANGED << line, spi, bit, returned >>
    BY Zenon, <1>0, <1>3, <1>4, <2>3 DEF At, Goto, WaitPlaces, irqVars
  <2>4. CASE /\ At(c, "w_wfi") /\ Goto(c, IF Signalled(c) THEN "w_check" ELSE "w_asleep")
             /\ UNCHANGED << line, spi, bit, returned >>
    BY Zenon, <1>0, <1>3, <2>4 DEF At, Goto, WaitPlaces, irqVars
  <2>. QED BY ZenonT(40), <1>1, <1>2, <1>5, <1>6, <2>1, <2>2, <2>3, <2>4
           DEF sys_wait_irq, At, Goto, enable_irq

-----------------------------------------------------------------------------

LEMMA IrqInvStep == IrqInv /\ [MachineNext]_machineVars => IrqInv'
<1>. SUFFICES ASSUME IrqInv, [MachineNext]_machineVars PROVE IrqInv'
  OBVIOUS
<1>1. CASE UNCHANGED machineVars
  <2>1. UNCHANGED << irqVars, h, pc, back >>
    BY Zenon, <1>1 DEF machineVars, irqVars
  <2>2. 0 \in Cores /\ back' \in [Secondaries -> IdlePlaces]
    BY Zenon, <2>1 DEF Cores, IrqInv
  <2>. QED BY Zenon, <2>1, <2>2, Moves
<1>2. \A c \in WaitCores : c \in Cores
  BY Zenon, MachineAssumption
<1>. QED BY Zenon, <1>1, <1>2, BootStep, SecondaryStep, CpuOnStep, SyscallStep,
            HandlerStep, DeviceStep, WaitStep DEF MachineNext

\* SYS_WAIT_IRQ never returns more often than the device raised its line: the
\* level that stays up until the driver acknowledges it at the device ends no
\* second wait, because irq_handler masks the line and only the next
\* sys_wait_irq enables it again.  For every number of cores and of
\* interrupts, and every core the driver waits on.
THEOREM ReturnsAreCaused == MachineSpec => []EveryReturnHasItsInterrupt
<1>1. IrqInv => EveryReturnHasItsInterrupt
  <2>. SUFFICES ASSUME IrqInv PROVE returned <= asserted
    BY Zenon DEF EveryReturnHasItsInterrupt
  <2>1. returned + Owed <= asserted /\ returned \in Nat /\ asserted \in Nat
    BY Zenon DEF IrqInv
  <2>2. Owed \in {0, 1}
    BY Zenon DEF Owed
  <2>. QED BY <2>1, <2>2
<1>. QED BY <1>1, IrqInvInit, IrqInvStep, PTL DEF MachineSpec
=============================================================================
