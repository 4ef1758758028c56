------------------------------ MODULE Monitor ------------------------------
(***************************************************************************)
(* The EL3 monitor of sbsa-ref (kernel/src/arch/aarch64/monitor.rs and     *)
(* monitor_entry.s) and the secure payload it switches to (sec_payload.s). *)
(*                                                                         *)
(* The boot core calls the monitor with SMCs.  A service SMC is handled    *)
(* with every interrupt masked and only one server uses the services, so   *)
(* each is one action; CPU_ON is split, because the parked core it starts  *)
(* polls the command slot meanwhile, and the world switch is split,        *)
(* because the secure timer runs meanwhile.                                *)
(*                                                                         *)
(* A seal is known by its pad: the stream that XTEA in CFB mode lays over  *)
(* the caller's buffer is a function of the key and the IV.                *)
(***************************************************************************)
EXTENDS Naturals, Sequences, FiniteSets

CONSTANTS
    BlobNames,      \* names the services store under
    Blobs,          \* contents they store
    STORE_SLOTS,    \* slots of the secure store (32)
    KeyIds,         \* keybox slots in use
    CTR_MAX,        \* the largest use counter (2^64 - 1)
    MAX_GENS,       \* bound: keys generated
    MAX_SMCS,       \* bound: service calls
    PARKED,         \* secondary cores in the EL3 park loop
    ITERS,          \* payload iterations of the world switch (2500)
    MAX_EXPIRIES    \* bound: secure timer periods that pass

ASSUME MonitorAssumption ==
    /\ STORE_SLOTS \in Nat \ {0} /\ CTR_MAX \in Nat /\ MAX_GENS \in Nat
    /\ MAX_SMCS \in Nat /\ ITERS \in Nat \ {0} /\ MAX_EXPIRIES \in Nat

VARIABLES
    store,          \* the slots: 1..STORE_SLOTS -> [used, name, blob]
    lastPut,        \* ghost: name -> the blob of its last successful PUT
    keybox,         \* key id -> [valid, key, ctr]
    gens,           \* keys minted so far: the entropy source
    sealedWith,     \* ghost: the pad of every successful SEAL
    padTwice,       \* ghost: some pad was used twice
    smcs,           \* service calls so far
    slots,          \* __psci_cmd_slots: core -> [magic, entry]
    wake,           \* cores whose wake SGI is pending
    startedAt,      \* core -> the EL1 address it was started at
    early,          \* ghost: cores that left WFI unasked and took half a command
    calling,        \* the boot core inside the monitor: <<step, ...>>
    secure,         \* the payload: [pc, left, masked]
    ticks,          \* sec_data_ticks
    istatus,        \* the secure timer has expired and awaits its handler
    expiries        \* ghost: times it expired

services == <<store, lastPut, keybox, gens, sealedWith, padTwice>>
psci     == <<slots, wake, startedAt, early>>
payload  == <<secure, ticks, istatus, expiries>>
monVars  == <<services, psci, payload, smcs, calling>>

NoEntry == "0"              \* an entry word nobody wrote
SecondaryEntry == "secondary_entry"
Free == [used |-> FALSE, name |-> "-", blob |-> "-"]

-----------------------------------------------------------------------------
(* Boot.                                                                   *)

\* The monitor installs the payload, clears the store and the keybox and
\* drops to the kernel; the other cores enter the park loop.
monitor_el3_init ==
    /\ store = [i \in 1..STORE_SLOTS |-> Free]
    /\ keybox = [k \in KeyIds |-> [valid |-> FALSE, key |-> 0, ctr |-> 0]]
    /\ slots = [c \in PARKED |-> [magic |-> FALSE, entry |-> NoEntry]]
    /\ secure = [pc |-> "none", left |-> 0, masked |-> TRUE]
    /\ ticks = 0

MonitorInit ==
    /\ monitor_el3_init
    /\ lastPut = << >> /\ gens = 0
    /\ sealedWith = {} /\ padTwice = FALSE /\ smcs = 0
    /\ wake = {} /\ startedAt = [c \in PARKED |-> "parked"] /\ early = {}
    /\ calling = <<"kernel">> /\ istatus = FALSE /\ expiries = 0

-----------------------------------------------------------------------------
(* The services.                                                           *)

\* A service SMC from the kernel, which the monitor serves and returns from.
monitor_smc_dispatch ==
    /\ calling = <<"kernel">> /\ smcs < MAX_SMCS
    /\ smcs' = smcs + 1
    /\ UNCHANGED <<calling, psci, payload>>

\* The bug of taking the first free slot before looking for the name.
PutSlot_FreeFirst(name) ==
    LET named == {i \in 1..STORE_SLOTS : store[i].used /\ store[i].name = name}
        clear == {i \in 1..STORE_SLOTS : ~store[i].used}
        first(S) == CHOOSE i \in S : \A j \in S : i <= j
    IN  IF clear # {} THEN {first(clear)}
        ELSE IF named # {} THEN {first(named)} ELSE {}

\* The slot PUT writes: the one of that name, else the first free one.
PutSlot(name) ==
    LET named == {i \in 1..STORE_SLOTS : store[i].used /\ store[i].name = name}
        clear == {i \in 1..STORE_SLOTS : ~store[i].used}
        first(S) == CHOOSE i \in S : \A j \in S : i <= j
    IN  IF named # {} THEN {first(named)}
        ELSE IF clear # {} THEN {first(clear)} ELSE {}

\* SEC_STORAGE_PUT; with no slot left it fails and changes nothing.
sec_svc_storage_put(name, blob) ==
    /\ monitor_smc_dispatch
    /\ \E i \in PutSlot(name) :
        /\ store' = [store EXCEPT ![i] = [used |-> TRUE, name |-> name, blob |-> blob]]
        /\ lastPut' = [n \in DOMAIN lastPut \cup {name} |->
                          IF n = name THEN blob ELSE lastPut[n]]
    /\ UNCHANGED <<keybox, gens, sealedWith, padTwice>>

\* What SEC_STORAGE_GET returns: the first slot of that name.
sec_svc_storage_get(name) ==
    LET named == {i \in 1..STORE_SLOTS : store[i].used /\ store[i].name = name}
    IN  IF named = {} THEN "absent"
        ELSE store[CHOOSE i \in named : \A j \in named : i <= j].blob

\* SEC_KEYBOX_GEN: a new key, its use counter at zero.
secure_keybox_gen(id) ==
    /\ monitor_smc_dispatch
    /\ gens < MAX_GENS /\ gens' = gens + 1
    /\ keybox' = [keybox EXCEPT ![id] = [valid |-> TRUE, key |-> gens + 1, ctr |-> 0]]
    /\ UNCHANGED <<store, lastPut, sealedWith, padTwice>>

\* The bug of letting the counter wrap to zero.
NextCtr_Wraps(ctr) == {(ctr + 1) % (CTR_MAX + 1)}

\* The counter after a successful use; none is left at the largest value.
NextCtr(ctr) == IF ctr = CTR_MAX THEN {} ELSE {ctr + 1}

\* The stream of xtea_cfb: its running state starts at the IV, which is the
\* counter, so key and counter determine what the first block is combined with.
xtea_cfb(k) == <<k.key, k.ctr>>

\* SEC_KEYBOX_SEAL and SEC_KEYBOX_UNSEAL: the counter advances on either.
keybox_cipher(id, encrypt) ==
    LET k == keybox[id] IN
    /\ monitor_smc_dispatch
    /\ k.valid
    /\ \E next \in NextCtr(k.ctr) : keybox' = [keybox EXCEPT ![id].ctr = next]
    /\ sealedWith' = IF encrypt THEN sealedWith \cup {xtea_cfb(k)} ELSE sealedWith
    /\ padTwice' = (padTwice \/ (encrypt /\ xtea_cfb(k) \in sealedWith))
    /\ UNCHANGED <<store, lastPut, gens>>

-----------------------------------------------------------------------------
(* PSCI CPU_ON and the park loop.                                          *)

\* The boot core is storing word w of the slot of c, and the others after it.
Storing(c, w) == calling[1] = "stores" /\ calling[2] = c /\ w \in calling[3]

\* CPU_ON is asked for once per core.
psci_cpu_on_Begins(c) ==
    /\ calling = <<"kernel">> /\ startedAt[c] = "parked" /\ c \notin wake
    /\ calling' = <<"stores", c, {"magic", "entry"}>>
    /\ UNCHANGED <<services, psci, payload, smcs>>

\* Where the boot core is after it has stored word w.
AfterStore(c, w) ==
    IF calling[3] = {w} THEN <<"wake", c>> ELSE <<"stores", c, calling[3] \ {w}>>

StoreWord(c, w) ==
    slots' = IF w = "magic" THEN [slots EXCEPT ![c].magic = TRUE]
             ELSE [slots EXCEPT ![c].entry = SecondaryEntry]

\* The bug of waking the core before the slot is complete.
psci_cpu_on_Stores_WakesFirst(c, w) ==
    /\ Storing(c, w)
    /\ wake' = wake \cup {c}
    /\ StoreWord(c, w) /\ calling' = AfterStore(c, w)
    /\ UNCHANGED <<services, startedAt, early, payload, smcs>>

\* One word is stored: the two are, in an order the compiler chooses.
psci_cpu_on_Stores(c, w) ==
    /\ Storing(c, w)
    /\ StoreWord(c, w) /\ calling' = AfterStore(c, w)
    /\ UNCHANGED <<services, wake, startedAt, early, payload, smcs>>

\* The SGI is sent when both are stored.
psci_cpu_on_Wakes(c) ==
    /\ calling = <<"wake", c>>
    /\ wake' = wake \cup {c}
    /\ calling' = <<"kernel">>
    /\ UNCHANGED <<services, slots, startedAt, early, payload, smcs>>

\* A parked core whose WFI returns looks at its slot.  WFI returns for a pending
\* SGI (which stays pending, as the core is masked), but may return at any time.
monitor_park_loop(c) ==
    /\ startedAt[c] = "parked" /\ slots[c].magic
    /\ slots' = [slots EXCEPT ![c].magic = FALSE]
    /\ startedAt' = [startedAt EXCEPT ![c] = slots[c].entry]
    /\ early' = IF c \notin wake /\ Storing(c, "entry") THEN early \cup {c} ELSE early
    /\ UNCHANGED <<services, wake, payload, smcs, calling>>

-----------------------------------------------------------------------------
(* The world switch and the payload's timer loop.                          *)

\* SEC_WORLD_SWITCH: the run data is written and the payload entered, which
\* arms the timer and the Group 0 interrupt.  The kernel does it once.
enter_secure ==
    /\ calling = <<"kernel">> /\ secure.pc = "none"
    /\ secure' = [pc |-> "loop", left |-> ITERS, masked |-> FALSE]
    /\ calling' = <<"secure">>
    /\ UNCHANGED <<services, psci, ticks, istatus, expiries, smcs>>

\* The secure timer's period elapses; the timer is not running again until
\* a handler re-arms it.
TimerExpires ==
    /\ secure.pc \in {"loop", "tick"} /\ ~istatus /\ expiries < MAX_EXPIRIES
    /\ istatus' = TRUE /\ expiries' = expiries + 1
    /\ UNCHANGED <<services, psci, secure, ticks, smcs, calling>>

\* The bug of looking at ISTATUS with FIQ unmasked.
sec_loop_Unmasked ==
    /\ secure.pc = "loop" /\ secure.left > 1
    /\ secure' = IF istatus
                 THEN [pc |-> "tick", left |-> secure.left - 1, masked |-> FALSE]
                 ELSE [secure EXCEPT !.left = @ - 1]
    /\ UNCHANGED <<services, psci, ticks, istatus, expiries, smcs, calling>>

\* One iteration: count down, mask FIQ, and look at ISTATUS.
sec_loop ==
    /\ secure.pc = "loop" /\ secure.left > 1
    /\ secure' = IF istatus
                 THEN [pc |-> "tick", left |-> secure.left - 1, masked |-> TRUE]
                 ELSE [secure EXCEPT !.left = @ - 1]
    /\ UNCHANGED <<services, psci, ticks, istatus, expiries, smcs, calling>>

\* Count the tick, acknowledge it and re-arm the timer.
sec_tick_increment ==
    /\ ticks' = ticks + 1
    /\ istatus' = FALSE

\* The poll path's call, after which FIQ is unmasked.
sec_loop_Counts ==
    /\ secure.pc = "tick"
    /\ sec_tick_increment
    /\ secure' = [secure EXCEPT !.pc = "loop", !.masked = FALSE]
    /\ UNCHANGED <<services, psci, expiries, smcs, calling>>

\* The FIQ handler's call.
sec_fiq ==
    /\ secure.pc \in {"loop", "tick"} /\ ~secure.masked /\ istatus
    /\ sec_tick_increment
    /\ UNCHANGED <<services, psci, secure, expiries, smcs, calling>>

\* The last iteration: the payload hands its count back with an SMC, and the
\* monitor restores the kernel.
sec_done ==
    /\ secure.pc = "loop" /\ secure.left = 1
    /\ secure' = [pc |-> "returned", left |-> 0, masked |-> TRUE]
    /\ calling' = <<"kernel">>
    /\ UNCHANGED <<services, psci, ticks, istatus, expiries, smcs>>

-----------------------------------------------------------------------------
MonitorNext ==
    \/ \E n \in BlobNames, b \in Blobs : sec_svc_storage_put(n, b)
    \/ \E k \in KeyIds : secure_keybox_gen(k)
    \/ \E k \in KeyIds, encrypt \in BOOLEAN : keybox_cipher(k, encrypt)
    \/ \E c \in PARKED : psci_cpu_on_Begins(c)
    \/ \E c \in PARKED, w \in {"magic", "entry"} : psci_cpu_on_Stores(c, w)
    \/ \E c \in PARKED : psci_cpu_on_Wakes(c)
    \/ \E c \in PARKED : monitor_park_loop(c)
    \/ enter_secure \/ TimerExpires \/ sec_loop \/ sec_loop_Counts
    \/ sec_fiq \/ sec_done

MonitorSpec == MonitorInit /\ [][MonitorNext]_monVars

-----------------------------------------------------------------------------
\* SEC_STORAGE_GET answers with the last blob a successful PUT stored under
\* that name, and with "absent" for a name never stored, however the slots
\* were filled: sec_svc_storage_put must find an existing slot before it takes
\* a free one, or GET would keep returning the older copy.
StoreHoldsLastPut ==
    \A n \in BlobNames :
        sec_svc_storage_get(n) = IF n \in DOMAIN lastPut THEN lastPut[n] ELSE "absent"

\* Two SEALs under one key never use the same IV, up to and at the counter's
\* last value ("wrap-to-zero would reuse the stream"): keybox_cipher refuses
\* the call instead of wrapping, and a new key restarts the counter.
SealsNeverSharePad == ~padTwice

\* Every expiry of the secure timer is counted exactly once by the payload,
\* whichever of the FIQ handler and the poll loop sees it ("the two paths can
\* never double-count").
SecureTicksCountedOnce == ticks + (IF istatus THEN 1 ELSE 0) = expiries

\* A CPU_ON that has returned is neither lost nor mistaken: its core runs at the
\* address it was given, or still has the complete command and the SGI to look
\* at it.  psci_cpu_on completes the slot before it sends the SGI, and the loop
\* clears the magic only when it leaves.  The one other outcome is that of a
\* core whose WFI returned unasked between the two stores, magic first: it
\* left for the address the slot held before.
StartedWhereAsked ==
    \A c \in PARKED :
        /\ startedAt[c] \notin {"parked", SecondaryEntry} => c \in early
        /\ c \in wake /\ startedAt[c] = "parked" =>
               slots[c].magic /\ slots[c].entry = SecondaryEntry
=============================================================================
