-------------------------------- MODULE Vmm --------------------------------
(***************************************************************************)
(* The boot-time dialogue between kmain and the zephyr-stub guest (main.rs   *)
(* phases 3 and 14, servers/zephyr-stub): prints over the virtqueue, then    *)
(* messages over a hypervisor queue (backend.rs) that both sides write and   *)
(* read, announced by doorbells (hypervisor/doorbell.rs) which the GIC       *)
(* coalesces while interrupts are masked.  Control passes by vcpu_run and    *)
(* vm_yield_entry, so one side runs at a time; only the delivery of an SGI   *)
(* is asynchronous.                                                        *)
(***************************************************************************)
EXTENDS Integers, Sequences

CONSTANTS
  PRINTS,      \* rounds of phase 3 (the code has 3)
  PINGS,       \* messages of phase 14 (the code has 3)
  MSGQ_SLOTS,  \* slots of a queue
  DEPTH        \* depth it is created with, clamped to MSGQ_SLOTS

ASSUME VmmAssumption ==
  /\ PRINTS \in Nat /\ PINGS \in Nat \ {0}
  /\ MSGQ_SLOTS \in Nat \ {0} /\ DEPTH \in 1 .. MSGQ_SLOTS
  /\ PINGS <= DEPTH   \* kmain expects every send to succeed

PingMsg(i) == << "ping", i >>
Pong(i) == << "pong", i >>
DoneMsg == << "done", 0 >>
Ack == << "ack", 0 >>
NoMsg == << "none", 0 >>
Bells == {1, 2}   \* SGI 1: the transport's doorbell; SGI 2: the queue's

VARIABLES
  side,        \* who has the CPU: "kernel" or "guest"
  kpc,         \* << phase of kmain, round >>
  gpc,         \* << phase of the guest, round >>
  open,        \* the kernel runs with interrupts unmasked
  sgiPending,  \* doorbell SGIs pending in the GIC
  rings, deliveries,  \* DoorbellEntry counters
  posted, echoes,     \* prints posted; echoes returned in the used ring
  published,   \* VMM_INFO_MAGIC is in the info block
  guestState,  \* guest_state word
  flags,       \* doorbell_flags word
  q,           \* MsgqRecord: head, count, slots
  received     \* what the kernel has received, in order

vmmVars == << side, kpc, gpc, open, sgiPending, rings, deliveries, posted,
              echoes, published, guestState, flags, q, received >>
bellVars == << sgiPending, rings, deliveries >>

VmmInit ==
  /\ side = "guest" /\ kpc = << "print", 1 >> /\ gpc = << "virtq", 0 >>
  /\ open = FALSE /\ sgiPending = {}
  /\ rings = [ b \in Bells |-> 0 ] /\ deliveries = [ b \in Bells |-> 0 ]
  /\ posted = 0 /\ echoes = 0 /\ published = FALSE
  /\ guestState = "RUNNING" /\ flags = FALSE
  /\ q = [ head |-> 0, count |-> 0, slots |-> [ i \in 0 .. MSGQ_SLOTS - 1 |-> NoMsg ] ]
  /\ received = << >>

-----------------------------------------------------------------------------
(* MsgqRecord and doorbells *)

Full == q.count >= DEPTH
Empty == q.count = 0

\* The bug of forgetting where the ring starts.
enqueue_AtCount(msg) ==
  [ q EXCEPT !.slots[q.count % MSGQ_SLOTS] = msg, !.count = @ + 1 ]

enqueue(msg) ==
  [ q EXCEPT !.slots[(q.head + q.count) % MSGQ_SLOTS] = msg, !.count = @ + 1 ]

Oldest == q.slots[q.head]

dequeue ==
  [ q EXCEPT !.slots[q.head] = NoMsg,
             !.head = (@ + 1) % MSGQ_SLOTS, !.count = @ - 1 ]

\* ring_sgi: count the ring; a pending SGI absorbs it.
ring_sgi(b) ==
  /\ rings' = [ rings EXCEPT ![b] = @ + 1 ]
  /\ sgiPending' = sgiPending \cup {b}
  /\ UNCHANGED deliveries

\* irq_handler and note_delivery, when the kernel has opened interrupts or a
\* guest (which runs with them open) is executing.
note_delivery(b) ==
  /\ deliveries' = [ deliveries EXCEPT ![b] = @ + 1 ]
  /\ sgiPending' = sgiPending \ {b}

TakeDoorbell ==
  /\ open \/ side = "guest"
  /\ \E b \in sgiPending : note_delivery(b)
  /\ UNCHANGED << side, kpc, gpc, open, rings, posted, echoes, published,
                  guestState, flags, q, received >>

-----------------------------------------------------------------------------
(* kmain *)

\* vcpu_run: the guest continues; after it returns, kmain goes on at `next`.
Resume(next) == side' = "guest" /\ kpc' = next

\* Phase 3: post a Print, ring, resume.
PostPrint ==
  /\ side = "kernel" /\ kpc[1] = "print" /\ kpc[2] <= PRINTS
  /\ posted' = posted + 1
  /\ ring_sgi(1)
  /\ Resume(<< "poll", kpc[2] >>)
  /\ UNCHANGED << gpc, open, echoes, published, guestState, flags, q, received >>

\* poll_replies consumes the used ring.
PollReplies ==
  /\ side = "kernel" /\ kpc[1] = "poll"
  /\ echoes' = 0
  /\ kpc' = << "print", kpc[2] + 1 >>
  /\ UNCHANGED << side, gpc, open, bellVars, posted, published, guestState,
                  flags, q, received >>

\* Phase 14: create queue and doorbell, publish the info block, unmask, and
\* run the guest until it blocks on the empty queue.
PublishInfo ==
  /\ side = "kernel" /\ kpc = << "print", PRINTS + 1 >>
  /\ published' = TRUE /\ guestState' = "RUNNING" /\ flags' = FALSE
  /\ open' = TRUE
  /\ Resume(<< "ping", 0 >>)
  /\ UNCHANGED << gpc, bellVars, posted, echoes, q, received >>

\* Send and ring, without resuming the guest.
SendPing ==
  /\ side = "kernel" /\ kpc[1] = "ping" /\ kpc[2] < PINGS /\ ~Full
  /\ q' = enqueue(PingMsg(kpc[2]))
  /\ ring_sgi(2)
  /\ flags' = TRUE
  /\ kpc' = << "ping", kpc[2] + 1 >>
  /\ UNCHANGED << side, gpc, open, posted, echoes, published, guestState, received >>

\* Unmask and wait for a delivery, or give up; then resume the guest once.
AwaitBell ==
  /\ side = "kernel" /\ kpc = << "ping", PINGS >>
  /\ open' = TRUE
  /\ IF open THEN Resume(<< "collect", 0 >>) ELSE UNCHANGED << side, kpc >>
  /\ UNCHANGED << gpc, bellVars, posted, echoes, published, guestState, flags, q,
                  received >>

\* msgq_recv of one reply; an empty queue is logged and passed over.
Collect ==
  /\ side = "kernel" /\ kpc[1] \in {"collect", "ack"} /\ kpc[2] < PINGS
  /\ IF Empty THEN UNCHANGED << q, received >>
              ELSE q' = dequeue /\ received' = Append(received, Oldest)
  /\ kpc' = IF kpc[1] = "ack" THEN << "end", 0 >> ELSE << "collect", kpc[2] + 1 >>
  /\ UNCHANGED << side, gpc, open, bellVars, posted, echoes, published,
                  guestState, flags >>

\* Finale: "done", ring, unmask, resume.
Finale ==
  /\ side = "kernel" /\ kpc = << "collect", PINGS >> /\ ~Full
  /\ q' = enqueue(DoneMsg) /\ ring_sgi(2) /\ flags' = TRUE /\ open' = TRUE
  /\ Resume(<< "ack", 0 >>)
  /\ UNCHANGED << gpc, posted, echoes, published, guestState, received >>

-----------------------------------------------------------------------------
(* The guest *)

\* yield_fn: kmain goes on, masked (context_switch saved it so).
Yield(next) == side' = "kernel" /\ open' = FALSE /\ gpc' = next

\* The VirtIO loop: echo every print; yield when none is left; leave the loop
\* when the info block is there on return.
GuestEchoes ==
  /\ side = "guest" /\ gpc[1] = "virtq" /\ ~published /\ posted > 0
  /\ posted' = posted - 1 /\ echoes' = echoes + 1
  /\ UNCHANGED << side, kpc, gpc, open, bellVars, published, guestState, flags, q,
                  received >>

GuestYields ==
  /\ side = "guest" /\ gpc[1] = "virtq" /\ ~published /\ posted = 0
  /\ Yield(gpc)
  /\ UNCHANGED << kpc, bellVars, posted, echoes, published, guestState, flags, q,
                  received >>

GuestLeavesLoop ==
  /\ side = "guest" /\ gpc[1] = "virtq" /\ published
  /\ gpc' = << "recv", 0 >>
  /\ UNCHANGED << side, kpc, open, bellVars, posted, echoes, published,
                  guestState, flags, q, received >>

\* recv_or_block on an empty queue: WAITING, yield.
GuestBlocks ==
  /\ side = "guest" /\ gpc[1] \in {"recv", "finale"} /\ guestState = "RUNNING"
  /\ Empty
  /\ guestState' = "WAITING"
  /\ Yield(gpc)
  /\ UNCHANGED << kpc, bellVars, posted, echoes, published, flags, q, received >>

\* Back from the yield: RUNNING, take the doorbell flag, look again.
GuestWakes ==
  /\ side = "guest" /\ guestState = "WAITING"
  /\ guestState' = "RUNNING" /\ flags' = FALSE
  /\ UNCHANGED << side, kpc, gpc, open, bellVars, posted, echoes, published, q,
                  received >>

\* A ping is answered by the pong of the same index; after the last one the
\* guest yields.  A send on a full queue is ignored.
GuestReplies ==
  /\ side = "guest" /\ gpc[1] = "recv" /\ guestState = "RUNNING" /\ ~Empty
  /\ LET d == dequeue
     IN  q' = [ d EXCEPT !.slots[(d.head + d.count) % MSGQ_SLOTS] = Pong(gpc[2]),
                         !.count = @ + 1 ]
  /\ IF gpc[2] + 1 = PINGS THEN Yield(<< "finale", 0 >>)
                           ELSE gpc' = << "recv", gpc[2] + 1 >> /\ UNCHANGED << side, open >>
  /\ UNCHANGED << kpc, bellVars, posted, echoes, published, guestState, flags,
                  received >>

\* The finale: "done" is acknowledged and the guest parks in a yield; any
\* other message leaves it spinning.
GuestFinishes ==
  /\ side = "guest" /\ gpc[1] = "finale" /\ guestState = "RUNNING" /\ ~Empty
  /\ IF Oldest = DoneMsg
     THEN /\ q' = [ q EXCEPT !.slots[q.head] = NoMsg,
                             !.slots[(q.head + q.count) % MSGQ_SLOTS] = Ack,
                             !.head = (@ + 1) % MSGQ_SLOTS ]
          /\ Yield(<< "parked", 0 >>)
     ELSE q' = dequeue /\ gpc' = << "spin", 0 >> /\ UNCHANGED << side, open >>
  /\ UNCHANGED << kpc, bellVars, posted, echoes, published, guestState, flags,
                  received >>

Kernel == PostPrint \/ PollReplies \/ PublishInfo \/ SendPing \/ AwaitBell
          \/ Collect \/ Finale
Guest == GuestEchoes \/ GuestYields \/ GuestLeavesLoop \/ GuestBlocks
         \/ GuestWakes \/ GuestReplies \/ GuestFinishes

VmmNext == Kernel \/ Guest \/ TakeDoorbell

\* Whoever has the CPU executes.
VmmSpec == VmmInit /\ [][VmmNext]_vmmVars
VmmFairSpec == VmmSpec /\ WF_vmmVars(Kernel) /\ WF_vmmVars(Guest)

-----------------------------------------------------------------------------
(* Properties *)

\* Whenever the doorbells are delivered, kmain ends having heard the pongs in
\* order and the acknowledgement, although both sides share one queue.
DialogueCompletes ==
  <>[](/\ kpc[1] = "end"
       /\ received = [ i \in 1 .. PINGS |-> Pong(i - 1) ] \o << Ack >>)

=============================================================================
