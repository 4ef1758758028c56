-------------------------------- MODULE Vring --------------------------------
(***************************************************************************)
(* A split virtqueue as the drivers of libtanix-drv keep it: the driver     *)
(* publishes descriptor heads in the avail ring and pops the device's       *)
(* answers from the used ring.  Both indices are free-running and wrap at   *)
(* their width (IDX_MAX stands for 2^16); a ring position is the index      *)
(* modulo QUEUE_SIZE, which divides it.                                     *)
(***************************************************************************)
EXTENDS Naturals, Sequences

CONSTANTS QUEUE_SIZE, IDX_MAX

ASSUME VringAssumption ==
  /\ QUEUE_SIZE \in Nat \ {0} /\ IDX_MAX \in Nat \ {0}
  /\ IDX_MAX % QUEUE_SIZE = 0

Inc(i) == (i + 1) % IDX_MAX

\* "seen" is the device's own position in the avail ring.
NewRing ==
  [ avail |-> [ p \in 0 .. QUEUE_SIZE - 1 |-> 0 ], avail_idx |-> 0, seen |-> 0,
    used |-> [ p \in 0 .. QUEUE_SIZE - 1 |-> << 0, 0 >> ], used_idx |-> 0,
    used_tail |-> 0 ]

publish(q, head) ==
  [q EXCEPT !.avail[q.avail_idx % QUEUE_SIZE] = head,
            !.avail_idx = Inc(@)]

\* The bug of comparing the indices as if they never wrapped.
has_used_NoWrap(q) == q.used_idx > q.used_tail

has_used(q) == q.used_idx # q.used_tail

\* Entries the driver has not popped.
Returned(q) == (q.used_idx + IDX_MAX - q.used_tail) % IDX_MAX

pop_used(q) == [q EXCEPT !.used_tail = Inc(@)]

\* The k-th entry that drain_used hands out.
UsedEntry(q, k) == q.used[((q.used_tail + k - 1) % IDX_MAX) % QUEUE_SIZE]

\* The bug of copying the entries out without consuming them.
drain_used_Kept(q, n) == q

drain_used(q, n) == [q EXCEPT !.used_tail = (@ + n) % IDX_MAX]

(* The device: it takes published heads in order and returns each once. *)
HasAvail(q) == q.seen # q.avail_idx
NextHead(q) == q.avail[q.seen % QUEUE_SIZE]
Fetch(q) == [q EXCEPT !.seen = Inc(@)]
Return(q, id, len) ==
  [q EXCEPT !.used[q.used_idx % QUEUE_SIZE] = << id, len >>,
            !.used_idx = Inc(@)]
==============================================================================
