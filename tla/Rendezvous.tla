----------------------------- MODULE Rendezvous -----------------------------
(***************************************************************************)
(* What the send and receive calls promise to programs, without slots, run  *)
(* queues or CPUs: a task offers one message and waits until the receiver   *)
(* it named takes it, or asks for a message and waits until a sender its    *)
(* filter accepts hands one over.  A handover involves exactly one sender   *)
(* and one receiver and completes both calls.                               *)
(***************************************************************************)
CONSTANTS Task, None, Any

VARIABLES
  posted,   \* task -> receiver its message is offered to
  want,     \* task -> filter it waits with
  inbox     \* task -> sender of the last message handed to it

avars == << posted, want, inbox >>

Accepts(filter, src) == filter = Any \/ filter = src

Idle(t) == posted[t] = None /\ want[t] = None

AInit ==
  /\ posted = [ t \in Task |-> None ]
  /\ want = [ t \in Task |-> None ]
  /\ inbox = [ t \in Task |-> None ]

\* send: hand the message to a receiver that waits for it ...
HandOver(src, dst) ==
  /\ Idle(src) /\ src # dst
  /\ want[dst] # None /\ Accepts(want[dst], src)
  /\ inbox' = [inbox EXCEPT ![dst] = src]
  /\ want' = [want EXCEPT ![dst] = None]
  /\ UNCHANGED posted

\* ... or offer it and wait.
Offer(src, dst) ==
  /\ Idle(src) /\ src # dst
  /\ ~ (want[dst] # None /\ Accepts(want[dst], src))
  /\ posted' = [posted EXCEPT ![src] = dst]
  /\ UNCHANGED << want, inbox >>

\* receive: take an offered message the filter accepts ...
Take(dst, src, filter) ==
  /\ Idle(dst)
  /\ posted[src] = dst /\ Accepts(filter, src)
  /\ posted' = [posted EXCEPT ![src] = None]
  /\ inbox' = [inbox EXCEPT ![dst] = src]
  /\ UNCHANGED want

\* ... or wait, only if there is none.
Ask(dst, filter) ==
  /\ Idle(dst)
  /\ \A src \in Task : ~ (posted[src] = dst /\ Accepts(filter, src))
  /\ want' = [want EXCEPT ![dst] = filter]
  /\ inbox' = [inbox EXCEPT ![dst] = None]
  /\ UNCHANGED posted

ANext ==
  \/ \E s, d \in Task : HandOver(s, d) \/ Offer(s, d)
  \/ \E d \in Task, f \in Task \cup {Any} :
       Ask(d, f) \/ \E s \in Task : Take(d, s, f)

ASpec == AInit /\ [][ANext]_avars
=============================================================================
