-------------------------------- MODULE Rtos --------------------------------
(***************************************************************************)
(* The RTOS inside a tenant (servers/rtos-guest): threads, semaphores, a     *)
(* message queue and the tickless idle loop.  Switching is a setjmp: a       *)
(* caller saves its registers with gs_save and dispatches away when the call *)
(* returns 0; gs_restore makes the saved call return again, not 0.           *)
(*                                                                         *)
(* Time is the guest's counter, in milliseconds; it moves when the idle loop *)
(* spins to the earliest deadline.  The kernel's preemptions are invisible   *)
(* to the guest (Tenants) and left out.                                     *)
(***************************************************************************)
EXTENDS Integers, Sequences

CONSTANTS
  DEMO_MSGS, TIMER_ROUNDS,  \* rounds of the demo threads
  MAX_WAITERS,              \* length of a waiter list
  MSGQ_DEPTH                \* depth of MSGQ_DEMO

Threads == 0 .. 2   \* producer, consumer, timer; the number is the priority
Idle == -1

VARIABLES
  cur,       \* CUR: the thread that runs, or Idle
  tstate,    \* thread -> Tcb.state
  deadline,  \* thread -> Tcb.deadline
  tpc,       \* thread -> << the call it is in or about to make, round >>
  ipc,       \* idle loop: "top", "saved", "work", "parked", "panic"
  sem,       \* SEM_B: count, waiters
  mq,        \* MSGQ_DEMO: messages in it, get_waiters, put_waiters
  clock,     \* cntvct
  guestWord  \* the state word of the info block

rtosVars == << cur, tstate, deadline, tpc, ipc, sem, mq, clock, guestWord >>
objects == << sem, mq >>

Program == << "take", "get", "sleep" >>   \* the first call of each thread

\* _start: tables, the producer's token, three threads, then guest_idle.
RtosInit ==
  /\ cur = Idle /\ ipc = "top" /\ clock = 0 /\ guestWord = "RUNNING"
  /\ tstate = [ t \in Threads |-> "READY" ]
  /\ deadline = [ t \in Threads |-> 0 ]
  /\ tpc = [ t \in Threads |-> << Program[t + 1], 1 >> ]
  /\ sem = [ count |-> 1, waiters |-> << >> ]
  /\ mq = [ count |-> 0, get |-> << >>, put |-> << >> ]

-----------------------------------------------------------------------------
(* The thread switch *)

\* What gs_save returns to the caller that saves: its last instruction before
\* `ret` is `mov x0, #1`.
gs_save == 1

\* The best READY thread other than CUR, or Idle.
pick_ready(st) ==
  LET ready == { t \in Threads : st[t] = "READY" /\ t # cur }
  IN  IF ready = {} THEN Idle ELSE CHOOSE t \in ready : \A u \in ready : t <= u

\* dispatch: gs_restore of a thread continues its call; of the idle context,
\* it continues after the save in guest_idle.
dispatch(st) ==
  /\ cur' = pick_ready(st)
  /\ ipc' = IF cur' = Idle THEN "top" ELSE ipc

\* block: the caller saves itself and, when gs_save says so, dispatches.
block(s) ==
  /\ tstate' = [ tstate EXCEPT ![cur] = s ]
  /\ IF gs_save = 0 THEN dispatch(tstate') ELSE UNCHANGED << cur, ipc >>

\* wake_waiter: the oldest waiter of a list becomes READY.
wake_waiter(waiters) ==
  tstate' = IF waiters = << >> THEN tstate
            ELSE [ tstate EXCEPT ![Head(waiters)] = "READY" ]

Rest(waiters) == IF waiters = << >> THEN waiters ELSE Tail(waiters)

\* The thread joins a waiter list, unless the list is full, and blocks.
WaitOn(list, s) ==
  IF Len(list) >= MAX_WAITERS
  THEN ipc' = "panic" /\ UNCHANGED << cur, tstate >>
  ELSE block(s)

-----------------------------------------------------------------------------
(* Calls of the running thread *)

In(call) == ipc # "panic" /\ cur # Idle /\ tpc[cur][1] = call
Then(call) == tpc' = [ tpc EXCEPT ![cur][1] = call ]

k_sem_take ==
  /\ In("take")
  /\ IF sem.count > 0
     THEN /\ sem' = [ sem EXCEPT !.count = @ - 1 ] /\ Then("put")
          /\ UNCHANGED << cur, ipc, tstate >>
     ELSE /\ WaitOn(sem.waiters, "SEM")
          /\ sem' = [ sem EXCEPT !.waiters =
                        IF Len(@) >= MAX_WAITERS THEN @ ELSE Append(@, cur) ]
          /\ UNCHANGED tpc
  /\ UNCHANGED << deadline, mq, clock, guestWord >>

k_sem_give ==
  /\ In("give")
  /\ sem' = [ sem EXCEPT !.count = @ + 1, !.waiters = Rest(@) ]
  /\ wake_waiter(sem.waiters)
  /\ Then("sleep")
  /\ UNCHANGED << cur, ipc, deadline, mq, clock, guestWord >>

k_msgq_put ==
  /\ In("put")
  /\ IF mq.count < MSGQ_DEPTH
     THEN /\ mq' = [ mq EXCEPT !.count = @ + 1, !.get = Rest(@) ]
          /\ wake_waiter(mq.get) /\ Then("sleep")
          /\ UNCHANGED << cur, ipc >>
     ELSE /\ WaitOn(mq.put, "PUT")
          /\ mq' = [ mq EXCEPT !.put =
                       IF Len(@) >= MAX_WAITERS THEN @ ELSE Append(@, cur) ]
          /\ UNCHANGED tpc
  /\ UNCHANGED << deadline, sem, clock, guestWord >>

k_msgq_get ==
  /\ In("get")
  /\ IF mq.count > 0
     THEN /\ mq' = [ mq EXCEPT !.count = @ - 1, !.put = Rest(@) ]
          /\ wake_waiter(mq.put) /\ Then("give")
          /\ UNCHANGED << cur, ipc >>
     ELSE /\ WaitOn(mq.get, "GET")
          /\ mq' = [ mq EXCEPT !.get =
                       IF Len(@) >= MAX_WAITERS THEN @ ELSE Append(@, cur) ]
          /\ UNCHANGED tpc
  /\ UNCHANGED << deadline, sem, clock, guestWord >>

Nap(t) == CASE t = 0 -> 2 [] t = 1 -> 1 [] t = 2 -> 5
Rounds(t) == IF t = 2 THEN TIMER_ROUNDS ELSE DEMO_MSGS
NextRound(t) ==
  IF tpc[t][2] = Rounds(t) THEN << "exit", tpc[t][2] >>
                           ELSE << Program[t + 1], tpc[t][2] + 1 >>

\* k_sleep: set the deadline and block; the call is over when it returns.
k_sleep ==
  /\ In("sleep")
  /\ deadline' = [ deadline EXCEPT ![cur] = clock + Nap(cur) ]
  /\ block("SLEEP")
  /\ tpc' = [ tpc EXCEPT ![cur] = IF cur = 2 THEN NextRound(cur)
                                  ELSE << "yield", @[2] >> ]
  /\ UNCHANGED << objects, clock, guestWord >>

\* k_yield: any other READY thread gets the CPU.
k_yield ==
  /\ In("yield")
  /\ tpc' = [ tpc EXCEPT ![cur] = NextRound(cur) ]
  /\ IF gs_save = 0 /\ pick_ready(tstate) # Idle
     THEN dispatch(tstate) ELSE UNCHANGED << cur, ipc >>
  /\ UNCHANGED << tstate, deadline, objects, clock, guestWord >>

k_thread_exit ==
  /\ In("exit")
  /\ tstate' = [ tstate EXCEPT ![cur] = "EXIT" ]
  /\ dispatch(tstate')
  /\ UNCHANGED << tpc, deadline, objects, clock, guestWord >>

-----------------------------------------------------------------------------
(* guest_idle *)

\* The checkpoint, masked; then the test of what gs_save returned.
guest_idle_Saves ==
  /\ cur = Idle /\ ipc = "top" /\ ipc' = "saved"
  /\ UNCHANGED << cur, tstate, deadline, tpc, objects, clock, guestWord >>

guest_idle_Tests ==
  /\ cur = Idle /\ ipc = "saved"
  /\ ipc' = IF gs_save # 0 THEN "top" ELSE "work"
  /\ UNCHANGED << cur, tstate, deadline, tpc, objects, clock, guestWord >>

Sleepers == { t \in Threads : tstate[t] = "SLEEP" }
earliest_deadline ==
  deadline[CHOOSE t \in Sleepers : \A u \in Sleepers : deadline[t] <= deadline[u]]

\* A READY thread gets the CPU.  Else the ring is drained; when every thread
\* has exited the guest parks; else it spins to the earliest deadline and
\* wakes the sleepers that are due, or yields to the kernel.
guest_idle_Works ==
  /\ cur = Idle /\ ipc = "work"
  /\ IF pick_ready(tstate) # Idle
     THEN dispatch(tstate) /\ UNCHANGED << tstate, clock, guestWord >>
     ELSE IF \A t \in Threads : tstate[t] = "EXIT"
     THEN ipc' = "parked" /\ guestWord' = "PARKED" /\ UNCHANGED << cur, tstate, clock >>
     ELSE /\ IF Sleepers = {} THEN UNCHANGED << clock, tstate >>
             ELSE /\ clock' = IF clock < earliest_deadline THEN earliest_deadline
                              ELSE clock
                  /\ tstate' = [ t \in Threads |->
                       IF t \in Sleepers /\ deadline[t] <= clock' THEN "READY"
                       ELSE tstate[t] ]
          /\ ipc' = "top"
          /\ UNCHANGED << cur, guestWord >>
  /\ UNCHANGED << tpc, deadline, objects >>

RtosNext ==
  \/ k_sem_take \/ k_sem_give \/ k_msgq_put \/ k_msgq_get
  \/ k_sleep \/ k_yield \/ k_thread_exit
  \/ guest_idle_Saves \/ guest_idle_Tests \/ guest_idle_Works

\* The guest executes whenever the kernel lets it.
RtosFairSpec == RtosInit /\ [][RtosNext]_rtosVars /\ WF_rtosVars(RtosNext)

\* rtos-guest/src/main.rs:35: "When every thread exits, the guest publishes
\* PARKED and yields"; the demo threads are finite, so it gets there.
GuestParks == <>(guestWord = "PARKED")

=============================================================================
