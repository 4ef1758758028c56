------------------------------- MODULE Stream -------------------------------
(***************************************************************************)
(* What a TCP connection promises its two ends: each direction is a byte    *)
(* stream into a buffer of bounded capacity.  The bytes of the writer pass  *)
(* in order, each once; one that finds the reader's buffer full is cut, and *)
(* nothing else is lost.  The reader sees the end of the stream only after  *)
(* the writer has closed and every byte has passed.  A writer that lets its *)
(* close run ahead of its bytes gives up that last promise, no other.       *)
(***************************************************************************)
EXTENDS Naturals, Sequences, SequencesExt

CONSTANTS
  Conns,    \* connections
  Ends,     \* the two ends of a connection
  CAPACITY, \* bytes an end holds unread
  Cut       \* stands for a byte that found no room

VARIABLES
  written,  \* connection -> end -> bytes the end has written
  taken,    \* connection -> end -> bytes of its peer that have passed
  held,     \* connection -> end -> how many of them it has not read yet
  closed,   \* connection -> ends that write no more
  ahead,    \* connection -> ends whose close ran ahead of their bytes
  eof       \* connection -> ends that have seen the end of the stream

streamVars == << written, taken, held, closed, ahead, eof >>

Peer(e) == CHOOSE x \in Ends : x # e

Init ==
  /\ written = [ n \in Conns |-> [ e \in Ends |-> << >> ] ]
  /\ taken = [ n \in Conns |-> [ e \in Ends |-> << >> ] ]
  /\ held = [ n \in Conns |-> [ e \in Ends |-> 0 ] ]
  /\ closed = [ n \in Conns |-> {} ]
  /\ ahead = [ n \in Conns |-> {} ]
  /\ eof = [ n \in Conns |-> {} ]

\* Write and read: an end may empty its buffer, write, and close, in one step.
Work(n, e) ==
  /\ e \in closed[n] => UNCHANGED written
  /\ IsPrefix(written[n][e], written'[n][e])
  /\ written' = [written EXCEPT ![n][e] = written'[n][e]]
  /\ held' \in {held, [held EXCEPT ![n][e] = 0]}
  /\ closed' \in {closed, [closed EXCEPT ![n] = @ \cup {e}]}
  /\ UNCHANGED << taken, ahead, eof >>

\* An end that has closed sends its close before its bytes have arrived.
RunAhead(n, e) ==
  /\ e \in closed[n]
  /\ ahead' = [ahead EXCEPT ![n] = @ \cup {e}]
  /\ UNCHANGED << written, taken, held, closed, eof >>

\* The next k bytes of the peer's stream pass, and perhaps its end.
Receive(n, e) ==
  LET stream == written[n][Peer(e)]
      passed == Len(taken[n][e])
      room == CAPACITY - held[n][e]
  IN
  /\ e \notin eof[n]
  /\ \E k \in 0 .. Len(stream) - passed :
       LET kept == IF k < room THEN k ELSE room IN
       /\ taken' = [taken EXCEPT ![n][e] = @ \o
                      [ i \in 1 .. k |-> IF i <= kept THEN stream[passed + i] ELSE Cut ]]
       /\ held' = [held EXCEPT ![n][e] = @ + kept]
       /\ \/ UNCHANGED eof
          \/ /\ Peer(e) \in closed[n]
             /\ passed + k = Len(stream) \/ Peer(e) \in ahead[n]
             /\ eof' = [eof EXCEPT ![n] = @ \cup {e}]
  /\ UNCHANGED << written, closed, ahead >>

Next ==
  \E n \in Conns, e \in Ends :
    Work(n, e) \/ RunAhead(n, e) \/ Receive(n, e)

Spec == Init /\ [][Next]_streamVars
=============================================================================
