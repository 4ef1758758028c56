-------------------------------- MODULE Tcp --------------------------------
(***************************************************************************)
(* The TCP of libtanix-net (src/servers/libtanix-net/src/tcp.rs, lib.rs) as *)
(* the net server drives it (src/servers/net/src/main.rs).                  *)
(*                                                                         *)
(* Two hosts run the same stack: "s" has the echo listener, "c" the         *)
(* outgoing connection.  A host of Foreign may also be some other stack,    *)
(* which sends on without waiting for acknowledgements and puts its FIN     *)
(* into a data segment.  A host has one socket slot, the network loses      *)
(* frames and, when REORDER is set, lets one overtake another.  A timer     *)
(* that expires early repeats any frame, so frames are duplicated too.      *)
(* Time is a timer that may be found expired at any poll, since frames and  *)
(* answers take any time.  A byte is its position in the client's stream.   *)
(***************************************************************************)
EXTENDS Integers, Sequences, SequencesExt, FiniteSets

CONSTANTS
  SEQ,          \* size of the sequence space (2^32)
  ISS,          \* host -> the initial sequence numbers of its successive
                \* connections (gen_iss hashes the time); bounds the opens
  TX_BUF,       \* capacity of a socket's transmit queue (512)
  RX_BUF,       \* capacity of its receive buffer (512)
  TCP_MSS,      \* largest payload of a segment (512)
  WINDOW,       \* window advertised in every segment (1024)
  MAX_RETRIES,  \* retransmissions before a socket gives up (8)
  Foreign,      \* hosts that may be another stack (nc on the host machine)
  REORDER,      \* may the network deliver a frame before an earlier one?
  MARKERS,      \* bytes the client writes on a connection (3 markers)
  NET_MAX       \* bound: host -> frames on their way to it

Hosts == {"c", "s"}
Other(h) == IF h = "c" THEN "s" ELSE "c"
Ports == DOMAIN ISS["c"]         \* ephemeral ports: one per connection

VARIABLES
  sock,      \* host -> its socket, or NoSock
  wire,      \* host -> frames on their way to it
  opens,     \* host -> connections opened (NetStack::ephemeral, gen_iss)
  written, taken, closed, ahead, eof   \* history: the streams (see Stream)

tcpVars == << sock, wire, opens, written, taken, closed, ahead, eof >>
hist == << written, taken, closed, ahead, eof >>

ASSUME TcpAssumption ==
  /\ SEQ \in Nat \ {0} /\ ISS \in [Hosts -> Seq(0 .. SEQ - 1)]
  /\ {TX_BUF, RX_BUF, TCP_MSS, WINDOW, MARKERS} \subseteq Nat \ {0}
  /\ NET_MAX \in [Hosts -> Nat \ {0}]
  /\ MAX_RETRIES \in Nat /\ REORDER \in BOOLEAN /\ Foreign \subseteq Hosts

Smaller(a, b) == IF a < b THEN a ELSE b

\* Comparison in the wrapping sequence space.
seq_lt(a, b) == (a - b) % SEQ >= SEQ \div 2
seq_gt(a, b) == seq_lt(b, a)
seq_ge(a, b) == a = b \/ seq_gt(a, b)

-----------------------------------------------------------------------------
(* Sockets and segments *)

NoSock == [ state |-> "None" ]

blank ==
  [ state |-> "Listen", port |-> 0, iss |-> 0, data_base |-> 0, sent |-> 0,
    inflight |-> 0, rcv_nxt |-> 0, peer_wnd |-> 4 * WINDOW, syn_acked |-> FALSE,
    fin_req |-> FALSE, fin_sent |-> FALSE, fin_seq |-> 0, fin_acked |-> FALSE,
    rx_fin |-> FALSE, out |-> << >>, rx |-> << >>, retries |-> 0,
    notify |-> {}, dead |-> FALSE ]

connect(port) ==
  [ blank EXCEPT !.state = "SynSent", !.port = port, !.iss = ISS["c"][port],
                 !.data_base = (ISS["c"][port] + 1) % SEQ ]

\* snd_nxt always is the number after the transmit queue.
snd_nxt(s) == (s.data_base + Len(s.out)) % SEQ

Dead(s) == [s EXCEPT !.dead = TRUE, !.notify = @ \cup {"Closed"}]

\* push_tcp_frame: a frame on the wire.  The port of the client's end names
\* the connection.
Frame(s, seq, flags, data) ==
  [ port |-> s.port, seq |-> seq, ack |-> IF "ACK" \in flags THEN s.rcv_nxt ELSE 0,
    flags |-> flags, data |-> data ]

send_syn(s)     == Frame(s, s.iss, {"SYN"}, << >>)
send_syn_ack(s) == Frame(s, s.iss, {"SYN", "ACK"}, << >>)
send_ack(s)     == Frame(s, snd_nxt(s), {"ACK"}, << >>)
send_data_seg(s, seq, data) == Frame(s, seq, {"ACK"}, data)
send_fin(s, seq) == Frame(s, seq, {"FIN", "ACK"}, << >>)

\* What a handler leaves: the socket, the frames it queued, and the payload
\* it acknowledged, Cut where a byte was not kept.
Done(s, q, got) == [ s |-> s, q |-> q, got |-> got ]
Then(d, e) == Done(e.s, d.q \o e.q, d.got \o e.got)

-----------------------------------------------------------------------------
(* TcpSocket::rx_segment *)

\* ACK processing: consume the acknowledged prefix of the transmit queue and
\* note SYN and FIN acknowledgements.  The distance of the acknowledgement
\* from data_base wraps: an old one counts as everything sent.
rx_ack(s, ack) ==
  LET adv == Smaller((ack - s.data_base) % SEQ, s.sent)
      t == [s EXCEPT !.out = SubSeq(@, adv + 1, Len(@)),
                     !.data_base = (@ + adv) % SEQ,
                     !.sent = @ - adv,
                     !.inflight = IF @ > adv THEN @ - adv ELSE 0]
      u == [t EXCEPT !.syn_acked = \/ @
                                   \/ /\ t.state \in {"SynSent", "SynRcvd"}
                                      /\ ack = snd_nxt(t)]
      v == [u EXCEPT !.fin_acked = TRUE]
  IN IF u.fin_sent /\ seq_gt(ack, u.fin_seq) /\ ~ u.fin_acked
     THEN IF u.rx_fin THEN Dead(v) ELSE v
     ELSE u

Cut == 0

\* The payload as the application gets it: what fits the receive buffer.
Kept(s, data) == SubSeq(data, 1, Smaller(Len(data), RX_BUF - Len(s.rx)))
Acked(s, data) ==
  Kept(s, data) \o [ i \in 1 .. Len(data) - Len(Kept(s, data)) |-> Cut ]

\* The bug of accepting payload whatever its sequence number.
rx_data_AnyOrder(s, m) ==
  LET t == [s EXCEPT !.rx = @ \o Kept(s, m.data),
                     !.rcv_nxt = (m.seq + Len(m.data)) % SEQ,
                     !.notify = @ \cup {"Data"}]
  IN IF m.data = << >> THEN Done(s, << >>, << >>)
     ELSE Done(t, << send_ack(t) >>, Acked(s, m.data))

\* In-order payload only; what does not fit the buffer is acknowledged too.
rx_data(s, m) ==
  LET t == [s EXCEPT !.rx = @ \o Kept(s, m.data),
                     !.rcv_nxt = (@ + Len(m.data)) % SEQ,
                     !.notify = @ \cup {"Data"}]
  IN IF m.data = << >> THEN Done(s, << >>, << >>)
     ELSE IF m.seq = s.rcv_nxt THEN Done(t, << send_ack(t) >>, Acked(s, m.data))
     ELSE Done(s, << send_ack(s) >>, << >>)

rx_fin(s, m, syn_phase) ==
  LET fin_seq == (m.seq + Len(m.data)) % SEQ
      t == [s EXCEPT !.rcv_nxt = (fin_seq + 1) % SEQ,
                     !.rx_fin = TRUE,
                     !.notify = @ \cup {"PeerFin"},
                     !.state = IF @ = "Established" /\ ~ syn_phase
                               THEN "CloseWait" ELSE @]
      u == IF t.fin_sent /\ t.fin_acked THEN Dead(t) ELSE t
  IN IF "FIN" \notin m.flags THEN Done(s, << >>, << >>)
     ELSE IF seq_ge(fin_seq, s.rcv_nxt) THEN Done(u, << send_ack(u) >>, << >>)
     ELSE Done(s, << send_ack(s) >>, << >>)

DataThenFin(s, m, syn_phase) ==
  LET d == rx_data(s, m) IN Then(d, rx_fin(d.s, m, syn_phase))

Establish(s) ==
  [s EXCEPT !.state = "Established", !.notify = @ \cup {"Accepted"}]

\* A SYN on a listening socket.
rx_syn(s, m) ==
  LET iss == ISS["s"][opens["s"] + 1]
      t == [blank EXCEPT !.state = "SynRcvd", !.port = m.port, !.iss = iss,
                         !.data_base = (iss + 1) % SEQ, !.rcv_nxt = (m.seq + 1) % SEQ,
                         !.peer_wnd = s.peer_wnd, !.notify = s.notify]
  IN Done(t, << send_syn_ack(t) >>, << >>)

\* A SYN, with or without our SYN's acknowledgement, while connecting.
rx_synack(s, m) ==
  LET t == [s EXCEPT !.rcv_nxt = (m.seq + 1) % SEQ]
      u == [t EXCEPT !.syn_acked = TRUE]
  IN IF "ACK" \in m.flags /\ m.ack = (s.iss + 1) % SEQ
     THEN Done(u, << send_ack(u) >>, << >>)
     ELSE Done(t, << >>, << >>)

rx_segment(s0, m) ==
  LET s == IF "ACK" \in m.flags
           THEN rx_ack([s0 EXCEPT !.peer_wnd = WINDOW], m.ack) ELSE s0
      syn == "SYN" \in m.flags
      nothing == Done(s, << >>, << >>)
  IN CASE "RST" \in m.flags -> Done(Dead(s0), << >>, << >>)
       [] s.state = "Listen" ->
            IF syn THEN rx_syn(s, m) ELSE Done(Dead(s), << >>, << >>)
       [] s.state = "SynSent" ->
            IF ~ syn THEN nothing
            ELSE LET d == rx_synack(s, m)
                     t == IF d.s.syn_acked THEN Establish(d.s) ELSE d.s
                 IN Then(d, DataThenFin(t, m, TRUE))
       [] s.state = "SynRcvd" ->
            IF syn
            THEN LET t == [s EXCEPT !.rcv_nxt = (m.seq + 1) % SEQ, !.retries = 0]
                 IN Done(t, << send_syn_ack(t) >>, << >>)
            ELSE IF s.syn_acked THEN DataThenFin(Establish(s), m, TRUE)
            ELSE nothing
       [] s.state \in {"Established", "CloseWait"} ->
            Then(Done(s, IF syn THEN << send_ack(s) >> ELSE << >>, << >>),
                 DataThenFin(s, m, FALSE))

-----------------------------------------------------------------------------
(* TcpSocket::poll: retransmit, send fresh data, or send the FIN *)

\* The bug of forgetting to count the retries.
Retry_Uncounted(s, frame) == Done(s, << frame >>, << >>)

\* The retransmission timer has expired: send `frame` again or give up.
Retry(s, frame) ==
  IF s.retries + 1 > MAX_RETRIES
  THEN Done(Dead([s EXCEPT !.retries = @ + 1]), << >>, << >>)
  ELSE Done([s EXCEPT !.retries = @ + 1], << frame >>, << >>)

Handshaking(s) == ~ s.syn_acked /\ s.state \in {"SynSent", "SynRcvd"}
Fresh(s) == s.sent < Len(s.out)

\* The bug of sending the FIN while data is unacknowledged.
poll_FinFirst(s, expired) ==
  IF s.fin_req /\ ~ s.fin_sent
  THEN Done([s EXCEPT !.fin_sent = TRUE, !.fin_seq = snd_nxt(s), !.retries = 0],
            << send_fin(s, snd_nxt(s)) >>, << >>)
  ELSE IF s.fin_sent /\ ~ s.fin_acked /\ expired
  THEN Retry(s, send_fin(s, s.fin_seq))
  ELSE Done(s, << >>, << >>)

poll(s, expired) ==
  LET start == s.sent - s.inflight
      chunk == Smaller(Smaller(Len(s.out) - s.sent, TCP_MSS), s.peer_wnd)
      nothing == Done(s, << >>, << >>)
  IN CASE Handshaking(s) ->
            IF expired
            THEN Retry(s, IF s.state = "SynSent" THEN send_syn(s) ELSE send_syn_ack(s))
            ELSE nothing
       [] ~ Handshaking(s) /\ s.inflight > 0 ->
            IF expired
            THEN Retry(s, send_data_seg(s, (s.data_base + start) % SEQ,
                                        SubSeq(s.out, start + 1, start + s.inflight)))
            ELSE nothing
       [] ~ Handshaking(s) /\ s.inflight = 0 /\ Fresh(s) ->
            IF chunk = 0 THEN nothing
            ELSE Done([s EXCEPT !.sent = @ + chunk, !.inflight = chunk, !.retries = 0],
                      << send_data_seg(s, (s.data_base + s.sent) % SEQ,
                                       SubSeq(s.out, s.sent + 1, s.sent + chunk)) >>,
                      << >>)
       [] ~ Handshaking(s) /\ s.inflight = 0 /\ ~ Fresh(s) ->
            IF s.fin_req /\ ~ s.fin_sent
            THEN Done([s EXCEPT !.fin_sent = TRUE, !.fin_seq = snd_nxt(s), !.retries = 0],
                      << send_fin(s, snd_nxt(s)) >>, << >>)
            ELSE IF s.fin_sent /\ ~ s.fin_acked /\ expired
            THEN Retry(s, send_fin(s, s.fin_seq))
            ELSE nothing

-----------------------------------------------------------------------------
(* The stack and the net server *)

TcpInit ==
  /\ sock = [ h \in Hosts |-> NoSock ]
  /\ wire = [ h \in Hosts |-> << >> ]
  /\ opens = [ h \in Hosts |-> 0 ]
  /\ written = [ n \in Ports |-> [ h \in Hosts |-> << >> ] ]
  /\ taken = [ n \in Ports |-> [ h \in Hosts |-> << >> ] ]
  /\ closed = [ n \in Ports |-> {} ]
  /\ ahead = [ n \in Ports |-> {} ]
  /\ eof = [ n \in Ports |-> {} ]

\* Frames queued by h join the wire; a full queue loses the rest.
Sent(h, q) == SubSeq(wire[Other(h)] \o q, 1,
                     Smaller(NET_MAX[Other(h)], Len(wire[Other(h)]) + Len(q)))
Send(h, q) == wire' = [wire EXCEPT ![Other(h)] = Sent(h, q)]

Listen ==
  /\ sock["s"] = NoSock /\ opens["s"] < Len(ISS["s"])
  /\ sock' = [sock EXCEPT !["s"] = blank]
  /\ UNCHANGED << wire, opens, hist >>

Connect ==
  LET s == connect(opens["c"] + 1) IN
  /\ sock["c"] = NoSock /\ opens["c"] < Len(ISS["c"])
  /\ sock' = [sock EXCEPT !["c"] = s]
  /\ opens' = [opens EXCEPT !["c"] = @ + 1]
  /\ Send("c", << send_syn(s) >>)
  /\ UNCHANGED hist

\* tcp_find: the socket a frame is for.
Finds(h, m) ==
  /\ sock[h] # NoSock
  /\ ~ sock[h].dead
  /\ sock[h].state = "Listen" \/ sock[h].port = m.port

Arrives(h, i) == i \in 1 .. Len(wire[h]) /\ (i = 1 \/ REORDER)

\* handle_tcp: the frame reaches a socket.
Deliver(h, i) ==
  LET m == wire[h][i]
      d == rx_segment(sock[h], m)
  IN
  /\ Arrives(h, i) /\ Finds(h, m)
  /\ sock' = [sock EXCEPT ![h] = d.s]
  /\ opens' = IF sock[h].state = "Listen" /\ d.s.state = "SynRcvd"
              THEN [opens EXCEPT !["s"] = @ + 1] ELSE opens
  /\ wire' = [wire EXCEPT ![h] = RemoveAt(wire[h], i), ![Other(h)] = Sent(h, d.q)]
  /\ taken' = [taken EXCEPT ![m.port][h] = @ \o d.got]
  /\ eof' = IF d.s.rx_fin THEN [eof EXCEPT ![m.port] = @ \cup {h}] ELSE eof
  /\ UNCHANGED << written, closed, ahead >>

\* Nobody has the port: a SYN is answered with a reset, the rest is dropped.
DeliverNone(h, i) ==
  LET m == wire[h][i]
      rst == [ port |-> m.port, seq |-> 0, ack |-> (m.seq + 1 + Len(m.data)) % SEQ,
               flags |-> {"RST", "ACK"}, data |-> << >> ]
  IN
  /\ Arrives(h, i) /\ ~ Finds(h, m)
  /\ wire' = [wire EXCEPT ![h] = RemoveAt(wire[h], i),
                          ![Other(h)] = Sent(h, IF "SYN" \in m.flags THEN << rst >>
                                                ELSE << >>)]
  /\ UNCHANGED << sock, opens, hist >>

\* A frame does not arrive.
Lose(h, i) ==
  /\ Arrives(h, i)
  /\ wire' = [wire EXCEPT ![h] = RemoveAt(wire[h], i)]
  /\ UNCHANGED << sock, opens, hist >>

\* NetStack::poll; a listener has no peer to send to.
Poll(h, expired) ==
  /\ sock[h] # NoSock /\ ~ sock[h].dead /\ sock[h].state # "Listen"
  /\ LET d == poll(sock[h], expired) IN
     /\ sock' = [sock EXCEPT ![h] = d.s]
     /\ Send(h, d.q)
  /\ UNCHANGED << opens, hist >>

\* A foreign stack sends the next k bytes although earlier ones are not
\* acknowledged, with its FIN when they are the last.
Pipeline(h, k, fin) ==
  LET s == sock[h]
      t == [s EXCEPT !.sent = @ + k, !.inflight = s.sent + k, !.retries = 0]
      u == [t EXCEPT !.fin_sent = TRUE, !.fin_seq = snd_nxt(s)]
      m == send_data_seg(s, (s.data_base + s.sent) % SEQ, SubSeq(s.out, s.sent + 1, s.sent + k))
  IN
  /\ h \in Foreign /\ s.state \in {"Established", "CloseWait"} /\ ~ s.dead
  /\ s.sent + k <= Len(s.out) /\ ~ s.fin_sent
  /\ fin => s.fin_req /\ s.sent + k = Len(s.out)
  /\ k > 0 \/ fin
  /\ sock' = [sock EXCEPT ![h] = IF fin THEN u ELSE t]
  /\ Send(h, << IF fin THEN [m EXCEPT !.flags = @ \cup {"FIN"}] ELSE m >>)
  /\ ahead' = IF fin /\ s.out # << >>
              THEN [ahead EXCEPT ![s.port] = @ \cup {h}] ELSE ahead
  /\ UNCHANGED << opens, written, taken, closed, eof >>

app_write(s, data) ==
  IF s.state \in {"Established", "CloseWait"} /\ Len(s.out) + Len(data) <= TX_BUF
  THEN [s EXCEPT !.out = @ \o data] ELSE s

app_close(s) == [s EXCEPT !.fin_req = TRUE]

\* The server loop takes every event of a socket, data before the peer's FIN
\* before Closed.  Data is read; the listener echoes it, and loses it when the
\* transmit queue has no room.
TakeEvents(h) ==
  LET s == sock[h]
      n == s.port
      r == IF "Data" \in s.notify THEN [s EXCEPT !.rx = << >>] ELSE s
      w == IF h = "s" /\ "Data" \in s.notify THEN app_write(r, s.rx) ELSE r
      f == IF "PeerFin" \in s.notify THEN app_close(w) ELSE w
  IN
  /\ s # NoSock /\ s.notify # {}
  /\ sock' = [sock EXCEPT ![h] = IF "Closed" \in s.notify THEN NoSock
                                 ELSE [f EXCEPT !.notify = {}]]
  /\ written' = IF w # r THEN [written EXCEPT ![n][h] = @ \o s.rx] ELSE written
  /\ closed' = IF "PeerFin" \in s.notify
               THEN [closed EXCEPT ![n] = @ \cup {h}] ELSE closed
  /\ UNCHANGED << wire, opens, taken, ahead, eof >>

\* The outgoing connection writes its markers, then closes.
WriteMarker ==
  LET s == sock["c"]
      t == app_write(s, << Len(written[s.port]["c"]) + 1 >>)
  IN
  /\ s.state = "Established" /\ Len(written[s.port]["c"]) < MARKERS
  /\ t # s
  /\ sock' = [sock EXCEPT !["c"] = t]
  /\ written' = [written EXCEPT ![s.port]["c"] = Append(@, Len(@) + 1)]
  /\ UNCHANGED << wire, opens, taken, closed, ahead, eof >>

CloseOut ==
  LET s == sock["c"] IN
  /\ s.state = "Established" /\ Len(written[s.port]["c"]) = MARKERS /\ ~ s.fin_req
  /\ sock' = [sock EXCEPT !["c"] = app_close(s)]
  /\ closed' = [closed EXCEPT ![s.port] = @ \cup {"c"}]
  /\ UNCHANGED << wire, opens, written, taken, ahead, eof >>

TcpNext ==
  \/ Listen \/ Connect \/ WriteMarker \/ CloseOut
  \/ \E h \in Hosts :
       \/ TakeEvents(h)
       \/ \E expired \in BOOLEAN : Poll(h, expired)
       \/ \E k \in 0 .. TCP_MSS, fin \in BOOLEAN : Pipeline(h, k, fin)
       \/ \E i \in 1 .. NET_MAX[h] :
            Lose(h, i) \/ Deliver(h, i) \/ DeliverNone(h, i)

TcpSpec == TcpInit /\ [][TcpNext]_tcpVars

\* The loop polls the stack in every round and the clock runs, so a timer that
\* is waited for is found expired.
TcpFairSpec == TcpSpec /\ \A h \in Hosts : WF_tcpVars(Poll(h, TRUE))

-----------------------------------------------------------------------------
(* Properties *)

\* Unread bytes of the end h of connection n.
Held == [ n \in Ports |-> [ h \in Hosts |->
            IF sock[h] # NoSock /\ sock[h].port = n THEN Len(sock[h].rx) ELSE 0 ] ]

S == INSTANCE Stream WITH Conns <- Ports, Ends <- Hosts, CAPACITY <- RX_BUF, held <- Held

\* Over a network that loses and duplicates frames but keeps their order, the
\* sockets implement the byte streams: retransmission and in-order acceptance
\* (rx_data, tcp.rs:447) neither skip, repeat nor permute bytes, a byte is lost
\* only when it finds the receive buffer full, and a FIN (rx_fin, tcp.rs:463) is
\* accepted only behind the last byte, unless the peer sent it before its data
\* was acknowledged.
ImplementsStream == S!Spec

\* A socket that is connecting, has data in flight or an unacknowledged FIN.
Outstanding(h) ==
  /\ sock[h] # NoSock /\ ~ sock[h].dead
  /\ \/ Handshaking(sock[h])
     \/ sock[h].inflight > 0
     \/ sock[h].fin_sent /\ ~ sock[h].fin_acked

\* Whatever the network does, a socket never waits for an answer for ever:
\* again and again it waits for none, because the answer came or because the
\* retries ran out and it reports Closed.
NeverWaitsForever == \A h \in Hosts : []<> ~ Outstanding(h)

\* Both FINs acknowledged is the only way a connection that got no reset and
\* exhausted no timer dies (rx_ack, rx_fin); then each stream was acknowledged
\* to its last byte, unless its writer sent the FIN before that.
CleanCloseIsComplete ==
  \A h \in Hosts :
    sock[h] # NoSock =>
      LET n == sock[h].port IN
      n # 0 /\ sock[h].dead /\ sock[h].rx_fin /\ sock[h].fin_acked =>
        \A e \in Hosts \ ahead[n] : Len(taken[n][Other(e)]) = Len(written[n][e])
=============================================================================
