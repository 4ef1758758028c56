--------------------------------- MODULE Nic ---------------------------------
(***************************************************************************)
(* The virtio-net driver (libtanix-drv/net.rs) under the loop of the net    *)
(* server: one pass takes returned TX buffers, receives until recv answers  *)
(* None, flushing the stack's answers after every frame, then flushes what  *)
(* the timers queued.  The device runs concurrently and returns buffers     *)
(* whenever it likes.                                                       *)
(***************************************************************************)
EXTENDS Vring

CONSTANTS
  RX_COUNT,     \* receive slots 0 .. RX_COUNT - 1 (32)
  DRAIN,        \* entries one drain_used call takes (8)
  BURST,        \* bound: frames the device returns ahead of the driver
  NIC_FRAMES,   \* bound: frames that arrive
  NIC_OUT       \* bound: frames the stack queues

ASSUME NicAssumption == RX_COUNT \in Nat \ {0} /\ DRAIN \in Nat \ {0}

VARIABLES
  rxq, txq,     \* the two vrings
  rxbuf,        \* slot -> frame in its buffer
  tx_buf,       \* frame in the only TX buffer
  tx_done,
  dma,          \* the device is sending the TX buffer
  srv,          \* where the server's loop is
  copying,      \* slot whose buffer recv is copying, RX_COUNT when none
  refilled,     \* history: the device wrote into that buffer meanwhile
  outq,         \* frames of the stack's OutQueue that are not sent yet
  arrived, handed, \* frames that arrived, frames handed to the stack
                \* (Torn: copied from a buffer that was refilled)
  queued, onWire  \* frames the stack queued, frames the device sent

nicVars == << rxq, txq, rxbuf, tx_buf, tx_done, dma, srv, copying, refilled,
              outq, arrived, handed, queued, onWire >>

RxSlots == 0 .. RX_COUNT - 1
TX_SLOT == RX_COUNT
HDR_ONLY == 0         \* length of an entry that recv skips
NoPacket == 0
Torn == 0

\* publish for one head after the other.
Armed(q, heads) ==
  LET armed[i \in 0 .. Len(heads)] ==
        IF i = 0 THEN q ELSE publish(armed[i - 1], heads[i])
  IN armed[Len(heads)]

\* The entries one drain_used call takes.
Batch(q) == IF Returned(q) < DRAIN THEN Returned(q) ELSE DRAIN

\* open: every receive slot is armed before the device goes live.
NicInit ==
  /\ rxq = Armed(NewRing, [ i \in 1 .. RX_COUNT |-> i - 1 ])
  /\ txq = NewRing
  /\ rxbuf = [ s \in RxSlots |-> NoPacket ]
  /\ tx_buf = NoPacket /\ tx_done = TRUE /\ dma = FALSE
  /\ srv = "poll" /\ copying = RX_COUNT /\ refilled = FALSE
  /\ outq = << >> /\ arrived = << >> /\ handed = << >>
  /\ queued = 0 /\ onWire = << >>

\* The stack queues the next k frames.
Queue(k) ==
  /\ queued + k <= NIC_OUT
  /\ outq' = outq \o [ i \in 1 .. k |-> queued + i ]
  /\ queued' = queued + k

\* poll_tx: TX entries that came back free the slot.
poll_tx ==
  LET n == Batch(txq) IN
  /\ txq' = drain_used(txq, n)
  /\ tx_done' = (tx_done \/ \E k \in 1 .. n : UsedEntry(txq, k)[1] = TX_SLOT)

PollTx ==
  /\ srv = "poll" /\ srv' = "recv"
  /\ poll_tx
  /\ UNCHANGED << rxq, rxbuf, tx_buf, dma, copying, refilled, outq, arrived,
                  handed, queued, onWire >>

\* The entries recv looks at: up to the first one it can use.
Looked(n) ==
  CHOOSE m \in 0 .. n :
    /\ m < n => m > 0 /\ UsedEntry(rxq, m)[2] # HDR_ONLY
    /\ \A k \in 1 .. m - 1 : UsedEntry(rxq, k)[2] = HDR_ONLY

\* recv drains up to DRAIN entries, re-arms the ones it looks at, and starts
\* to copy the first usable one; with none it answers None.
recv ==
  LET n == Batch(rxq)
      m == Looked(n)
      found == m > 0 /\ UsedEntry(rxq, m)[2] # HDR_ONLY
  IN /\ srv = "recv" /\ copying = RX_COUNT
     /\ rxq' = Armed(drain_used(rxq, n), [ k \in 1 .. m |-> UsedEntry(rxq, k)[1] ])
     /\ copying' = IF found THEN UsedEntry(rxq, m)[1] ELSE RX_COUNT
     /\ refilled' = FALSE
     /\ srv' = IF found THEN "recv" ELSE "timers"
     /\ UNCHANGED << txq, rxbuf, tx_buf, tx_done, dma, outq, arrived, handed,
                     queued, onWire >>

\* The copy ends: the frame goes to the stack, which may answer it.
recv_copied ==
  /\ copying # RX_COUNT
  /\ handed' = Append(handed, IF refilled THEN Torn ELSE rxbuf[copying])
  /\ copying' = RX_COUNT /\ refilled' = FALSE
  /\ \E k \in 0 .. 1 : Queue(k)
  /\ srv' = "flush"
  /\ UNCHANGED << rxq, txq, rxbuf, tx_buf, tx_done, dma, arrived, onWire >>

\* The stack's timers queue frames.
Timers ==
  /\ srv = "timers" /\ srv' = "flushall"
  /\ \E k \in 0 .. 2 : Queue(k)
  /\ UNCHANGED << rxq, txq, rxbuf, tx_buf, tx_done, dma, copying, refilled,
                  arrived, handed, onWire >>

\* The bug of overwriting the TX buffer without waiting for the last transmit.
send_Unchecked ==
  /\ tx_buf' = Head(outq)
  /\ txq' = publish(txq, TX_SLOT)
  /\ tx_done' = FALSE
  /\ outq' = Tail(outq)

\* send: refused while a transmit is in flight.
send ==
  /\ tx_done
  /\ tx_buf' = Head(outq)
  /\ txq' = publish(txq, TX_SLOT)
  /\ tx_done' = FALSE
  /\ outq' = Tail(outq)

\* The bug of a flush that drops the frame send refuses.
Flush_GivesUp ==
  /\ srv \in {"flush", "flushall"}
  /\ \/ /\ outq = << >>
        /\ srv' = IF srv = "flush" THEN "recv" ELSE "poll"
        /\ UNCHANGED << txq, tx_buf, tx_done, outq >>
     \/ outq # << >> /\ send /\ UNCHANGED srv
     \/ /\ outq # << >> /\ ~ tx_done /\ outq' = Tail(outq)
        /\ UNCHANGED << srv, txq, tx_buf, tx_done >>
  /\ UNCHANGED << rxq, rxbuf, dma, copying, refilled, arrived, handed, queued, onWire >>

\* flush: for each queued frame, send or poll the TX ring and try again.
Flush ==
  /\ srv \in {"flush", "flushall"}
  /\ \/ /\ outq = << >>
        /\ srv' = IF srv = "flush" THEN "recv" ELSE "poll"
        /\ UNCHANGED << txq, tx_buf, tx_done, outq >>
     \/ outq # << >> /\ send /\ UNCHANGED srv
     \/ outq # << >> /\ ~ tx_done /\ poll_tx /\ UNCHANGED << srv, tx_buf, outq >>
  /\ UNCHANGED << rxq, rxbuf, dma, copying, refilled, arrived, handed, queued, onWire >>

(* The device. *)

\* A frame comes in: it fills the next armed buffer, or is dropped.
DeviceRx(good) ==
  LET f == Len(arrived) + 1
      s == NextHead(rxq)
  IN /\ f <= NIC_FRAMES /\ Returned(rxq) < BURST
     /\ HasAvail(rxq)
     /\ rxbuf' = [rxbuf EXCEPT ![s] = IF good THEN f ELSE NoPacket]
     /\ rxq' = Return(Fetch(rxq), s, IF good THEN 1 ELSE HDR_ONLY)
     /\ arrived' = Append(arrived, IF good THEN f ELSE NoPacket)
     /\ refilled' = (refilled \/ s = copying)
     /\ UNCHANGED << txq, tx_buf, tx_done, dma, srv, copying, outq, handed,
                     queued, onWire >>

DeviceFetchTx ==
  /\ ~ dma /\ HasAvail(txq)
  /\ txq' = Fetch(txq) /\ dma' = TRUE
  /\ UNCHANGED << rxq, rxbuf, tx_buf, tx_done, srv, copying, refilled, outq, arrived,
                  handed, queued, onWire >>

DeviceSent ==
  /\ dma /\ dma' = FALSE
  /\ onWire' = Append(onWire, tx_buf)
  /\ txq' = Return(txq, TX_SLOT, 0)
  /\ UNCHANGED << rxq, rxbuf, tx_buf, tx_done, srv, copying, refilled, outq, arrived,
                  handed, queued >>

Device == \/ \E good \in BOOLEAN : DeviceRx(good)
          \/ DeviceFetchTx
          \/ DeviceSent

NicNext == PollTx \/ recv \/ recv_copied \/ Timers \/ Flush \/ Device

NicSpec == NicInit /\ [][NicNext]_nicVars

NicFairness ==
  /\ WF_nicVars(PollTx \/ recv \/ recv_copied \/ Timers \/ Flush)
  /\ WF_nicVars(DeviceFetchTx \/ DeviceSent)

NicFairSpec == NicSpec /\ NicFairness
-----------------------------------------------------------------------------
\* What the device puts on the wire is what the stack queued, each frame once
\* and in order: send (net.rs:181) never touches the only TX buffer while the
\* device still reads it, however late the used entry comes back.
SentOnceInOrder ==
  /\ onWire = [ k \in 1 .. Len(onWire) |-> k ]
  /\ Len(onWire) <= queued

\* The server's flush (net/main.rs:68) never drops a frame: whatever the stack
\* queues is on the wire in the end.
FlushNeverDrops == []<>(Len(onWire) = queued)

\* The frames the stack hears whole are frames that arrived, each once and in
\* order, although recv (net.rs:154) pops a batch of entries of which it returns
\* one frame.  A frame is not heard whole when the device, to which recv has
\* given the buffer back before it copies it, has filled it again meanwhile.
HeardOnceInOrder ==
  LET whole == SelectSeq(handed, LAMBDA f : f # Torn) IN
  /\ \A i \in DOMAIN whole : \E j \in DOMAIN arrived : whole[i] = arrived[j]
  /\ \A i, j \in DOMAIN whole : i < j => whole[i] < whole[j]
=============================================================================
