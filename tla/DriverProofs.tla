---------------------------- MODULE DriverProofs ----------------------------
(***************************************************************************)
(* The three virtio drivers over the split rings of Vring, for every ring   *)
(* size and index width.  A client of the display server whose FLUSH was    *)
(* answered 1 sees what it drew, with a device that fails any command; the  *)
(* block driver implements atomic sectors; the network driver sends what    *)
(* the stack queued, once and in order.  Each invariant says that at most   *)
(* one request is in flight and what its buffers hold at every stage of it. *)
(***************************************************************************)
EXTENDS Gpu, Blk, Nic, SequenceTheorems, TLAPS

Commands == { "GET_DISPLAY_INFO", "RESOURCE_CREATE_2D", "RESOURCE_ATTACH_BACKING",
              "SET_SCANOUT", "TRANSFER_TO_HOST_2D", "RESOURCE_FLUSH" }
Positions == 0 .. QUEUE_SIZE - 1
Indices == 0 .. IDX_MAX - 1
Rings == [ avail : [Positions -> Nat], avail_idx : Indices, seen : Indices,
           used : [Positions -> Nat \X Nat], used_idx : Indices, used_tail : Indices ]
Devices == [ made : SUBSET Commands, host : Nat, screen : Nat ]

-----------------------------------------------------------------------------
(* The ring *)

LEMMA RingArithmetic ==
  ASSUME NEW i \in Nat
  PROVE  i % QUEUE_SIZE \in Positions /\ Inc(i) \in Indices
BY VringAssumption DEF Positions, Indices, Inc

LEMMA IndexTypes == Indices \subseteq Nat /\ Positions \subseteq Nat
BY VringAssumption DEF Indices, Positions

LEMMA NewRingType ==
  /\ NewRing \in Rings
  /\ NewRing.seen = NewRing.avail_idx /\ NewRing.used_idx = NewRing.used_tail
BY VringAssumption DEF NewRing, Rings, Positions, Indices

\* publish puts the head where the device looks next, if the device has taken
\* everything before.
LEMMA Published ==
  ASSUME NEW q \in Rings, NEW h \in Nat, q.seen = q.avail_idx
  PROVE  LET r == publish(q, h) IN
         /\ r \in Rings /\ r.avail_idx = Inc(r.seen) /\ NextHead(r) = h
         /\ r.used_idx = q.used_idx /\ r.used_tail = q.used_tail
<1>. DEFINE p == q.avail_idx % QUEUE_SIZE
            n == Inc(q.avail_idx)
            a == [q.avail EXCEPT ![p] = h]
<1>1. p \in Positions /\ n \in Indices
  BY Zenon, RingArithmetic, IndexTypes DEF Rings
<1>2. publish(q, h) = [q EXCEPT !.avail = a, !.avail_idx = n]
  BY Zenon DEF publish
<1>3. NextHead(publish(q, h)) = publish(q, h).avail[publish(q, h).seen % QUEUE_SIZE]
  BY Zenon DEF NextHead
<1>4. publish(q, h).seen = q.avail_idx
  BY <1>2 DEF Rings
<1>. HIDE DEF p, n
<1>. a \in [Positions -> Nat] /\ a[p] = h
  BY <1>1 DEF Rings
<1>. HIDE DEF a
<1>5. /\ publish(q, h) \in Rings /\ publish(q, h).avail_idx = n
      /\ publish(q, h).avail[p] = h
      /\ publish(q, h).used_idx = q.used_idx /\ publish(q, h).used_tail = q.used_tail
  BY Zenon, <1>1, <1>2 DEF Rings
<1>. QED BY Zenon, <1>3, <1>4, <1>5 DEF p, n

\* The device takes the one chain published.
LEMMA Taken ==
  ASSUME NEW q \in Rings, q.avail_idx = Inc(q.seen)
  PROVE  LET r == Fetch(q) IN
         /\ r \in Rings /\ r.seen = r.avail_idx
         /\ r.used_idx = q.used_idx /\ r.used_tail = q.used_tail
<1>1. PICK n \in Indices : n = Inc(q.seen)
  BY Zenon, RingArithmetic, IndexTypes DEF Rings
<1>2. Fetch(q) = [q EXCEPT !.seen = n]
  BY Zenon, <1>1 DEF Fetch
<1>. QED BY <1>1, <1>2 DEF Rings

\* The device returns a chain: the driver finds the entry when it has popped
\* everything before.
LEMMA GivenBack ==
  ASSUME NEW q \in Rings, NEW id \in Nat, NEW len \in Nat
  PROVE  LET r == Return(q, id, len) IN
         /\ r \in Rings /\ r.seen = q.seen /\ r.avail_idx = q.avail_idx
         /\ r.used_tail = q.used_tail /\ r.used_idx = Inc(q.used_idx)
         /\ q.used_idx = q.used_tail => UsedEntry(r, 1) = << id, len >>
<1>1. PICK u \in Positions : u = q.used_idx % QUEUE_SIZE
  BY Zenon, RingArithmetic, IndexTypes DEF Rings
<1>2. PICK m \in Indices : m = Inc(q.used_idx)
  BY Zenon, RingArithmetic, IndexTypes DEF Rings
<1>3. PICK e : e = << id, len >>
  BY Zenon
<1>. e \in Nat \X Nat
  BY <1>3
<1>4. PICK a : a = [q.used EXCEPT ![u] = e]
  BY Zenon
<1>. a \in [Positions -> Nat \X Nat] /\ a[u] = e
  BY <1>4 DEF Rings
<1>5. Return(q, id, len) = [q EXCEPT !.used = a, !.used_idx = m]
  BY Zenon, <1>1, <1>2, <1>3, <1>4 DEF Return
<1>6. PICK r \in Rings :
        /\ r = Return(q, id, len) /\ r.seen = q.seen /\ r.avail_idx = q.avail_idx
        /\ r.used_tail = q.used_tail /\ r.used_idx = m /\ r.used = a
  BY Zenon, <1>5 DEF Rings
<1>7. \A i \in Indices : (i + 1 - 1) % IDX_MAX = i
  BY VringAssumption DEF Indices
<1>8. q.used_tail \in Indices
  BY DEF Rings
<1>9. ASSUME q.used_idx = q.used_tail PROVE UsedEntry(r, 1) = << id, len >>
  <2>1. (r.used_tail + 1 - 1) % IDX_MAX = q.used_idx
    BY Zenon, <1>6, <1>7, <1>8, <1>9
  <2>2. UsedEntry(r, 1) = r.used[((r.used_tail + 1 - 1) % IDX_MAX) % QUEUE_SIZE]
    BY Zenon DEF UsedEntry
  <2>. QED BY Zenon, <1>1, <1>3, <1>4, <1>6, <2>1, <2>2
<1>. QED BY Zenon, <1>2, <1>6, <1>9

\* The driver pops the one entry returned.
LEMMA Popped ==
  ASSUME NEW q \in Rings, q.used_idx = Inc(q.used_tail)
  PROVE  LET r == pop_used(q) IN
         /\ r \in Rings /\ r.seen = q.seen /\ r.avail_idx = q.avail_idx
         /\ r.used_idx = r.used_tail
<1>1. PICK n \in Indices : n = Inc(q.used_tail)
  BY Zenon, RingArithmetic, IndexTypes DEF Rings
<1>2. pop_used(q) = [q EXCEPT !.used_tail = n]
  BY Zenon, <1>1 DEF pop_used
<1>. QED BY <1>1, <1>2 DEF Rings

-----------------------------------------------------------------------------
(* The display server's driver *)

\* Boot, element by element.
LEMMA BootElements ==
  /\ Boot \in Seq(Commands) /\ Len(Boot) = 6
  /\ \A i \in 1 .. 6 : Boot[i] = IF i <= 4 THEN SetupCommands[i] ELSE FlushCommands[i - 4]
<1>. DEFINE s == SetupCommands
            f == FlushCommands
            b == Boot
<1>1. s \in Seq(Commands) /\ Len(s) = 4 /\ f \in Seq(Commands) /\ Len(f) = 2
  BY DEF SetupCommands, FlushCommands, Commands
<1>2. /\ b \in Seq(Commands) /\ Len(b) = Len(s) + Len(f)
      /\ \A i \in 1 .. Len(s) + Len(f) : b[i] = IF i <= Len(s) THEN s[i] ELSE f[i - Len(s)]
  BY Zenon, <1>1, ConcatProperties DEF Boot
<1>. HIDE DEF b, s, f
<1>3. \A i \in 1 .. 6 : b[i] = IF i <= 4 THEN s[i] ELSE f[i - 4]
  BY <1>1, <1>2
<1>4. Len(b) = 6
  BY <1>1, <1>2
<1>. QED BY Zenon, <1>2, <1>3, <1>4 DEF b, s, f

\* The commands follow each other in the order of Boot, and only the transfer
\* is followed by RESOURCE_FLUSH.
LEMMA NextCommand ==
  ASSUME NEW c \in Commands, c # "RESOURCE_FLUSH"
  PROVE  /\ Boot[Position(c) + 1] \in Commands
         /\ Boot[Position(c) + 1] = "RESOURCE_FLUSH" => c = "TRANSFER_TO_HOST_2D"
<1>. DEFINE b == Boot
<1>1. /\ b \in Seq(Commands) /\ Len(b) = 6
      /\ \A i \in 1 .. 6 : b[i] = IF i <= 4 THEN SetupCommands[i] ELSE FlushCommands[i - 4]
  BY Zenon, BootElements
<1>. HIDE DEF b
<1>2. DOMAIN b = 1 .. 6 /\ \E i \in 1 .. 6 : b[i] = c
  BY <1>1 DEF Commands, SetupCommands, FlushCommands
<1>. DEFINE p == Position(c)
<1>3. p \in 1 .. 6 /\ b[p] = c
  BY Zenon, <1>2 DEF Position, b
<1>. HIDE DEF p
<1>4. p # 6
  BY <1>1, <1>3 DEF FlushCommands
<1>5. b[p + 1] \in Commands
  <2>1. b \in Seq(Commands) /\ p + 1 \in 1 .. Len(b)
    BY <1>1, <1>3, <1>4
  <2>. QED BY <2>1
<1>6. b[p + 1] = "RESOURCE_FLUSH" => c = "TRANSFER_TO_HOST_2D"
  BY <1>1, <1>3, <1>4 DEF SetupCommands, FlushCommands
<1>. QED BY Zenon, <1>5, <1>6 DEF p, b

-----------------------------------------------------------------------------
(* The invariant *)

GpuTypes ==
  /\ ctlq \in Rings /\ desc \in [Positions -> Commands \cup {"none"}]
  /\ desc_head \in Positions /\ head \in Positions
  /\ gpuPc \in {"submit", "wait", "poll", "draw", "off"}
  /\ cmd \in Commands
  /\ fb \in Nat /\ gfx \in Devices

\* The command in flight is the one the device will read next.
InFlight ==
  /\ gpuPc = "wait" /\ line = FALSE
  /\ ctlq.avail_idx = Inc(ctlq.seen)
  /\ NextHead(ctlq) = head /\ desc[head] = cmd

Answered == gpuPc = "poll" \/ (gpuPc = "wait" /\ line = TRUE)

OneAtATime ==
  \/ InFlight
  \/ /\ ctlq.seen = ctlq.avail_idx
     /\ gpuPc = "wait" => line = TRUE
     /\ gpuPc # "wait" => line = FALSE

\* How far the pixels have come: to the host before RESOURCE_FLUSH is asked
\* for, to the screen once it is answered.
Pixels ==
  /\ cmd = "RESOURCE_FLUSH" /\ gpuPc \in {"submit", "wait", "poll"} => gfx.host = fb
  /\ Answered /\ resp = "OK" /\ cmd = "TRANSFER_TO_HOST_2D" => gfx.host = fb
  /\ Answered /\ resp = "OK" /\ cmd = "RESOURCE_FLUSH" => gfx.screen = fb
  /\ gpuPc # "draw" => presented = FALSE
  /\ PresentedIsShown

GpuInv == GpuTypes /\ OneAtATime /\ Pixels

LEMMA GpuInvInit == GpuInit => GpuInv
<1>. SUFFICES ASSUME GpuInit PROVE GpuInv
  OBVIOUS
<1>. USE DEF GpuInit
<1>1. Boot[1] = "GET_DISPLAY_INFO"
  <2>1. Boot[1] = SetupCommands[1]
    BY BootElements
  <2>. QED BY <2>1 DEF SetupCommands
<1>2. GpuTypes
  <2>1. 0 \in Positions
    BY VringAssumption DEF Positions
  <2>2. gfx \in Devices
    BY DEF Devices
  <2>3. desc \in [Positions -> Commands \cup {"none"}]
    BY DEF Positions
  <2>4. ctlq \in Rings
    BY Zenon, NewRingType
  <2>. QED BY <1>1, <2>1, <2>2, <2>3, <2>4 DEF GpuTypes, Commands
<1>3. OneAtATime
  BY NewRingType DEF OneAtATime
<1>4. Pixels
  BY <1>1 DEF Pixels, Answered, PresentedIsShown
<1>. QED BY Zenon, <1>2, <1>3, <1>4 DEF GpuInv

\* What the caller does with the answer keeps the pixels where they must be.
LEMMA Continued ==
  ASSUME GpuTypes, Pixels, gpuPc = "poll", NEW ok \in BOOLEAN,
         ok => resp = "OK", Continue(ok), UNCHANGED << fb, gfx >>
  PROVE  /\ gpuPc' \in {"submit", "draw", "off"} /\ cmd' \in Commands
         /\ Pixels'
<1>1. CASE cmd = "RESOURCE_FLUSH" \/ (cmd = "TRANSFER_TO_HOST_2D" /\ ~ ok)
  <2>1. gpuPc' = "draw" /\ presented' = ok /\ UNCHANGED cmd
    BY Zenon, <1>1 DEF Continue
  <2>2. presented' => gfx.screen = fb
    BY Zenon, <1>1, <2>1 DEF Pixels, Answered
  <2>3. PresentedIsShown'
    BY Zenon, <2>2 DEF PresentedIsShown
  <2>4. ~ Answered' /\ gpuPc' \notin {"submit", "wait", "poll"}
    BY <2>1 DEF Answered
  <2>5. Pixels'
    BY Zenon, <2>1, <2>3, <2>4 DEF Pixels
  <2>. QED BY Zenon, <2>1, <2>5 DEF GpuTypes
<1>2. CASE ~ (cmd = "RESOURCE_FLUSH" \/ (cmd = "TRANSFER_TO_HOST_2D" /\ ~ ok)) /\ ok
  <2>1. gpuPc' = "submit" /\ cmd' = Boot[Position(cmd) + 1] /\ UNCHANGED presented
    BY Zenon, <1>2 DEF Continue
  <2>2. /\ cmd' \in Commands
        /\ cmd' = "RESOURCE_FLUSH" => cmd = "TRANSFER_TO_HOST_2D"
    BY Zenon, <1>2, <2>1, NextCommand DEF GpuTypes
  <2>3. cmd' = "RESOURCE_FLUSH" => gfx.host = fb
    BY Zenon, <1>2, <2>2 DEF Pixels, Answered
  <2>4. presented' = FALSE
    BY Zenon, <2>1 DEF Pixels
  <2>5. ~ Answered' /\ PresentedIsShown'
    BY <2>1, <2>4 DEF Answered, PresentedIsShown
  <2>6. Pixels'
    BY Zenon, <2>3, <2>4, <2>5 DEF Pixels
  <2>. QED BY Zenon, <2>1, <2>2, <2>6
<1>3. CASE ~ (cmd = "RESOURCE_FLUSH" \/ (cmd = "TRANSFER_TO_HOST_2D" /\ ~ ok)) /\ ~ ok
  <2>1. gpuPc' = "off" /\ UNCHANGED << cmd, presented >>
    BY Zenon, <1>3 DEF Continue
  <2>2. presented' = FALSE
    BY Zenon, <2>1 DEF Pixels
  <2>3. ~ Answered' /\ PresentedIsShown' /\ gpuPc' \notin {"submit", "wait", "poll"}
    BY <2>1, <2>2 DEF Answered, PresentedIsShown
  <2>4. Pixels'
    BY Zenon, <2>2, <2>3 DEF Pixels
  <2>. QED BY Zenon, <2>1, <2>4 DEF GpuTypes
<1>. QED BY Zenon, <1>1, <1>2, <1>3

LEMMA GpuInvStep == GpuInv /\ [GpuNext]_gpuVars => GpuInv'
<1>. SUFFICES ASSUME GpuInv, [GpuNext]_gpuVars PROVE GpuInv'
  OBVIOUS
<1>. USE DEF GpuInv
<1>1. CASE submit
  <2>1. /\ gpuPc = "submit" /\ gpuPc' = "wait"
        /\ desc' = [desc EXCEPT ![desc_head] = cmd] /\ head' = desc_head
        /\ desc_head' = (desc_head + ChainLength(cmd)) % QUEUE_SIZE
        /\ ctlq' = publish(ctlq, desc_head)
        /\ UNCHANGED << cmd, resp, line, fb, gfx, presented >>
    BY Zenon, <1>1 DEF submit
  <2>2. ctlq.seen = ctlq.avail_idx
    BY <2>1 DEF OneAtATime, InFlight
  <2>3. /\ ctlq' \in Rings /\ ctlq'.avail_idx = Inc(ctlq'.seen)
        /\ NextHead(ctlq') = desc_head
    BY Zenon, <2>1, <2>2, Published, IndexTypes DEF GpuTypes
  <2>4. desc_head' \in Positions
    <3>1. desc_head + ChainLength(cmd) \in Nat
      BY VringAssumption DEF GpuTypes, Positions, ChainLength
    <3>. QED BY Zenon, <2>1, <3>1, RingArithmetic
  <2>5. desc' \in [Positions -> Commands \cup {"none"}] /\ desc'[head'] = cmd
    BY <2>1 DEF GpuTypes
  <2>6. GpuTypes'
    BY Zenon, <2>1, <2>3, <2>4, <2>5 DEF GpuTypes
  <2>7. OneAtATime'
    <3>1. line = FALSE
      BY Zenon, <2>1 DEF OneAtATime, InFlight
    <3>. QED BY Zenon, <2>1, <2>3, <2>5, <3>1 DEF OneAtATime, InFlight
  <2>8. Pixels'
    <3>1. ~ Answered' /\ presented' = FALSE
      BY Zenon, <2>1, <2>7 DEF Answered, OneAtATime, InFlight, Pixels
    <3>. QED BY <2>1, <3>1 DEF Pixels, PresentedIsShown
  <2>. QED BY Zenon, <2>6, <2>7, <2>8
<1>2. CASE ack_interrupt
  <2>1. /\ gpuPc = "wait" /\ line /\ line' = FALSE /\ gpuPc' = "poll"
        /\ UNCHANGED << ctlq, desc, desc_head, head, cmd, resp, fb, gfx, presented >>
    BY Zenon, <1>2 DEF ack_interrupt
  <2>2. GpuTypes'
    BY <2>1 DEF GpuTypes
  <2>3. ctlq.seen = ctlq.avail_idx /\ line = TRUE
    BY Zenon, <2>1 DEF OneAtATime, InFlight
  <2>4. OneAtATime'
    BY <2>1, <2>3 DEF OneAtATime
  <2>5. Answered
    BY Zenon, <2>1, <2>3 DEF Answered
  <2>6. PresentedIsShown' /\ gpuPc # "draw" /\ gpuPc' # "draw"
    BY <2>1 DEF Pixels, PresentedIsShown
  <2>7. Pixels'
    BY <2>1, <2>5, <2>6 DEF Pixels
  <2>. QED BY Zenon, <2>2, <2>4, <2>7
<1>3. ASSUME roundtrip \/ GiveUp PROVE GpuInv'
  <2>1. /\ gpuPc = "poll" /\ \E ok \in BOOLEAN : (ok => resp = "OK") /\ Continue(ok)
        /\ UNCHANGED << ctlq, desc, desc_head, head, resp, line, fb, gfx >>
    BY Zenon, <1>3 DEF roundtrip, GiveUp
  <2>2. /\ gpuPc' \in {"submit", "draw", "off"} /\ cmd' \in Commands /\ Pixels'
    BY Zenon, <2>1, Continued
  <2>3. GpuTypes'
    BY <2>1, <2>2 DEF GpuTypes
  <2>4. OneAtATime'
    BY <2>1, <2>2 DEF OneAtATime, InFlight
  <2>. QED BY Zenon, <2>2, <2>3, <2>4
<1>4. CASE draw
  <2>1. /\ gpuPc = "draw" /\ fb' = fb + 1 /\ presented' = FALSE
        /\ UNCHANGED << ctlq, desc, desc_head, head, gpuPc, cmd, resp, line, gfx >>
    BY Zenon, <1>4 DEF draw
  <2>2. GpuTypes'
    BY <2>1 DEF GpuTypes
  <2>3. OneAtATime'
    BY <2>1 DEF OneAtATime, InFlight
  <2>4. Pixels'
    BY <2>1 DEF Pixels, Answered, PresentedIsShown
  <2>. QED BY Zenon, <2>2, <2>3, <2>4
<1>5. CASE flush
  <2>1. /\ gpuPc = "draw" /\ gpuPc' = "submit" /\ cmd' = FlushCommands[1]
        /\ presented' = FALSE
        /\ UNCHANGED << ctlq, desc, desc_head, head, resp, line, fb, gfx >>
    BY Zenon, <1>5 DEF flush
  <2>2. cmd' = "TRANSFER_TO_HOST_2D"
    BY <2>1 DEF FlushCommands
  <2>3. GpuTypes'
    BY SMTT(30), <2>1, <2>2 DEF GpuTypes, Commands
  <2>4. OneAtATime'
    BY <2>1 DEF OneAtATime, InFlight
  <2>5. Pixels'
    BY <2>1, <2>2 DEF Pixels, Answered, PresentedIsShown
  <2>. QED BY Zenon, <2>3, <2>4, <2>5
<1>6. ASSUME NEW ok \in BOOLEAN, GpuDevice(ok) PROVE GpuInv'
  <2>1. InFlight
    BY Zenon, <1>6 DEF GpuDevice, HasAvail, OneAtATime
  <2>2. /\ gfx' = IF ok THEN Executed(cmd) ELSE gfx
        /\ resp' = IF ok THEN "OK" ELSE "ERR"
        /\ ctlq' = Return(Fetch(ctlq), head, 24) /\ line' = TRUE
        /\ UNCHANGED << desc, desc_head, head, gpuPc, cmd, fb, presented >>
    BY Zenon, <1>6, <2>1 DEF GpuDevice, InFlight
  <2>3. ctlq' \in Rings /\ ctlq'.seen = ctlq'.avail_idx
    <3>1. Fetch(ctlq) \in Rings /\ Fetch(ctlq).seen = Fetch(ctlq).avail_idx
      BY Zenon, <2>1, Taken DEF InFlight, GpuTypes
    <3>2. head \in Nat /\ 24 \in Nat
      BY IndexTypes DEF GpuTypes
    <3>. QED BY ZenonT(40), <2>2, <3>1, <3>2, GivenBack
  <2>4. /\ Executed(cmd) \in Devices
        /\ cmd = "TRANSFER_TO_HOST_2D" => Executed(cmd).host = fb
        /\ cmd = "RESOURCE_FLUSH" =>
             Executed(cmd).host = gfx.host /\ Executed(cmd).screen = gfx.host
    BY DEF Executed, Devices, GpuTypes
  <2>5. GpuTypes'
    BY Zenon, <2>2, <2>3, <2>4 DEF GpuTypes
  <2>6. OneAtATime'
    BY <2>1, <2>2, <2>3 DEF OneAtATime, InFlight
  <2>7. presented' = FALSE /\ gpuPc' = "wait"
    BY Zenon, <2>1, <2>2 DEF InFlight, Pixels
  <2>8. PresentedIsShown'
    BY Zenon, <2>7 DEF PresentedIsShown
  <2>9. Pixels'
    <3>1. CASE ok
      <4>1. gfx' = Executed(cmd)
        BY Zenon, <2>2, <3>1
      <4>2. cmd' = "RESOURCE_FLUSH" => gfx.host = fb
        BY <2>1, <2>2 DEF InFlight, Pixels
      <4>. QED BY Zenon, <2>2, <2>4, <2>7, <2>8, <4>1, <4>2 DEF Pixels
    <3>2. CASE ~ ok
      <4>1. gfx' = gfx /\ resp' = "ERR"
        BY Zenon, <2>2, <3>2
      <4>2. cmd' = "RESOURCE_FLUSH" => gfx.host = fb
        BY <2>1, <2>2 DEF InFlight, Pixels
      <4>3. resp' # "OK"
        BY <4>1
      <4>. QED BY Zenon, <2>2, <2>7, <2>8, <4>1, <4>2, <4>3 DEF Pixels
    <3>. QED BY Zenon, <3>1, <3>2
  <2>. QED BY Zenon, <2>5, <2>6, <2>9
<1>7. CASE UNCHANGED gpuVars
  <2>1. UNCHANGED << ctlq, desc, desc_head, head, gpuPc, cmd, resp, line, fb, gfx,
                     presented >>
    BY Zenon, <1>7 DEF gpuVars
  <2>2. GpuTypes' /\ OneAtATime'
    BY SMTT(30), <2>1 DEF GpuTypes, OneAtATime, InFlight
  <2>3. Pixels'
    BY <2>1 DEF Pixels, Answered, PresentedIsShown
  <2>. QED BY Zenon, <2>2, <2>3
<1>. QED BY Zenon, <1>1, <1>2, <1>3, <1>4, <1>5, <1>6, <1>7 DEF GpuNext

\* A FLUSH answered 1 has put the framebuffer on the scanout: the two round
\* trips of Gpu::flush and the polling of submit only ever read the answer to
\* their own command, at any ring size, and also once the index has wrapped.
THEOREM FlushShows == GpuSpec => []PresentedIsShown
<1>1. GpuInv => PresentedIsShown
  BY Zenon DEF GpuInv, Pixels
<1>. QED BY GpuInvInit, GpuInvStep, <1>1, PTL DEF GpuSpec

-----------------------------------------------------------------------------
(* The block driver *)

\* The device answers within the driver's patience: PollAgain never gives up.
Patient == SLOW = FALSE /\ WAIT_ROUNDS \in Nat \ {0}

Calls == [ write : BOOLEAN, sector : SectorNos, data : Contents ]
Requests == [ typ : {REQ_TYPE_IN, REQ_TYPE_OUT}, sector : SectorNos ]

BlkTypes ==
  /\ reqq \in Rings /\ data \in Contents /\ media \in [SectorNos -> Contents]
  /\ rwPc \in {"idle", "wait", "pop"} /\ rounds = 0

\* The frames hold the call in progress.
Carried ==
  /\ call \in Calls
  /\ header = [ typ |-> IF call.write THEN REQ_TYPE_OUT ELSE REQ_TYPE_IN,
                sector |-> call.sector ]

ReqIdle == rwPc = "idle" /\ call = Abs!NoCall
ReqPending == rwPc # "idle" /\ Carried /\ (call.write => data = call.data)

\* The device has returned the chain: a success means that the data frame and
\* the sector agree.
ReqDone ==
  /\ rwPc # "idle" /\ Carried /\ UsedEntry(reqq, 1) = << SLOT_HEADER, 0 >>
  /\ status = S_OK => data = media[call.sector] /\ (call.write => data = call.data)

\* The stages of a request, told apart by the ring.
Stages ==
  \/ /\ ReqIdle /\ fetched = NoReq
     /\ reqq.seen = reqq.avail_idx /\ reqq.used_idx = reqq.used_tail
  \/ /\ ReqPending /\ fetched = NoReq
     /\ reqq.avail_idx = Inc(reqq.seen) /\ reqq.used_idx = reqq.used_tail
  \/ /\ ReqPending /\ fetched = header
     /\ reqq.seen = reqq.avail_idx /\ reqq.used_idx = reqq.used_tail
  \/ /\ ReqDone /\ fetched = NoReq
     /\ reqq.seen = reqq.avail_idx /\ reqq.used_idx = Inc(reqq.used_tail)

BlkInv == BlkTypes /\ Stages

\* No request looks like none.
LEMMA Requested == NoReq \notin Requests /\ Abs!NoCall \notin Calls
<1>1. NoReq.typ = 2 /\ \A r \in Requests : r.typ # 2
  BY DEF NoReq, Requests, REQ_TYPE_IN, REQ_TYPE_OUT
<1>2. DOMAIN Abs!NoCall = {"write"} /\ \A c \in Calls : DOMAIN c = {"write", "sector", "data"}
  BY DEF Abs!NoCall, Calls
<1>3. {"write"} # {"write", "sector", "data"}
  BY "sector" \in {"write", "sector", "data"}
<1>. QED BY Zenon, <1>1, <1>2, <1>3

LEMMA BlkInvInit == Patient /\ BlkInit => BlkInv
<1>. SUFFICES ASSUME BlkInit PROVE BlkInv
  OBVIOUS
<1>1. /\ reqq = NewRing /\ data = Blank /\ fetched = NoReq /\ rwPc = "idle" /\ rounds = 0
      /\ media = [ s \in SectorNos |-> Blank ] /\ call = Abs!NoCall
  BY Zenon DEF BlkInit, Abs!Init
<1>2. media \in [SectorNos -> Contents]
  BY Zenon, <1>1, BlkAssumption
<1>3. BlkTypes
  BY <1>1, <1>2, NewRingType, BlkAssumption DEF BlkTypes
<1>. QED BY Zenon, <1>1, <1>3, NewRingType DEF BlkInv, Stages, ReqIdle

\* Every step keeps the stages and is a step of the abstract device or none:
\* rw starts the call, the device's successful write applies it and Completed
\* answers it.
LEMMA BlkStep ==
  ASSUME Patient, BlkInv, [BlkNext]_blkVars
  PROVE  BlkInv' /\ [Abs!Start \/ Abs!Apply \/ Abs!Answer]_<< media, call, answer >>
<1>. USE DEF BlkInv
<1>1. ASSUME NEW w \in BOOLEAN, NEW s \in SectorNos, NEW d \in Contents, rw(w, s, d)
      PROVE  BlkInv' /\ Abs!Start
  <2>1. /\ rwPc = "idle" /\ rwPc' = "wait" /\ rounds' = 0
        /\ call' = [write |-> w, sector |-> s, data |-> d]
        /\ data' = IF w THEN d ELSE data
        /\ header' = [typ |-> IF w THEN REQ_TYPE_OUT ELSE REQ_TYPE_IN, sector |-> s]
        /\ reqq' = publish(reqq, SLOT_HEADER)
        /\ UNCHANGED << media, fetched, answer >>
    BY Zenon, <1>1 DEF rw
  <2>2. /\ call = Abs!NoCall /\ fetched = NoReq
        /\ reqq.seen = reqq.avail_idx /\ reqq.used_idx = reqq.used_tail
    BY Zenon, <2>1 DEF Stages, ReqIdle, ReqPending, ReqDone
  <2>3. SLOT_HEADER \in Nat
    BY DEF SLOT_HEADER
  <2>4. /\ reqq' \in Rings /\ reqq'.avail_idx = Inc(reqq'.seen)
        /\ reqq'.used_idx = reqq'.used_tail
    BY Zenon, <2>1, <2>2, <2>3, Published DEF BlkTypes
  <2>5. /\ call' \in Calls /\ call'.write = w /\ call'.sector = s /\ call'.data = d
    BY <2>1 DEF Calls
  <2>6. Carried' /\ (call'.write => data' = call'.data)
    BY Zenon, <2>1, <2>5 DEF Carried
  <2>7. data' \in Contents
    BY Zenon, <2>1 DEF BlkTypes
  <2>8. BlkTypes' /\ rwPc' # "idle"
    BY <2>1, <2>4, <2>7 DEF BlkTypes
  <2>9. Stages'
    BY Zenon, <2>1, <2>2, <2>4, <2>6, <2>8 DEF Stages, ReqPending
  <2>10. Abs!Start
    BY Zenon, <2>1, <2>2 DEF Abs!Start
  <2>. QED BY Zenon, <2>8, <2>9, <2>10
<1>2. ASSUME NEW shared \in BOOLEAN, wait_irq(shared)
      PROVE  BlkInv' /\ UNCHANGED << media, call, answer >>
  <2>1. /\ rwPc = "wait" /\ rwPc' = "pop"
        /\ UNCHANGED << reqq, header, status, data, media, fetched, rounds, call, answer >>
    BY Zenon, <1>2 DEF wait_irq
  <2>2. rwPc # "idle" /\ rwPc' # "idle" /\ BlkTypes'
    BY <2>1 DEF BlkTypes
  <2>3. Stages'
    BY Zenon, <2>1, <2>2 DEF Stages, ReqIdle, ReqPending, ReqDone, Carried
  <2>. QED BY Zenon, <2>1, <2>2, <2>3
<1>3. CASE Completed
  <2>1. /\ rwPc = "pop" /\ reqq.used_idx # reqq.used_tail /\ rwPc' = "idle"
        /\ reqq' = pop_used(reqq) /\ call' = Abs!NoCall
        /\ answer' = [ ok |-> UsedEntry(reqq, 1)[1] = SLOT_HEADER /\ status = S_OK,
                       data |-> data ]
        /\ UNCHANGED << header, status, data, media, fetched, rounds >>
    BY Zenon, <1>3 DEF Completed, Finish, has_used
  <2>2. /\ ReqDone /\ fetched = NoReq
        /\ reqq.seen = reqq.avail_idx /\ reqq.used_idx = Inc(reqq.used_tail)
    BY Zenon, <2>1 DEF Stages
  <2>3. /\ reqq' \in Rings /\ reqq'.seen = reqq'.avail_idx
        /\ reqq'.used_idx = reqq'.used_tail
    BY Zenon, <2>1, <2>2, Popped DEF BlkTypes
  <2>4. BlkTypes'
    BY <2>1, <2>3 DEF BlkTypes
  <2>5. Stages'
    BY Zenon, <2>1, <2>2, <2>3 DEF Stages, ReqIdle
  <2>6. PICK ok \in BOOLEAN : ok = (UsedEntry(reqq, 1)[1] = SLOT_HEADER /\ status = S_OK)
    BY Zenon
  <2>7. ok => data = media[call.sector] /\ (call.write => data = call.data)
    BY Zenon, <2>2, <2>6 DEF ReqDone
  <2>8. call # Abs!NoCall
    BY Zenon, <2>2, Requested DEF ReqDone, Carried
  <2>9. Abs!Answer
    BY Zenon, <2>1, <2>6, <2>7, <2>8 DEF Abs!Answer, BlkTypes
  <2>. QED BY Zenon, <2>4, <2>5, <2>9
<1>4. CASE PollAgain
  <2>1. rounds' = 0 /\ ~ (rounds' >= WAIT_ROUNDS)
    <3>1. rounds' = rounds
      BY Zenon, <1>4 DEF PollAgain, Patient
    <3>. QED BY <3>1 DEF BlkTypes, Patient
  <2>2. UNCHANGED << reqq, header, status, data, media, fetched, rwPc, call, answer >>
    BY Zenon, <1>4, <2>1 DEF PollAgain
  <2>3. BlkTypes'
    BY Zenon, <2>1, <2>2 DEF BlkTypes
  <2>4. Stages'
    BY Zenon, <2>2 DEF Stages, ReqIdle, ReqPending, ReqDone, Carried
  <2>. QED BY Zenon, <2>2, <2>3, <2>4
<1>5. CASE DeviceFetch
  <2>1. /\ reqq.seen # reqq.avail_idx /\ reqq' = Fetch(reqq) /\ fetched' = header
        /\ UNCHANGED << header, status, data, media, rwPc, rounds, call, answer >>
    BY Zenon, <1>5 DEF DeviceFetch, HasAvail
  <2>2. ReqPending /\ reqq.avail_idx = Inc(reqq.seen) /\ reqq.used_idx = reqq.used_tail
    BY Zenon, <2>1 DEF Stages
  <2>3. /\ reqq' \in Rings /\ reqq'.seen = reqq'.avail_idx
        /\ reqq'.used_idx = reqq'.used_tail
    BY Zenon, <2>1, <2>2, Taken DEF BlkTypes
  <2>4. BlkTypes' /\ ReqPending' /\ fetched' = header'
    BY Zenon, <2>1, <2>2, <2>3 DEF BlkTypes, ReqPending, Carried
  <2>. QED BY Zenon, <2>1, <2>3, <2>4 DEF Stages
<1>6. ASSUME NEW st \in {S_OK, S_IOERR}, DeviceDone(st)
      PROVE  BlkInv' /\ (UNCHANGED << media, call, answer >> \/ Abs!Apply)
  <2>1. /\ fetched # NoReq /\ fetched' = NoReq
        /\ data' = IF st = S_OK /\ fetched.typ = REQ_TYPE_IN
                     THEN media[fetched.sector] ELSE data
        /\ media' = IF st = S_OK /\ fetched.typ = REQ_TYPE_OUT
                      THEN [media EXCEPT ![fetched.sector] = data] ELSE media
        /\ status' = st /\ reqq' = Return(reqq, SLOT_HEADER, 0)
        /\ UNCHANGED << header, rwPc, rounds, call, answer >>
    BY Zenon, <1>6 DEF DeviceDone
  <2>2. /\ ReqPending /\ fetched = header
        /\ reqq.seen = reqq.avail_idx /\ reqq.used_idx = reqq.used_tail
    BY Zenon, <2>1 DEF Stages
  <2>3. SLOT_HEADER \in Nat /\ 0 \in Nat
    BY DEF SLOT_HEADER
  <2>4. /\ reqq' \in Rings /\ reqq'.seen = reqq'.avail_idx
        /\ reqq'.used_idx = Inc(reqq'.used_tail)
        /\ UsedEntry(reqq', 1) = << SLOT_HEADER, 0 >>
    <3>1. PICK r : r = Return(reqq, SLOT_HEADER, 0)
      BY Zenon
    <3>2. /\ r \in Rings /\ r.seen = reqq.seen /\ r.avail_idx = reqq.avail_idx
          /\ r.used_tail = reqq.used_tail /\ r.used_idx = Inc(reqq.used_idx)
          /\ reqq.used_idx = reqq.used_tail => UsedEntry(r, 1) = << SLOT_HEADER, 0 >>
      BY ZenonT(40), <2>3, <3>1, GivenBack DEF BlkTypes
    <3>. QED BY Zenon, <2>1, <2>2, <3>1, <3>2
  <2>5. PICK s \in SectorNos, d \in Contents, w \in BOOLEAN :
          s = call.sector /\ d = call.data /\ w = call.write
    BY <2>2 DEF ReqPending, Carried, Calls
  <2>6. /\ fetched.sector = s
        /\ fetched.typ = IF w THEN REQ_TYPE_OUT ELSE REQ_TYPE_IN
    BY <2>2, <2>5 DEF ReqPending, Carried
  <2>7. REQ_TYPE_OUT # REQ_TYPE_IN
    BY DEF REQ_TYPE_OUT, REQ_TYPE_IN
  <2>8. w => data = d
    BY Zenon, <2>2, <2>5 DEF ReqPending
  <2>9. /\ data' = IF st = S_OK /\ ~ w THEN media[s] ELSE data
        /\ media' = IF st = S_OK /\ w THEN [media EXCEPT ![s] = d] ELSE media
    BY Zenon, <2>1, <2>6, <2>7, <2>8
  <2>10. /\ data' \in Contents /\ media' \in [SectorNos -> Contents]
         /\ st = S_OK => data' = media'[s] /\ (w => data' = d)
    BY <2>8, <2>9 DEF BlkTypes
  <2>11. BlkTypes'
    BY Zenon, <2>1, <2>4, <2>10 DEF BlkTypes
  <2>12. ReqDone'
    BY Zenon, <2>1, <2>2, <2>4, <2>5, <2>10 DEF ReqDone, ReqPending, Carried
  <2>13. Stages'
    BY Zenon, <2>1, <2>4, <2>12 DEF Stages
  <2>14. CASE st = S_OK /\ w
    <3>1. call # Abs!NoCall /\ call.write
      BY Zenon, <2>2, <2>5, <2>14, Requested DEF ReqPending, Carried
    <3>2. Abs!Apply
      BY Zenon, <2>1, <2>5, <2>9, <2>14, <3>1 DEF Abs!Apply
    <3>. QED BY Zenon, <2>11, <2>13, <3>2
  <2>15. CASE ~ (st = S_OK /\ w)
    BY Zenon, <2>1, <2>9, <2>11, <2>13, <2>15
  <2>. QED BY Zenon, <2>14, <2>15
<1>7. CASE UNCHANGED blkVars
  BY Zenon, <1>7 DEF blkVars, BlkTypes, Stages, ReqIdle, ReqPending, ReqDone, Carried
<1>. QED
  BY Zenon, <1>1, <1>2, <1>3, <1>4, <1>5, <1>6, <1>7 DEF BlkNext, Driver, BlkDevice

\* The refinement that ImplementsSectors checks, for every disk, ring and
\* number of calls: as long as the device is never slower than the polls after
\* an early wake, rw over three shared frames amounts to atomic sectors.
THEOREM BlkImplementsSectors == ASSUME Patient PROVE BlkSpec => ImplementsSectors
<1>1. BlkInit => BlkInv /\ Abs!Init
  BY Zenon, BlkInvInit DEF BlkInit
<1>2. BlkInv /\ [BlkNext]_blkVars
        => BlkInv' /\ [Abs!Start \/ Abs!Apply \/ Abs!Answer]_<< media, call, answer >>
  BY Zenon, BlkStep
<1>. QED BY <1>1, <1>2, PTL DEF BlkSpec, ImplementsSectors, Abs!Spec

-----------------------------------------------------------------------------
(* The network driver: transmit *)

\* The frames from number a + 1 to number b.
Frames(a, b) == [ i \in 1 .. b - a |-> a + i ]

TxTypes ==
  /\ txq \in Rings /\ tx_done \in BOOLEAN /\ dma \in BOOLEAN /\ queued \in Nat
  /\ \E k \in Nat : k <= queued /\ onWire = Frames(0, k)

\* The frame in the only TX buffer is the next one for the wire, and the rest
\* of the queue follows it.
TxBusy ==
  /\ ~ tx_done /\ tx_buf = Len(onWire) + 1 /\ tx_buf <= queued
  /\ outq = Frames(tx_buf, queued)

TxQuiet == ~ dma /\ outq = Frames(Len(onWire), queued)

\* The stages of a transmit, told apart by the ring.
TxStages ==
  \/ /\ TxQuiet /\ tx_done
     /\ txq.seen = txq.avail_idx /\ txq.used_idx = txq.used_tail
  \/ /\ TxBusy /\ ~ dma
     /\ txq.avail_idx = Inc(txq.seen) /\ txq.used_idx = txq.used_tail
  \/ /\ TxBusy /\ dma
     /\ txq.seen = txq.avail_idx /\ txq.used_idx = txq.used_tail
  \/ /\ TxQuiet /\ ~ tx_done /\ UsedEntry(txq, 1) = << TX_SLOT, 0 >>
     /\ txq.seen = txq.avail_idx /\ txq.used_idx = Inc(txq.used_tail)

NicInv == TxTypes /\ TxStages

LEMMA FramesLen ==
  ASSUME NEW a \in Nat, NEW b \in Nat, a <= b
  PROVE  Frames(a, b) \in Seq(Nat) /\ Len(Frames(a, b)) = b - a
BY DEF Frames

\* The frames the stack queues follow the ones it queued before.
LEMMA FramesGrow ==
  ASSUME NEW a \in Nat, NEW b \in Nat, NEW k \in Nat, a <= b
  PROVE  Frames(a, b) \o [ i \in 1 .. k |-> b + i ] = Frames(a, b + k)
BY DEF Frames

LEMMA FramesTail ==
  ASSUME NEW a \in Nat, NEW b \in Nat, a <= b, Frames(a, b) # << >>
  PROVE  /\ a + 1 <= b /\ Head(Frames(a, b)) = a + 1
         /\ Tail(Frames(a, b)) = Frames(a + 1, b)
<1>1. a + 1 <= b
  BY DEF Frames
<1>2. Head(Frames(a, b)) = a + 1
  BY <1>1 DEF Frames
<1>3. Tail(Frames(a, b)) = Frames(a + 1, b)
  BY SMTT(30), <1>1 DEF Frames
<1>. QED BY Zenon, <1>1, <1>2, <1>3

LEMMA FramesAppend ==
  ASSUME NEW k \in Nat
  PROVE  Append(Frames(0, k), k + 1) = Frames(0, k + 1)
BY DEF Frames

\* drain_used takes the entry of the one transmit, if it is there.
LEMMA Drained ==
  ASSUME NEW q \in Rings, q.used_idx = q.used_tail \/ q.used_idx = Inc(q.used_tail)
  PROVE  LET r == drain_used(q, Batch(q)) IN
         \/ Batch(q) = 0 /\ r = q
         \/ /\ Batch(q) = 1 /\ q.used_idx = Inc(q.used_tail)
            /\ r \in Rings /\ r.used_idx = r.used_tail
            /\ r.seen = q.seen /\ r.avail_idx = q.avail_idx
<1>1. PICK i \in Indices, j \in Indices : i = q.used_idx /\ j = q.used_tail
  BY DEF Rings
<1>2. Returned(q) = (i + IDX_MAX - j) % IDX_MAX
  BY Zenon, <1>1 DEF Returned
<1>3. IDX_MAX \in Nat \ {0}
  BY VringAssumption
<1>4. i = j => (i + IDX_MAX - j) % IDX_MAX = 0
  BY <1>3 DEF Indices
<1>5. i = Inc(j) => (i + IDX_MAX - j) % IDX_MAX \in {0, 1}
  BY <1>3 DEF Indices, Inc
<1>6. Returned(q) \in {0, 1} /\ (i = j => Returned(q) = 0)
  BY Zenon, <1>1, <1>2, <1>4, <1>5
<1>7. Batch(q) \in {0, 1} /\ (i = j => Batch(q) = 0)
  BY <1>6, NicAssumption DEF Batch
<1>8. drain_used(q, Batch(q)) = [q EXCEPT !.used_tail = (j + Batch(q)) % IDX_MAX]
  BY Zenon, <1>1 DEF drain_used
<1>9. CASE Batch(q) = 0
  <2>1. (j + 0) % IDX_MAX = j
    BY <1>3 DEF Indices
  <2>2. drain_used(q, Batch(q)) = [q EXCEPT !.used_tail = j]
    BY Zenon, <1>8, <1>9, <2>1
  <2>3. drain_used(q, Batch(q)) = q
    BY <1>1, <2>2 DEF Rings
  <2>. QED BY Zenon, <1>9, <2>3
<1>10. CASE Batch(q) = 1
  <2>1. i = Inc(j) /\ drain_used(q, Batch(q)) = [q EXCEPT !.used_tail = i]
    BY <1>1, <1>7, <1>8, <1>10 DEF Inc
  <2>. QED BY Zenon, <1>1, <1>10, <2>1 DEF Rings
<1>. QED BY Zenon, <1>7, <1>9, <1>10

\* A batch of one is an entry that was there.
LEMMA BatchOfOne ==
  ASSUME NEW q \in Rings, Batch(q) = 1
  PROVE  q.used_idx # q.used_tail
<1>. SUFFICES ASSUME q.used_idx = q.used_tail PROVE FALSE
  OBVIOUS
<1>1. PICK i \in Indices : i = q.used_idx /\ i = q.used_tail
  BY DEF Rings
<1>2. (i + IDX_MAX - i) % IDX_MAX = 0
  BY VringAssumption DEF Indices
<1>3. Returned(q) = 0
  BY Zenon, <1>1, <1>2 DEF Returned
<1>. QED BY <1>3, NicAssumption DEF Batch

LEMMA NicInvInit == NicInit => NicInv
<1>. SUFFICES ASSUME NicInit PROVE NicInv
  OBVIOUS
<1>1. /\ txq = NewRing /\ tx_done = TRUE /\ dma = FALSE /\ outq = << >>
      /\ queued = 0 /\ onWire = << >>
  BY Zenon DEF NicInit
<1>2. << >> = Frames(0, 0) /\ Len(<< >>) = 0
  BY DEF Frames
<1>3. 0 \in Nat /\ 0 <= 0
  OBVIOUS
<1>4. TxTypes
  BY Zenon, <1>1, <1>2, <1>3, NewRingType DEF TxTypes
<1>. QED BY Zenon, <1>1, <1>2, <1>4, NewRingType DEF NicInv, TxStages, TxQuiet

\* Queueing moves nothing that is on its way.
LEMMA QueueKeeps ==
  ASSUME NicInv, NEW k \in Nat, Queue(k), UNCHANGED << txq, tx_buf, tx_done, dma, onWire >>
  PROVE  NicInv'
<1>1. PICK n \in Nat : n <= queued /\ onWire = Frames(0, n) /\ Len(onWire) = n
  <2>1. PICK n \in Nat : n <= queued /\ onWire = Frames(0, n)
    BY Zenon DEF NicInv, TxTypes
  <2>2. Len(Frames(0, n)) = n
    BY SMTT(30), FramesLen
  <2>. QED BY Zenon, <2>1, <2>2
<1>2. queued \in Nat /\ queued' = queued + k /\ outq' = outq \o [ i \in 1 .. k |-> queued + i ]
  BY Zenon DEF NicInv, TxTypes, Queue
<1>3. queued' \in Nat /\ n <= queued' /\ (n + 1 <= queued => n + 1 <= queued')
  BY <1>1, <1>2
<1>4. ASSUME NEW a \in Nat, a <= queued, outq = Frames(a, queued)
      PROVE  outq' = Frames(a, queued')
  <2>1. Frames(a, queued) \o [ i \in 1 .. k |-> queued + i ] = Frames(a, queued + k)
    BY ZenonT(40), <1>2, <1>4, FramesGrow
  <2>. QED BY Zenon, <1>2, <1>4, <2>1
<1>5. TxTypes'
  BY Zenon, <1>1, <1>3 DEF NicInv, TxTypes
<1>6. TxQuiet => TxQuiet'
  BY Zenon, <1>1, <1>4 DEF TxQuiet
<1>7. TxBusy => TxBusy'
  <2>1. n + 1 \in Nat
    OBVIOUS
  <2>. QED BY Zenon, <1>1, <1>3, <1>4, <2>1 DEF TxBusy
<1>8. TxStages'
  BY Zenon, <1>6, <1>7 DEF NicInv, TxStages
<1>. QED BY Zenon, <1>5, <1>8 DEF NicInv

\* Polling the TX ring frees the buffer only once its frame is on the wire.
LEMMA PollTxKeeps ==
  ASSUME NicInv, poll_tx, UNCHANGED << tx_buf, dma, outq, queued, onWire >>
  PROVE  NicInv'
<1>1. /\ txq' = drain_used(txq, Batch(txq))
      /\ tx_done' = (tx_done \/ \E k \in 1 .. Batch(txq) : UsedEntry(txq, k)[1] = TX_SLOT)
  BY Zenon DEF poll_tx
<1>2. txq \in Rings /\ (txq.used_idx = txq.used_tail \/ txq.used_idx = Inc(txq.used_tail))
  BY Zenon DEF NicInv, TxTypes, TxStages
<1>3. CASE Batch(txq) = 0 /\ txq' = txq
  <2>1. 1 .. Batch(txq) = {}
    BY <1>3
  <2>2. tx_done' = tx_done
    BY Zenon, <1>1, <2>1 DEF NicInv, TxTypes
  <2>. QED BY Zenon, <1>3, <2>2 DEF NicInv, TxTypes, TxStages, TxBusy, TxQuiet
<1>4. CASE /\ Batch(txq) = 1 /\ txq.used_idx = Inc(txq.used_tail)
           /\ txq' \in Rings /\ txq'.used_idx = txq'.used_tail
           /\ txq'.seen = txq.seen /\ txq'.avail_idx = txq.avail_idx
  <2>1. 1 \in 1 .. Batch(txq)
    BY <1>4
  <2>2. CASE txq.used_idx # txq.used_tail
    <3>1. /\ TxQuiet /\ UsedEntry(txq, 1) = << TX_SLOT, 0 >> /\ txq.seen = txq.avail_idx
      BY Zenon, <2>2 DEF NicInv, TxStages
    <3>2. UsedEntry(txq, 1)[1] = TX_SLOT
      BY <3>1
    <3>3. tx_done' = TRUE
      BY Zenon, <1>1, <2>1, <3>2
    <3>. QED BY Zenon, <1>4, <3>1, <3>3 DEF NicInv, TxTypes, TxStages, TxQuiet
  <2>3. txq.used_idx # txq.used_tail
    BY Zenon, <1>2, <1>4, BatchOfOne
  <2>. QED BY Zenon, <2>2, <2>3
<1>. QED BY Zenon, <1>1, <1>2, <1>3, <1>4, Drained

LEMMA NicInvStep == NicInv /\ [NicNext]_nicVars => NicInv'
<1>. SUFFICES ASSUME NicInv, [NicNext]_nicVars PROVE NicInv'
  OBVIOUS
<1>0. PICK n \in Nat : n <= queued /\ onWire = Frames(0, n) /\ Len(onWire) = n
  <2>1. PICK n \in Nat : n <= queued /\ onWire = Frames(0, n)
    BY Zenon DEF NicInv, TxTypes
  <2>2. Len(Frames(0, n)) = n
    BY FramesLen
  <2>. QED BY Zenon, <2>1, <2>2
<1>1. ASSUME UNCHANGED << txq, tx_buf, tx_done, dma, outq, queued, onWire >> PROVE NicInv'
  BY Zenon, <1>1 DEF NicInv, TxTypes, TxStages, TxBusy, TxQuiet
<1>2. CASE PollTx
  BY Zenon, <1>2, PollTxKeeps DEF PollTx
<1>3. CASE recv \/ \E good \in BOOLEAN : DeviceRx(good)
  <2>1. UNCHANGED << txq, tx_buf, tx_done, dma, outq, queued, onWire >>
    BY Zenon, <1>3 DEF recv, DeviceRx
  <2>. QED BY Zenon, <1>1, <2>1
<1>4. CASE recv_copied \/ Timers
  <2>1. PICK k \in 0 .. 2 : Queue(k)
    BY <1>4 DEF recv_copied, Timers
  <2>2. UNCHANGED << txq, tx_buf, tx_done, dma, onWire >> /\ k \in Nat
    BY <1>4, <2>1 DEF recv_copied, Timers
  <2>. QED BY Zenon, <2>1, <2>2, QueueKeeps
<1>5. CASE Flush
  <2>1. UNCHANGED << dma, queued, onWire >>
    BY Zenon, <1>5 DEF Flush
  <2>2. CASE UNCHANGED << txq, tx_buf, tx_done, outq >>
    BY Zenon, <1>1, <2>1, <2>2
  <2>3. CASE poll_tx /\ UNCHANGED << tx_buf, outq >>
    BY Zenon, <2>1, <2>3, PollTxKeeps
  <2>4. CASE outq # << >> /\ send
    <3>1. /\ tx_done /\ tx_buf' = Head(outq) /\ txq' = publish(txq, TX_SLOT)
          /\ tx_done' = FALSE /\ outq' = Tail(outq)
      BY Zenon, <2>4 DEF send
    <3>2. /\ TxQuiet /\ txq.seen = txq.avail_idx /\ txq.used_idx = txq.used_tail
      BY Zenon, <3>1 DEF NicInv, TxStages, TxBusy
    <3>3. TX_SLOT \in Nat
      BY NicAssumption DEF TX_SLOT
    <3>4. /\ txq' \in Rings /\ txq'.avail_idx = Inc(txq'.seen)
          /\ txq'.used_idx = txq'.used_tail
      BY Zenon, <3>1, <3>2, <3>3, Published DEF NicInv, TxTypes
    <3>5. outq = Frames(n, queued) /\ queued \in Nat
      BY Zenon, <1>0, <3>2 DEF TxQuiet, NicInv, TxTypes
    <3>6. n + 1 <= queued /\ tx_buf' = n + 1 /\ outq' = Frames(n + 1, queued)
      BY Zenon, <1>0, <2>4, <3>1, <3>5, FramesTail
    <3>7. TxBusy' /\ dma' = FALSE
      BY Zenon, <1>0, <2>1, <3>1, <3>2, <3>6 DEF TxBusy, TxQuiet, NicInv, TxTypes
    <3>8. TxTypes'
      BY Zenon, <2>1, <3>1, <3>4 DEF NicInv, TxTypes
    <3>. QED BY Zenon, <3>4, <3>7, <3>8 DEF NicInv, TxStages
  <2>. QED BY Zenon, <1>5, <2>2, <2>3, <2>4 DEF Flush
<1>6. CASE DeviceFetchTx
  <2>1. /\ ~ dma /\ txq.seen # txq.avail_idx /\ txq' = Fetch(txq) /\ dma' = TRUE
        /\ UNCHANGED << tx_buf, tx_done, outq, queued, onWire >>
    BY Zenon, <1>6 DEF DeviceFetchTx, HasAvail
  <2>2. TxBusy /\ txq.avail_idx = Inc(txq.seen) /\ txq.used_idx = txq.used_tail
    BY Zenon, <2>1 DEF NicInv, TxStages
  <2>3. /\ txq' \in Rings /\ txq'.seen = txq'.avail_idx /\ txq'.used_idx = txq'.used_tail
    BY Zenon, <2>1, <2>2, Taken DEF NicInv, TxTypes
  <2>4. TxTypes' /\ TxBusy'
    BY Zenon, <2>1, <2>2, <2>3 DEF NicInv, TxTypes, TxBusy
  <2>. QED BY Zenon, <2>1, <2>3, <2>4 DEF NicInv, TxStages
<1>7. CASE DeviceSent
  <2>1. /\ dma /\ dma' = FALSE /\ onWire' = Append(onWire, tx_buf)
        /\ txq' = Return(txq, TX_SLOT, 0)
        /\ UNCHANGED << tx_buf, tx_done, outq, queued >>
    BY Zenon, <1>7 DEF DeviceSent
  <2>2. TxBusy /\ txq.seen = txq.avail_idx /\ txq.used_idx = txq.used_tail
    BY Zenon, <2>1 DEF NicInv, TxStages, TxQuiet
  <2>3. TX_SLOT \in Nat /\ 0 \in Nat
    BY NicAssumption DEF TX_SLOT
  <2>4. /\ txq' \in Rings /\ txq'.seen = txq'.avail_idx
        /\ txq'.used_idx = Inc(txq'.used_tail) /\ UsedEntry(txq', 1) = << TX_SLOT, 0 >>
    <3>1. PICK r : r = Return(txq, TX_SLOT, 0)
      BY Zenon
    <3>2. /\ r \in Rings /\ r.seen = txq.seen /\ r.avail_idx = txq.avail_idx
          /\ r.used_tail = txq.used_tail /\ r.used_idx = Inc(txq.used_idx)
          /\ txq.used_idx = txq.used_tail => UsedEntry(r, 1) = << TX_SLOT, 0 >>
      BY ZenonT(40), <2>3, <3>1, GivenBack DEF NicInv, TxTypes
    <3>. QED BY Zenon, <2>1, <2>2, <3>1, <3>2
  <2>5. PICK m \in Nat : m = n + 1
    OBVIOUS
  <2>6. /\ ~ tx_done /\ tx_buf = m /\ m <= queued /\ outq = Frames(m, queued)
    BY Zenon, <1>0, <2>2, <2>5 DEF TxBusy
  <2>7. onWire' = Frames(0, m) /\ Len(onWire') = m
    <3>1. Len(Frames(0, m)) = m
      BY FramesLen
    <3>2. Append(Frames(0, n), n + 1) = Frames(0, n + 1)
      BY Zenon, FramesAppend
    <3>. QED BY Zenon, <1>0, <2>1, <2>5, <2>6, <3>1, <3>2
  <2>8. TxTypes' /\ TxQuiet' /\ ~ tx_done'
    BY Zenon, <2>1, <2>4, <2>6, <2>7 DEF NicInv, TxTypes, TxQuiet
  <2>. QED BY Zenon, <2>4, <2>8 DEF NicInv, TxStages
<1>8. CASE UNCHANGED nicVars
  BY Zenon, <1>1, <1>8 DEF nicVars
<1>. QED
  BY Zenon, <1>2, <1>3, <1>4, <1>5, <1>6, <1>7, <1>8 DEF NicNext, Device

\* For every ring, however long the stack's queue and however late the device
\* returns the buffer: the wire carries the queued frames once and in order,
\* because send overwrites the only TX buffer only after its used entry came
\* back (net.rs send, poll_tx).
THEOREM SendsOnceInOrder == NicSpec => []SentOnceInOrder
<1>1. NicInv => SentOnceInOrder
  <2>. SUFFICES ASSUME NicInv PROVE SentOnceInOrder
    OBVIOUS
  <2>1. PICK n \in Nat : n <= queued /\ onWire = Frames(0, n)
    BY Zenon DEF NicInv, TxTypes
  <2>2. Len(Frames(0, n)) = n /\ Frames(0, n) = [ k \in 1 .. n |-> k ]
    BY DEF Frames
  <2>. QED BY Zenon, <2>1, <2>2 DEF SentOnceInOrder
<1>. QED BY NicInvInit, NicInvStep, <1>1, PTL DEF NicSpec
=============================================================================
