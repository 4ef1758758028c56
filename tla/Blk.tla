--------------------------------- MODULE Blk ---------------------------------
(***************************************************************************)
(* The virtio-blk driver (libtanix-drv/blk.rs): one request at a time, made *)
(* of a header, the data frame and a status byte that the device reads and  *)
(* writes by DMA while the driver sleeps in SYS_WAIT_IRQ.  The interrupt    *)
(* line is shared (intx_irq, pci.rs:321), so the wait can end early; the    *)
(* driver then polls the used ring a bounded number of rounds.              *)
(***************************************************************************)
EXTENDS Vring

CONSTANTS
  SectorNos, Contents, Blank,
  WAIT_ROUNDS,   \* polls after an early wake (2 000 000)
  SLOW,          \* the device may take longer than WAIT_ROUNDS
  BLK_CALLS      \* bound: calls made

ASSUME BlkAssumption == Blank \in Contents

VARIABLES
  reqq,         \* the request queue
  header,       \* the request in the header frame: [typ, sector]
  status,       \* the status byte behind it
  data,         \* the data frame
  media,        \* sector -> contents
  fetched,      \* request the device works on, NoReq when none
  irqLine,      \* the interrupt line is asserted
  rwPc, rounds, \* progress of rw
  call, answer, \* the caller's view: the call in progress, the last answer
  calls

blkVars == << reqq, header, status, data, media, fetched, irqLine, rwPc, rounds, call,
              answer, calls >>

SLOT_HEADER == 0
REQ_TYPE_IN == 0
REQ_TYPE_OUT == 1
S_OK == 0
S_IOERR == 1
UNSET == 255
NoReq == [typ |-> 2]

Abs == INSTANCE Sectors WITH disk <- media

BlkInit ==
  /\ reqq = NewRing
  /\ header = NoReq /\ status = UNSET /\ data = Blank
  /\ fetched = NoReq /\ irqLine = FALSE
  /\ rwPc = "idle" /\ rounds = 0 /\ calls = 0
  /\ Abs!Init

\* read and write up to the wait: a write copies the caller's bytes into the
\* data frame first; the header and the status byte are reset, the chain is
\* published and the device is kicked.
rw(w, s, d) ==
  /\ rwPc = "idle" /\ calls < BLK_CALLS
  /\ calls' = calls + 1
  /\ call' = [write |-> w, sector |-> s, data |-> d]
  /\ data' = IF w THEN d ELSE data
  /\ header' = [typ |-> IF w THEN REQ_TYPE_OUT ELSE REQ_TYPE_IN, sector |-> s]
  /\ status' = UNSET
  /\ reqq' = publish(reqq, SLOT_HEADER)
  /\ rwPc' = "wait" /\ rounds' = 0
  /\ UNCHANGED << media, fetched, irqLine, answer >>

\* The wait ends: by this device's completion or by another device's use of
\* the line.  Reading the ISR deasserts this device's share of it.
wait_irq(shared) ==
  /\ rwPc = "wait" /\ (irqLine \/ shared)
  /\ irqLine' = FALSE
  /\ rwPc' = "pop"
  /\ UNCHANGED << reqq, header, status, data, media, fetched, rounds, call, answer,
                  calls >>

Finish(ok) ==
  /\ answer' = [ok |-> ok, data |-> data]
  /\ call' = Abs!NoCall
  /\ rwPc' = "idle"

\* The bug of taking the returned chain for success.
Completed_AnyStatus ==
  /\ rwPc = "pop" /\ has_used(reqq)
  /\ reqq' = pop_used(reqq)
  /\ Finish(UsedEntry(reqq, 1)[1] = SLOT_HEADER)
  /\ UNCHANGED << header, status, data, media, fetched, irqLine, rounds, calls >>

\* The used entry is there: the status byte decides.
Completed ==
  /\ rwPc = "pop" /\ has_used(reqq)
  /\ reqq' = pop_used(reqq)
  /\ Finish(UsedEntry(reqq, 1)[1] = SLOT_HEADER /\ status = S_OK)
  /\ UNCHANGED << header, status, data, media, fetched, irqLine, rounds, calls >>

\* Nothing returned yet: poll again, at most WAIT_ROUNDS times.
PollAgain ==
  /\ rwPc = "pop" /\ ~ has_used(reqq)
  /\ rounds' = IF SLOW THEN rounds + 1 ELSE rounds
  /\ IF rounds' >= WAIT_ROUNDS THEN Finish(FALSE) ELSE UNCHANGED << answer, call, rwPc >>
  /\ UNCHANGED << reqq, header, status, data, media, fetched, irqLine, calls >>

(* The device. *)
DeviceFetch ==
  /\ fetched = NoReq /\ HasAvail(reqq)
  /\ reqq' = Fetch(reqq)
  /\ fetched' = header
  /\ UNCHANGED << header, status, data, media, irqLine, rwPc, rounds, call, answer,
                  calls >>

\* It transfers the data, or fails and transfers nothing; then it writes the
\* status byte, returns the chain and raises the line.
DeviceDone(st) ==
  /\ fetched # NoReq /\ fetched' = NoReq
  /\ data' = IF st = S_OK /\ fetched.typ = REQ_TYPE_IN
               THEN media[fetched.sector] ELSE data
  /\ media' = IF st = S_OK /\ fetched.typ = REQ_TYPE_OUT
               THEN [media EXCEPT ![fetched.sector] = data] ELSE media
  /\ status' = st
  /\ reqq' = Return(reqq, SLOT_HEADER, 0)
  /\ irqLine' = TRUE
  /\ UNCHANGED << header, rwPc, rounds, call, answer, calls >>

Driver == \/ \E shared \in BOOLEAN : wait_irq(shared)
          \/ Completed
          \/ PollAgain

BlkDevice == DeviceFetch \/ \E st \in {S_OK, S_IOERR} : DeviceDone(st)

BlkNext ==
  \/ \E w \in BOOLEAN, s \in SectorNos, d \in Contents : rw(w, s, d)
  \/ Driver
  \/ BlkDevice

BlkSpec == BlkInit /\ [][BlkNext]_blkVars

BlkFairSpec ==
  /\ BlkSpec
  /\ WF_blkVars(wait_irq(FALSE)) /\ WF_blkVars(Completed) /\ WF_blkVars(BlkDevice)
-----------------------------------------------------------------------------
\* While the device is never slower than the driver's patience, the three
\* shared frames and the asynchronous completion amount to atomic sectors:
\* every call that reports success read or wrote its own sector (blk.rs:126,
\* 216, 230), also when the wait ends early.
ImplementsSectors == Abs!Spec

\* No call hangs: the interrupt of a completion is never lost between the kick
\* and the wait (blk.rs:162-177), so every call is answered.
CallsReturn == []<>(call = Abs!NoCall)
=============================================================================
