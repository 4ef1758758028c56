--------------------------------- MODULE Gpu ---------------------------------
(***************************************************************************)
(* The display server's virtio-gpu driver (display/src/gpu.rs over          *)
(* display/src/virtio.rs): commands are submitted one at a time on the      *)
(* control queue, the server sleeps in SYS_WAIT_IRQ until the device         *)
(* interrupts, then polls the used ring for its own head descriptor and     *)
(* gives up after MAX_POLL_ROUNDS.  It counts the entries it consumed in a  *)
(* usize and compares that with the device's 16-bit index, so that after    *)
(* 2^16 commands every one is given up although the device has run it.  The *)
(* server draws into the framebuffer; a flush is two commands:              *)
(* TRANSFER_TO_HOST_2D copies the attached pages into the host's image and  *)
(* RESOURCE_FLUSH shows it.                                                 *)
(***************************************************************************)
EXTENDS Vring

CONSTANTS GPU_DRAWS, GPU_COMMANDS   \* bounds: drawings, commands submitted

VARIABLES
  ctlq,       \* the control queue (its used_tail is not used: see tail)
  desc,       \* head slot -> the command its chain carries
  desc_head,  \* next free descriptor slot
  tail,       \* used entries consumed, a usize that never wraps
  head,       \* head of the command in flight
  gpuPc,      \* "submit", "wait", "poll", "draw"; "off" when a setup step failed
  cmd,        \* the command in flight, or the next one to submit
  resp,       \* response type in the shared RESP buffer
  line,       \* the device's interrupt line
  fb,         \* contents of the framebuffer pages
  gfx,        \* the device: objects set up, host image, picture on the scanout
  presented,  \* the last flush was answered 1, and nothing was drawn since
  submitted

gpuVars == << ctlq, desc, desc_head, tail, head, gpuPc, cmd, resp, line, fb, gfx,
              presented, submitted >>

SetupCommands == << "GET_DISPLAY_INFO", "RESOURCE_CREATE_2D", "RESOURCE_ATTACH_BACKING",
            "SET_SCANOUT" >>
FlushCommands == << "TRANSFER_TO_HOST_2D", "RESOURCE_FLUSH" >>
\* Boot runs the setup and presents the boot screen.
Boot == SetupCommands \o FlushCommands

Position(c) == CHOOSE i \in DOMAIN Boot : Boot[i] = c

\* Descriptors of a chain: the requests and the response.
ChainLength(c) == IF c = "RESOURCE_ATTACH_BACKING" THEN 3 ELSE 2

GpuInit ==
  /\ ctlq = NewRing /\ desc = [ s \in 0 .. QUEUE_SIZE - 1 |-> "none" ]
  /\ desc_head = 0 /\ tail = 0 /\ head = 0
  /\ gpuPc = "submit" /\ cmd = Boot[1] /\ resp = "none" /\ line = FALSE
  /\ fb = 1 /\ submitted = 0 /\ presented = FALSE
  /\ gfx = [made |-> {}, host |-> 0, screen |-> 0]

\* submit up to the wait: chain, publish, kick.
submit ==
  /\ gpuPc = "submit" /\ submitted < GPU_COMMANDS
  /\ desc' = [desc EXCEPT ![desc_head] = cmd]
  /\ head' = desc_head
  /\ desc_head' = (desc_head + ChainLength(cmd)) % QUEUE_SIZE
  /\ ctlq' = publish(ctlq, desc_head)
  /\ gpuPc' = "wait" /\ submitted' = submitted + 1
  /\ UNCHANGED << tail, cmd, resp, line, fb, gfx, presented >>

\* SYS_WAIT_IRQ returns and the line is deasserted.
ack_interrupt ==
  /\ gpuPc = "wait" /\ line
  /\ line' = FALSE /\ gpuPc' = "poll"
  /\ UNCHANGED << ctlq, desc, desc_head, tail, head, cmd, resp, fb, gfx, presented,
                  submitted >>

\* The used entries the loop of submit looks at; the comparison of a usize
\* with the device's 16-bit index finds none once that index has wrapped.
Unread == tail .. ctlq.used_idx - 1

EntryId(t) == ctlq.used[t % QUEUE_SIZE][1]

Ours == { t \in Unread : EntryId(t) = head }

\* The bug of showing the host's image whether or not it was updated.
Continue_IgnoresTransfer(ok) ==
  IF cmd = "RESOURCE_FLUSH"
  THEN gpuPc' = "draw" /\ presented' = ok /\ UNCHANGED cmd
  ELSE IF ok \/ cmd = "TRANSFER_TO_HOST_2D"
  THEN gpuPc' = "submit" /\ cmd' = Boot[Position(cmd) + 1] /\ UNCHANGED presented
  ELSE gpuPc' = "off" /\ UNCHANGED << cmd, presented >>

\* What the caller of submit does next.  A setup step that fails leaves the
\* server idle; a flush answers its client, and the first one, the boot
\* screen's, answers nobody.
Continue(ok) ==
  IF cmd = "RESOURCE_FLUSH" \/ (cmd = "TRANSFER_TO_HOST_2D" /\ ~ ok)
  THEN gpuPc' = "draw" /\ presented' = ok /\ UNCHANGED cmd
  ELSE IF ok
  THEN gpuPc' = "submit" /\ cmd' = Boot[Position(cmd) + 1] /\ UNCHANGED presented
  ELSE gpuPc' = "off" /\ UNCHANGED << cmd, presented >>

\* submit returns the length of the matching entry; roundtrip then reads the
\* response type from the RESP buffer.
roundtrip ==
  /\ gpuPc = "poll" /\ Ours # {}
  /\ tail' = 1 + CHOOSE t \in Ours : \A u \in Ours : t =< u
  /\ Continue(resp = "OK")
  /\ UNCHANGED << ctlq, desc, desc_head, head, resp, line, fb, gfx, submitted >>

\* MAX_POLL_ROUNDS polls without the entry: submit returns 0.
GiveUp ==
  /\ gpuPc = "poll" /\ Ours = {}
  /\ tail' = IF Unread = {} THEN tail ELSE ctlq.used_idx
  /\ Continue(FALSE)
  /\ UNCHANGED << ctlq, desc, desc_head, head, resp, line, fb, gfx, submitted >>

\* FILL_RECT, BLIT and DRAW_TEXT requests change the framebuffer only.
draw ==
  /\ gpuPc = "draw" /\ fb < GPU_DRAWS
  /\ fb' = fb + 1 /\ presented' = FALSE
  /\ UNCHANGED << ctlq, desc, desc_head, tail, head, gpuPc, cmd, resp, line, gfx,
                  submitted >>

\* A FLUSH request.
flush ==
  /\ gpuPc = "draw"
  /\ gpuPc' = "submit" /\ cmd' = FlushCommands[1] /\ presented' = FALSE
  /\ UNCHANGED << ctlq, desc, desc_head, tail, head, resp, line, fb, gfx, submitted >>

(* The device: commands in order, read from memory when they run. *)

\* A command succeeds only after the ones it depends on.
Needs(c) ==
  CASE c = "RESOURCE_ATTACH_BACKING" -> {"RESOURCE_CREATE_2D"}
    [] c = "SET_SCANOUT" -> {"RESOURCE_CREATE_2D"}
    [] c = "TRANSFER_TO_HOST_2D" -> {"RESOURCE_ATTACH_BACKING"}
    [] c = "RESOURCE_FLUSH" -> {"SET_SCANOUT"}
    [] OTHER -> {}

Executed(c) ==
  CASE c = "TRANSFER_TO_HOST_2D" -> [gfx EXCEPT !.host = fb]
    [] c = "RESOURCE_FLUSH" -> [gfx EXCEPT !.screen = gfx.host]
    [] OTHER -> [gfx EXCEPT !.made = @ \cup {c}]

GpuDevice(ok) ==
  LET c == desc[NextHead(ctlq)] IN
  /\ HasAvail(ctlq)
  /\ ok => Needs(c) \subseteq gfx.made
  /\ gfx' = IF ok THEN Executed(c) ELSE gfx
  /\ resp' = IF ok THEN "OK" ELSE "ERR"
  /\ ctlq' = Return(Fetch(ctlq), NextHead(ctlq), 24)
  /\ line' = TRUE
  /\ UNCHANGED << desc, desc_head, tail, head, gpuPc, cmd, fb, presented, submitted >>

GpuNext ==
  \/ submit \/ ack_interrupt \/ roundtrip \/ GiveUp
  \/ draw \/ flush
  \/ \E ok \in BOOLEAN : GpuDevice(ok)

GpuSpec == GpuInit /\ [][GpuNext]_gpuVars
-----------------------------------------------------------------------------
\* A client whose FLUSH was answered 1 sees what it drew: the picture on the
\* scanout is the framebuffer (display/src/main.rs:116, gpu.rs:342), whichever
\* commands failed before, and after the index has wrapped (virtio.rs:333-352).
PresentedIsShown == presented => gfx.screen = fb
=============================================================================
