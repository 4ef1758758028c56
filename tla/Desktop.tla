------------------------------- MODULE Desktop -------------------------------
(***************************************************************************)
(* The desktop: the window manager (wm/src/main.rs), the apps' side of its  *)
(* protocol (libtanix-ui/src/window.rs) and the display server's blits.  An *)
(* app owns its canvas, shares it with the display server, registers it and *)
(* from then on only asks the wm; the wm keeps the window table and has the *)
(* display server copy canvases into the framebuffer, one request at a      *)
(* time, while the apps go on.  Where windows lie is left open but for one  *)
(* thing: windows are placed in rows, and from the second row on a window   *)
(* may lie wholly below the screen.  Any other may overlap the rectangle    *)
(* being repainted, or lie under the pointer.                               *)
(***************************************************************************)
EXTENDS Naturals, Sequences, FiniteSets

CONSTANTS
  Apps, Canvases,
  MAX_WINDOWS,
  COLUMNS,       \* windows per row (3)
  MAX_CREATED,   \* bound: windows created
  MAX_DRAWS      \* bound: drawings into a canvas

ASSUME DeskAssumption == MAX_WINDOWS \in Nat

VARIABLES
  windows,   \* slot -> window; later slots are on top
  next_id,
  buttons,   \* PTR.2, the button state of the last sample
  seen,      \* the pointer has been sampled: PTR.0 # u32::MAX
  drag,      \* slot being dragged, NoSlot when none
  below,     \* ids of windows the screen shows no part of
  script,    \* what the wm still does for the request it serves
  app,       \* app -> its window handle and where it is
  mail,      \* app -> its message to the wm, or the wm's to it
  shared,    \* canvases the display server has mapped
  freeCanvas,
  pix, shown \* canvas -> what it holds, what the framebuffer shows of it

deskVars == << windows, next_id, buttons, seen, drag, below, script, app, mail, shared,
               freeCanvas, pix, shown >>

WinSlots == 0 .. MAX_WINDOWS - 1
NoSlot == MAX_WINDOWS
NoApp == "none"
NoCanvas == "none"
NoMail == [t |-> "none"]
EmptyWindow == [id |-> 0, app |-> NoApp, canvas |-> NoCanvas, dirty |-> FALSE]

DeskInit ==
  /\ windows = [ s \in WinSlots |-> EmptyWindow ]
  /\ next_id = 1 /\ buttons = 0 /\ seen = FALSE /\ drag = NoSlot
  /\ below = {} /\ script = << >>
  /\ app = [ a \in Apps |-> [pc |-> "start", winid |-> 0, canvas |-> NoCanvas] ]
  /\ mail = [ a \in Apps |-> NoMail ]
  /\ shared = {} /\ freeCanvas = Canvases
  /\ pix = [ c \in Canvases |-> 0 ] /\ shown = [ c \in Canvases |-> 0 ]

(* The window table *)

live(ws) == { s \in WinSlots : ws[s].id # 0 }
live_count(ws) == Cardinality(live(ws))
find_slot(ws, id) == { s \in WinSlots : ws[s].id = id }
owned(ws, id, a) == \E s \in find_slot(ws, id) : ws[s].app = a

\* What a search from slot 0 up finds.
First(S) == { s \in S : \A t \in S : s =< t }

mark_all_dirty(ws) ==
  [ s \in WinSlots |-> IF ws[s].id # 0 THEN [ws[s] EXCEPT !.dirty = TRUE] ELSE ws[s] ]

\* Everyone above moves down one slot.
raise(ws, slot) ==
  LET n == live_count(ws) IN
  IF n =< 1 \/ slot = n - 1 THEN ws
  ELSE [ s \in WinSlots |-> CASE s \in slot .. n - 2 -> ws[s + 1]
                              [] s = n - 1 -> ws[slot]
                              [] OTHER -> ws[s] ]

(* Steps of a script *)
Blit(c) == [op |-> "blit", canvas |-> c]
Reply(a, t, val) == [op |-> "reply", to |-> a, msg |-> [t |-> t, val |-> val]]

Dirty(ws) == { s \in live(ws) : ws[s].dirty }

OnScreen(ws, off) == { s \in live(ws) : ws[s].id \notin off }

\* The windows composite redraws when those in off have no part on the screen:
\* the dirty ones and any other that overlaps the repainted rectangle, which
\* also covers the pointer; none when nothing on the screen changed and no
\* pointer was ever seen.
Redrawn(ws, off) ==
  LET D == Dirty(ws) \cap OnScreen(ws, off)
  IN { S \in SUBSET OnScreen(ws, off) : /\ D \subseteq S
                                        /\ D = {} /\ ~ seen => S = {} }

\* The slots of S from the bottom up: the one sequence in a set of its own.
BottomUp(S) ==
  { order \in UNION { [1 .. n -> S] : n \in 0 .. MAX_WINDOWS } :
      /\ \A i, j \in DOMAIN order : i < j => order[i] < order[j]
      /\ \A s \in S : \E i \in DOMAIN order : order[i] = s }

\* composite: blits from the bottom up; what is drawn is clean.
composite(ws, order) == [ k \in DOMAIN order |-> Blit(ws[order[k]].canvas) ]
Clean(ws, S) ==
  [ s \in WinSlots |-> IF s \in S THEN [ws[s] EXCEPT !.dirty = FALSE] ELSE ws[s] ]

(* The apps: Window::create, drawing, tick, flush and close *)

Asks(a, pc, msg) ==
  /\ app' = [app EXCEPT ![a].pc = pc]
  /\ mail' = [mail EXCEPT ![a] = msg]

wmVars == << windows, next_id, buttons, seen, drag, below, script >>

\* Window::create up to the request; a share that fails gives the frames back.
create(a, c, ok, valid) ==
  /\ app[a].pc = "start" /\ c \in freeCanvas
  /\ IF ok
     THEN /\ freeCanvas' = freeCanvas \ {c} /\ shared' = shared \cup {c}
          /\ app' = [app EXCEPT ![a] = [pc |-> "create", winid |-> 0, canvas |-> c]]
          /\ mail' = [mail EXCEPT ![a] = [t |-> "M_WM_CREATE", canvas |-> c,
                                          valid |-> valid]]
     ELSE /\ app' = [app EXCEPT ![a].pc = "idle"]
          /\ UNCHANGED << freeCanvas, shared, mail >>
  /\ UNCHANGED << wmVars, pix, shown >>

draw_canvas(a) ==
  /\ app[a].pc \in {"open", "flushed"} /\ pix[app[a].canvas] < MAX_DRAWS
  /\ pix' = [pix EXCEPT ![app[a].canvas] = @ + 1]
  /\ app' = [app EXCEPT ![a].pc = "open"]
  /\ UNCHANGED << wmVars, mail, shared, freeCanvas, shown >>

tick(a) ==
  /\ app[a].pc = "open" /\ Asks(a, "tick", [t |-> "M_WM_TICK", id |-> app[a].winid])
  /\ UNCHANGED << wmVars, shared, freeCanvas, pix, shown >>

flush_window(a) ==
  /\ app[a].pc = "open" /\ Asks(a, "flush", [t |-> "M_WM_FLUSH", id |-> app[a].winid])
  /\ UNCHANGED << wmVars, shared, freeCanvas, pix, shown >>

close(a) ==
  /\ app[a].pc \in {"open", "flushed"}
  /\ Asks(a, "close", [t |-> "M_WM_CLOSE", id |-> app[a].winid])
  /\ UNCHANGED << wmVars, shared, freeCanvas, pix, shown >>

\* The answer is there.  A rejected create and a close unshare the canvas and
\* free it; both leave the app without a window.
Released(a) ==
  /\ shared' = shared \ {app[a].canvas}
  /\ freeCanvas' = freeCanvas \cup {app[a].canvas}
  /\ app' = [app EXCEPT ![a] = [pc |-> "start", winid |-> 0, canvas |-> NoCanvas]]

rpc_returns(a) ==
  /\ mail[a].t \in {"M_WM_CREATE_REPLY", "M_WM_TICK_REPLY", "M_WM_DONE"}
  /\ mail' = [mail EXCEPT ![a] = NoMail]
  /\ IF app[a].pc = "close" \/ (app[a].pc = "create" /\ mail[a].val = 0)
     THEN Released(a)
     ELSE /\ app' = [app EXCEPT ![a].pc = IF @ = "flush" THEN "flushed" ELSE "open",
                                ![a].winid = IF app[a].pc = "create" THEN mail[a].val
                                                                     ELSE @]
          /\ UNCHANGED << shared, freeCanvas >>
  /\ UNCHANGED << wmVars, pix, shown >>

(* The window manager's service loop *)

Serves(a, t) ==
  /\ script = << >> /\ mail[a].t = t
  /\ mail' = [mail EXCEPT ![a] = [t |-> "taken"]]
  /\ UNCHANGED << app, shared, freeCanvas, pix, shown >>

\* Redraw ws and answer app a before (first) or after the blits.
Compose(ws, off, answer, first) ==
  \E S \in Redrawn(ws, off) : \E order \in BottomUp(S) :
    /\ windows' = Clean(ws, S)
    /\ script' = IF first THEN << answer >> \o composite(ws, order)
                          ELSE composite(ws, order) \o << answer >>

\* The first empty slot takes the window, and its row decides whether it can
\* lie below the screen; the app is answered before the desktop is redrawn.
serve_create(a) ==
  LET empty == WinSlots \ live(windows)
      wd == [id |-> next_id, app |-> a, canvas |-> mail[a].canvas, dirty |-> TRUE]
  IN
  /\ Serves(a, "M_WM_CREATE") /\ next_id =< MAX_CREATED
  /\ IF mail[a].valid /\ empty # {}
     THEN /\ below' \in {below} \cup { below \cup {i} : i \in {next_id} \ (1 .. COLUMNS) }
          /\ \E slot \in First(empty) :
               Compose(mark_all_dirty([windows EXCEPT ![slot] = wd]), below',
                       Reply(a, "M_WM_CREATE_REPLY", next_id), TRUE)
          /\ next_id' = next_id + 1
     ELSE /\ script' = << Reply(a, "M_WM_CREATE_REPLY", 0) >>
          /\ UNCHANGED << windows, next_id, below >>
  /\ UNCHANGED << buttons, seen, drag >>

Marked(ws, id) ==
  [ s \in WinSlots |-> IF s \in find_slot(ws, id) THEN [ws[s] EXCEPT !.dirty = TRUE]
                                                  ELSE ws[s] ]

\* The bug of redrawing without marking the window that asked.
serve_flush_Unmarked(a) ==
  /\ Serves(a, "M_WM_FLUSH")
  /\ Compose(windows, below, Reply(a, "M_WM_DONE", 1), FALSE)
  /\ UNCHANGED << next_id, buttons, seen, drag, below >>

serve_flush(a) ==
  /\ Serves(a, "M_WM_FLUSH")
  /\ IF owned(windows, mail[a].id, a)
     THEN Compose(Marked(windows, mail[a].id), below, Reply(a, "M_WM_DONE", 1), FALSE)
     ELSE script' = << Reply(a, "M_WM_DONE", 0) >> /\ UNCHANGED windows
  /\ UNCHANGED << next_id, buttons, seen, drag, below >>

\* The pointer is sampled: button pb, over window slot hit (NoSlot: desktop),
\* on its title bar or not.  A press raises the window it hits and a press on
\* a title bar starts a drag, of the slot that was hit.  A drag moves the
\* window in its slot onto the screen and repaints everything, until the
\* button is up.  The event is routed when the slot that
\* the app's window had before all this is the one under the pointer now.
serve_tick(a, pb, hit, title) ==
  LET top      == live_count(windows) - 1
      dragging == drag # NoSlot
      pressed  == ~ dragging /\ pb = 1 /\ buttons = 0 /\ hit # NoSlot
      raised   == pressed /\ hit # top
      moved    == dragging /\ pb = 1
      off      == IF moved THEN below \ {windows[drag].id} ELSE below
      under    == IF raised THEN top ELSE hit
      routed   == under \in find_slot(windows, mail[a].id)
      answer   == Reply(a, "M_WM_TICK_REPLY", IF routed THEN 1 ELSE 0)
  IN
  /\ Serves(a, "M_WM_TICK") /\ hit \in OnScreen(windows, off) \cup {NoSlot}
  /\ IF ~ owned(windows, mail[a].id, a)
     THEN UNCHANGED << windows, script, buttons, seen, drag >>
     ELSE /\ buttons' = pb /\ seen' = TRUE
          /\ drag' = IF dragging /\ pb = 0 THEN NoSlot
                     ELSE IF pressed /\ title THEN hit ELSE drag
          /\ IF raised \/ moved
             THEN Compose(mark_all_dirty(IF raised THEN raise(windows, hit)
                                                   ELSE windows), off, answer, TRUE)
             ELSE script' = << answer >> /\ UNCHANGED windows
  /\ UNCHANGED << next_id, below >>

\* The bug of emptying the slot and leaving the hole.
Compacted_Hole(ws, slot) == [ws EXCEPT ![slot] = EmptyWindow]

\* The windows above move down.
Compacted(ws, slot) ==
  LET n == live_count(ws) IN
  [ s \in WinSlots |-> CASE s \in slot .. n - 2 -> ws[s + 1]
                         [] s = n - 1 -> EmptyWindow
                         [] OTHER -> ws[s] ]

serve_close_window(a) ==
  /\ Serves(a, "M_WM_CLOSE")
  /\ IF owned(windows, mail[a].id, a)
     THEN \E slot \in First(find_slot(windows, mail[a].id)) :
            /\ Compose(mark_all_dirty(Compacted(windows, slot)), below,
                       Reply(a, "M_WM_DONE", 1), FALSE)
            /\ drag' = IF drag = slot THEN NoSlot ELSE drag
     ELSE script' = << Reply(a, "M_WM_DONE", 0) >> /\ UNCHANGED << windows, drag >>
  /\ UNCHANGED << next_id, buttons, seen, below >>

(* One step of a script *)

\* dcall: the display server copies the canvas, which brings a window that was
\* dragged back onto the screen, and answers.
dblit ==
  /\ script # << >> /\ Head(script).op = "blit"
  /\ LET c == Head(script).canvas
     IN /\ shown' = [shown EXCEPT ![c] = pix[c]]
        /\ below' = below \ { windows[s].id : s \in { t \in live(windows) : windows[t].canvas = c } }
  /\ script' = Tail(script)
  /\ UNCHANGED << windows, next_id, buttons, seen, drag, app, mail, shared, freeCanvas,
                  pix >>

reply ==
  /\ script # << >> /\ Head(script).op = "reply"
  /\ mail' = [mail EXCEPT ![Head(script).to] = Head(script).msg]
  /\ script' = Tail(script)
  /\ UNCHANGED << windows, next_id, buttons, seen, drag, below, app, shared, freeCanvas,
                  pix, shown >>

DeskNext ==
  \/ \E a \in Apps :
       \/ \E c \in Canvases, ok, valid \in BOOLEAN : create(a, c, ok, valid)
       \/ draw_canvas(a) \/ tick(a) \/ flush_window(a) \/ close(a) \/ rpc_returns(a)
       \/ serve_create(a) \/ serve_flush(a) \/ serve_close_window(a)
       \/ \E pb \in {0, 1}, hit \in WinSlots \cup {NoSlot}, title \in BOOLEAN :
            serve_tick(a, pb, hit, title)
  \/ dblit \/ reply

DeskSpec == DeskInit /\ [][DeskNext]_deskVars
-----------------------------------------------------------------------------
\* The window table stays sound through creates, raises, drags and closes: the
\* live windows fill the lowest slots (raise and the active title bar count on
\* it, wm/src/main.rs:157, 314), no two are the same, and every canvas in the
\* table, or still to be blitted, is one its app keeps shared with the display
\* server (window.rs:208): the display never reads frames that were given back.
WindowTableIsSound ==
  /\ live(windows) = 0 .. live_count(windows) - 1
  /\ \A s, t \in live(windows) :
       windows[s].id = windows[t].id \/ windows[s].canvas = windows[t].canvas => s = t
  /\ \A s \in live(windows) : windows[s].canvas \in shared
  /\ \A k \in DOMAIN script : script[k].op = "blit" => script[k].canvas \in shared

\* When a flush has been answered the framebuffer holds what the app had drawn
\* (window.rs:200, wm/src/main.rs:414), whatever other apps asked meanwhile,
\* unless the window has no part on the screen: serve_create does not clamp the
\* row (wm/src/main.rs:379) and composite skips such a window.  Once a drag
\* brings it back the framebuffer has all that was flushed.
FlushIsComposited ==
  \A a \in Apps : app[a].pc = "flushed" =>
    shown[app[a].canvas] = pix[app[a].canvas] \/ app[a].winid \in below
=============================================================================
