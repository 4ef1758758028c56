--------------------------- MODULE DesktopProofs ---------------------------
(***************************************************************************)
(* The desktop for every number of apps, canvases, windows and drawings:    *)
(* the window table stays sound and an answered flush has been composited.  *)
(* The invariant follows each app through its calls: which request or       *)
(* answer is under way, whether the app has its one window at that moment,  *)
(* and that the blit of a flush is still to come or has been made, unless   *)
(* the window lies below the screen.                                        *)
(***************************************************************************)
EXTENDS Desktop, FiniteSetTheorems, TLAPS

Windows == [ id : Nat, app : Apps \cup {NoApp}, canvas : Canvases \cup {NoCanvas},
             dirty : BOOLEAN ]
AppStates == { "start", "idle", "create", "open", "flushed", "tick", "flush", "close" }
AppRecords == [ pc : AppStates, winid : Nat, canvas : Canvases \cup {NoCanvas} ]
Answers == [ t : {"M_WM_CREATE_REPLY", "M_WM_TICK_REPLY", "M_WM_DONE"}, val : Nat ]
Blits == [ op : {"blit"}, canvas : Canvases ]
Replies == [ op : {"reply"}, to : Apps, msg : Answers ]

DeskTypes ==
  /\ windows \in [WinSlots -> Windows] /\ next_id \in Nat \ {0}
  /\ script \in Seq(Blits \cup Replies)
  /\ app \in [Apps -> AppRecords] /\ mail = [ a \in Apps |-> mail[a] ]
  /\ shared \subseteq Canvases /\ freeCanvas \subseteq Canvases
  /\ pix \in [Canvases -> Nat] /\ shown \in [Canvases -> Nat]

-----------------------------------------------------------------------------
(* The invariant, over the pieces of state it relates: a table ws, the apps' *)
(* records ap (r for one of them), the mail ml (m for one), a script sc.     *)

Tables == [WinSlots -> Windows]

Win(ws, a, id) == \E s \in live(ws) : ws[s].app = a /\ ws[s].id = id
NoWin(ws, a) == \A s \in live(ws) : ws[s].app # a

\* The live windows fill the lowest slots, one for each app that has one, and
\* show the canvas of their app.
Table(ws, nid, ap) ==
  /\ \E n \in 0 .. MAX_WINDOWS : live(ws) = 0 .. n - 1
  /\ \A s, t \in live(ws) : ws[s].id = ws[t].id \/ ws[s].app = ws[t].app => s = t
  /\ \A s \in live(ws) : /\ ws[s].id < nid /\ ws[s].app \in Apps
                         /\ ws[s].canvas = ap[ws[s].app].canvas

\* An app past its share owns a canvas of its own.
Owner(r) == r.pc \notin {"start", "idle"}
Apart(ap, sh, fr) ==
  /\ \A a \in Apps : Owner(ap[a]) => ap[a].canvas \in sh /\ ap[a].canvas \notin fr
  /\ \A a, b \in Apps :
       Owner(ap[a]) /\ Owner(ap[b]) /\ ap[a].canvas = ap[b].canvas => a = b

\* m is an answer to what app a asked.
Created(ws, a, v) == IF v = 0 THEN NoWin(ws, a) ELSE Win(ws, a, v)
Expected(ws, a, r, m) ==
  /\ m \in Answers
  /\ \/ r.pc = "create" /\ m.t = "M_WM_CREATE_REPLY" /\ Created(ws, a, m.val)
     \/ r.pc = "tick" /\ m.t = "M_WM_TICK_REPLY"
     \/ r.pc \in {"flush", "close"} /\ m.t = "M_WM_DONE"

\* Where app a is in its call, and what the wm has of it; drawn: the screen
\* shows its canvas as it is, or no part of it, toDraw: the wm is about to blit
\* it.
PhaseOf(ws, a, r, m, drawn, toDraw) ==
  /\ r.pc \in {"start", "idle"} => m = NoMail /\ NoWin(ws, a)
  /\ r.pc \in {"open", "flushed"} => m = NoMail /\ Win(ws, a, r.winid)
  /\ r.pc = "create" =>
       \/ m.t = "M_WM_CREATE" /\ m.canvas = r.canvas /\ NoWin(ws, a)
       \/ m.t = "taken" \/ Expected(ws, a, r, m)
  /\ r.pc = "tick" =>
       /\ Win(ws, a, r.winid)
       /\ m = [t |-> "M_WM_TICK", id |-> r.winid] \/ m.t = "taken" \/ Expected(ws, a, r, m)
  /\ r.pc = "flush" =>
       /\ Win(ws, a, r.winid)
       /\ \/ m = [t |-> "M_WM_FLUSH", id |-> r.winid]
          \/ m.t = "taken" /\ (drawn \/ toDraw)
          \/ Expected(ws, a, r, m) /\ drawn
  /\ r.pc = "close" =>
       \/ m = [t |-> "M_WM_CLOSE", id |-> r.winid] /\ Win(ws, a, r.winid)
       \/ (m.t = "taken" \/ Expected(ws, a, r, m)) /\ NoWin(ws, a)
  /\ r.pc = "flushed" => drawn

\* What the wm still does: blits of windows in the table and at most one
\* answer, which for a flush comes last.
ScriptOK(sc, ws, ap, ml) ==
  /\ \A k \in DOMAIN sc : sc[k].op = "blit" =>
       \E s \in live(ws) : ws[s].canvas = sc[k].canvas
  /\ \A k \in DOMAIN sc : sc[k].op = "reply" =>
       /\ ml[sc[k].to].t = "taken" /\ Expected(ws, sc[k].to, ap[sc[k].to], sc[k].msg)
       /\ ap[sc[k].to].pc = "flush" => k = Len(sc)
  /\ \A k, l \in DOMAIN sc : sc[k].op = "reply" /\ sc[l].op = "reply" => k = l

Drawn(a) == shown[app[a].canvas] = pix[app[a].canvas] \/ app[a].winid \in below
ToDraw(a) == \E k \in DOMAIN script : script[k] = Blit(app[a].canvas)
Phase(a) == PhaseOf(windows, a, app[a], mail[a], Drawn(a), ToDraw(a))

DeskInv ==
  /\ DeskTypes /\ Table(windows, next_id, app) /\ Apart(app, shared, freeCanvas)
  /\ ScriptOK(script, windows, app, mail)
  /\ \A a \in Apps : Phase(a)

-----------------------------------------------------------------------------
(* The window table *)

\* How many windows are live.
LEMMA LiveCount ==
  ASSUME NEW ws, NEW n \in Nat, live(ws) = 0 .. n - 1
  PROVE  live_count(ws) = n
<1>1. Cardinality(0 .. n - 1) = IF 0 > n - 1 THEN 0 ELSE (n - 1) - 0 + 1
  BY FS_Interval
<1>2. Cardinality(0 .. n - 1) = n
  BY <1>1
<1>. QED BY Zenon, <1>2 DEF live_count

\* A change of dirty marks only.
SameWindows(vs, ws) ==
  \A s \in WinSlots : /\ vs[s].id = ws[s].id /\ vs[s].app = ws[s].app
                      /\ vs[s].canvas = ws[s].canvas

LEMMA SameTable ==
  ASSUME NEW ws, NEW vs, SameWindows(vs, ws), NEW nid, NEW ap, Table(ws, nid, ap)
  PROVE  /\ live(vs) = live(ws) /\ Table(vs, nid, ap)
         /\ \A a : NoWin(ws, a) => NoWin(vs, a)
         /\ \A a, id : Win(ws, a, id) => Win(vs, a, id)
<1>1. live(vs) = live(ws) /\ live(ws) \subseteq WinSlots
  BY Zenon DEF live, SameWindows
<1>. QED BY ZenonT(40), <1>1 DEF Table, NoWin, Win, SameWindows

LEMMA Marks ==
  ASSUME NEW ws \in Tables
  PROVE  /\ mark_all_dirty(ws) \in Tables /\ SameWindows(mark_all_dirty(ws), ws)
         /\ \A S : Clean(ws, S) \in Tables /\ SameWindows(Clean(ws, S), ws)
         /\ \A id : Marked(ws, id) \in Tables /\ SameWindows(Marked(ws, id), ws)
<1>1. \A s \in WinSlots, b \in BOOLEAN :
        /\ ws[s] \in Windows
        /\ [ws[s] EXCEPT !.dirty = b] \in Windows
        /\ [ws[s] EXCEPT !.dirty = b].id = ws[s].id
        /\ [ws[s] EXCEPT !.dirty = b].app = ws[s].app
        /\ [ws[s] EXCEPT !.dirty = b].canvas = ws[s].canvas
  BY DEF Tables, Windows
<1>. QED
  BY Zenon, <1>1 DEF Tables, SameWindows, mark_all_dirty, Clean, Marked

\* The windows of vs are windows of ws, in other slots.
LEMMA Rearranged ==
  ASSUME NEW ws, NEW vs, NEW nid, NEW ap, Table(ws, nid, ap),
         NEW m \in 0 .. MAX_WINDOWS, live(vs) = 0 .. m - 1, NEW p,
         \A s \in live(vs) : p[s] \in live(ws) /\ vs[s] = ws[p[s]],
         \A s, t \in live(vs) : p[s] = p[t] => s = t
  PROVE  /\ Table(vs, nid, ap)
         /\ \A a : NoWin(ws, a) => NoWin(vs, a)
         /\ \A t \in live(ws) :
              (\E s \in live(vs) : p[s] = t) => Win(vs, ws[t].app, ws[t].id)
<1>1. \E n \in 0 .. MAX_WINDOWS : live(vs) = 0 .. n - 1
  BY Zenon
<1>2. ASSUME NEW s \in live(vs), NEW t \in live(vs),
             vs[s].id = vs[t].id \/ vs[s].app = vs[t].app
      PROVE  s = t
  <2>1. /\ p[s] \in live(ws) /\ vs[s] = ws[p[s]]
        /\ p[t] \in live(ws) /\ vs[t] = ws[p[t]]
    BY Zenon
  <2>2. \A x, y \in live(ws) : ws[x].id = ws[y].id \/ ws[x].app = ws[y].app => x = y
    BY Zenon DEF Table
  <2>3. ws[p[s]].id = ws[p[t]].id \/ ws[p[s]].app = ws[p[t]].app
    BY Zenon, <1>2, <2>1
  <2>4. p[s] = p[t]
    BY Zenon, <2>1, <2>2, <2>3
  <2>. QED BY Zenon, <2>4
<1>3. ASSUME NEW s \in live(vs)
      PROVE  /\ vs[s].id < nid /\ vs[s].app \in Apps
             /\ vs[s].canvas = ap[vs[s].app].canvas
  <2>1. p[s] \in live(ws) /\ vs[s] = ws[p[s]]
    BY Zenon
  <2>2. \A x \in live(ws) : /\ ws[x].id < nid /\ ws[x].app \in Apps
                            /\ ws[x].canvas = ap[ws[x].app].canvas
    BY Zenon DEF Table
  <2>. QED BY Zenon, <2>1, <2>2
<1>4. Table(vs, nid, ap)
  BY Zenon, <1>1, <1>2, <1>3 DEF Table
<1>. QED BY ZenonT(40), <1>4 DEF NoWin, Win

\* raise keeps every window.
LEMMA Raised ==
  ASSUME NEW ws \in Tables, NEW nid, NEW ap, Table(ws, nid, ap), NEW slot \in live(ws)
  PROVE  LET vs == raise(ws, slot) IN
         /\ vs \in Tables /\ Table(vs, nid, ap) /\ live(vs) = live(ws)
         /\ \A a : NoWin(ws, a) => NoWin(vs, a)
         /\ \A a, id : Win(ws, a, id) => Win(vs, a, id)
<1>1. PICK n \in 0 .. MAX_WINDOWS : live(ws) = 0 .. n - 1
  BY Zenon DEF Table
<1>2. live_count(ws) = n /\ n \in Nat /\ MAX_WINDOWS \in Nat
  BY <1>1, LiveCount, DeskAssumption
<1>3. CASE n =< 1 \/ slot = n - 1
  BY Zenon, <1>2, <1>3 DEF raise
<1>4. CASE ~ (n =< 1 \/ slot = n - 1)
  <2>. DEFINE p == [ s \in WinSlots |-> IF s \in slot .. n - 2 THEN s + 1
                                        ELSE IF s = n - 1 THEN slot ELSE s ]
  <2>1. PICK vs : vs = raise(ws, slot)
    BY Zenon
  <2>2. vs = [ s \in WinSlots |-> CASE s \in slot .. n - 2 -> ws[s + 1]
                                    [] s = n - 1 -> ws[slot]
                                    [] OTHER -> ws[s] ]
    BY <1>2, <1>4, <2>1 DEF raise
  <2>0. \A s \in WinSlots :
          p[s] = IF s \in slot .. n - 2 THEN s + 1 ELSE IF s = n - 1 THEN slot ELSE s
    BY Zenon
  <2>. HIDE DEF p
  <2>3. /\ slot \in 0 .. n - 1 /\ slot # n - 1
        /\ \A s \in WinSlots : p[s] \in WinSlots /\ (p[s] \in 0 .. n - 1 <=> s \in 0 .. n - 1)
        /\ \A s, t \in WinSlots : p[s] = p[t] => s = t
    BY SMTT(30), <1>1, <1>2, <1>4, <2>0 DEF WinSlots
  <2>4. \A t \in 0 .. n - 1 : \E s \in 0 .. n - 1 : p[s] = t
    <3>. TAKE t \in 0 .. n - 1
    <3>1. CASE t < slot
      <4>1. t \in 0 .. n - 1 /\ p[t] = t
        BY <1>1, <1>2, <1>4, <2>0, <3>1 DEF WinSlots
      <4>. QED BY Zenon, <4>1
    <3>2. CASE t = slot
      <4>1. n - 1 \in 0 .. n - 1 /\ p[n - 1] = t
        BY <1>1, <1>2, <1>4, <2>0, <3>2 DEF WinSlots
      <4>. QED BY Zenon, <4>1
    <3>3. CASE t > slot
      <4>1. t - 1 \in 0 .. n - 1 /\ p[t - 1] = t
        BY <1>1, <1>2, <1>4, <2>0, <3>3 DEF WinSlots
      <4>. QED BY Zenon, <4>1
    <3>. QED BY <1>1, <3>1, <3>2, <3>3
  <2>5. \A s \in WinSlots : vs[s] = ws[p[s]]
    BY SMTT(30), <1>1, <1>2, <2>0, <2>2, <2>3 DEF WinSlots
  <2>6. vs \in Tables
    <3>1. \A s \in WinSlots : ws[p[s]] \in Windows
      BY Zenon, <2>3 DEF Tables
    <3>2. vs = [ s \in WinSlots |-> vs[s] ]
      BY <2>2
    <3>. QED BY Zenon, <2>5, <3>1, <3>2 DEF Tables
  <2>7. live(vs) = live(ws)
    <3>1. \A s \in WinSlots : s \in live(vs) <=> p[s] \in live(ws)
      BY Zenon, <2>3, <2>5 DEF live
    <3>2. \A s \in WinSlots : s \in live(vs) <=> s \in live(ws)
      BY Zenon, <1>1, <2>3, <3>1
    <3>. QED BY Zenon, <3>2 DEF live
  <2>8. \A s \in live(vs) : p[s] \in live(ws) /\ vs[s] = ws[p[s]]
    BY Zenon, <1>1, <2>3, <2>5, <2>7 DEF live
  <2>9. \A s, t \in live(vs) : p[s] = p[t] => s = t
    BY Zenon, <2>3 DEF live
  <2>10. live(vs) = 0 .. n - 1
    BY Zenon, <1>1, <2>7
  <2>11. /\ Table(vs, nid, ap)
         /\ \A a : NoWin(ws, a) => NoWin(vs, a)
         /\ \A t \in live(ws) :
              (\E s \in live(vs) : p[s] = t) => Win(vs, ws[t].app, ws[t].id)
    BY Zenon, <2>8, <2>9, <2>10, Rearranged
  <2>12. \A a, id : Win(ws, a, id) => Win(vs, a, id)
    <3>. SUFFICES ASSUME NEW a, NEW id, Win(ws, a, id) PROVE Win(vs, a, id)
      BY Zenon
    <3>1. PICK t \in live(ws) : ws[t].app = a /\ ws[t].id = id
      BY Zenon DEF Win
    <3>2. \E s \in live(vs) : p[s] = t
      BY Zenon, <1>1, <2>4, <2>10
    <3>. QED BY Zenon, <2>11, <3>1, <3>2
  <2>. QED BY Zenon, <2>1, <2>6, <2>7, <2>11, <2>12
<1>. QED BY Zenon, <1>3, <1>4

\* A close takes one window out and keeps the others.
LEMMA Closed ==
  ASSUME NEW ws \in Tables, NEW nid, NEW ap, Table(ws, nid, ap), NEW slot \in live(ws)
  PROVE  LET vs == Compacted(ws, slot) IN
         /\ vs \in Tables /\ Table(vs, nid, ap) /\ NoWin(vs, ws[slot].app)
         /\ \A a : NoWin(ws, a) => NoWin(vs, a)
         /\ \A a, id : a # ws[slot].app /\ Win(ws, a, id) => Win(vs, a, id)
<1>1. PICK n \in 0 .. MAX_WINDOWS : live(ws) = 0 .. n - 1
  BY Zenon DEF Table
<1>2. live_count(ws) = n /\ n \in Nat /\ MAX_WINDOWS \in Nat
  BY <1>1, LiveCount, DeskAssumption
<1>3. slot \in 0 .. n - 1 /\ n - 1 \in 0 .. MAX_WINDOWS /\ slot \in WinSlots
  BY <1>1, <1>2 DEF live
<1>. DEFINE p == [ s \in WinSlots |-> IF s < slot THEN s ELSE s + 1 ]
<1>4. PICK vs : vs = Compacted(ws, slot)
  BY Zenon
<1>5. vs = [ s \in WinSlots |-> CASE s \in slot .. n - 2 -> ws[s + 1]
                                  [] s = n - 1 -> EmptyWindow
                                  [] OTHER -> ws[s] ]
  BY <1>2, <1>4 DEF Compacted
<1>6. \A s \in WinSlots : p[s] = IF s < slot THEN s ELSE s + 1
  BY Zenon
<1>. HIDE DEF p
<1>0. \A s \in WinSlots : vs[s] = IF s \in slot .. n - 2 THEN ws[s + 1]
                                  ELSE IF s = n - 1 THEN EmptyWindow ELSE ws[s]
  BY <1>2, <1>3, <1>5
<1>7. /\ \A s \in 0 .. n - 2 : s \in WinSlots /\ p[s] \in 0 .. n - 1 /\ vs[s] = ws[p[s]]
                               /\ p[s] # slot
      /\ \A s, t \in 0 .. n - 2 : p[s] = p[t] => s = t
  <2>1. 0 .. n - 2 \subseteq WinSlots
    BY <1>2, <1>3 DEF WinSlots
  <2>2. \A s \in 0 .. n - 2 : p[s] = IF s < slot THEN s ELSE s + 1
    BY Zenon, <1>6, <2>1
  <2>3. \A s \in 0 .. n - 2 : p[s] \in 0 .. n - 1 /\ p[s] # slot
    BY <1>2, <1>3, <2>2
  <2>4. \A s, t \in 0 .. n - 2 : p[s] = p[t] => s = t
    BY <1>2, <1>3, <2>2
  <2>5. ASSUME NEW s \in 0 .. n - 2 PROVE vs[s] = ws[p[s]]
    <3>1. s \in WinSlots /\ s # n - 1 /\ (s \in slot .. n - 2 <=> ~ (s < slot))
      BY <1>2, <1>3, <2>1
    <3>. QED BY Zenon, <1>0, <2>2, <3>1
  <2>. QED BY Zenon, <2>1, <2>3, <2>4, <2>5
<1>8. \A t \in 0 .. n - 1 : t # slot => \E s \in 0 .. n - 2 : p[s] = t
  <2>. SUFFICES ASSUME NEW t \in 0 .. n - 1, t # slot PROVE \E s \in 0 .. n - 2 : p[s] = t
    BY Zenon
  <2>1. CASE t < slot
    <3>1. t \in 0 .. n - 2 /\ p[t] = t
      BY <1>2, <1>3, <1>6, <2>1 DEF WinSlots
    <3>. QED BY Zenon, <3>1
  <2>2. CASE t > slot
    <3>1. t - 1 \in 0 .. n - 2 /\ p[t - 1] = t
      BY SMTT(30), <1>2, <1>3, <1>6, <2>2 DEF WinSlots
    <3>. QED BY Zenon, <3>1
  <2>. QED BY <1>2, <1>3, <2>1, <2>2
<1>9. EmptyWindow \in Windows /\ EmptyWindow.id = 0
  BY DEF EmptyWindow, Windows
<1>10. \A s \in WinSlots : s \notin 0 .. n - 2 => vs[s] = EmptyWindow \/ (s \notin 0 .. n - 1 /\ vs[s] = ws[s])
  BY <1>0, <1>2, <1>3 DEF WinSlots
<1>11. vs \in Tables
  <2>1. \A s \in WinSlots : vs[s] \in Windows
    <3>1. \A s \in WinSlots : ws[s] \in Windows
      BY Zenon DEF Tables
    <3>2. \A s \in 0 .. n - 1 : s \in WinSlots
      BY Zenon, <1>1 DEF live
    <3>. QED BY ZenonT(40), <1>7, <1>9, <1>10, <3>1, <3>2
  <2>2. vs = [ s \in WinSlots |-> vs[s] ]
    BY <1>5
  <2>. QED BY Zenon, <2>1, <2>2 DEF Tables
<1>12. live(vs) = 0 .. n - 2
  <2>1. \A s \in 0 .. n - 2 : s \in live(vs)
    BY Zenon, <1>1, <1>7 DEF live
  <2>2. \A s \in WinSlots : s \notin 0 .. n - 2 => s \notin live(vs)
    BY Zenon, <1>1, <1>9, <1>10 DEF live
  <2>. QED BY Zenon, <2>1, <2>2 DEF live
<1>13. (n - 1) - 1 = n - 2
  BY <1>2
<1>14. /\ \A s \in live(vs) : p[s] \in live(ws) /\ vs[s] = ws[p[s]]
       /\ \A s, t \in live(vs) : p[s] = p[t] => s = t
       /\ live(vs) = 0 .. (n - 1) - 1
  BY Zenon, <1>1, <1>7, <1>12, <1>13
<1>15. /\ Table(vs, nid, ap)
       /\ \A a : NoWin(ws, a) => NoWin(vs, a)
       /\ \A t \in live(ws) :
            (\E s \in live(vs) : p[s] = t) => Win(vs, ws[t].app, ws[t].id)
  BY ZenonT(40), <1>3, <1>14, Rearranged
<1>16. NoWin(vs, ws[slot].app)
  <2>1. ASSUME NEW s \in live(vs) PROVE vs[s].app # ws[slot].app
    <3>1. vs[s] = ws[p[s]] /\ p[s] # slot /\ p[s] \in live(ws)
      BY Zenon, <1>7, <1>12, <1>14
    <3>. QED BY Zenon, <3>1 DEF Table
  <2>. QED BY Zenon, <2>1 DEF NoWin
<1>17. ASSUME NEW a, NEW id, a # ws[slot].app, Win(ws, a, id) PROVE Win(vs, a, id)
  <2>1. PICK t \in live(ws) : ws[t].app = a /\ ws[t].id = id
    BY Zenon, <1>17 DEF Win
  <2>2. t # slot
    BY Zenon, <1>17, <2>1
  <2>3. \E s \in live(vs) : p[s] = t
    BY Zenon, <1>1, <1>8, <1>12, <2>2
  <2>. QED BY Zenon, <1>15, <2>1, <2>3
<1>. QED BY Zenon, <1>4, <1>11, <1>15, <1>16, <1>17

\* A create puts the new window on top of the others.
WindowOf(wd, nid, a, ap) ==
  wd \in Windows /\ wd.id = nid /\ wd.app = a /\ wd.canvas = ap[a].canvas

Adds(vs, ws, nid, a, ap) ==
  /\ vs \in Tables /\ Table(vs, nid + 1, ap) /\ Win(vs, a, nid)
  /\ \A b : b # a /\ NoWin(ws, b) => NoWin(vs, b)
  /\ \A b, id : Win(ws, b, id) => Win(vs, b, id)

LEMMA Placed ==
  ASSUME NEW ws \in Tables, NEW nid \in Nat, nid # 0, NEW ap, Table(ws, nid, ap),
         NEW slot \in First(WinSlots \ live(ws)), NEW a \in Apps, NoWin(ws, a),
         NEW wd, WindowOf(wd, nid, a, ap)
  PROVE  Adds([ws EXCEPT ![slot] = wd], ws, nid, a, ap)
<1>0. wd \in Windows /\ wd.id = nid /\ wd.app = a /\ wd.canvas = ap[a].canvas
  BY Zenon DEF WindowOf
<1>1. PICK n \in 0 .. MAX_WINDOWS : live(ws) = 0 .. n - 1
  BY Zenon DEF Table
<1>2. n \in Nat /\ MAX_WINDOWS \in Nat
  BY DeskAssumption
<1>3. slot = n /\ n \in WinSlots /\ n + 1 \in 0 .. MAX_WINDOWS
  <2>1. slot \in WinSlots /\ slot \notin 0 .. n - 1
    BY Zenon, <1>1 DEF First
  <2>2. n \in WinSlots /\ n \notin 0 .. n - 1
    BY <1>2, <2>1 DEF WinSlots
  <2>3. slot =< n
    BY Zenon, <1>1, <2>2 DEF First
  <2>. QED BY <1>2, <2>1, <2>2, <2>3 DEF WinSlots
<1>4. PICK vs : vs = [ws EXCEPT ![n] = wd]
  BY Zenon
<1>5. /\ vs \in Tables /\ vs[n] = wd
      /\ \A s \in WinSlots : s # n => vs[s] = ws[s]
  BY Zenon, <1>0, <1>3, <1>4 DEF Tables
<1>6. live(vs) = live(ws) \cup {n} /\ n \notin live(ws)
  <2>1. nid # 0 /\ n \notin 0 .. n - 1
    BY <1>2
  <2>. QED BY Zenon, <1>0, <1>1, <1>3, <1>5, <2>1 DEF live
<1>7. live(vs) = 0 .. (n + 1) - 1
  BY <1>1, <1>2, <1>6
<1>8. \A s \in live(ws) : s \in WinSlots /\ s # n /\ vs[s] = ws[s] /\ ws[s] \in Windows
  BY Zenon, <1>5, <1>6 DEF live, Tables
<1>9. \A s \in live(ws) : ws[s].id < nid + 1 /\ ws[s].id # nid
  <2>1. \A s \in live(ws) : ws[s].id \in Nat /\ ws[s].id < nid
    BY <1>8 DEF Table, Windows
  <2>. QED BY <2>1
<1>10. nid < nid + 1
  OBVIOUS
<1>11. \A s, t \in live(vs) : vs[s].id = vs[t].id \/ vs[s].app = vs[t].app => s = t
  <2>. SUFFICES ASSUME NEW s \in live(vs), NEW t \in live(vs),
                       vs[s].id = vs[t].id \/ vs[s].app = vs[t].app
                PROVE  s = t
    BY Zenon
  <2>1. CASE s \in live(ws) /\ t \in live(ws)
    BY Zenon, <1>8, <2>1 DEF Table
  <2>2. CASE s = n /\ t = n
    BY Zenon, <2>2
  <2>3. CASE s = n /\ t \in live(ws)
    BY Zenon, <1>0, <1>5, <1>8, <1>9, <2>3 DEF NoWin
  <2>4. CASE t = n /\ s \in live(ws)
    BY Zenon, <1>0, <1>5, <1>8, <1>9, <2>4 DEF NoWin
  <2>. QED BY Zenon, <1>6, <2>1, <2>2, <2>3, <2>4
<1>12. \A s \in live(vs) : /\ vs[s].id < nid + 1 /\ vs[s].app \in Apps
                           /\ vs[s].canvas = ap[vs[s].app].canvas
  BY Zenon, <1>0, <1>5, <1>6, <1>8, <1>9, <1>10 DEF Table
<1>13. Table(vs, nid + 1, ap)
  BY Zenon, <1>3, <1>7, <1>11, <1>12 DEF Table
<1>14. /\ Win(vs, a, nid)
       /\ \A b : b # a /\ NoWin(ws, b) => NoWin(vs, b)
       /\ \A b, id : Win(ws, b, id) => Win(vs, b, id)
  BY Zenon, <1>0, <1>5, <1>6, <1>8 DEF Win, NoWin
<1>. QED BY Zenon, <1>3, <1>4, <1>5, <1>13, <1>14 DEF Adds

-----------------------------------------------------------------------------
(* Scripts *)

\* sc is c with x added at i.
AddedAt(sc, i, x, c) ==
  /\ i \in DOMAIN sc /\ sc[i] = x
  /\ \A k \in DOMAIN sc : k # i => \E j \in DOMAIN c : sc[k] = c[j]
  /\ \A j \in DOMAIN c : \E k \in DOMAIN sc : sc[k] = c[j]

LEMMA InFront ==
  ASSUME NEW T, NEW x \in T, NEW c \in Seq(T)
  PROVE  /\ << x >> \o c \in Seq(T)
         /\ AddedAt(<< x >> \o c, 1, x, c)
<1>. DEFINE sc == << x >> \o c
<1>0. PICK n \in Nat : n = Len(c) /\ DOMAIN c = 1 .. n
  OBVIOUS
<1>1. /\ sc \in Seq(T) /\ Len(sc) = n + 1 /\ sc[1] = x
      /\ \A k \in 1 .. n : sc[k + 1] = c[k]
  BY <1>0
<1>. HIDE DEF sc
<1>2. DOMAIN sc = 1 .. n + 1
  BY <1>1
<1>3. 1 \in DOMAIN sc
  BY <1>2
<1>4. ASSUME NEW k \in DOMAIN sc, k # 1 PROVE \E j \in DOMAIN c : sc[k] = c[j]
  <2>1. PICK j : j = k - 1
    BY Zenon
  <2>2. j \in 1 .. n /\ j + 1 = k
    BY <1>2, <1>4, <2>1
  <2>. QED BY Zenon, <1>0, <1>1, <2>2
<1>5. ASSUME NEW j \in DOMAIN c PROVE \E k \in DOMAIN sc : sc[k] = c[j]
  <2>1. j \in 1 .. n /\ j + 1 \in DOMAIN sc
    BY <1>0, <1>2
  <2>. QED BY Zenon, <1>1, <2>1
<1>6. sc \in Seq(T) /\ AddedAt(sc, 1, x, c)
  BY Zenon, <1>1, <1>3, <1>4, <1>5 DEF AddedAt
<1>. QED BY Zenon, <1>6 DEF sc

LEMMA Behind ==
  ASSUME NEW T, NEW x \in T, NEW c \in Seq(T)
  PROVE  /\ c \o << x >> \in Seq(T)
         /\ AddedAt(c \o << x >>, Len(c \o << x >>), x, c)
<1>. DEFINE sc == c \o << x >>
<1>0. PICK n \in Nat : n = Len(c) /\ DOMAIN c = 1 .. n
  OBVIOUS
<1>1. /\ sc \in Seq(T) /\ Len(sc) = n + 1 /\ sc[n + 1] = x
      /\ \A k \in 1 .. n : sc[k] = c[k]
  BY <1>0
<1>. HIDE DEF sc
<1>2. DOMAIN sc = 1 .. n + 1
  BY <1>1
<1>3. n + 1 \in DOMAIN sc
  BY <1>2
<1>4. ASSUME NEW k \in DOMAIN sc, k # n + 1 PROVE \E j \in DOMAIN c : sc[k] = c[j]
  <2>1. k \in 1 .. n
    BY <1>2, <1>4
  <2>. QED BY Zenon, <1>0, <1>1, <2>1
<1>5. ASSUME NEW j \in DOMAIN c PROVE \E k \in DOMAIN sc : sc[k] = c[j]
  <2>1. j \in 1 .. n /\ j \in DOMAIN sc
    BY <1>0, <1>2
  <2>. QED BY Zenon, <1>1, <2>1
<1>6. sc \in Seq(T) /\ AddedAt(sc, Len(sc), x, c)
  BY Zenon, <1>1, <1>3, <1>4, <1>5 DEF AddedAt
<1>. QED BY Zenon, <1>6 DEF sc

\* What Compose makes of a table and an answer: blits of live windows, among
\* them every dirty one on the screen, and the answer in front of or behind them.
Redraws(sc, ws, off, answer, first) ==
  /\ sc \in Seq(Blits \cup Replies)
  /\ \E i \in DOMAIN sc :
       /\ sc[i] = answer /\ (~ first => i = Len(sc))
       /\ \A k \in DOMAIN sc : k # i => \E s \in live(ws) : sc[k] = Blit(ws[s].canvas)
  /\ \A s \in Dirty(ws) \cap OnScreen(ws, off) : \E k \in DOMAIN sc : sc[k] = Blit(ws[s].canvas)

LEMMA Composed ==
  ASSUME NEW ws \in Tables, \A s \in live(ws) : ws[s].canvas \in Canvases,
         NEW off, NEW S \in Redrawn(ws, off), NEW order \in BottomUp(S), NEW answer \in Replies,
         NEW first \in BOOLEAN, NEW sc,
         sc = IF first THEN << answer >> \o composite(ws, order)
                       ELSE composite(ws, order) \o << answer >>
  PROVE  Redraws(sc, ws, off, answer, first)
<1>1. S \subseteq live(ws) /\ Dirty(ws) \cap OnScreen(ws, off) \subseteq S
  BY Zenon DEF Redrawn, OnScreen
<1>2. PICK n \in Nat : order \in [1 .. n -> S]
  BY DeskAssumption DEF BottomUp
<1>3. \A s \in S : \E k \in 1 .. n : order[k] = s
  BY <1>2 DEF BottomUp
<1>4. PICK c : c = composite(ws, order)
  BY Zenon
<1>5. c = [ k \in 1 .. n |-> Blit(ws[order[k]].canvas) ]
  BY <1>2, <1>4 DEF composite
<1>6. \A s \in live(ws) : Blit(ws[s].canvas) \in Blits
  BY DEF Blit, Blits
<1>7. \A k \in 1 .. n : order[k] \in live(ws) /\ c[k] = Blit(ws[order[k]].canvas) /\ c[k] \in Blits
  BY Zenon, <1>1, <1>2, <1>5, <1>6
<1>8. c \in Seq(Blits) /\ Len(c) = n
  BY <1>5, <1>7
<1>9. DOMAIN c = 1 .. n
  BY <1>5
<1>10. \A s \in Dirty(ws) \cap OnScreen(ws, off) : \E k \in DOMAIN c : c[k] = Blit(ws[s].canvas)
  BY <1>1, <1>3, <1>7, <1>9
<1>11. c \in Seq(Blits \cup Replies) /\ answer \in Blits \cup Replies
  BY <1>8
<1>12. /\ sc \in Seq(Blits \cup Replies)
       /\ \E i \in DOMAIN sc :
            /\ sc[i] = answer /\ (~ first => i = Len(sc))
            /\ \A k \in DOMAIN sc : k # i => \E j \in DOMAIN c : sc[k] = c[j]
       /\ \A j \in DOMAIN c : \E k \in DOMAIN sc : sc[k] = c[j]
  <2>0. PICK T : T = Blits \cup Replies /\ answer \in T /\ c \in Seq(T)
    BY Zenon, <1>11
  <2>1. CASE first
    <3>1. sc = << answer >> \o c
      BY Zenon, <1>4, <2>1
    <3>2. sc \in Seq(T) /\ AddedAt(sc, 1, answer, c)
      BY Zenon, <2>0, <3>1, InFront
    <3>. QED BY Zenon, <2>0, <2>1, <3>2 DEF AddedAt
  <2>2. CASE ~ first
    <3>1. sc = c \o << answer >>
      BY Zenon, <1>4, <2>2
    <3>2. sc \in Seq(T) /\ AddedAt(sc, Len(sc), answer, c)
      BY Zenon, <2>0, <3>1, Behind
    <3>. QED BY Zenon, <2>0, <3>2 DEF AddedAt
  <2>. QED BY Zenon, <2>1, <2>2
<1>13. \A j \in DOMAIN c : \E s \in live(ws) : c[j] = Blit(ws[s].canvas)
  BY Zenon, <1>7, <1>9
<1>14. ASSUME NEW s \in Dirty(ws) \cap OnScreen(ws, off)
       PROVE  \E k \in DOMAIN sc : sc[k] = Blit(ws[s].canvas)
  <2>1. PICK j \in DOMAIN c : c[j] = Blit(ws[s].canvas)
    BY Zenon, <1>10
  <2>2. PICK k \in DOMAIN sc : sc[k] = c[j]
    BY Zenon, <1>12
  <2>. QED BY Zenon, <2>1, <2>2
<1>15. PICK i \in DOMAIN sc :
         /\ sc[i] = answer /\ (~ first => i = Len(sc))
         /\ \A k \in DOMAIN sc : k # i => \E j \in DOMAIN c : sc[k] = c[j]
  BY Zenon, <1>12
<1>16. ASSUME NEW k \in DOMAIN sc, k # i PROVE \E s \in live(ws) : sc[k] = Blit(ws[s].canvas)
  BY ZenonT(40), <1>13, <1>15, <1>16
<1>. QED BY Zenon, <1>12, <1>14, <1>15, <1>16 DEF Redraws

-----------------------------------------------------------------------------
(* Steps *)

\* The windows of the table belong to apps that own a shared canvas.
LEMMA LiveCanvas ==
  ASSUME DeskInv, NEW s \in live(windows)
  PROVE  /\ windows[s].app \in Apps /\ Owner(app[windows[s].app])
         /\ windows[s].canvas \in shared /\ windows[s].canvas \in Canvases
<1>1. windows[s].app \in Apps /\ windows[s].canvas = app[windows[s].app].canvas
  BY Zenon DEF DeskInv, Table
<1>2. Owner(app[windows[s].app])
  BY Zenon, <1>1 DEF DeskInv, Phase, PhaseOf, NoWin, Owner
<1>3. windows[s].canvas \in shared
  BY Zenon, <1>1, <1>2 DEF DeskInv, Apart
<1>. QED BY Zenon, <1>1, <1>2, <1>3 DEF DeskInv, DeskTypes

\* A step of app a: its record becomes r and its mail m.
LEMMA AppStep ==
  ASSUME DeskInv, NEW a \in Apps, NEW r \in AppRecords, NEW m,
         app' = [app EXCEPT ![a] = r], mail' = [mail EXCEPT ![a] = m],
         UNCHANGED << windows, next_id, below, script, shown >>,
         mail[a].t # "taken",
         r.canvas = app[a].canvas \/ NoWin(windows, a),
         pix' \in [Canvases -> Nat],
         \A c \in Canvases : pix'[c] = pix[c] \/ (Owner(app[a]) /\ c = app[a].canvas),
         shared' \subseteq Canvases, freeCanvas' \subseteq Canvases,
         Apart(app', shared', freeCanvas'),
         PhaseOf(windows, a, r, m, shown[r.canvas] = pix'[r.canvas] \/ r.winid \in below,
                 \E k \in DOMAIN script : script[k] = Blit(r.canvas))
  PROVE  DeskInv'
<1>1. /\ app'[a] = r /\ mail'[a] = m
      /\ \A b \in Apps : b # a => app'[b] = app[b] /\ mail'[b] = mail[b]
  BY Zenon DEF DeskInv, DeskTypes
<1>2. app' \in [Apps -> AppRecords] /\ mail' = [ b \in Apps |-> mail'[b] ]
  <2>1. app' \in [Apps -> AppRecords]
    BY Zenon DEF DeskInv, DeskTypes
  <2>2. DOMAIN mail' = Apps
    BY Zenon DEF DeskInv, DeskTypes
  <2>3. mail' = [ b \in DOMAIN mail' |-> mail'[b] ]
    BY Zenon
  <2>. QED BY Zenon, <2>1, <2>2, <2>3
<1>3. DeskTypes'
  BY Zenon, <1>2 DEF DeskInv, DeskTypes
<1>4. Table(windows', next_id', app')
  <2>1. ASSUME NEW s \in live(windows)
        PROVE  /\ windows[s].id < next_id /\ windows[s].app \in Apps
               /\ windows[s].canvas = app'[windows[s].app].canvas
    <3>1. /\ windows[s].id < next_id /\ windows[s].app \in Apps
          /\ windows[s].canvas = app[windows[s].app].canvas
      BY Zenon DEF DeskInv, Table
    <3>2. CASE windows[s].app = a
      BY Zenon, <1>1, <3>1, <3>2 DEF NoWin
    <3>3. CASE windows[s].app # a
      BY Zenon, <1>1, <3>1, <3>3
    <3>. QED BY Zenon, <3>1, <3>2, <3>3
  <2>2. Table(windows, next_id, app')
    BY Zenon, <2>1 DEF DeskInv, Table
  <2>. QED BY Zenon, <2>2
<1>5. \A k \in DOMAIN script : script[k].op = "reply" => script[k].to \in Apps \ {a}
  <2>1. \A k \in DOMAIN script : script[k].op = "reply" => script[k].to \in Apps
    BY DEF DeskInv, DeskTypes, Blits, Replies
  <2>. QED BY Zenon, <2>1 DEF DeskInv, ScriptOK
<1>6. ScriptOK(script', windows', app', mail')
  <2>1. ASSUME NEW k \in DOMAIN script, script[k].op = "reply"
        PROVE  /\ mail'[script[k].to].t = "taken"
               /\ Expected(windows, script[k].to, app'[script[k].to], script[k].msg)
               /\ app'[script[k].to].pc = "flush" => k = Len(script)
    <3>1. app'[script[k].to] = app[script[k].to] /\ mail'[script[k].to] = mail[script[k].to]
      BY Zenon, <1>1, <1>5, <2>1
    <3>. QED BY Zenon, <2>1, <3>1 DEF DeskInv, ScriptOK
  <2>2. ScriptOK(script, windows, app', mail')
    BY Zenon, <2>1 DEF DeskInv, ScriptOK
  <2>. QED BY Zenon, <2>2
<1>7. ASSUME NEW b \in Apps PROVE Phase(b)'
  <2>1. CASE b = a
    <3>1. Drawn(a)' = (shown[r.canvas] = pix'[r.canvas] \/ r.winid \in below)
      <4>1. app'[a].canvas = r.canvas /\ app'[a].winid = r.winid
        BY Zenon, <1>1
      <4>2. shown' = shown /\ below' = below
        BY Zenon
      <4>3. (shown'[app'[a].canvas] = pix'[app'[a].canvas]) = (shown[r.canvas] = pix'[r.canvas])
        BY Zenon, <4>1, <4>2
      <4>4. (app'[a].winid \in below') = (r.winid \in below)
        BY Zenon, <4>1, <4>2
      <4>. QED BY Zenon, <4>3, <4>4 DEF Drawn
    <3>2. ToDraw(a)' = \E k \in DOMAIN script : script[k] = Blit(r.canvas)
      BY Zenon, <1>1 DEF ToDraw
    <3>3. PhaseOf(windows, a, r, m, Drawn(a)', ToDraw(a)')
      BY Zenon, <3>1, <3>2
    <3>. QED BY Zenon, <1>1, <2>1, <3>3 DEF Phase
  <2>2. CASE b # a
    <3>1. app'[b] = app[b] /\ mail'[b] = mail[b]
      BY Zenon, <1>1, <2>2
    <3>2. ToDraw(b)' = ToDraw(b)
      BY Zenon, <3>1 DEF ToDraw
    <3>3. Owner(app[b]) => Drawn(b)' = Drawn(b)
      <4>1. Owner(app[b]) =>
              /\ app[b].canvas \in Canvases
              /\ Owner(app[a]) => app[b].canvas # app[a].canvas
        BY Zenon, <2>2 DEF DeskInv, Apart, DeskTypes
      <4>2. Owner(app[b]) => pix'[app[b].canvas] = pix[app[b].canvas]
        BY Zenon, <4>1
      <4>3. app'[b].canvas = app[b].canvas /\ app'[b].winid = app[b].winid
        BY Zenon, <3>1
      <4>4. shown' = shown /\ below' = below
        BY Zenon
      <4>. QED BY <4>2, <4>3, <4>4 DEF Drawn
    <3>4. CASE Owner(app[b])
      BY Zenon, <3>1, <3>2, <3>3, <3>4 DEF DeskInv, Phase
    <3>5. CASE ~ Owner(app[b])
      <4>1. app[b].pc \in {"start", "idle"}
        BY ZenonT(40), <3>5 DEF Owner
      <4>2. PhaseOf(windows, b, app[b], mail[b], Drawn(b)', ToDraw(b)')
        <5>1. mail[b] = NoMail /\ NoWin(windows, b)
          BY Zenon, <4>1 DEF DeskInv, Phase, PhaseOf
        <5>. QED BY <4>1, <5>1 DEF PhaseOf
      <4>. QED BY Zenon, <3>1, <4>2 DEF Phase
    <3>. QED BY Zenon, <3>4, <3>5
  <2>. QED BY Zenon, <2>1, <2>2
<1>. QED BY Zenon, <1>3, <1>4, <1>6, <1>7 DEF DeskInv

\* An app that the wm is not serving keeps its phase when the table keeps what
\* it has of it.
LEMMA PhaseKept ==
  ASSUME NEW ws, NEW vs, NEW b, NEW r, NEW m, NEW d, NEW e, NEW td,
         PhaseOf(ws, b, r, m, d, e), e => td,
         NoWin(ws, b) => NoWin(vs, b), \A id : Win(ws, b, id) => Win(vs, b, id)
  PROVE  PhaseOf(vs, b, r, m, d, td)
<1>1. Expected(ws, b, r, m) => Expected(vs, b, r, m)
  BY Zenon DEF Expected, Created
<1>. QED BY Zenon, <1>1 DEF PhaseOf

\* What is drawn may grow, and what was to be drawn may have been.
LEMMA PhaseDrawn ==
  ASSUME NEW ws, NEW b, NEW r, NEW m, NEW d, NEW e, NEW dd, NEW ee,
         PhaseOf(ws, b, r, m, d, e),
         r.pc \in {"flush", "flushed"} => (d => dd) /\ (d \/ e => dd \/ ee)
  PROVE  PhaseOf(ws, b, r, m, dd, ee)
<1>1. CASE r.pc \in {"flush", "flushed"}
  BY Zenon, <1>1 DEF PhaseOf
<1>2. CASE r.pc \notin {"flush", "flushed"}
  BY Zenon, <1>2 DEF PhaseOf
<1>. QED BY Zenon, <1>1, <1>2

\* The wm takes the request of app a and works out its script.
LEMMA ServeStep ==
  ASSUME DeskInv, NEW a \in Apps, script = << >>,
         mail' = [mail EXCEPT ![a] = [t |-> "taken"]],
         UNCHANGED << app, shared, freeCanvas, pix, shown >>, below \subseteq below',
         windows' \in [WinSlots -> Windows], next_id' \in Nat \ {0},
         script' \in Seq(Blits \cup Replies),
         Table(windows', next_id', app),
         \A b \in Apps : b # a =>
           /\ NoWin(windows, b) => NoWin(windows', b)
           /\ \A id : Win(windows, b, id) => Win(windows', b, id),
         ScriptOK(script', windows', app, mail'),
         PhaseOf(windows', a, app[a], [t |-> "taken"], Drawn(a)', ToDraw(a)')
  PROVE  DeskInv'
<1>1. /\ mail'[a] = [t |-> "taken"]
      /\ \A b \in Apps : b # a => mail'[b] = mail[b]
  BY Zenon DEF DeskInv, DeskTypes
<1>2. mail' = [ b \in Apps |-> mail'[b] ]
  <2>1. DOMAIN mail' = Apps
    BY Zenon DEF DeskInv, DeskTypes
  <2>2. mail' = [ b \in DOMAIN mail' |-> mail'[b] ]
    BY Zenon
  <2>. QED BY Zenon, <2>1, <2>2
<1>3. DeskTypes'
  BY Zenon, <1>2 DEF DeskInv, DeskTypes
<1>4. Apart(app', shared', freeCanvas') /\ Table(windows', next_id', app')
  BY Zenon DEF DeskInv
<1>5. ScriptOK(script', windows', app', mail')
  BY Zenon
<1>6. \A b \in Apps : Drawn(b) => Drawn(b)'
  BY Zenon DEF Drawn
<1>7. ASSUME NEW b \in Apps PROVE Phase(b)'
  <2>1. CASE b = a
    BY Zenon, <1>1, <2>1 DEF Phase
  <2>2. CASE b # a
    <3>1. ToDraw(b) = FALSE
      BY DEF ToDraw
    <3>2. PhaseOf(windows, b, app[b], mail[b], Drawn(b), FALSE)
      BY Zenon, <3>1 DEF DeskInv, Phase
    <3>3. PhaseOf(windows', b, app[b], mail[b], Drawn(b)', ToDraw(b)')
      <4>1. PhaseOf(windows', b, app[b], mail[b], Drawn(b), ToDraw(b)')
        BY Zenon, <2>2, <3>2, PhaseKept
      <4>2. /\ Drawn(b) => Drawn(b)'
            /\ Drawn(b) \/ ToDraw(b)' => Drawn(b)' \/ ToDraw(b)'
        BY Zenon, <1>6
      <4>. QED BY Zenon, <4>1, <4>2, PhaseDrawn
    <3>. QED BY Zenon, <1>1, <2>2, <3>3 DEF Phase
  <2>. QED BY Zenon, <2>1, <2>2
<1>. QED BY Zenon, <1>3, <1>4, <1>5, <1>7 DEF DeskInv

\* What an app's mail says of the app.
LEMMA Asking ==
  ASSUME DeskInv, NEW a \in Apps
  PROVE  /\ mail[a].t = "M_WM_CREATE" =>
              /\ app[a].pc = "create" /\ mail[a].canvas = app[a].canvas
              /\ NoWin(windows, a)
         /\ mail[a].t = "M_WM_TICK" =>
              app[a].pc = "tick" /\ mail[a].id = app[a].winid /\ Win(windows, a, app[a].winid)
         /\ mail[a].t = "M_WM_FLUSH" =>
              app[a].pc = "flush" /\ mail[a].id = app[a].winid /\ Win(windows, a, app[a].winid)
         /\ mail[a].t = "M_WM_CLOSE" =>
              app[a].pc = "close" /\ mail[a].id = app[a].winid /\ Win(windows, a, app[a].winid)
         /\ mail[a].t \in {"M_WM_CREATE_REPLY", "M_WM_TICK_REPLY", "M_WM_DONE"} =>
              /\ Expected(windows, a, app[a], mail[a])
              /\ app[a].pc \in {"tick", "flush"} => Win(windows, a, app[a].winid)
              /\ app[a].pc = "flush" => Drawn(a)
              /\ app[a].pc = "close" => NoWin(windows, a)
<1>1. PhaseOf(windows, a, app[a], mail[a], Drawn(a), ToDraw(a))
  BY Zenon DEF DeskInv, Phase
<1>2. app[a] \in AppRecords /\ app[a].pc \in AppStates
  BY DEF DeskInv, DeskTypes, AppRecords
<1>3. Expected(windows, a, app[a], mail[a]) =>
        mail[a].t \in {"M_WM_CREATE_REPLY", "M_WM_TICK_REPLY", "M_WM_DONE"}
  BY Zenon DEF Expected
<1>4. CASE app[a].pc \in {"start", "idle", "open", "flushed"}
  <2>1. mail[a] = NoMail
    BY Zenon, <1>1, <1>4 DEF PhaseOf
  <2>2. mail[a].t = "none"
    BY <2>1 DEF NoMail
  <2>. QED BY Zenon, <2>2
<1>5. CASE app[a].pc = "create"
  BY Zenon, <1>1, <1>3, <1>5 DEF PhaseOf
<1>6. CASE app[a].pc = "tick"
  <2>1. \A m, w : m = [t |-> "M_WM_TICK", id |-> w] => m.t = "M_WM_TICK" /\ m.id = w
    OBVIOUS
  <2>. QED BY ZenonT(40), <1>1, <1>3, <1>6, <2>1 DEF PhaseOf
<1>7. CASE app[a].pc = "flush"
  <2>1. \A m, w : m = [t |-> "M_WM_FLUSH", id |-> w] => m.t = "M_WM_FLUSH" /\ m.id = w
    OBVIOUS
  <2>. QED BY Zenon, <1>1, <1>3, <1>7, <2>1 DEF PhaseOf
<1>8. CASE app[a].pc = "close"
  <2>1. \A m, w : m = [t |-> "M_WM_CLOSE", id |-> w] => m.t = "M_WM_CLOSE" /\ m.id = w
    OBVIOUS
  <2>. QED BY ZenonT(40), <1>1, <1>3, <1>8, <2>1 DEF PhaseOf
<1>. QED BY ZenonT(40), <1>2, <1>4, <1>5, <1>6, <1>7, <1>8 DEF AppStates

\* A step of app a that keeps its canvas.
LEMMA SameCanvas ==
  ASSUME DeskInv, NEW a \in Apps, NEW r \in AppRecords, app' = [app EXCEPT ![a] = r],
         r.canvas = app[a].canvas, Owner(r) => Owner(app[a])
  PROVE  Apart(app', shared, freeCanvas)
<1>1. \A b \in Apps : app'[b].canvas = app[b].canvas /\ (Owner(app'[b]) => Owner(app[b]))
  BY Zenon DEF DeskInv, DeskTypes
<1>. QED BY Zenon, <1>1 DEF DeskInv, Apart

LEMMA NewPc ==
  ASSUME DeskInv, NEW a \in Apps, NEW pc \in AppStates
  PROVE  \E r \in AppRecords :
           /\ [app EXCEPT ![a].pc = pc] = [app EXCEPT ![a] = r]
           /\ r.pc = pc /\ r.winid = app[a].winid /\ r.canvas = app[a].canvas
<1>1. app[a] \in AppRecords
  BY Zenon DEF DeskInv, DeskTypes
<1>2. PICK r : r = [app[a] EXCEPT !.pc = pc]
  BY Zenon
<1>3. /\ r \in AppRecords /\ r.pc = pc /\ r.winid = app[a].winid
      /\ r.canvas = app[a].canvas
  BY <1>1, <1>2 DEF AppRecords
<1>4. [app EXCEPT ![a].pc = pc] = [app EXCEPT ![a] = r]
  BY Zenon, <1>2
<1>. QED BY Zenon, <1>3, <1>4

\* An app with a window asks for something.
RequestOf(pc, t) ==
  \/ pc = "tick" /\ t = "M_WM_TICK"
  \/ pc = "flush" /\ t = "M_WM_FLUSH"
  \/ pc = "close" /\ t = "M_WM_CLOSE"

LEMMA AskStep ==
  ASSUME DeskInv, NEW a \in Apps, app[a].pc = "open" \/ app[a].pc = "flushed",
         NEW pc, NEW t, RequestOf(pc, t),
         Asks(a, pc, [t |-> t, id |-> app[a].winid]),
         UNCHANGED << wmVars, shared, freeCanvas, pix, shown >>
  PROVE  DeskInv'
<1>1. pc \in {"tick", "flush", "close"} /\ pc \in AppStates
  BY DEF AppStates, RequestOf
<1>2. PICK r \in AppRecords :
        /\ [app EXCEPT ![a].pc = pc] = [app EXCEPT ![a] = r]
        /\ r.pc = pc /\ r.winid = app[a].winid /\ r.canvas = app[a].canvas
  BY Zenon, <1>1, NewPc
<1>3. PICK m : m = [t |-> t, id |-> app[a].winid]
  BY Zenon
<1>4. app' = [app EXCEPT ![a] = r] /\ mail' = [mail EXCEPT ![a] = m]
  BY Zenon, <1>2, <1>3 DEF Asks
<1>5. mail[a] = NoMail /\ Win(windows, a, app[a].winid)
  BY Zenon DEF DeskInv, Phase, PhaseOf
<1>6. mail[a].t # "taken"
  BY <1>5 DEF NoMail
<1>7. UNCHANGED << windows, next_id, below, script, shown >>
  BY Zenon DEF wmVars
<1>8. Owner(app[a])
  BY Zenon DEF Owner
<1>9. Apart(app', shared', freeCanvas')
  BY Zenon, <1>2, <1>4, <1>8, SameCanvas
<1>10. /\ r.pc = "tick" => m = [t |-> "M_WM_TICK", id |-> r.winid]
       /\ r.pc = "flush" => m = [t |-> "M_WM_FLUSH", id |-> r.winid]
       /\ r.pc = "close" => m = [t |-> "M_WM_CLOSE", id |-> r.winid]
  BY <1>2, <1>3 DEF RequestOf
<1>11. \A d, e : PhaseOf(windows, a, r, m, d, e)
  BY Zenon, <1>1, <1>2, <1>5, <1>10 DEF PhaseOf
<1>12. /\ pix' \in [Canvases -> Nat] /\ shared' \subseteq Canvases
       /\ freeCanvas' \subseteq Canvases /\ \A c \in Canvases : pix'[c] = pix[c]
  BY Zenon DEF DeskInv, DeskTypes
<1>. QED BY Zenon, <1>2, <1>4, <1>6, <1>7, <1>9, <1>11, <1>12, AppStep

LEMMA CreateKeeps ==
  ASSUME DeskInv, NEW a \in Apps, NEW c \in Canvases, NEW ok \in BOOLEAN,
         NEW valid \in BOOLEAN, create(a, c, ok, valid)
  PROVE  DeskInv'
<1>1. /\ app[a].pc = "start" /\ c \in freeCanvas
      /\ UNCHANGED << windows, next_id, below, script, pix, shown >>
  BY Zenon DEF create, wmVars
<1>2. mail[a] = NoMail /\ NoWin(windows, a)
  BY Zenon, <1>1 DEF DeskInv, Phase, PhaseOf
<1>3. mail[a].t # "taken"
  BY <1>2 DEF NoMail
<1>4. /\ pix' \in [Canvases -> Nat] /\ \A d \in Canvases : pix'[d] = pix[d]
      /\ shared \subseteq Canvases /\ freeCanvas \subseteq Canvases
  BY Zenon, <1>1 DEF DeskInv, DeskTypes
<1>5. CASE ok
  <2>1. PICK r, m : /\ r = [pc |-> "create", winid |-> 0, canvas |-> c]
                    /\ m = [t |-> "M_WM_CREATE", canvas |-> c, valid |-> valid]
    BY Zenon
  <2>2. /\ app' = [app EXCEPT ![a] = r] /\ mail' = [mail EXCEPT ![a] = m]
        /\ freeCanvas' = freeCanvas \ {c} /\ shared' = shared \cup {c}
    BY Zenon, <1>5, <2>1 DEF create
  <2>3. /\ r \in AppRecords /\ r.pc = "create" /\ r.canvas = c
        /\ m.t = "M_WM_CREATE" /\ m.canvas = c
    BY <2>1 DEF AppRecords, AppStates
  <2>4. \A b \in Apps : app'[b] = IF b = a THEN r ELSE app[b]
    BY Zenon, <2>2 DEF DeskInv, DeskTypes
  <2>5. \A b \in Apps : Owner(app[b]) =>
          app[b].canvas \in shared /\ app[b].canvas \notin freeCanvas /\ app[b].canvas # c
    BY Zenon, <1>1 DEF DeskInv, Apart
  <2>6. Apart(app', shared', freeCanvas')
    <3>1. ASSUME NEW b \in Apps, Owner(app'[b])
          PROVE  app'[b].canvas \in shared' /\ app'[b].canvas \notin freeCanvas'
      <4>1. CASE b = a
        <5>1. app'[b].canvas = c
          BY ZenonT(40), <2>3, <2>4, <4>1
        <5>. QED BY <2>2, <5>1
      <4>2. CASE b # a
        <5>1. app'[b] = app[b]
          BY Zenon, <2>4, <4>2
        <5>. QED BY <2>2, <2>5, <3>1, <5>1
      <4>. QED BY Zenon, <4>1, <4>2
    <3>2. ASSUME NEW b \in Apps, NEW d \in Apps, Owner(app'[b]), Owner(app'[d]),
                 app'[b].canvas = app'[d].canvas
          PROVE  b = d
      <4>1. CASE b # a /\ d # a
        BY Zenon, <2>4, <3>2, <4>1 DEF DeskInv, Apart
      <4>2. CASE b = a /\ d # a
        BY Zenon, <2>3, <2>4, <2>5, <3>2, <4>2
      <4>3. CASE d = a /\ b # a
        BY Zenon, <2>3, <2>4, <2>5, <3>2, <4>3
      <4>. QED BY Zenon, <4>1, <4>2, <4>3
    <3>. QED BY Zenon, <3>1, <3>2 DEF Apart
  <2>7. \A d, e : PhaseOf(windows, a, r, m, d, e)
    BY Zenon, <1>2, <2>3 DEF PhaseOf
  <2>8. shared' \subseteq Canvases /\ freeCanvas' \subseteq Canvases
    BY Zenon, <1>4, <2>2
  <2>. QED BY ZenonT(40), <1>1, <1>2, <1>3, <1>4, <2>2, <2>3, <2>6, <2>7, <2>8, AppStep
<1>6. CASE ~ ok
  <2>1. "idle" \in AppStates
    BY DEF AppStates
  <2>2. PICK r \in AppRecords :
          /\ [app EXCEPT ![a].pc = "idle"] = [app EXCEPT ![a] = r]
          /\ r.pc = "idle" /\ r.winid = app[a].winid /\ r.canvas = app[a].canvas
    BY Zenon, <2>1, NewPc
  <2>3. /\ app' = [app EXCEPT ![a] = r]
        /\ UNCHANGED << freeCanvas, shared, mail >>
    BY Zenon, <1>6, <2>2 DEF create
  <2>4. mail' = [mail EXCEPT ![a] = NoMail]
    BY Zenon, <1>2, <2>3 DEF DeskInv, DeskTypes
  <2>5. Apart(app', shared', freeCanvas')
    BY Zenon, <2>2, <2>3, SameCanvas DEF Owner
  <2>6. \A d, e : PhaseOf(windows, a, r, NoMail, d, e)
    BY Zenon, <1>2, <2>2 DEF PhaseOf
  <2>. QED BY ZenonT(40), <1>1, <1>2, <1>3, <1>4, <2>2, <2>3, <2>4, <2>5, <2>6, AppStep
<1>. QED BY Zenon, <1>5, <1>6

LEMMA DrawKeeps ==
  ASSUME DeskInv, NEW a \in Apps, draw_canvas(a)
  PROVE  DeskInv'
<1>1. PICK c : c = app[a].canvas
  BY Zenon
<1>2. /\ app[a].pc \in {"open", "flushed"} /\ pix' = [pix EXCEPT ![c] = pix[c] + 1]
      /\ app' = [app EXCEPT ![a].pc = "open"]
      /\ UNCHANGED << windows, next_id, below, script, mail, shared, freeCanvas, shown >>
  BY Zenon, <1>1 DEF draw_canvas, wmVars
<1>3. mail[a] = NoMail /\ Win(windows, a, app[a].winid) /\ Owner(app[a])
  BY Zenon, <1>2 DEF DeskInv, Phase, PhaseOf, Owner
<1>4. mail[a].t # "taken"
  BY <1>3 DEF NoMail
<1>5. c \in Canvases /\ pix \in [Canvases -> Nat] /\ pix[c] \in Nat
  BY Zenon, <1>1, <1>3 DEF DeskInv, DeskTypes, Apart
<1>6. pix[c] + 1 \in Nat
  BY <1>5
<1>7. /\ pix' \in [Canvases -> Nat] /\ \A d \in Canvases : pix'[d] = pix[d] \/ d = c
      /\ shared' \subseteq Canvases /\ freeCanvas' \subseteq Canvases
  BY Zenon, <1>2, <1>5, <1>6 DEF DeskInv, DeskTypes
<1>8. "open" \in AppStates
  BY DEF AppStates
<1>9. PICK r \in AppRecords :
        /\ [app EXCEPT ![a].pc = "open"] = [app EXCEPT ![a] = r]
        /\ r.pc = "open" /\ r.winid = app[a].winid /\ r.canvas = app[a].canvas
  BY Zenon, <1>8, NewPc
<1>10. app' = [app EXCEPT ![a] = r] /\ mail' = [mail EXCEPT ![a] = NoMail]
  BY Zenon, <1>2, <1>3, <1>9 DEF DeskInv, DeskTypes
<1>11. Apart(app', shared', freeCanvas')
  BY ZenonT(40), <1>2, <1>3, <1>9, <1>10, SameCanvas
<1>12. \A d, e : PhaseOf(windows, a, r, NoMail, d, e)
  BY Zenon, <1>3, <1>9 DEF PhaseOf
<1>13. /\ UNCHANGED << windows, next_id, below, script, shown >>
       /\ \A d \in Canvases : pix'[d] = pix[d] \/ (Owner(app[a]) /\ d = app[a].canvas)
  BY Zenon, <1>1, <1>2, <1>3, <1>7
<1>. QED BY ZenonT(40), <1>4, <1>7, <1>9, <1>10, <1>11, <1>12, <1>13, AppStep

LEMMA ReturnKeeps ==
  ASSUME DeskInv, NEW a \in Apps, rpc_returns(a)
  PROVE  DeskInv'
<1>1. /\ mail[a].t \in {"M_WM_CREATE_REPLY", "M_WM_TICK_REPLY", "M_WM_DONE"}
      /\ mail' = [mail EXCEPT ![a] = NoMail]
      /\ UNCHANGED << windows, next_id, below, script, pix, shown >>
  BY Zenon DEF rpc_returns, wmVars
<1>2. /\ Expected(windows, a, app[a], mail[a])
      /\ app[a].pc \in {"tick", "flush"} => Win(windows, a, app[a].winid)
      /\ app[a].pc = "flush" => Drawn(a)
      /\ app[a].pc = "close" => NoWin(windows, a)
  BY Zenon, <1>1, Asking
<1>3. /\ app[a].pc \in {"create", "tick", "flush", "close"} /\ mail[a].val \in Nat
      /\ app[a].pc = "create" => Created(windows, a, mail[a].val)
  BY <1>2 DEF Expected, Answers
<1>4. Owner(app[a]) /\ mail[a].t # "taken"
  BY Zenon, <1>1, <1>3 DEF Owner
<1>5. /\ pix' \in [Canvases -> Nat] /\ \A d \in Canvases : pix'[d] = pix[d]
      /\ shared \subseteq Canvases /\ freeCanvas \subseteq Canvases
  BY Zenon, <1>1 DEF DeskInv, DeskTypes
<1>6. app[a] \in AppRecords /\ app[a].canvas \in Canvases
  BY Zenon, <1>4 DEF DeskInv, DeskTypes, Apart
<1>7. CASE app[a].pc = "close" \/ (app[a].pc = "create" /\ mail[a].val = 0)
  <2>1. NoWin(windows, a)
    BY Zenon, <1>2, <1>3, <1>7 DEF Created
  <2>2. PICK r : r = [pc |-> "start", winid |-> 0, canvas |-> NoCanvas]
    BY Zenon
  <2>3. r \in AppRecords /\ r.pc = "start"
    BY <2>2 DEF AppRecords, AppStates
  <2>4. PICK c : c = app[a].canvas
    BY Zenon
  <2>5. /\ app' = [app EXCEPT ![a] = r]
        /\ shared' = shared \ {c} /\ freeCanvas' = freeCanvas \cup {c}
    BY Zenon, <1>7, <2>2, <2>4 DEF rpc_returns, Released
  <2>6. \A b \in Apps : Owner(app'[b]) => b # a /\ app'[b] = app[b] /\ Owner(app[b])
    BY Zenon, <2>3, <2>5 DEF DeskInv, DeskTypes, Owner
  <2>7. \A b \in Apps : b # a /\ Owner(app[b]) =>
          app[b].canvas \in shared /\ app[b].canvas \notin freeCanvas /\ app[b].canvas # c
    BY Zenon, <1>4, <2>4 DEF DeskInv, Apart
  <2>8. Apart(app', shared', freeCanvas')
    <3>1. ASSUME NEW b \in Apps, Owner(app'[b])
          PROVE  app'[b].canvas \in shared' /\ app'[b].canvas \notin freeCanvas'
      <4>1. app'[b] = app[b] /\ b # a /\ Owner(app[b])
        BY Zenon, <2>6, <3>1
      <4>. QED BY SMTT(30), <2>5, <2>7, <4>1
    <3>2. ASSUME NEW b \in Apps, NEW d \in Apps, Owner(app'[b]), Owner(app'[d]),
                 app'[b].canvas = app'[d].canvas
          PROVE  b = d
      BY Zenon, <2>6, <3>2 DEF DeskInv, Apart
    <3>. QED BY Zenon, <3>1, <3>2 DEF Apart
  <2>9. \A d, e : PhaseOf(windows, a, r, NoMail, d, e)
    BY Zenon, <2>1, <2>3 DEF PhaseOf
  <2>10. shared' \subseteq Canvases /\ freeCanvas' \subseteq Canvases
    BY Zenon, <1>5, <1>6, <2>4, <2>5
  <2>11. app' = [app EXCEPT ![a] = r]
    BY Zenon, <2>5
  <2>. QED
    BY ZenonT(40), <1>1, <1>4, <1>5, <2>1, <2>3, <2>8, <2>9, <2>10, <2>11, AppStep
<1>8. CASE ~ (app[a].pc = "close" \/ (app[a].pc = "create" /\ mail[a].val = 0))
  <2>1. PICK r : r = [app[a] EXCEPT !.pc = IF @ = "flush" THEN "flushed" ELSE "open",
                                    !.winid = IF app[a].pc = "create" THEN mail[a].val
                                                                      ELSE @]
    BY Zenon
  <2>2. /\ r \in AppRecords /\ r.canvas = app[a].canvas
        /\ r.pc = IF app[a].pc = "flush" THEN "flushed" ELSE "open"
        /\ r.winid = IF app[a].pc = "create" THEN mail[a].val ELSE app[a].winid
    BY Zenon, <1>3, <1>6, <2>1 DEF AppRecords, AppStates
  <2>3. app' = [app EXCEPT ![a] = r] /\ UNCHANGED << shared, freeCanvas >>
    <3>1. /\ app' = [app EXCEPT ![a].pc = IF @ = "flush" THEN "flushed" ELSE "open",
                                ![a].winid = IF app[a].pc = "create" THEN mail[a].val
                                                                     ELSE @]
          /\ UNCHANGED << shared, freeCanvas >>
      BY Zenon, <1>8 DEF rpc_returns
    <3>2. app \in [Apps -> AppRecords]
      BY Zenon DEF DeskInv, DeskTypes
    <3>3. app' = [app EXCEPT ![a] = r]
      BY Zenon, <1>6, <2>1, <3>1, <3>2 DEF AppRecords
    <3>. QED BY Zenon, <3>1, <3>3
  <2>4. Win(windows, a, r.winid)
    BY Zenon, <1>2, <1>3, <1>8, <2>2 DEF Created
  <2>5. Apart(app', shared', freeCanvas')
    BY Zenon, <1>4, <2>2, <2>3, SameCanvas
  <2>6. r.pc = "flushed" => shown[r.canvas] = pix'[r.canvas] \/ r.winid \in below
    BY Zenon, <1>1, <1>2, <2>2 DEF Drawn
  <2>7. r.pc \in {"open", "flushed"}
    BY Zenon, <2>2
  <2>8. \A d, e : (r.pc = "flushed" => d) => PhaseOf(windows, a, r, NoMail, d, e)
    BY Zenon, <2>4, <2>7 DEF PhaseOf
  <2>. QED BY ZenonT(40), <1>1, <1>4, <1>5, <2>2, <2>3, <2>5, <2>6, <2>8, AppStep
<1>. QED BY Zenon, <1>7, <1>8

LEMMA Kinds ==
  /\ \A x \in Blits : x.op = "blit" /\ x = Blit(x.canvas) /\ x.canvas \in Canvases
  /\ \A x \in Replies : x.op = "reply" /\ x.to \in Apps /\ x.msg \in Answers
  /\ \A c : Blit(c).op = "blit" /\ Blit(c).canvas = c
BY DEF Blits, Replies, Blit

\* A script of one answer, at i, and blits of windows in the table around it.
AnswerAmidBlits(sc, i, answer, ws, ap, ml) ==
  /\ answer \in Replies /\ i \in DOMAIN sc /\ sc[i] = answer
  /\ \A k \in DOMAIN sc : k # i => \E s \in live(ws) : sc[k] = Blit(ws[s].canvas)
  /\ ml[answer.to].t = "taken" /\ Expected(ws, answer.to, ap[answer.to], answer.msg)
  /\ ap[answer.to].pc = "flush" => i = Len(sc)

LEMMA ScriptMade ==
  ASSUME NEW ws, NEW ap, NEW ml, NEW sc, NEW answer, NEW i,
         AnswerAmidBlits(sc, i, answer, ws, ap, ml)
  PROVE  ScriptOK(sc, ws, ap, ml)
<1>. USE DEF AnswerAmidBlits
<1>1. answer.op = "reply" /\ \A c : Blit(c).op = "blit" /\ Blit(c).canvas = c
  BY Zenon, Kinds
<1>2. ASSUME NEW k \in DOMAIN sc, sc[k].op = "reply" PROVE k = i
  BY Zenon, <1>1, <1>2
<1>3. ASSUME NEW k \in DOMAIN sc, sc[k].op = "blit"
      PROVE  \E s \in live(ws) : ws[s].canvas = sc[k].canvas
  <2>1. k # i
    BY Zenon, <1>1, <1>3
  <2>2. PICK s \in live(ws) : sc[k] = Blit(ws[s].canvas)
    BY Zenon, <2>1
  <2>. QED BY ZenonT(40), <1>1, <2>2
<1>4. ASSUME NEW k \in DOMAIN sc, sc[k].op = "reply"
      PROVE  /\ ml[sc[k].to].t = "taken" /\ Expected(ws, sc[k].to, ap[sc[k].to], sc[k].msg)
             /\ ap[sc[k].to].pc = "flush" => k = Len(sc)
  BY Zenon, <1>2, <1>4
<1>5. \A k, l \in DOMAIN sc : sc[k].op = "reply" /\ sc[l].op = "reply" => k = l
  BY Zenon, <1>2
<1>. QED BY Zenon, <1>3, <1>4, <1>5 DEF ScriptOK

\* The wm takes the request of app a, makes the table ws and redraws it.
LEMMA ComposeStep ==
  ASSUME DeskInv, NEW a \in Apps, script = << >>, Owner(app[a]),
         mail' = [mail EXCEPT ![a] = [t |-> "taken"]],
         UNCHANGED << app, shared, freeCanvas, pix, shown >>, below \subseteq below',
         next_id' \in Nat \ {0},
         NEW off, NEW ws \in Tables, Table(ws, next_id', app),
         \A b \in Apps : b # a =>
           /\ NoWin(windows, b) => NoWin(ws, b)
           /\ \A id : Win(windows, b, id) => Win(ws, b, id),
         NEW answer \in Replies, answer.to = a, Expected(ws, a, app[a], answer.msg),
         NEW first \in BOOLEAN, app[a].pc = "flush" => ~ first,
         Compose(ws, off, answer, first),
         PhaseOf(ws, a, app[a], [t |-> "taken"], Drawn(a),
                 \E s \in Dirty(ws) \cap OnScreen(ws, off) : ws[s].canvas = app[a].canvas)
  PROVE  DeskInv'
<1>1. PICK S \in Redrawn(ws, off) : \E order \in BottomUp(S) :
        /\ windows' = Clean(ws, S)
        /\ script' = IF first THEN << answer >> \o composite(ws, order)
                              ELSE composite(ws, order) \o << answer >>
  BY Zenon DEF Compose
<1>2. PICK order \in BottomUp(S) :
        /\ windows' = Clean(ws, S)
        /\ script' = IF first THEN << answer >> \o composite(ws, order)
                              ELSE composite(ws, order) \o << answer >>
  BY Zenon, <1>1
<1>3. windows' \in Tables /\ SameWindows(windows', ws)
  BY Zenon, <1>2, Marks
<1>4. /\ live(windows') = live(ws) /\ Table(windows', next_id', app)
      /\ \A b : NoWin(ws, b) => NoWin(windows', b)
      /\ \A b, id : Win(ws, b, id) => Win(windows', b, id)
  BY Zenon, <1>3, SameTable
<1>5. \A s \in live(ws) : ws[s].canvas \in Canvases
  <2>1. ASSUME NEW s \in live(ws) PROVE ws[s].canvas \in Canvases
    <3>1. ws[s].app \in Apps /\ ws[s].canvas = app[ws[s].app].canvas
      BY Zenon DEF Table
    <3>2. Owner(app[ws[s].app])
      <4>1. CASE ws[s].app = a
        BY Zenon, <4>1
      <4>2. CASE ws[s].app # a
        <5>1. ~ NoWin(windows, ws[s].app)
          BY Zenon, <3>1, <4>2 DEF NoWin
        <5>. QED BY Zenon, <3>1, <5>1 DEF DeskInv, Phase, PhaseOf, Owner
      <4>. QED BY Zenon, <4>1, <4>2
    <3>. QED BY Zenon, <3>1, <3>2 DEF DeskInv, Apart, DeskTypes
  <2>. QED BY Zenon, <2>1
<1>6. PICK sc : sc = script'
  BY Zenon
<1>7. /\ sc \in Seq(Blits \cup Replies)
      /\ \E i \in DOMAIN sc :
           /\ sc[i] = answer /\ (~ first => i = Len(sc))
           /\ \A k \in DOMAIN sc : k # i => \E s \in live(ws) : sc[k] = Blit(ws[s].canvas)
      /\ \A s \in Dirty(ws) \cap OnScreen(ws, off) : \E k \in DOMAIN sc : sc[k] = Blit(ws[s].canvas)
  <2>1. sc = IF first THEN << answer >> \o composite(ws, order)
                      ELSE composite(ws, order) \o << answer >>
    BY Zenon, <1>2, <1>6
  <2>2. Redraws(sc, ws, off, answer, first)
    BY Zenon, <1>5, <2>1, Composed
  <2>. QED BY Zenon, <2>2 DEF Redraws
<1>8. PICK i \in DOMAIN sc :
        /\ sc[i] = answer /\ (~ first => i = Len(sc))
        /\ \A k \in DOMAIN sc : k # i => \E s \in live(ws) : sc[k] = Blit(ws[s].canvas)
  BY Zenon, <1>7
<1>9. mail'[a] = [t |-> "taken"]
  BY ZenonT(40) DEF DeskInv, DeskTypes
<1>10. mail'[a].t = "taken"
  BY <1>9
<1>11. Expected(windows', a, app[a], answer.msg)
  BY Zenon, <1>4 DEF Expected, Created
<1>12. \A k \in DOMAIN sc : k # i =>
         \E s \in live(windows') : sc[k] = Blit(windows'[s].canvas)
  <2>1. live(ws) \subseteq WinSlots
    BY Zenon DEF live
  <2>2. \A s \in live(ws) : windows'[s].canvas = ws[s].canvas
    BY Zenon, <1>3, <2>1 DEF SameWindows
  <2>3. ASSUME NEW k \in DOMAIN sc, k # i
        PROVE  \E s \in live(windows') : sc[k] = Blit(windows'[s].canvas)
    <3>1. PICK s \in live(ws) : sc[k] = Blit(ws[s].canvas)
      BY Zenon, <1>8, <2>3
    <3>2. s \in live(windows') /\ windows'[s].canvas = ws[s].canvas
      BY Zenon, <1>4, <2>2
    <3>3. sc[k] = Blit(windows'[s].canvas)
      BY Zenon, <3>1, <3>2
    <3>. QED BY Zenon, <3>2, <3>3
  <2>. QED BY Zenon, <2>3
<1>13. ScriptOK(sc, windows', app, mail')
  <2>1. /\ mail'[answer.to].t = "taken"
        /\ Expected(windows', answer.to, app[answer.to], answer.msg)
        /\ app[answer.to].pc = "flush" => i = Len(sc)
    BY Zenon, <1>8, <1>10, <1>11
  <2>2. AnswerAmidBlits(sc, i, answer, windows', app, mail')
    BY Zenon, <1>8, <1>12, <2>1 DEF AnswerAmidBlits
  <2>. QED BY Zenon, <2>2, ScriptMade
<1>14. ASSUME NEW s \in Dirty(ws) \cap OnScreen(ws, off), ws[s].canvas = app[a].canvas
       PROVE  ToDraw(a)'
  <2>1. PICK k \in DOMAIN sc : sc[k] = Blit(ws[s].canvas)
    BY Zenon, <1>7
  <2>2. k \in DOMAIN script' /\ script'[k] = Blit(app'[a].canvas)
    BY ZenonT(40), <1>6, <1>14, <2>1
  <2>. QED BY Zenon, <2>2 DEF ToDraw
<1>15. PhaseOf(windows', a, app[a], [t |-> "taken"], Drawn(a)', ToDraw(a)')
  <2>1. PhaseOf(windows', a, app[a], [t |-> "taken"], Drawn(a), ToDraw(a)')
    BY ZenonT(40), <1>4, <1>14, PhaseKept
  <2>2. /\ Drawn(a) => Drawn(a)'
        /\ Drawn(a) \/ ToDraw(a)' => Drawn(a)' \/ ToDraw(a)'
    BY Zenon DEF Drawn
  <2>. QED BY Zenon, <2>1, <2>2, PhaseDrawn
<1>16. \A b \in Apps : b # a =>
         /\ NoWin(windows, b) => NoWin(windows', b)
         /\ \A id : Win(windows, b, id) => Win(windows', b, id)
  BY Zenon, <1>4
<1>17. /\ windows' \in [WinSlots -> Windows] /\ script' \in Seq(Blits \cup Replies)
       /\ ScriptOK(script', windows', app, mail')
  BY Zenon, <1>3, <1>6, <1>7, <1>13 DEF Tables
<1>. QED BY ZenonT(40), <1>4, <1>15, <1>16, <1>17, ServeStep

\* The wm takes the request of app a and only answers it.
LEMMA AnswerStep ==
  ASSUME DeskInv, NEW a \in Apps, script = << >>,
         mail' = [mail EXCEPT ![a] = [t |-> "taken"]],
         UNCHANGED << windows, next_id, below, app, shared, freeCanvas, pix, shown >>,
         NEW answer \in Replies, answer.to = a, Expected(windows, a, app[a], answer.msg),
         script' = << answer >>,
         PhaseOf(windows, a, app[a], [t |-> "taken"], Drawn(a), FALSE)
  PROVE  DeskInv'
<1>1. PICK sc : sc = script'
  BY Zenon
<1>2. PICK T : T = Blits \cup Replies /\ answer \in T
  BY Zenon
<1>3. sc \in Seq(T) /\ 1 \in DOMAIN sc /\ sc[1] = answer /\ 1 = Len(sc)
  BY <1>1, <1>2
<1>4. \A k \in DOMAIN sc : k = 1
  BY <1>1
<1>5. mail'[a] = [t |-> "taken"]
  BY Zenon DEF DeskInv, DeskTypes
<1>6. mail'[a].t = "taken"
  BY <1>5
<1>7. ScriptOK(sc, windows, app, mail')
  <2>1. /\ mail'[answer.to].t = "taken"
        /\ Expected(windows, answer.to, app[answer.to], answer.msg)
    BY Zenon, <1>6
  <2>2. \A k \in DOMAIN sc : k # 1 => \E s \in live(windows) : sc[k] = Blit(windows[s].canvas)
    BY Zenon, <1>4
  <2>3. AnswerAmidBlits(sc, 1, answer, windows, app, mail')
    BY Zenon, <1>3, <2>1, <2>2 DEF AnswerAmidBlits
  <2>. QED BY Zenon, <2>3, ScriptMade
<1>8. PhaseOf(windows', a, app[a], [t |-> "taken"], Drawn(a)', ToDraw(a)')
  <2>1. PhaseOf(windows', a, app[a], [t |-> "taken"], Drawn(a), ToDraw(a)')
    BY Zenon, PhaseKept
  <2>2. /\ Drawn(a) => Drawn(a)'
        /\ Drawn(a) \/ ToDraw(a)' => Drawn(a)' \/ ToDraw(a)'
    BY Zenon DEF Drawn
  <2>. QED BY Zenon, <2>1, <2>2, PhaseDrawn
<1>9. /\ script' \in Seq(Blits \cup Replies) /\ ScriptOK(script', windows', app, mail')
  BY Zenon, <1>1, <1>2, <1>3, <1>7
<1>10. /\ windows' \in [WinSlots -> Windows] /\ next_id' \in Nat \ {0}
       /\ Table(windows', next_id', app)
  BY Zenon DEF DeskInv, DeskTypes
<1>. QED BY Zenon, <1>8, <1>9, <1>10, ServeStep

\* An app whose request the wm has taken.
LEMMA TakenPhase ==
  ASSUME NEW ws, NEW a, NEW r, NEW d, NEW e,
         \/ r.pc = "create"
         \/ r.pc = "tick" /\ Win(ws, a, r.winid)
         \/ r.pc = "flush" /\ Win(ws, a, r.winid) /\ (d \/ e)
         \/ r.pc = "close" /\ NoWin(ws, a)
  PROVE  PhaseOf(ws, a, r, [t |-> "taken"], d, e)
<1>1. PICK m : m = [t |-> "taken"]
  BY Zenon
<1>2. m.t = "taken"
  BY <1>1
<1>3. PhaseOf(ws, a, r, m, d, e)
  BY Zenon, <1>2 DEF PhaseOf
<1>. QED BY Zenon, <1>1, <1>3

LEMMA ServeCreateKeeps ==
  ASSUME DeskInv, NEW a \in Apps, serve_create(a)
  PROVE  DeskInv'
<1>1. /\ script = << >> /\ mail[a].t = "M_WM_CREATE"
      /\ mail' = [mail EXCEPT ![a] = [t |-> "taken"]]
      /\ UNCHANGED << app, shared, freeCanvas, pix, shown >>
  BY Zenon DEF serve_create, Serves
<1>2. /\ app[a].pc = "create" /\ mail[a].canvas = app[a].canvas /\ NoWin(windows, a)
      /\ Owner(app[a])
  BY Zenon, <1>1, Asking DEF Owner
<1>3. \A ws, d, e : PhaseOf(ws, a, app[a], [t |-> "taken"], d, e)
  BY Zenon, <1>2, TakenPhase
<1>4. /\ windows \in Tables /\ next_id \in Nat \ {0} /\ Table(windows, next_id, app)
      /\ app[a].canvas \in Canvases
  BY Zenon, <1>2 DEF DeskInv, DeskTypes, Tables, Apart
<1>5. CASE mail[a].valid /\ WinSlots \ live(windows) # {}
  <2>1. PICK wd : wd = [id |-> next_id, app |-> a, canvas |-> mail[a].canvas,
                        dirty |-> TRUE]
    BY Zenon
  <2>2. PICK slot \in First(WinSlots \ live(windows)) :
          Compose(mark_all_dirty([windows EXCEPT ![slot] = wd]), below',
                  Reply(a, "M_WM_CREATE_REPLY", next_id), TRUE)
    BY Zenon, <1>5, <2>1 DEF serve_create
  <2>3. next_id' = next_id + 1 /\ next_id' \in Nat \ {0}
    <3>1. next_id' = next_id + 1
      BY ZenonT(40), <1>5 DEF serve_create
    <3>. QED BY <1>4, <3>1
  <2>4. wd \in Windows /\ wd.id = next_id /\ wd.app = a /\ wd.canvas = app[a].canvas
    BY SMTT(30), <1>2, <1>4, <2>1 DEF Windows
  <2>5. PICK vs : vs = [windows EXCEPT ![slot] = wd]
    BY Zenon
  <2>6. /\ vs \in Tables /\ Table(vs, next_id', app) /\ Win(vs, a, next_id)
        /\ \A b : b # a /\ NoWin(windows, b) => NoWin(vs, b)
        /\ \A b, id : Win(windows, b, id) => Win(vs, b, id)
    <3>1. next_id \in Nat /\ next_id # 0
      BY <1>4
    <3>2. WindowOf(wd, next_id, a, app)
      BY Zenon, <2>4 DEF WindowOf
    <3>3. Adds(vs, windows, next_id, a, app)
      BY ZenonT(40), <1>2, <1>4, <2>5, <3>1, <3>2, Placed
    <3>. QED BY ZenonT(40), <2>3, <3>3 DEF Adds
  <2>7. PICK ws : ws = mark_all_dirty(vs)
    BY Zenon
  <2>8. ws \in Tables /\ SameWindows(ws, vs)
    BY Zenon, <2>6, <2>7, Marks
  <2>9. /\ Table(ws, next_id', app) /\ Win(ws, a, next_id)
        /\ \A b : NoWin(vs, b) => NoWin(ws, b)
        /\ \A b, id : Win(vs, b, id) => Win(ws, b, id)
    BY Zenon, <2>6, <2>8, SameTable
  <2>10. PICK answer : answer = Reply(a, "M_WM_CREATE_REPLY", next_id)
    BY Zenon
  <2>11. /\ answer \in Replies /\ answer.to = a /\ answer.msg \in Answers
         /\ answer.msg.t = "M_WM_CREATE_REPLY" /\ answer.msg.val = next_id
    BY SMTT(30), <1>4, <2>10 DEF Reply, Replies, Answers
  <2>12. Expected(ws, a, app[a], answer.msg)
    <3>1. next_id # 0
      BY <1>4
    <3>. QED BY Zenon, <1>2, <2>9, <2>11, <3>1 DEF Expected, Created
  <2>13. Compose(ws, below', answer, TRUE)
    BY ZenonT(40), <2>2, <2>5, <2>7, <2>10
  <2>14. \A b \in Apps : b # a =>
           /\ NoWin(windows, b) => NoWin(ws, b)
           /\ \A id : Win(windows, b, id) => Win(ws, b, id)
    BY Zenon, <2>6, <2>9
  <2>15. (app[a].pc = "flush" => ~ TRUE) /\ below \subseteq below'
    BY Zenon, <1>2, <1>5 DEF serve_create
  <2>. QED
    BY ZenonT(40), <1>1, <1>2, <1>3, <2>3, <2>8, <2>9, <2>11, <2>12, <2>13, <2>14, <2>15,
       ComposeStep
<1>6. CASE ~ (mail[a].valid /\ WinSlots \ live(windows) # {})
  <2>1. PICK answer : answer = Reply(a, "M_WM_CREATE_REPLY", 0)
    BY Zenon
  <2>2. script' = << answer >> /\ UNCHANGED << windows, next_id, below >>
    BY Zenon, <1>6, <2>1 DEF serve_create
  <2>4. /\ answer \in Replies /\ answer.to = a /\ answer.msg \in Answers
        /\ answer.msg.t = "M_WM_CREATE_REPLY" /\ answer.msg.val = 0
    BY <2>1 DEF Reply, Replies, Answers
  <2>5. Expected(windows, a, app[a], answer.msg)
    BY Zenon, <1>2, <2>4 DEF Expected, Created
  <2>. QED BY ZenonT(40), <1>1, <1>3, <2>2, <2>4, <2>5, AnswerStep
<1>. QED BY Zenon, <1>5, <1>6

LEMMA ServeFlushKeeps ==
  ASSUME DeskInv, NEW a \in Apps, serve_flush(a)
  PROVE  DeskInv'
<1>1. /\ script = << >> /\ mail[a].t = "M_WM_FLUSH"
      /\ mail' = [mail EXCEPT ![a] = [t |-> "taken"]]
      /\ UNCHANGED << app, shared, freeCanvas, pix, shown >> /\ UNCHANGED << next_id, below >>
  BY Zenon DEF serve_flush, Serves
<1>2. PICK w : w = app[a].winid
  BY Zenon
<1>3. app[a].pc = "flush" /\ mail[a].id = w /\ Win(windows, a, w) /\ Owner(app[a])
  BY Zenon, <1>1, <1>2, Asking DEF Owner
<1>4. windows \in Tables /\ next_id' \in Nat \ {0} /\ Table(windows, next_id', app)
  BY Zenon, <1>1 DEF DeskInv, DeskTypes, Tables
<1>5. PICK s \in live(windows) : windows[s].app = a /\ windows[s].id = w
  BY Zenon, <1>3 DEF Win
<1>6. s \in find_slot(windows, w) /\ s \in WinSlots
  BY Zenon, <1>5 DEF find_slot, live
<1>7. owned(windows, mail[a].id, a)
  BY Zenon, <1>3, <1>5, <1>6 DEF owned
<1>8. PICK ws, answer : ws = Marked(windows, w) /\ answer = Reply(a, "M_WM_DONE", 1)
  BY Zenon
<1>9. Compose(ws, below, answer, FALSE)
  BY Zenon, <1>3, <1>7, <1>8 DEF serve_flush
<1>10. ws \in Tables /\ SameWindows(ws, windows)
  BY Zenon, <1>4, <1>8, Marks
<1>11. /\ live(ws) = live(windows) /\ Table(ws, next_id', app)
       /\ \A b : NoWin(windows, b) => NoWin(ws, b)
       /\ \A b, id : Win(windows, b, id) => Win(ws, b, id)
  BY ZenonT(40), <1>4, <1>10, SameTable
<1>13. /\ answer \in Replies /\ answer.to = a /\ answer.msg \in Answers
       /\ answer.msg.t = "M_WM_DONE" /\ answer.msg.val = 1
  BY <1>8 DEF Reply, Replies, Answers
<1>14. Expected(ws, a, app[a], answer.msg)
  BY Zenon, <1>3, <1>13 DEF Expected
<1>15. s \in Dirty(ws) /\ ws[s].canvas = app[a].canvas
  <2>1. ws[s].dirty
    <3>1. windows[s] \in Windows
      BY Zenon, <1>4, <1>6 DEF Tables
    <3>2. ws[s] = [windows[s] EXCEPT !.dirty = TRUE]
      BY Zenon, <1>6, <1>8 DEF Marked
    <3>. QED BY <3>1, <3>2 DEF Windows
  <2>2. windows[s].canvas = app[a].canvas
    BY Zenon, <1>4, <1>5 DEF Table
  <2>. QED BY ZenonT(40), <1>5, <1>6, <1>10, <1>11, <2>1, <2>2 DEF Dirty, SameWindows
<1>16. PhaseOf(ws, a, app[a], [t |-> "taken"], Drawn(a),
               \E x \in Dirty(ws) \cap OnScreen(ws, below) : ws[x].canvas = app[a].canvas)
  <2>1. w \in below => Drawn(a)
    BY Zenon, <1>2 DEF Drawn
  <2>2. w \notin below => s \in OnScreen(ws, below)
    BY Zenon, <1>5, <1>6, <1>10, <1>11 DEF OnScreen, SameWindows
  <2>3. Drawn(a) \/ \E x \in Dirty(ws) \cap OnScreen(ws, below) : ws[x].canvas = app[a].canvas
    BY Zenon, <1>15, <2>1, <2>2
  <2>. QED BY ZenonT(40), <1>2, <1>3, <1>11, <2>3, TakenPhase
<1>17. \A b \in Apps : b # a =>
         /\ NoWin(windows, b) => NoWin(ws, b)
         /\ \A id : Win(windows, b, id) => Win(ws, b, id)
  BY Zenon, <1>11
<1>. QED
  BY ZenonT(60), <1>1, <1>3, <1>4, <1>9, <1>10, <1>11, <1>13, <1>14, <1>16, <1>17, ComposeStep

\* A tick that raises a window or drags one redraws everything.
LEMMA ServeTickKeeps ==
  ASSUME DeskInv, NEW a \in Apps, NEW pb, NEW hit, NEW title, serve_tick(a, pb, hit, title)
  PROVE  DeskInv'
<1>1. /\ script = << >> /\ mail[a].t = "M_WM_TICK" /\ hit \in live(windows) \cup {NoSlot}
      /\ mail' = [mail EXCEPT ![a] = [t |-> "taken"]]
      /\ UNCHANGED << app, shared, freeCanvas, pix, shown >> /\ UNCHANGED << next_id, below >>
  BY Zenon DEF serve_tick, Serves, OnScreen
<1>2. PICK w : w = app[a].winid
  BY Zenon
<1>3. app[a].pc = "tick" /\ mail[a].id = w /\ Win(windows, a, w) /\ Owner(app[a])
  BY Zenon, <1>1, <1>2, Asking DEF Owner
<1>4. windows \in Tables /\ next_id' \in Nat \ {0} /\ Table(windows, next_id', app)
  BY Zenon, <1>1 DEF DeskInv, DeskTypes, Tables
<1>5. owned(windows, mail[a].id, a)
  BY Zenon, <1>3 DEF owned, find_slot, Win, live
<1>6. PICK top, raised, moved, off, val :
        /\ raised = (~ (drag # NoSlot) /\ pb = 1 /\ buttons = 0 /\ hit # NoSlot
                     /\ hit # top)
        /\ val = (IF (IF raised THEN top ELSE hit) \in find_slot(windows, mail[a].id)
                  THEN 1 ELSE 0)
        /\ IF raised \/ moved
           THEN Compose(mark_all_dirty(IF raised THEN raise(windows, hit) ELSE windows),
                        off, Reply(a, "M_WM_TICK_REPLY", val), TRUE)
           ELSE script' = << Reply(a, "M_WM_TICK_REPLY", val) >> /\ UNCHANGED windows
  BY Zenon, <1>5 DEF serve_tick
<1>7. val \in Nat
  <2>1. val \in {0, 1}
    BY Zenon, <1>6
  <2>. QED BY <2>1
<1>8. PICK answer : answer = Reply(a, "M_WM_TICK_REPLY", val)
  BY Zenon
<1>9. /\ answer \in Replies /\ answer.to = a /\ answer.msg \in Answers
      /\ answer.msg.t = "M_WM_TICK_REPLY"
  BY SMTT(30), <1>7, <1>8 DEF Reply, Replies, Answers
<1>10. \A ws : Expected(ws, a, app[a], answer.msg)
  BY Zenon, <1>3, <1>9 DEF Expected
<1>11. \A ws, d, e : Win(ws, a, w) => PhaseOf(ws, a, app[a], [t |-> "taken"], d, e)
  BY Zenon, <1>2, <1>3, TakenPhase
<1>12. CASE raised \/ moved
  <2>1. PICK vs : vs = IF raised THEN raise(windows, hit) ELSE windows
    BY Zenon
  <2>2. /\ vs \in Tables /\ Table(vs, next_id', app)
        /\ \A b : NoWin(windows, b) => NoWin(vs, b)
        /\ \A b, id : Win(windows, b, id) => Win(vs, b, id)
    <3>1. CASE raised
      <4>1. hit \in live(windows)
        BY Zenon, <1>1, <1>6, <3>1
      <4>. QED BY ZenonT(40), <1>4, <2>1, <3>1, <4>1, Raised
    <3>2. CASE ~ raised
      BY Zenon, <1>4, <2>1, <3>2
    <3>. QED BY Zenon, <3>1, <3>2
  <2>3. PICK ws : ws = mark_all_dirty(vs)
    BY Zenon
  <2>4. ws \in Tables /\ SameWindows(ws, vs)
    BY Zenon, <2>2, <2>3, Marks
  <2>5. /\ Table(ws, next_id', app)
        /\ \A b : NoWin(vs, b) => NoWin(ws, b)
        /\ \A b, id : Win(vs, b, id) => Win(ws, b, id)
    BY Zenon, <2>2, <2>4, SameTable
  <2>6. Compose(ws, off, answer, TRUE)
    BY ZenonT(40), <1>6, <1>8, <1>12, <2>1, <2>3
  <2>7. \A b \in Apps : b # a =>
          /\ NoWin(windows, b) => NoWin(ws, b)
          /\ \A id : Win(windows, b, id) => Win(ws, b, id)
    BY Zenon, <2>2, <2>5
  <2>8. \A d, e : PhaseOf(ws, a, app[a], [t |-> "taken"], d, e)
    BY ZenonT(40), <1>3, <1>11, <2>2, <2>5
  <2>9. app[a].pc = "flush" => ~ TRUE
    BY Zenon, <1>3
  <2>. QED
    BY ZenonT(40), <1>1, <1>3, <1>4, <1>9, <1>10, <2>4, <2>5, <2>6, <2>7, <2>8, <2>9, ComposeStep
<1>13. CASE ~ (raised \/ moved)
  <2>1. script' = << answer >> /\ UNCHANGED << windows, next_id, below >>
    BY Zenon, <1>1, <1>6, <1>8, <1>13
  <2>2. PhaseOf(windows, a, app[a], [t |-> "taken"], Drawn(a), FALSE)
    BY Zenon, <1>3, <1>11
  <2>. QED BY ZenonT(40), <1>1, <1>9, <1>10, <2>1, <2>2, AnswerStep
<1>. QED BY Zenon, <1>12, <1>13

LEMMA ServeCloseKeeps ==
  ASSUME DeskInv, NEW a \in Apps, serve_close_window(a)
  PROVE  DeskInv'
<1>1. /\ script = << >> /\ mail[a].t = "M_WM_CLOSE"
      /\ mail' = [mail EXCEPT ![a] = [t |-> "taken"]]
      /\ UNCHANGED << app, shared, freeCanvas, pix, shown >> /\ UNCHANGED << next_id, below >>
  BY Zenon DEF serve_close_window, Serves
<1>2. PICK w : w = app[a].winid
  BY Zenon
<1>3. app[a].pc = "close" /\ mail[a].id = w /\ Win(windows, a, w) /\ Owner(app[a])
  BY Zenon, <1>1, <1>2, Asking DEF Owner
<1>4. windows \in Tables /\ next_id' \in Nat \ {0} /\ Table(windows, next_id', app)
  BY Zenon, <1>1 DEF DeskInv, DeskTypes, Tables
<1>5. PICK s \in live(windows) : windows[s].app = a /\ windows[s].id = w
  BY Zenon, <1>3 DEF Win
<1>6. owned(windows, mail[a].id, a)
  BY Zenon, <1>3 DEF owned, find_slot, Win, live
<1>7. PICK slot \in First(find_slot(windows, w)) :
        Compose(mark_all_dirty(Compacted(windows, slot)), below, Reply(a, "M_WM_DONE", 1),
                FALSE)
  BY Zenon, <1>3, <1>6 DEF serve_close_window
<1>8. slot \in live(windows) /\ windows[slot].app = a
  <2>1. slot \in WinSlots /\ windows[slot].id = w
    BY Zenon, <1>7 DEF First, find_slot
  <2>2. slot \in live(windows)
    BY Zenon, <1>5, <2>1 DEF live
  <2>3. slot = s
    BY Zenon, <1>4, <1>5, <2>1, <2>2 DEF Table
  <2>. QED BY Zenon, <1>5, <2>3
<1>9. PICK vs, answer : vs = Compacted(windows, slot) /\ answer = Reply(a, "M_WM_DONE", 1)
  BY Zenon
<1>10. /\ vs \in Tables /\ Table(vs, next_id', app) /\ NoWin(vs, a)
       /\ \A b : NoWin(windows, b) => NoWin(vs, b)
       /\ \A b, id : b # a /\ Win(windows, b, id) => Win(vs, b, id)
  BY Zenon, <1>4, <1>8, <1>9, Closed
<1>11. PICK ws : ws = mark_all_dirty(vs)
  BY Zenon
<1>12. ws \in Tables /\ SameWindows(ws, vs)
  BY Zenon, <1>10, <1>11, Marks
<1>13. /\ Table(ws, next_id', app)
       /\ \A b : NoWin(vs, b) => NoWin(ws, b)
       /\ \A b, id : Win(vs, b, id) => Win(ws, b, id)
  BY Zenon, <1>10, <1>12, SameTable
<1>14. /\ answer \in Replies /\ answer.to = a /\ answer.msg \in Answers
       /\ answer.msg.t = "M_WM_DONE"
  BY <1>9 DEF Reply, Replies, Answers
<1>15. Expected(ws, a, app[a], answer.msg)
  BY Zenon, <1>3, <1>14 DEF Expected
<1>16. Compose(ws, below, answer, FALSE)
  BY Zenon, <1>7, <1>9, <1>11
<1>17. \A b \in Apps : b # a =>
         /\ NoWin(windows, b) => NoWin(ws, b)
         /\ \A id : Win(windows, b, id) => Win(ws, b, id)
  BY Zenon, <1>10, <1>13
<1>18. \A d, e : PhaseOf(ws, a, app[a], [t |-> "taken"], d, e)
  BY Zenon, <1>3, <1>10, <1>13, TakenPhase
<1>. QED
  BY ZenonT(40), <1>1, <1>3, <1>4, <1>12, <1>13, <1>14, <1>15, <1>16, <1>17, <1>18, ComposeStep

\* The wm has done the first step of its script.
LEMMA ScriptTail ==
  ASSUME NEW T, NEW sc \in Seq(T), sc # << >>, NEW ws, NEW ap, NEW ml,
         ScriptOK(sc, ws, ap, ml)
  PROVE  /\ 1 \in DOMAIN sc /\ Head(sc) = sc[1] /\ Tail(sc) \in Seq(T)
         /\ ScriptOK(Tail(sc), ws, ap, ml)
         /\ \A k \in DOMAIN sc : k # 1 => \E j \in DOMAIN Tail(sc) : Tail(sc)[j] = sc[k]
         /\ \A j \in DOMAIN Tail(sc) : \E k \in DOMAIN sc : k # 1 /\ Tail(sc)[j] = sc[k]
<1>1. PICK n \in Nat : n + 1 = Len(sc) /\ DOMAIN sc = 1 .. n + 1
  <2>1. Len(sc) \in Nat /\ Len(sc) > 0 /\ DOMAIN sc = 1 .. Len(sc)
    OBVIOUS
  <2>2. Len(sc) - 1 \in Nat /\ (Len(sc) - 1) + 1 = Len(sc)
    BY <2>1
  <2>. QED BY Zenon, <2>1, <2>2
<1>2. PICK tl : tl = Tail(sc)
  BY Zenon
<1>3. tl \in Seq(T) /\ Len(tl) = n /\ \A j \in 1 .. n : tl[j] = sc[j + 1]
  BY <1>1, <1>2
<1>4. DOMAIN tl = 1 .. n
  BY <1>3
<1>5. \A j \in 1 .. n : j + 1 \in 1 .. n + 1 /\ j + 1 # 1 /\ (j + 1 = n + 1 => j = n)
  OBVIOUS
<1>6. \A j, l \in 1 .. n : j + 1 = l + 1 => j = l
  OBVIOUS
<1>7. 1 \in DOMAIN sc /\ Head(sc) = sc[1]
  BY <1>1
<1>8. ScriptOK(tl, ws, ap, ml)
  <2>1. \A j \in DOMAIN tl : /\ j + 1 \in DOMAIN sc /\ tl[j] = sc[j + 1]
                             /\ j + 1 = Len(sc) => j = Len(tl)
    BY Zenon, <1>1, <1>3, <1>4, <1>5
  <2>2. \A j, l \in DOMAIN tl : j + 1 = l + 1 => j = l
    BY Zenon, <1>4, <1>6
  <2>3. ASSUME NEW j \in DOMAIN tl, tl[j].op = "blit"
        PROVE  \E s \in live(ws) : ws[s].canvas = tl[j].canvas
    BY ZenonT(40), <2>1, <2>3 DEF ScriptOK
  <2>4. ASSUME NEW j \in DOMAIN tl, tl[j].op = "reply"
        PROVE  /\ ml[tl[j].to].t = "taken" /\ Expected(ws, tl[j].to, ap[tl[j].to], tl[j].msg)
               /\ ap[tl[j].to].pc = "flush" => j = Len(tl)
    <3>1. j + 1 \in DOMAIN sc /\ tl[j] = sc[j + 1]
      BY Zenon, <2>1
    <3>2. /\ ml[sc[j + 1].to].t = "taken"
          /\ Expected(ws, sc[j + 1].to, ap[sc[j + 1].to], sc[j + 1].msg)
          /\ ap[sc[j + 1].to].pc = "flush" => j + 1 = Len(sc)
      BY Zenon, <2>4, <3>1 DEF ScriptOK
    <3>. QED BY Zenon, <2>1, <3>1, <3>2
  <2>5. ASSUME NEW j \in DOMAIN tl, NEW l \in DOMAIN tl, tl[j].op = "reply", tl[l].op = "reply"
        PROVE  j = l
    <3>1. j + 1 \in DOMAIN sc /\ sc[j + 1].op = "reply"
      BY Zenon, <2>1, <2>5
    <3>2. l + 1 \in DOMAIN sc /\ sc[l + 1].op = "reply"
      BY Zenon, <2>1, <2>5
    <3>. QED BY Zenon, <2>2, <3>1, <3>2 DEF ScriptOK
  <2>. QED BY Zenon, <2>3, <2>4, <2>5 DEF ScriptOK
<1>9. ASSUME NEW k \in DOMAIN sc, k # 1 PROVE \E j \in DOMAIN tl : tl[j] = sc[k]
  <2>1. PICK j : j = k - 1
    BY Zenon
  <2>2. j \in 1 .. n /\ j + 1 = k
    BY SMTT(30), <1>1, <1>9, <2>1
  <2>. QED BY Zenon, <1>3, <1>4, <2>2
<1>10. \A j \in DOMAIN tl : \E k \in DOMAIN sc : k # 1 /\ tl[j] = sc[k]
  BY Zenon, <1>1, <1>3, <1>4, <1>5
<1>. QED BY Zenon, <1>2, <1>3, <1>7, <1>8, <1>9, <1>10

LEMMA BlitKeeps ==
  ASSUME DeskInv, dblit
  PROVE  DeskInv'
<1>1. PICK T : T = Blits \cup Replies
  BY Zenon
<1>2. script \in Seq(T) /\ script # << >> /\ ScriptOK(script, windows, app, mail)
  BY Zenon, <1>1 DEF DeskInv, DeskTypes, dblit
<1>3. /\ 1 \in DOMAIN script /\ Head(script) = script[1] /\ Tail(script) \in Seq(T)
      /\ ScriptOK(Tail(script), windows, app, mail)
      /\ \A k \in DOMAIN script : k # 1 =>
           \E j \in DOMAIN Tail(script) : Tail(script)[j] = script[k]
  BY Zenon, <1>2, ScriptTail
<1>4. PICK c : c = script[1].canvas
  BY Zenon
<1>5. /\ script[1].op = "blit" /\ script' = Tail(script)
      /\ shown' = [shown EXCEPT ![c] = pix[c]]
      /\ below' = below \ { windows[s].id : s \in { t \in live(windows) : windows[t].canvas = c } }
      /\ UNCHANGED << windows, next_id, app, mail, shared, freeCanvas, pix >>
  BY Zenon, <1>3, <1>4 DEF dblit
<1>6. script[1] \in T
  BY <1>2, <1>3
<1>7. script[1] = Blit(c) /\ c \in Canvases
  BY ZenonT(40), <1>1, <1>4, <1>5, <1>6, Kinds
<1>8. /\ pix[c] \in Nat /\ shown' \in [Canvases -> Nat] /\ shown'[c] = pix[c]
      /\ \A d \in Canvases : d # c => shown'[d] = shown[d]
  BY Zenon, <1>5, <1>7 DEF DeskInv, DeskTypes
<1>9. DeskTypes'
  BY Zenon, <1>1, <1>3, <1>5, <1>8 DEF DeskInv, DeskTypes
<1>10. /\ Table(windows', next_id', app') /\ Apart(app', shared', freeCanvas')
       /\ ScriptOK(script', windows', app', mail')
  BY Zenon, <1>3, <1>5 DEF DeskInv
<1>11. ASSUME NEW b \in Apps PROVE Phase(b)'
  <2>1. ASSUME app[b].pc \in {"flush", "flushed"}
        PROVE  /\ Drawn(b) => Drawn(b)'
               /\ Drawn(b) \/ ToDraw(b) => Drawn(b)' \/ ToDraw(b)'
    <3>1. app[b].canvas \in Canvases
      BY Zenon, <2>1 DEF DeskInv, Apart, DeskTypes, Owner
    <3>2. Drawn(b) => Drawn(b)'
      <4>1. PICK s \in live(windows) : windows[s].app = b /\ windows[s].id = app[b].winid
        BY Zenon, <2>1 DEF DeskInv, Phase, PhaseOf, Win
      <4>2. windows[s].canvas = app[b].canvas
        BY Zenon, <4>1 DEF DeskInv, Table
      <4>3. ASSUME NEW t \in live(windows), windows[t].id = app[b].winid PROVE t = s
        BY Zenon, <4>1, <4>3 DEF DeskInv, Table
      <4>4. app[b].winid \in below /\ app[b].canvas # c => app[b].winid \in below'
        BY Zenon, <1>5, <4>2, <4>3
      <4>5. app[b].canvas = c => Drawn(b)'
        BY Zenon, <1>5, <1>8 DEF Drawn
      <4>. QED BY Zenon, <1>5, <1>8, <3>1, <4>4, <4>5 DEF Drawn
    <3>3. ASSUME ToDraw(b), app[b].canvas # c PROVE ToDraw(b)'
      <4>1. PICK k \in DOMAIN script : script[k] = Blit(app[b].canvas)
        BY Zenon, <3>3 DEF ToDraw
      <4>2. k # 1
        <5>1. Blit(c).canvas = c /\ Blit(app[b].canvas).canvas = app[b].canvas
          BY Zenon, Kinds
        <5>. QED BY Zenon, <1>7, <3>3, <4>1, <5>1
      <4>3. PICK j \in DOMAIN Tail(script) : Tail(script)[j] = script[k]
        BY Zenon, <1>3, <4>2
      <4>4. j \in DOMAIN script' /\ script'[j] = Blit(app'[b].canvas)
        BY Zenon, <1>5, <4>1, <4>3
      <4>. QED BY Zenon, <4>4 DEF ToDraw
    <3>4. app[b].canvas = c => Drawn(b)'
      BY Zenon, <1>5, <1>8 DEF Drawn
    <3>. QED BY Zenon, <3>2, <3>3, <3>4
  <2>2. PhaseOf(windows, b, app[b], mail[b], Drawn(b)', ToDraw(b)')
    BY Zenon, <2>1, PhaseDrawn DEF DeskInv, Phase
  <2>. QED BY Zenon, <1>5, <2>2 DEF Phase
<1>. QED BY Zenon, <1>9, <1>10, <1>11 DEF DeskInv

LEMMA ReplyKeeps ==
  ASSUME DeskInv, reply
  PROVE  DeskInv'
<1>1. PICK T : T = Blits \cup Replies
  BY Zenon
<1>2. script \in Seq(T) /\ script # << >> /\ ScriptOK(script, windows, app, mail)
  BY Zenon, <1>1 DEF DeskInv, DeskTypes, reply
<1>3. /\ 1 \in DOMAIN script /\ Head(script) = script[1] /\ Tail(script) \in Seq(T)
      /\ ScriptOK(Tail(script), windows, app, mail)
      /\ \A k \in DOMAIN script : k # 1 =>
           \E j \in DOMAIN Tail(script) : Tail(script)[j] = script[k]
      /\ \A j \in DOMAIN Tail(script) :
           \E k \in DOMAIN script : k # 1 /\ Tail(script)[j] = script[k]
  BY Zenon, <1>2, ScriptTail
<1>4. PICK a, m : a = script[1].to /\ m = script[1].msg
  BY Zenon
<1>5. /\ script[1].op = "reply" /\ script' = Tail(script)
      /\ mail' = [mail EXCEPT ![a] = m]
      /\ UNCHANGED << windows, next_id, below, app, shared, freeCanvas, pix, shown >>
  BY Zenon, <1>3, <1>4 DEF reply
<1>6. script[1] \in T
  BY <1>2, <1>3
<1>7. a \in Apps
  BY Zenon, <1>1, <1>4, <1>5, <1>6, Kinds
<1>8. /\ mail[a].t = "taken" /\ Expected(windows, a, app[a], m)
      /\ app[a].pc = "flush" => 1 = Len(script)
  BY Zenon, <1>2, <1>3, <1>4, <1>5 DEF ScriptOK
<1>9. mail'[a] = m /\ \A b \in Apps : b # a => mail'[b] = mail[b]
  BY Zenon, <1>5, <1>7 DEF DeskInv, DeskTypes
<1>10. mail' = [ b \in Apps |-> mail'[b] ]
  <2>1. DOMAIN mail' = Apps
    BY Zenon, <1>5 DEF DeskInv, DeskTypes
  <2>2. mail' = [ b \in DOMAIN mail' |-> mail'[b] ]
    BY Zenon, <1>5
  <2>. QED BY Zenon, <2>1, <2>2
<1>11. DeskTypes'
  BY Zenon, <1>1, <1>3, <1>5, <1>10 DEF DeskInv, DeskTypes
<1>12. Table(windows', next_id', app') /\ Apart(app', shared', freeCanvas')
  BY Zenon, <1>5 DEF DeskInv
<1>13. ScriptOK(script', windows', app', mail')
  <2>1. \A j \in DOMAIN Tail(script) : Tail(script)[j].op # "reply"
    <3>1. ASSUME NEW j \in DOMAIN Tail(script), Tail(script)[j].op = "reply" PROVE FALSE
      <4>1. PICK k \in DOMAIN script : k # 1 /\ Tail(script)[j] = script[k]
        BY Zenon, <1>3
      <4>. QED BY Zenon, <1>2, <1>3, <1>5, <3>1, <4>1 DEF ScriptOK
    <3>. QED BY Zenon, <3>1
  <2>2. ScriptOK(Tail(script), windows, app, mail')
    BY Zenon, <1>3, <2>1 DEF ScriptOK
  <2>. QED BY Zenon, <1>5, <2>2
<1>14. \A b \in Apps : (Drawn(b)' <=> Drawn(b)) /\ (ToDraw(b) => ToDraw(b)')
  <2>. TAKE b \in Apps
  <2>1. Drawn(b)' <=> Drawn(b)
    BY Zenon, <1>5 DEF Drawn
  <2>2. ASSUME ToDraw(b) PROVE ToDraw(b)'
    <3>1. PICK k \in DOMAIN script : script[k] = Blit(app[b].canvas)
      BY Zenon, <2>2 DEF ToDraw
    <3>2. k # 1
      <4>1. Blit(app[b].canvas).op = "blit"
        BY Zenon, Kinds
      <4>. QED BY Zenon, <1>5, <3>1, <4>1
    <3>3. PICK j \in DOMAIN Tail(script) : Tail(script)[j] = script[k]
      BY Zenon, <1>3, <3>2
    <3>4. j \in DOMAIN script' /\ script'[j] = Blit(app'[b].canvas)
      BY Zenon, <1>5, <3>1, <3>3
    <3>. QED BY Zenon, <3>4 DEF ToDraw
  <2>. QED BY Zenon, <2>1, <2>2
<1>15. app[a].pc = "flush" => ~ ToDraw(a)
  <2>. SUFFICES ASSUME app[a].pc = "flush", ToDraw(a) PROVE FALSE
    BY Zenon
  <2>1. PICK k \in DOMAIN script : script[k] = Blit(app[a].canvas)
    BY Zenon DEF ToDraw
  <2>2. k = 1
    BY <1>2, <1>8
  <2>3. Blit(app[a].canvas).op = "blit"
    BY Zenon, Kinds
  <2>. QED BY ZenonT(40), <1>5, <2>1, <2>2, <2>3
<1>16. ASSUME NEW b \in Apps PROVE Phase(b)'
  <2>1. PhaseOf(windows, b, app[b], mail[b], Drawn(b), ToDraw(b))
    BY Zenon DEF DeskInv, Phase
  <2>2. CASE b = a
    <3>1. ~ Expected(windows, a, app[a], mail[a]) /\ mail[a] # NoMail
      <4>1. mail[a] \notin Answers
        BY <1>8 DEF Answers
      <4>2. mail[a] # NoMail
        BY <1>8 DEF NoMail
      <4>. QED BY Zenon, <4>1, <4>2 DEF Expected
    <3>2. \A w : /\ mail[a] # [t |-> "M_WM_FLUSH", id |-> w]
                 /\ mail[a] # [t |-> "M_WM_CLOSE", id |-> w]
      BY <1>8
    <3>3. PhaseOf(windows, a, app[a], m, Drawn(a)', ToDraw(a)')
      BY ZenonT(40), <1>7, <1>8, <1>14, <1>15, <2>1, <2>2, <3>1, <3>2 DEF PhaseOf
    <3>. QED BY Zenon, <1>5, <1>9, <2>2, <3>3 DEF Phase
  <2>3. CASE b # a
    <3>1. PhaseOf(windows, b, app[b], mail[b], Drawn(b)', ToDraw(b)')
      BY Zenon, <1>14, <2>1, PhaseDrawn
    <3>. QED BY Zenon, <1>5, <1>9, <2>3, <3>1 DEF Phase
  <2>. QED BY Zenon, <2>2, <2>3
<1>. QED BY Zenon, <1>11, <1>12, <1>13, <1>16 DEF DeskInv

-----------------------------------------------------------------------------
(* The theorems *)

LEMMA DeskInvInit == DeskInit => DeskInv
<1>. SUFFICES ASSUME DeskInit PROVE DeskInv
  BY Zenon
<1>1. /\ windows = [ s \in WinSlots |-> EmptyWindow ] /\ next_id = 1 /\ script = << >>
      /\ app = [ a \in Apps |-> [pc |-> "start", winid |-> 0, canvas |-> NoCanvas] ]
      /\ mail = [ a \in Apps |-> NoMail ] /\ shared = {} /\ freeCanvas = Canvases
      /\ pix = [ c \in Canvases |-> 0 ] /\ shown = [ c \in Canvases |-> 0 ]
  BY Zenon DEF DeskInit
<1>2. EmptyWindow \in Windows /\ EmptyWindow.id = 0
  BY DEF EmptyWindow, Windows
<1>3. [pc |-> "start", winid |-> 0, canvas |-> NoCanvas] \in AppRecords
  BY DEF AppRecords, AppStates
<1>4. \A a \in Apps : app[a].pc = "start" /\ mail[a] = NoMail
  BY <1>1
<1>5. live(windows) = {}
  BY Zenon, <1>1, <1>2 DEF live
<1>6. next_id \in Nat \ {0} /\ 0 \in Nat /\ script \in Seq(Blits \cup Replies)
  BY <1>1
<1>7. DeskTypes
  BY Zenon, <1>1, <1>2, <1>3, <1>6 DEF DeskTypes
<1>8. Table(windows, next_id, app)
  <2>1. 0 \in 0 .. MAX_WINDOWS /\ 0 .. 0 - 1 = {}
    BY DeskAssumption
  <2>. QED BY Zenon, <1>5, <2>1 DEF Table
<1>9. Apart(app, shared, freeCanvas)
  BY Zenon, <1>4 DEF Apart, Owner
<1>10. ScriptOK(script, windows, app, mail)
  <2>1. DOMAIN script = {}
    BY <1>1
  <2>. QED BY Zenon, <2>1 DEF ScriptOK
<1>11. ASSUME NEW a \in Apps PROVE Phase(a)
  BY Zenon, <1>4, <1>5 DEF Phase, PhaseOf, NoWin
<1>. QED BY Zenon, <1>7, <1>8, <1>9, <1>10, <1>11 DEF DeskInv

LEMMA DeskInvStep == DeskInv /\ [DeskNext]_deskVars => DeskInv'
<1>. SUFFICES ASSUME DeskInv, [DeskNext]_deskVars PROVE DeskInv'
  BY Zenon
<1>1. ASSUME NEW a \in Apps, tick(a) PROVE DeskInv'
  <2>1. RequestOf("tick", "M_WM_TICK")
    BY Zenon DEF RequestOf
  <2>. QED BY Zenon, <1>1, <2>1, AskStep DEF tick
<1>2. ASSUME NEW a \in Apps, flush_window(a) PROVE DeskInv'
  <2>1. RequestOf("flush", "M_WM_FLUSH")
    BY Zenon DEF RequestOf
  <2>. QED BY Zenon, <1>2, <2>1, AskStep DEF flush_window
<1>3. ASSUME NEW a \in Apps, close(a) PROVE DeskInv'
  <2>1. RequestOf("close", "M_WM_CLOSE")
    BY Zenon DEF RequestOf
  <2>. QED BY Zenon, <1>3, <2>1, AskStep DEF close
<1>4. CASE UNCHANGED deskVars
  <2>1. /\ DeskTypes' /\ Table(windows', next_id', app')
        /\ Apart(app', shared', freeCanvas') /\ ScriptOK(script', windows', app', mail')
    BY Zenon, <1>4 DEF DeskInv, DeskTypes, deskVars
  <2>2. \A a \in Apps : Phase(a)'
    BY Zenon, <1>4 DEF DeskInv, Phase, Drawn, ToDraw, deskVars
  <2>. QED BY Zenon, <2>1, <2>2 DEF DeskInv
<1>. QED
  BY ZenonT(40), <1>1, <1>2, <1>3, <1>4, CreateKeeps, DrawKeeps, ReturnKeeps,
     ServeCreateKeeps, ServeFlushKeeps, ServeTickKeeps, ServeCloseKeeps, BlitKeeps,
     ReplyKeeps
     DEF DeskNext

LEMMA TableIsSound == DeskInv => WindowTableIsSound
<1>. SUFFICES ASSUME DeskInv PROVE WindowTableIsSound
  BY Zenon
<1>1. live(windows) = 0 .. live_count(windows) - 1
  <2>1. PICK n \in 0 .. MAX_WINDOWS : live(windows) = 0 .. n - 1
    BY Zenon DEF DeskInv, Table
  <2>2. n \in Nat
    BY DeskAssumption
  <2>. QED BY Zenon, <2>1, <2>2, LiveCount
<1>2. ASSUME NEW s \in live(windows), NEW t \in live(windows),
             windows[s].id = windows[t].id \/ windows[s].canvas = windows[t].canvas
      PROVE  s = t
  <2>1. CASE windows[s].id = windows[t].id
    BY Zenon, <2>1 DEF DeskInv, Table
  <2>2. CASE windows[s].canvas = windows[t].canvas
    <3>1. /\ windows[s].app \in Apps /\ Owner(app[windows[s].app])
          /\ windows[t].app \in Apps /\ Owner(app[windows[t].app])
      BY Zenon, LiveCanvas
    <3>2. app[windows[s].app].canvas = app[windows[t].app].canvas
      BY Zenon, <2>2 DEF DeskInv, Table
    <3>3. windows[s].app = windows[t].app
      BY Zenon, <3>1, <3>2 DEF DeskInv, Apart
    <3>. QED BY Zenon, <3>3 DEF DeskInv, Table
  <2>. QED BY Zenon, <1>2, <2>1, <2>2
<1>3. \A s \in live(windows) : windows[s].canvas \in shared
  BY Zenon, LiveCanvas
<1>4. \A k \in DOMAIN script : script[k].op = "blit" => script[k].canvas \in shared
  BY Zenon, <1>3 DEF DeskInv, ScriptOK
<1>. QED BY Zenon, <1>1, <1>2, <1>3, <1>4 DEF WindowTableIsSound

\* However many apps create, raise, drag and close windows over however few
\* slots, the wm's window table stays sound: no hole among its live windows, no
\* window twice, and the display server is only ever sent to canvases that are
\* shared with it, though their app may ask to close in the meantime
\* (wm/src/main.rs:157, 311, 505; window.rs:208).
THEOREM WindowTableStaysSound == DeskSpec => []WindowTableIsSound
<1>. QED BY DeskInvInit, DeskInvStep, TableIsSound, PTL DEF DeskSpec

\* However many apps share the wm and wherever rows of windows end, a flush that
\* returns has been composited, unless its window has no part on the screen:
\* no reply overtakes the blit of the window that asked (wm/src/main.rs:414,
\* window.rs:200), and a window dragged onto the screen comes with what it
\* flushed while it lay below.
THEOREM FlushesAreComposited == DeskSpec => []FlushIsComposited
<1>1. DeskInv => FlushIsComposited
  BY Zenon DEF DeskInv, Phase, PhaseOf, Drawn, FlushIsComposited
<1>. QED BY <1>1, DeskInvInit, DeskInvStep, PTL DEF DeskSpec
=============================================================================
