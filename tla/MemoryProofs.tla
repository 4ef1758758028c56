---------------------------- MODULE MemoryProofs ----------------------------
(***************************************************************************)
(* Proofs about physical memory and address spaces (Memory): for any number *)
(* of tasks, frames and pages and any layout of RAM, page tables are sound, *)
(* free frames have no user and private pages keep what their task wrote,   *)
(* until a page is opened in a demand window that is not clear of RAM.      *)
(***************************************************************************)
EXTENDS Memory, TLAPS

UserKinds == {"user", "cow"}
Descs == {None} \cup [kind : {"user", "cow", "el1"}, pa : Ram]
Spaces == [root : Ram, l3 : [Blocks -> Ram \cup {NoFrame}], pte : [Pages -> Descs]]
Regions == [kind : {"stack", "demand"}, base : Nat, pages : Nat]

MemTypeOK ==
  /\ freeFrames \in SUBSET (Ram \ Reserved)
  /\ space \in [MemTasks -> Spaces \cup {NoSpace}]
  /\ regions \in [MemTasks -> Seq(Regions)]
  /\ content \in [Ram -> Values \cup {0}]
  /\ owner \in [Ram -> MemTasks \cup {Nobody}]
  /\ shares \in SUBSET (MemTasks \X Ram)
  /\ wrote \in [MemTasks -> UNION { [P -> Values \cup {0}] : P \in SUBSET (Pages \ Reserved) }]

\* Page p of task t can be reached from EL0, through the descriptor At(t, p).
At(t, p) == Walk(space[t], p)
Opened(t, p) == At(t, p).kind \in UserKinds

\* A frame that the kernel or a task keeps and that no table uses.
Taken(f) == f \notin freeFrames /\ \A t \in Live : f \notin Tables(space[t])

\* A page of RAM that shows its own frame: of the stack, owned or granted.
Identity(t, p) ==
  /\ p \in Ram /\ At(t, p).pa = p
  /\ \/ p \in Reserved /\ At(t, p).kind = "user"
     \/ owner[p] = t
     \/ << t, p >> \in shares

\* A page of a demand window that nobody has written.
Blank(t, p) == At(t, p) = Desc("cow", ZeroPage) /\ p \in DOMAIN wrote[t]

\* A frame that was allocated for one page: no task owns or shares it.
Unowned(f) ==
  /\ f \notin Reserved /\ Taken(f) /\ owner[f] = Nobody
  /\ \A u \in MemTasks : << u, f >> \notin shares

\* A page that shows a frame of its own, which is no one else's.
Private(t, p) ==
  /\ At(t, p).kind = "user" /\ p \in DOMAIN wrote[t]
  /\ Unowned(At(t, p).pa)
  /\ \A u \in Live, q \in Pages :
       Opened(u, q) /\ At(u, q).pa = At(t, p).pa => u = t /\ q = p

TablesApart ==
  \A t \in Live :
    /\ Tables(space[t]) \cap (freeFrames \cup Reserved) = {}
    /\ \A u \in Live \ {t} : Tables(space[t]) \cap Tables(space[u]) = {}

OwnedAreTaken ==
  /\ \A f \in Ram : owner[f] # Nobody => Taken(f) /\ f \notin Reserved
  /\ \A x \in shares : Taken(x[2]) /\ x[2] \notin Reserved

OpenedPages ==
  \A t \in Live, p \in Pages : Opened(t, p) => Identity(t, p) \/ Blank(t, p) \/ Private(t, p)

WritesAreKept ==
  /\ content[ZeroPage] = 0
  /\ \A t \in Live : \A p \in DOMAIN wrote[t] :
       IF Opened(t, p) THEN content[At(t, p).pa] = wrote[t][p] /\ (Blank(t, p) \/ Private(t, p))
       ELSE wrote[t][p] = 0 /\ p \in Zone

RegionsAreKnown ==
  \A t \in Live :
    /\ space[t].l3[BlockOf(Stack[t][1])] # NoFrame
    /\ \A k \in DOMAIN regions[t] :
         Window(regions[t][k]) \subseteq
           (IF regions[t][k].kind = "stack" THEN {Stack[t][1], Stack[t][2]}
            ELSE (DOMAIN wrote[t] \cap Zone) \cup Stray)
    /\ \A p \in DOMAIN wrote[t] \cap Zone : RegionsAt(t, p) # {}

\* The inductive invariant.
MemInv ==
  /\ MemTypeOK /\ TablesApart /\ OwnedAreTaken /\ OpenedPages
  /\ WritesAreKept /\ RegionsAreKnown
-----------------------------------------------------------------------------
(* The operations on tables. *)

Works == [free : SUBSET Ram, s : Spaces, content : [Ram -> Values \cup {0}], oom : BOOLEAN]

\* From s to s2 the frames N become tables, the pages ps show e, and every
\* other page shows what it did.
Remaps(s, s2, N, ps, e) ==
  /\ s2 \in Spaces
  /\ Tables(s2) = Tables(s) \cup N
  /\ \A p \in Pages : Walk(s2, p) = IF p \in ps THEN e[p] ELSE Walk(s, p)
  /\ \A b \in Blocks : s.l3[b] # NoFrame => s2.l3[b] # NoFrame

\* Page numbers are natural numbers, so NoFrame is no frame.
LEMMA PageFacts ==
  /\ Ram \subseteq Nat /\ Pages \subseteq Nat /\ NoFrame \notin Ram
  /\ \A p \in Pages : BlockOf(p) \in Blocks
  /\ ZeroPage \in Ram /\ Ram \subseteq Pages
  /\ \A p \in Zone : p \notin Ram /\ p \in Pages
  /\ \A p \in Pages : p \in Ram \/ p \in Zone
  BY MemAssumption DEF MemAssumption, Pages, Vas, NoFrame, Blocks

\* The hardware translates RAM and the zone, and the walk of the tables
\* (l0_idx to l3_idx) finds them under their own address.
LEMMA LowPages ==
  /\ \A p \in Pages : p < VA_PAGES /\ Low(p) = p
  /\ \A p \in Vas : p \in Nat /\ (p < VA_PAGES => p \in Pages)
<1>1. \A p \in Pages : p \in Nat /\ p < VA_PAGES
  BY MemAssumption DEF MemAssumption, Pages, Vas
<1>2. VA_PAGES \in Nat \ {0} /\ \A p \in Vas : p \in Nat
  BY MemAssumption DEF MemAssumption
<1>3. \A p \in Nat : p < VA_PAGES => Low(p) = p
  BY <1>2 DEF Low
<1>4. ASSUME NEW p \in Vas, p < VA_PAGES PROVE p \in Pages
  <2>1. p \in High => p >= VA_PAGES
    BY Zenon, MemAssumption DEF MemAssumption
  <2>2. p \notin High
    BY <1>2, <1>4, <2>1
  <2> QED BY Zenon, <2>2 DEF Vas
<1> QED BY Zenon, <1>1, <1>2, <1>3, <1>4

\* What a leaf table shows when nobody has opened a page in it.
LEMMA UnopenedType == Unopened \in [Pages -> Descs]
  BY Zenon, PageFacts DEF Unopened, Descs, Desc, None

\* New leaf tables (alloc_table_frame, alloc_table) leave every page as it was.
LEMMA LeavesEffect ==
  ASSUME NEW m \in Works, NEW B \in SUBSET Blocks, m.oom = FALSE,
         \A b \in B : m.s.l3[b] = NoFrame
  PROVE  LET k == NewLeaves(m, B) IN
         /\ k \in Works /\ k.content = m.content
         /\ k.oom = FALSE => /\ k.free \subseteq m.free
                            /\ Remaps(m.s, k.s, m.free \ k.free, {}, << >>)
                            /\ \A b \in B : k.s.l3[b] # NoFrame
<1> DEFINE k == NewLeaves(m, B)
           w == CHOOSE x \in Assignments(m.free, B) : TRUE
           l3 == [ b \in Blocks |-> IF b \in B THEN w[b] ELSE m.s.l3[b] ]
           pte == [ p \in Pages |-> IF BlockOf(p) \in B THEN Unopened[p] ELSE m.s.pte[p] ]
           s2 == [root |-> m.s.root, l3 |-> l3, pte |-> pte]
           frames == { w[b] : b \in B }
<1>1. CASE Assignments(m.free, B) = {}
  <2>1. k = [m EXCEPT !.oom = TRUE]
    BY Zenon, <1>1 DEF NewLeaves
  <2> QED BY Zenon, <2>1 DEF Works
<1>2. CASE Assignments(m.free, B) # {}
  <2>1. w \in [B -> m.free]
    BY Zenon, <1>2 DEF Assignments
  <2>2. m.free \subseteq Ram /\ m.s \in Spaces
    BY Zenon DEF Works
  <2>3. k = [free |-> m.free \ frames, s |-> s2, content |-> m.content, oom |-> FALSE]
    BY Zenon, <1>2 DEF NewLeaves, Works
  <2> HIDE DEF w, k
  <2>5. l3 \in [Blocks -> Ram \cup {NoFrame}]
    BY Zenon, <2>1, <2>2 DEF Spaces
  <2>6. pte \in [Pages -> Descs]
    BY Zenon, <2>2, UnopenedType DEF Spaces
  <2>7. s2 \in Spaces
    BY Zenon, <2>2, <2>5, <2>6 DEF Spaces
  <2>8. Tables(s2) = Tables(m.s) \cup frames
    BY <2>1, <2>2, PageFacts DEF Tables, Spaces
  <2>9. \A p \in Pages : Walk(s2, p) = Walk(m.s, p)
    BY Zenon, <2>1, <2>2, PageFacts DEF Walk, Unopened
  <2>10. \A b \in Blocks : m.s.l3[b] # NoFrame \/ b \in B => s2.l3[b] # NoFrame
    BY Zenon, <2>1, <2>2, PageFacts
  <2>11. frames \subseteq m.free
    BY Zenon, <2>1
  <2> HIDE DEF s2, frames
  <2>12. k \in Works
    BY Zenon, <2>2, <2>3, <2>7, <2>11 DEF Works
  <2>13. m.free \ k.free = frames
    BY Zenon, <2>3, <2>11
  <2> QED BY <2>3, <2>7, <2>8, <2>9, <2>10, <2>11, <2>12, <2>13 DEF Remaps, k
<1> QED BY Zenon, <1>1, <1>2

\* Entering pages changes these pages only (set_entry).
LEMMA EnteredEffect ==
  ASSUME NEW m \in Works, NEW ps \in SUBSET Pages, NEW e \in [ps -> Descs], m.oom = FALSE,
         \A p \in ps : m.s.l3[BlockOf(p)] # NoFrame
  PROVE  LET k == Entered(m, ps, e) IN
         /\ k \in Works /\ k.content = m.content /\ k.oom = FALSE /\ k.free = m.free
         /\ Remaps(m.s, k.s, {}, ps, e)
<1> DEFINE k == Entered(m, ps, e)
           pte == [ p \in Pages |-> IF p \in ps THEN e[p] ELSE m.s.pte[p] ]
           s2 == [root |-> m.s.root, l3 |-> m.s.l3, pte |-> pte]
<1>1. m.free \subseteq Ram /\ m.s \in Spaces
  BY Zenon DEF Works
<1>3. k = [free |-> m.free, s |-> s2, content |-> m.content, oom |-> FALSE]
  BY Zenon DEF Entered, Works
<1>4. pte \in [Pages -> Descs]
  BY Zenon, <1>1 DEF Spaces
<1>5. s2 \in Spaces
  BY Zenon, <1>1, <1>4 DEF Spaces
<1>6. Tables(s2) = Tables(m.s)
  BY Zenon DEF Tables
<1>7. \A p \in Pages : Walk(s2, p) = IF p \in ps THEN e[p] ELSE Walk(m.s, p)
  BY Zenon DEF Walk
<1>8. \A b \in Blocks : m.s.l3[b] # NoFrame => s2.l3[b] # NoFrame
  BY Zenon
<1> HIDE DEF s2, k
<1>9. k \in Works
  BY Zenon, <1>1, <1>3, <1>5 DEF Works
<1> QED BY <1>3, <1>5, <1>6, <1>7, <1>8, <1>9 DEF Remaps, k

\* map_user_pages opens or closes pages of RAM under their own frames.
LEMMA MapEffect ==
  ASSUME NEW m \in Works, NEW ps \in SUBSET Ram, NEW kind \in {"user", "cow", "el1"},
         m.oom = FALSE
  PROVE  LET k == map_user_pages(m, ps, kind) IN
         \/ k.oom = TRUE
         \/ /\ k \in Works /\ k.oom = FALSE /\ k.content = m.content /\ k.free \subseteq m.free
            /\ Remaps(m.s, k.s, m.free \ k.free, ps, [ p \in ps |-> Desc(kind, p) ])
            /\ \A p \in ps : k.s.l3[BlockOf(p)] # NoFrame
<1> DEFINE e == [ p \in ps |-> Desc(kind, p) ]
           B == Missing(m.s, ps)
           l == NewLeaves(m, B)
           k == Entered(l, ps, e)
<1>1. e \in [ps -> Descs] /\ ps \subseteq Pages
  BY Zenon, PageFacts DEF Descs, Desc
<1>2. B \in SUBSET Blocks /\ \A b \in B : m.s.l3[b] = NoFrame
  BY Zenon DEF Missing
<1>3. /\ l \in Works /\ l.content = m.content
      /\ l.oom = FALSE => /\ l.free \subseteq m.free
                         /\ Remaps(m.s, l.s, m.free \ l.free, {}, << >>)
                         /\ \A b \in B : l.s.l3[b] # NoFrame
  <2> HIDE DEF B
  <2> QED BY Zenon, <1>2, LeavesEffect
<1>4. map_user_pages(m, ps, kind) = k
  BY Zenon DEF map_user_pages
<1>5. CASE l.oom = TRUE
  <2>1. k = l
    BY Zenon, <1>5 DEF Entered
  <2> QED BY Zenon, <1>4, <1>5, <2>1
<1>6. CASE l.oom = FALSE
  <2>1. \A p \in ps : l.s.l3[BlockOf(p)] # NoFrame
    BY Zenon, <1>1, <1>3, <1>6, PageFacts DEF Missing, Remaps
  <2> HIDE DEF e, l
  <2>2. /\ k \in Works /\ k.content = l.content /\ k.oom = FALSE /\ k.free = l.free
        /\ Remaps(l.s, k.s, {}, ps, e)
    BY Zenon, <1>1, <1>3, <1>6, <2>1, EnteredEffect
  <2> HIDE DEF k
  <2>3. Remaps(m.s, k.s, m.free \ k.free, ps, e)
    BY Zenon, <1>3, <1>6, <2>2 DEF Remaps
  <2>4. \A p \in ps : k.s.l3[BlockOf(p)] # NoFrame
    BY Zenon, <1>1, <2>1, <2>2, PageFacts DEF Remaps
  <2> QED BY Zenon, <1>3, <1>4, <1>6, <2>2, <2>3, <2>4 DEF e
<1>7. l.oom \in BOOLEAN
  BY Zenon, <1>3 DEF Works
<1> QED BY Zenon, <1>5, <1>6, <1>7

\* map_user_frame shows one frame at one page, if the page is outside RAM or its
\* block has been split.
LEMMA FrameEffect ==
  ASSUME NEW m \in Works, NEW p \in Pages, NEW f \in Ram, NEW kind \in {"user", "cow"},
         m.oom = FALSE, p \in Ram => m.s.l3[BlockOf(p)] # NoFrame
  PROVE  LET k == MapLow(m, p, f, kind) IN
         \/ k.oom = TRUE
         \/ /\ k \in Works /\ k.oom = FALSE /\ k.content = m.content /\ k.free \subseteq m.free
            /\ Remaps(m.s, k.s, m.free \ k.free, {p}, [ q \in {p} |-> Desc(kind, f) ])
<1> DEFINE e == [ q \in {p} |-> Desc(kind, f) ]
           B == Missing(m.s, {p})
           l == NewLeaves(m, B)
           k == Entered(l, {p}, e)
<1>1. e \in [{p} -> Descs] /\ {p} \in SUBSET Pages
  BY Zenon, PageFacts DEF Descs, Desc
<1>2. B \in SUBSET Blocks /\ \A b \in B : m.s.l3[b] = NoFrame
  BY Zenon DEF Missing
<1>3. /\ l \in Works /\ l.content = m.content
      /\ l.oom = FALSE => /\ l.free \subseteq m.free
                         /\ Remaps(m.s, l.s, m.free \ l.free, {}, << >>)
                         /\ \A b \in B : l.s.l3[b] # NoFrame
  <2> HIDE DEF B
  <2> QED BY Zenon, <1>2, LeavesEffect
<1>4. MapLow(m, p, f, kind) = k
  BY Zenon DEF MapLow, Missing
<1>5. CASE l.oom = TRUE
  <2>1. k = l
    BY Zenon, <1>5 DEF Entered
  <2> QED BY Zenon, <1>4, <1>5, <2>1
<1>6. CASE l.oom = FALSE
  <2>1. \A q \in {p} : l.s.l3[BlockOf(q)] # NoFrame
    BY Zenon, <1>1, <1>3, <1>6, PageFacts DEF Missing, Remaps
  <2> HIDE DEF e, l
  <2>2. /\ k \in Works /\ k.content = l.content /\ k.oom = FALSE /\ k.free = l.free
        /\ Remaps(l.s, k.s, {}, {p}, e)
    BY Zenon, <1>1, <1>3, <1>6, <2>1, EnteredEffect
  <2> HIDE DEF k
  <2>3. Remaps(m.s, k.s, m.free \ k.free, {p}, e)
    BY Zenon, <1>3, <1>6, <2>2 DEF Remaps
  <2> QED BY Zenon, <1>3, <1>4, <1>6, <2>2, <2>3 DEF e
<1>7. l.oom \in BOOLEAN
  BY Zenon, <1>3 DEF Works
<1> QED BY Zenon, <1>5, <1>6, <1>7
-----------------------------------------------------------------------------
(* What a step does to the tasks and pages it is not about. *)

\* Task u gets the tables N, and its pages ps show e; nothing else is remapped.
Remap(u, N, ps, e) ==
  /\ Live' = Live
  /\ \A t \in Live : Tables(space[t])' = Tables(space[t]) \cup (IF t = u THEN N ELSE {})
  /\ \A t \in Live, p \in Pages :
       At(t, p)' = IF t = u /\ p \in ps THEN e[p] ELSE At(t, p)
  /\ \A t \in Live, b \in Blocks : space[t].l3[b] # NoFrame => space'[t].l3[b] # NoFrame

\* The frames of other pages stay what they are: the new tables come from the
\* allocator, frames of private pages stay with them, and the pages ps do not
\* show them; frames are written only when they were free.
Apart(u, N, ps, e) ==
  /\ N \subseteq freeFrames /\ N \cap freeFrames' = {}
  /\ \A f \in freeFrames' : f \in freeFrames \/ Taken(f)
  /\ \A f \in Ram : Unowned(f) =>
       f \notin freeFrames' /\ owner'[f] = Nobody /\ \A t \in MemTasks : << t, f >> \notin shares'
  /\ \A p \in ps : e[p].kind \in UserKinds => ~ Unowned(e[p].pa)
  /\ \A f \in Ram : f \in freeFrames \/ content'[f] = content[f]
  /\ \A t \in Live, p \in Pages : ~ (t = u /\ p \in ps) =>
       /\ p \in Ram /\ owner[p] = t => owner'[p] = t
       /\ << t, p >> \in shares => << t, p >> \in shares'
       /\ p \in DOMAIN wrote'[t] <=> p \in DOMAIN wrote[t]
       /\ p \in DOMAIN wrote[t] => wrote'[t][p] = wrote[t][p]

\* A task that is there has tables.
LEMMA LiveSpaces ==
  ASSUME MemTypeOK
  PROVE  /\ \A t \in Live : t \in MemTasks /\ space[t] \in Spaces
         /\ \A s \in Spaces : s # NoSpace
         /\ \A t \in Live, p \in Pages : At(t, p) \in Descs
<1>1. \A s \in Spaces : s # NoSpace
  BY PageFacts DEF Spaces, NoSpace
<1>2. \A t \in Live : t \in MemTasks /\ space[t] \in Spaces
  BY Zenon DEF Live, MemTypeOK
<1>3. \A s \in Spaces, p \in Pages : Walk(s, p) \in Descs
  BY Zenon, PageFacts DEF Walk, Spaces, Descs, Desc, None
<1> QED BY Zenon, <1>1, <1>2, <1>3 DEF At

\* A step that remaps one task's table is seen in that task alone.
LEMMA RemapView ==
  ASSUME MemTypeOK, NEW u \in Live, NEW s2, NEW N, NEW ps, NEW e,
         Remaps(space[u], s2, N, ps, e), space' = [space EXCEPT ![u] = s2]
  PROVE  Remap(u, N, ps, e) /\ space' \in [MemTasks -> Spaces \cup {NoSpace}]
<1>1. u \in MemTasks /\ s2 \in Spaces /\ s2 # NoSpace
  BY Zenon, LiveSpaces DEF Remaps
<1>2. /\ space'[u] = s2
      /\ \A t \in MemTasks \ {u} : space'[t] = space[t]
      /\ space' \in [MemTasks -> Spaces \cup {NoSpace}]
  BY Zenon, <1>1 DEF MemTypeOK
<1>3. Live' = Live
  BY Zenon, <1>1, <1>2 DEF Live
<1>4. \A t \in Live : Tables(space[t])' = Tables(space[t]) \cup (IF t = u THEN N ELSE {})
  <2>1. TAKE t \in Live
  <2>2. Tables(space[t])' = Tables(space'[t])
    BY Zenon DEF Tables
  <2>3. t = u => Tables(space'[t]) = Tables(space[t]) \cup N
    BY Zenon, <1>2 DEF Remaps
  <2>4. t # u => space'[t] = space[t]
    BY Zenon, <1>2, LiveSpaces
  <2> QED BY Zenon, <2>2, <2>3, <2>4
<1>5. \A t \in Live, p \in Pages :
        At(t, p)' = IF t = u /\ p \in ps THEN e[p] ELSE At(t, p)
  <2>1. TAKE t \in Live, p \in Pages
  <2>2. At(t, p)' = Walk(space'[t], p)
    BY Zenon DEF At, Walk
  <2>3. t # u => space'[t] = space[t]
    BY Zenon, <1>2, LiveSpaces
  <2> QED BY <1>2, <2>2, <2>3 DEF Remaps, At
<1>6. \A t \in Live, b \in Blocks : space[t].l3[b] # NoFrame => space'[t].l3[b] # NoFrame
  BY Zenon, <1>2, LiveSpaces DEF Remaps
<1> QED BY Zenon, <1>2, <1>3, <1>4, <1>5, <1>6 DEF Remap

\* Every frame that can be reached from EL0 is taken.
LEMMA OpenedAreTaken ==
  ASSUME MemInv
  PROVE  \A t \in Live, p \in Pages : Opened(t, p) =>
           At(t, p).pa \in Ram /\ Taken(At(t, p).pa) /\ At(t, p) \in Descs
<1>1. \A f \in Reserved : Taken(f) /\ f \in Ram
  BY Zenon, MemAssumption DEF MemInv, MemTypeOK, TablesApart, Taken, MemAssumption
<1>2. ZeroPage \in Reserved
  BY Zenon, MemAssumption DEF MemAssumption
<1> TAKE t \in Live, p \in Pages
<1> HAVE Opened(t, p)
<1>3. At(t, p) \in Descs
  BY Zenon, LiveSpaces DEF MemInv
<1>4. At(t, p).pa \in Ram
  BY <1>3, LiveSpaces DEF Opened, Descs, None, UserKinds
<1>5. CASE Identity(t, p)
  <2>1. t # Nobody
    BY Zenon, LiveSpaces, MemAssumption DEF MemInv, MemAssumption
  <2>2. owner[p] = t => Taken(p)
    BY Zenon, <1>4, <1>5, <2>1 DEF MemInv, OwnedAreTaken, Identity
  <2>3. << t, p >> \in shares => Taken(p)
    BY Zenon DEF MemInv, OwnedAreTaken
  <2> QED BY Zenon, <1>1, <1>3, <1>4, <1>5, <2>2, <2>3 DEF Identity
<1>6. CASE Blank(t, p)
  BY <1>1, <1>2, <1>3, <1>4, <1>6 DEF Blank, Desc
<1>7. CASE Private(t, p)
  BY Zenon, <1>3, <1>4, <1>7 DEF Private, Unowned
<1> QED BY Zenon, <1>5, <1>6, <1>7 DEF MemInv, OpenedPages

\* The tables stay apart, and frames that are taken stay taken.
LEMMA TablesStay ==
  ASSUME MemInv, MemTypeOK', NEW u \in Live, NEW N, NEW ps, NEW e,
         Remap(u, N, ps, e), Apart(u, N, ps, e)
  PROVE  /\ TablesApart'
         /\ \A f : f \notin freeFrames' /\ f \notin N /\ (Taken(f) \/ f \in freeFrames) => Taken(f)'
<1>1. Live' = Live /\ N \cap Reserved = {}
  BY ZenonT(40) DEF MemInv, MemTypeOK, Remap, Apart
<1>2. TablesApart'
  <2> SUFFICES ASSUME NEW t \in Live
               PROVE  /\ Tables(space[t])' \cap (freeFrames' \cup Reserved) = {}
                      /\ \A x \in Live \ {t} : Tables(space[t])' \cap Tables(space[x])' = {}
    BY Zenon, <1>1 DEF TablesApart
  <2>1. Tables(space[t])' = Tables(space[t]) \cup (IF t = u THEN N ELSE {})
    BY Zenon DEF Remap
  <2>2. Tables(space[t]) \cap (freeFrames \cup Reserved) = {}
    BY Zenon DEF MemInv, TablesApart
  <2>3. Tables(space[t]) \cap freeFrames' = {}
    BY Zenon, <2>2 DEF Apart, Taken
  <2>4. Tables(space[t])' \cap (freeFrames' \cup Reserved) = {}
    BY Zenon, <1>1, <2>1, <2>2, <2>3 DEF Apart
  <2>5. ASSUME NEW x \in Live \ {t}
        PROVE  Tables(space[t])' \cap Tables(space[x])' = {}
    <3>1. Tables(space[x])' = Tables(space[x]) \cup (IF x = u THEN N ELSE {})
      BY Zenon DEF Remap
    <3>2. Tables(space[x]) \cap freeFrames = {} /\ Tables(space[t]) \cap Tables(space[x]) = {}
      BY Zenon DEF MemInv, TablesApart
    <3> QED BY <2>1, <2>2, <3>1, <3>2 DEF Apart
  <2> QED BY Zenon, <2>4, <2>5
<1>3. ASSUME NEW f, f \notin freeFrames', f \notin N, Taken(f) \/ f \in freeFrames
      PROVE  Taken(f)'
  <2>1. \A t \in Live : f \notin Tables(space[t])
    BY Zenon, <1>3 DEF Taken, MemInv, TablesApart
  <2>2. \A t \in Live : f \notin Tables(space[t])'
    BY Zenon, <1>3, <2>1 DEF Remap
  <2> QED BY Zenon, <1>1, <1>3, <2>2 DEF Taken
<1> QED BY Zenon, <1>2, <1>3

\* A page the step is not about stays open in the way it was, and keeps its value.
LEMMA PagesStay ==
  ASSUME MemInv, MemTypeOK', NEW u \in Live, NEW N, NEW ps, NEW e,
         Remap(u, N, ps, e), Apart(u, N, ps, e),
         NEW t \in Live, NEW p \in Pages, ~ (t = u /\ p \in ps)
  PROVE  /\ At(t, p)' = At(t, p) /\ (Opened(t, p)' <=> Opened(t, p))
         /\ Identity(t, p) => Identity(t, p)'
         /\ Blank(t, p) => Blank(t, p)'
         /\ Private(t, p) => Private(t, p)'
         /\ Opened(t, p) => content'[At(t, p).pa] = content[At(t, p).pa]
<1>1. Live' = Live /\ At(t, p)' = At(t, p)
  BY Zenon DEF Remap
<1>2. Opened(t, p)' <=> Opened(t, p)
  BY Zenon, <1>1 DEF Opened
<1>3. Identity(t, p) => Identity(t, p)'
  BY Zenon, <1>1 DEF Identity, Apart
<1>4. Blank(t, p) => Blank(t, p)'
  BY Zenon, <1>1 DEF Blank, Apart
<1>5. ASSUME Private(t, p) PROVE Private(t, p)'
  <2>1. Opened(t, p)
    BY Zenon, <1>5 DEF Private, Opened, UserKinds
  <2>2. PICK f \in Ram : f = At(t, p).pa /\ Unowned(f)
    BY Zenon, <1>5, <2>1, OpenedAreTaken DEF Private
  <2>3. f \notin freeFrames' /\ owner'[f] = Nobody /\ \A x \in MemTasks : << x, f >> \notin shares'
    BY Zenon, <2>2 DEF Apart
  <2>4. f \notin N
    BY Zenon, <2>2 DEF Apart, Unowned, Taken
  <2>5. Taken(f)'
    BY Zenon, <2>2, <2>3, <2>4, TablesStay DEF Unowned
  <2>6. Unowned(f)'
    BY Zenon, <2>2, <2>3, <2>5 DEF Unowned
  <2>7. ASSUME NEW x \in Live, NEW q \in Pages, Opened(x, q)', At(x, q)'.pa = f
        PROVE  x = t /\ q = p
    <3>1. CASE x = u /\ q \in ps
      <4>1. At(x, q)' = e[q]
        BY Zenon, <3>1 DEF Remap
      <4> QED BY <2>2, <2>7, <3>1, <4>1 DEF Apart, Opened
    <3>2. CASE ~ (x = u /\ q \in ps)
      <4>1. At(x, q)' = At(x, q)
        BY Zenon, <3>2 DEF Remap
      <4> QED BY Zenon, <1>5, <2>2, <2>7, <4>1 DEF Private, Opened
    <3> QED BY Zenon, <3>1, <3>2
  <2>8. At(t, p)'.kind = "user" /\ p \in DOMAIN wrote'[t]
    BY Zenon, <1>1, <1>5 DEF Private, Apart
  <2> QED BY Zenon, <1>1, <2>2, <2>6, <2>7, <2>8 DEF Private
<1>6. Opened(t, p) => content'[At(t, p).pa] = content[At(t, p).pa]
  BY Zenon, OpenedAreTaken DEF Apart, Taken
<1> QED BY Zenon, <1>1, <1>2, <1>3, <1>4, <1>5, <1>6

\* What is left to show of a step: the pages it is about.
LEMMA InvFromParts ==
  ASSUME MemInv, MemTypeOK', NEW u \in Live, NEW N, NEW ps \in SUBSET Pages, NEW e,
         Remap(u, N, ps, e), Apart(u, N, ps, e), ZeroPage \notin freeFrames,
         OwnedAreTaken', RegionsAreKnown',
         \A p \in ps : Opened(u, p)' =>
           Identity(u, p)' \/ Blank(u, p)' \/ Private(u, p)',
         \A p \in ps : p \in DOMAIN wrote'[u] =>
           IF Opened(u, p)'
             THEN content'[At(u, p)'.pa] = wrote'[u][p] /\ (Blank(u, p)' \/ Private(u, p)')
             ELSE wrote'[u][p] = 0 /\ p \in Zone
  PROVE  MemInv'
<1>1. Live' = Live
  BY Zenon DEF Remap
<1>2. OpenedPages'
  <2> SUFFICES ASSUME NEW t \in Live, NEW p \in Pages, Opened(t, p)'
               PROVE  Identity(t, p)' \/ Blank(t, p)' \/ Private(t, p)'
    BY Zenon, <1>1 DEF OpenedPages
  <2>1. CASE t = u /\ p \in ps
    BY Zenon, <2>1
  <2>2. CASE ~ (t = u /\ p \in ps)
    BY Zenon, <2>2, PagesStay DEF MemInv, OpenedPages
  <2> QED BY Zenon, <2>1, <2>2
<1>3. WritesAreKept'
  <2>1. content'[ZeroPage] = 0
    BY Zenon, PageFacts DEF MemInv, WritesAreKept, Apart
  <2>2. ASSUME NEW t \in Live, NEW p \in DOMAIN wrote'[t]
        PROVE  IF Opened(t, p)'
                 THEN content'[At(t, p)'.pa] = wrote'[t][p] /\ (Blank(t, p)' \/ Private(t, p)')
                 ELSE wrote'[t][p] = 0 /\ p \in Zone
    <3>1. p \in Pages
      BY LiveSpaces DEF MemTypeOK, MemInv
    <3>2. CASE t = u /\ p \in ps
      BY Zenon, <3>2
    <3>3. CASE ~ (t = u /\ p \in ps)
      <4>1. p \in DOMAIN wrote[t] /\ wrote'[t][p] = wrote[t][p]
        BY Zenon, <3>1, <3>3 DEF Apart
      <4>2. IF Opened(t, p) THEN content[At(t, p).pa] = wrote[t][p] /\ (Blank(t, p) \/ Private(t, p))
            ELSE wrote[t][p] = 0 /\ p \in Zone
        BY Zenon, <4>1 DEF MemInv, WritesAreKept
      <4>3. /\ At(t, p)' = At(t, p) /\ (Opened(t, p)' <=> Opened(t, p))
            /\ Blank(t, p) => Blank(t, p)'
            /\ Private(t, p) => Private(t, p)'
            /\ Opened(t, p) => content'[At(t, p).pa] = content[At(t, p).pa]
        BY <3>1, <3>3, PagesStay
      <4> QED BY Zenon, <4>1, <4>2, <4>3
    <3> QED BY Zenon, <3>2, <3>3
  <2> QED BY Zenon, <1>1, <2>1, <2>2 DEF WritesAreKept
<1> QED BY Zenon, <1>2, <1>3, TablesStay DEF MemInv
-----------------------------------------------------------------------------
(* The steps. *)

\* A panic changes nothing that tasks see; the machine has stopped.
Frozen ==
  /\ panicked' = TRUE /\ UNCHANGED << freeFrames, space, content >>
  /\ \A t \in Live : /\ DOMAIN wrote'[t] \subseteq DOMAIN wrote[t]
                      /\ \A p \in DOMAIN wrote'[t] : wrote'[t][p] = wrote[t][p]

\* The kernel's frames and the zero page are never in the allocator.
LEMMA ReservedFacts ==
  ASSUME MemInv
  PROVE  /\ ZeroPage \in Reserved /\ ZeroPage \notin freeFrames
         /\ \A f \in Reserved : f \in Ram /\ f \notin freeFrames
         /\ \A f \in freeFrames : f \in Ram /\ f \notin Reserved /\ ~ Taken(f) /\ ~ Unowned(f)
         /\ \A f \in freeFrames : owner[f] = Nobody /\ \A t \in MemTasks : << t, f >> \notin shares
         /\ \A f \in Ram : owner[f] # Nobody => Taken(f) /\ f \notin Reserved
         /\ \A t \in MemTasks, f \in Ram : << t, f >> \in shares => Taken(f) /\ f \notin Reserved
         /\ \A t \in MemTasks : t # Nobody
<1>1. /\ \A f \in Ram : owner[f] # Nobody => Taken(f) /\ f \notin Reserved
      /\ \A t \in MemTasks, f \in Ram : << t, f >> \in shares => Taken(f) /\ f \notin Reserved
  BY Zenon DEF MemInv, OwnedAreTaken
<1>2. \A f \in freeFrames : ~ Taken(f)
  BY Zenon DEF Taken
<1>3. \A f \in freeFrames : f \in Ram /\ f \notin Reserved
  BY Zenon DEF MemInv, MemTypeOK
<1> QED BY Zenon, <1>1, <1>2, <1>3, MemAssumption DEF MemAssumption, Unowned

\* One page changes, and the machine is in order afterwards.
LEMMA InvFromPage ==
  ASSUME MemInv, MemTypeOK', NEW u \in Live, NEW N, NEW p \in Pages, NEW e,
         Remap(u, N, {p}, e), Apart(u, N, {p}, e), OwnedAreTaken', RegionsAreKnown',
         Identity(u, p)' \/ Blank(u, p)' \/ Private(u, p)',
         p \in DOMAIN wrote'[u] =>
           /\ Opened(u, p)' /\ content'[At(u, p)'.pa] = wrote'[u][p]
           /\ Blank(u, p)' \/ Private(u, p)'
  PROVE  MemInv'
<1>1. {p} \in SUBSET Pages /\ ZeroPage \notin freeFrames
  BY Zenon, ReservedFacts
<1>2. \A q \in {p} : Identity(u, q)' \/ Blank(u, q)' \/ Private(u, q)'
  BY Zenon
<1>3. \A q \in {p} : q \in DOMAIN wrote'[u] =>
        /\ Opened(u, q)' /\ content'[At(u, q)'.pa] = wrote'[u][q]
        /\ Blank(u, q)' \/ Private(u, q)'
  BY Zenon
<1> QED BY ZenonT(40), <1>1, <1>2, <1>3, InvFromParts

\* A page's mark is dropped.
LEMMA Forgotten ==
  ASSUME MemTypeOK, NEW t \in MemTasks, NEW ps, Forget(t, ps)
  PROVE  /\ wrote' \in [MemTasks -> UNION { [P -> Values \cup {0}] : P \in SUBSET (Pages \ Reserved) }]
         /\ \A u \in MemTasks \ {t} : wrote'[u] = wrote[u]
         /\ DOMAIN wrote'[t] = DOMAIN wrote[t] \ ps
         /\ \A p \in DOMAIN wrote'[t] : wrote'[t][p] = wrote[t][p]
<1> DEFINE W == UNION { [P -> Values \cup {0}] : P \in SUBSET (Pages \ Reserved) }
           w == [ p \in DOMAIN wrote[t] \ ps |-> wrote[t][p] ]
<1>1. wrote \in [MemTasks -> W] /\ wrote' = [wrote EXCEPT ![t] = w]
  BY Zenon DEF MemTypeOK, Forget
<1>2. PICK P \in SUBSET (Pages \ Reserved) : wrote[t] \in [P -> Values \cup {0}]
  BY <1>1
<1>3. DOMAIN wrote[t] = P
  BY Zenon, <1>2
<1>4. w \in [P \ ps -> Values \cup {0}] /\ P \ ps \in SUBSET (Pages \ Reserved)
  BY Zenon, <1>2, <1>3
<1>5. w \in W
  BY Zenon, <1>4
<1>6. DOMAIN w = DOMAIN wrote[t] \ ps /\ \A p \in DOMAIN w : w[p] = wrote[t][p]
  BY Zenon
<1> HIDE DEF W, w
<1>7. wrote' \in [MemTasks -> W] /\ wrote'[t] = w /\ \A u \in MemTasks \ {t} : wrote'[u] = wrote[u]
  BY Zenon, <1>1, <1>5
<1> QED BY Zenon, <1>6, <1>7 DEF W

\* Apply, with the frames X freed besides.
Applied(t, k, X) ==
  /\ panicked' = k.oom
  /\ IF k.oom THEN UNCHANGED << freeFrames, space, content >>
     ELSE /\ freeFrames' = k.free \cup X /\ content' = k.content
          /\ space' = [space EXCEPT ![t] = k.s]

Stopped == panicked' = TRUE /\ UNCHANGED << freeFrames, space, content >>

\* Pages ps of task t were mapped; tables were taken from fr.
MappedFrom(t, fr, ps, kind, X) ==
  /\ panicked' = FALSE /\ content' = content
  /\ space' \in [MemTasks -> Spaces \cup {NoSpace}]
  /\ \E N \in SUBSET fr : /\ freeFrames' = (fr \ N) \cup X
                         /\ Remap(t, N, ps, [ p \in ps |-> Desc(kind, p) ])

\* A step that calls map_user_pages panics, or remaps one task's pages.
LEMMA MapStep ==
  ASSUME MemInv, NEW t \in Live, NEW fr, fr \subseteq freeFrames, NEW ps, ps \subseteq Ram,
         NEW kind \in {"user", "cow", "el1"}, NEW X,
         Applied(t, map_user_pages(Work(fr, space[t]), ps, kind), X)
  PROVE  Stopped \/ MappedFrom(t, fr, ps, kind, X)
<1> DEFINE m == Work(fr, space[t])
           k == map_user_pages(m, ps, kind)
           e == [ p \in ps |-> Desc(kind, p) ]
<1>1. m \in Works /\ m.oom = FALSE /\ m.free = fr /\ m.s = space[t] /\ m.content = content
  BY Zenon, LiveSpaces DEF MemInv, MemTypeOK, Work, Works
<1> HIDE DEF m, k
<1>2. \/ k.oom = TRUE
      \/ /\ k \in Works /\ k.oom = FALSE /\ k.content = m.content /\ k.free \subseteq m.free
         /\ Remaps(m.s, k.s, m.free \ k.free, ps, e)
  BY ZenonT(40), <1>1, MapEffect DEF k
<1>0. Applied(t, k, X)
  BY Zenon DEF k, m
<1>3. CASE k.oom = TRUE
  BY Zenon, <1>0, <1>3 DEF Stopped, Applied
<1>4. CASE k.oom = FALSE
  <2>1. /\ content' = content /\ freeFrames' = k.free \cup X /\ space' = [space EXCEPT ![t] = k.s]
        /\ panicked' = FALSE /\ k.free \subseteq fr
        /\ Remaps(space[t], k.s, fr \ k.free, ps, e)
    BY Zenon, <1>0, <1>1, <1>2, <1>4 DEF Applied
  <2> HIDE DEF e
  <2>2. Remap(t, fr \ k.free, ps, e) /\ space' \in [MemTasks -> Spaces \cup {NoSpace}]
    BY Zenon, <2>1, RemapView DEF MemInv
  <2>3. fr \ k.free \in SUBSET fr /\ freeFrames' = (fr \ (fr \ k.free)) \cup X
    BY Zenon, <2>1
  <2> QED BY Zenon, <2>1, <2>2, <2>3 DEF e, MappedFrom
<1> QED BY Zenon, <1>2, <1>3, <1>4

\* The windows of a task are what they were.
LEMMA RegionsStay ==
  ASSUME MemInv, NEW u \in Live, NEW N, NEW ps, NEW e, Remap(u, N, ps, e),
         regions' = regions,
         \A t \in Live, p \in Zone : p \in DOMAIN wrote'[t] <=> p \in DOMAIN wrote[t]
  PROVE  RegionsAreKnown'
<1> SUFFICES ASSUME NEW t \in Live
             PROVE  /\ space'[t].l3[BlockOf(Stack[t][1])] # NoFrame
                    /\ \A k \in DOMAIN regions[t] :
                         Window(regions[t][k]) \subseteq
                           (IF regions[t][k].kind = "stack" THEN {Stack[t][1], Stack[t][2]}
                            ELSE (DOMAIN wrote'[t] \cap Zone) \cup Stray)
                    /\ \A p \in DOMAIN wrote'[t] \cap Zone : RegionsAt(t, p)' # {}
  BY ZenonT(40) DEF RegionsAreKnown, Remap, Window
<1>1. DOMAIN wrote'[t] \cap Zone = DOMAIN wrote[t] \cap Zone
  BY Zenon
<1>2. \A p : RegionsAt(t, p)' = RegionsAt(t, p)
  BY Zenon DEF RegionsAt, Window
<1>3. BlockOf(Stack[t][1]) \in Blocks
  BY Zenon, PageFacts, LiveSpaces, MemAssumption DEF MemInv, MemAssumption
<1> QED BY Zenon, <1>1, <1>2, <1>3 DEF MemInv, RegionsAreKnown, Remap

\* sys_alloc_frames maps a run of free frames, which the caller owns from then on.
LEMMA AllocStep ==
  ASSUME MemInv, NEW t \in MemTasks, NEW n, sys_alloc_frames(t, n)
  PROVE  Frozen \/ (panicked' = FALSE /\ MemInv')
<1>1. PICK run \in SUBSET freeFrames :
        /\ Apply(t, map_user_pages(Work(freeFrames \ run, space[t]), run, "user"))
        /\ owner' = [ f \in Ram |-> IF f \in run THEN t ELSE owner[f] ]
        /\ Forget(t, run)
  BY Zenon DEF sys_alloc_frames, Lowest, Runs
<1>2. t \in Live /\ regions' = regions /\ shares' = shares /\ run \subseteq Ram
  BY Zenon, ReservedFacts DEF sys_alloc_frames
<1> DEFINE e == [ p \in run |-> Desc("user", p) ]
<1>3. Stopped \/ MappedFrom(t, freeFrames \ run, run, "user", {})
  <2>1. Applied(t, map_user_pages(Work(freeFrames \ run, space[t]), run, "user"), {})
    BY Zenon, <1>1 DEF Apply, Applied
  <2> QED BY Zenon, <1>2, <2>1, MapStep
<1>4. /\ wrote' \in [MemTasks -> UNION { [P -> Values \cup {0}] : P \in SUBSET (Pages \ Reserved) }]
      /\ \A u \in MemTasks \ {t} : wrote'[u] = wrote[u]
      /\ DOMAIN wrote'[t] = DOMAIN wrote[t] \ run
      /\ \A p \in DOMAIN wrote'[t] : wrote'[t][p] = wrote[t][p]
  BY Zenon, <1>1, Forgotten DEF MemInv
<1>5. CASE Stopped
  BY Zenon, <1>4, <1>5, LiveSpaces DEF Frozen, Stopped, MemInv
<1>6. CASE MappedFrom(t, freeFrames \ run, run, "user", {})
  <2>1. PICK N \in SUBSET (freeFrames \ run) : freeFrames' = (freeFrames \ run) \ N /\ Remap(t, N, run, e)
    BY Zenon, <1>6 DEF MappedFrom
  <2>2. panicked' = FALSE /\ content' = content /\ space' \in [MemTasks -> Spaces \cup {NoSpace}]
    BY Zenon, <1>6 DEF MappedFrom
  <2>3. MemTypeOK'
    BY Zenon, <1>1, <1>2, <1>4, <2>1, <2>2 DEF MemInv, MemTypeOK
  <2>4. Apart(t, N, run, e)
    <3>1. N \subseteq freeFrames /\ N \cap freeFrames' = {} /\ \A f \in freeFrames' : f \in freeFrames
      BY Zenon, <2>1
    <3>2. \A f \in Ram : Unowned(f) =>
            f \notin freeFrames' /\ owner'[f] = Nobody /\ \A x \in MemTasks : << x, f >> \notin shares'
      BY Zenon, <1>1, <1>2, <2>1, ReservedFacts DEF Unowned
    <3>3. \A p \in run : e[p].kind \in UserKinds => ~ Unowned(e[p].pa)
      BY Zenon, ReservedFacts DEF Desc
    <3>4. \A x \in Live, p \in Pages : ~ (x = t /\ p \in run) =>
            /\ p \in Ram /\ owner[p] = x => owner'[p] = x
            /\ << x, p >> \in shares => << x, p >> \in shares'
            /\ p \in DOMAIN wrote'[x] <=> p \in DOMAIN wrote[x]
            /\ p \in DOMAIN wrote[x] => wrote'[x][p] = wrote[x][p]
      BY ZenonT(40), <1>1, <1>2, <1>4, LiveSpaces, ReservedFacts DEF MemInv
    <3> HIDE DEF e
    <3> QED BY Zenon, <2>2, <3>1, <3>2, <3>3, <3>4 DEF Apart
  <2> HIDE DEF e
  <2>5. \A f : f \notin freeFrames' /\ f \notin N /\ (Taken(f) \/ f \in freeFrames) => Taken(f)'
    BY Zenon, <1>2, <2>1, <2>3, <2>4, TablesStay
  <2>6. OwnedAreTaken'
    <3>1. ASSUME NEW f \in Ram, owner'[f] # Nobody PROVE Taken(f)' /\ f \notin Reserved
      <4>1. CASE f \in run
        BY Zenon, <2>1, <2>5, <4>1, ReservedFacts
      <4>2. CASE f \notin run
        <5>1. Taken(f) /\ f \notin Reserved
          BY Zenon, <1>1, <3>1, <4>2, ReservedFacts
        <5> QED BY Zenon, <2>1, <2>5, <5>1 DEF Taken
      <4> QED BY Zenon, <4>1, <4>2
    <3>2. ASSUME NEW x \in shares PROVE Taken(x[2])' /\ x[2] \notin Reserved
      BY Zenon, <2>1, <2>5, ReservedFacts DEF Taken, MemInv, MemTypeOK, OwnedAreTaken
    <3> QED BY Zenon, <1>2, <3>1, <3>2 DEF OwnedAreTaken
  <2>7. RegionsAreKnown'
    BY Zenon, <1>2, <1>4, <2>1, RegionsStay, LiveSpaces, PageFacts DEF MemInv
  <2>8. \A p \in run : Identity(t, p)' /\ p \notin DOMAIN wrote'[t]
    <3>1. TAKE p \in run
    <3>2. p \in Pages /\ p \in Ram
      BY Zenon, <1>2, PageFacts
    <3>3. At(t, p)' = Desc("user", p)
      BY Zenon, <1>2, <2>1, <3>2 DEF Remap, e
    <3>4. At(t, p)'.pa = p
      BY <3>3 DEF Desc
    <3>5. owner'[p] = t /\ p \notin DOMAIN wrote'[t]
      BY Zenon, <1>1, <1>4, <3>2
    <3> QED BY Zenon, <3>2, <3>4, <3>5 DEF Identity
  <2> QED BY Zenon, <1>2, <2>1, <2>2, <2>3, <2>4, <2>6, <2>7, <2>8, InvFromParts, PageFacts, ReservedFacts
<1> QED BY Zenon, <1>3, <1>5, <1>6

\* The same for one frame of RAM.
LEMMA MapOne ==
  ASSUME MemInv, NEW u \in Live, NEW f \in Ram, NEW kind \in {"user", "cow", "el1"}, NEW X,
         Applied(u, map_user_pages(Work(freeFrames, space[u]), {f}, kind), X)
  PROVE  Stopped \/ MappedFrom(u, freeFrames, {f}, kind, X)
<1>1. PICK fr, ps : fr = freeFrames /\ fr \subseteq freeFrames /\ ps = {f} /\ ps \subseteq Ram
  BY Zenon
<1>2. Applied(u, map_user_pages(Work(fr, space[u]), ps, kind), X)
  BY Zenon, <1>1
<1>3. Stopped \/ MappedFrom(u, fr, ps, kind, X)
  BY Zenon, <1>1, <1>2, MapStep
<1> QED BY Zenon, <1>1, <1>3

\* Steps that map one owned frame f into, or out of, the table of task u: of the
\* records only those about f change, and f is freed only when nobody keeps it.
LEMMA OwnedFrameStep ==
  ASSUME MemInv, NEW u \in Live, NEW f \in Ram, owner[f] # Nobody,
         NEW kind \in {"user", "cow", "el1"}, NEW X \in SUBSET {f},
         Stopped \/ MappedFrom(u, freeFrames, {f}, kind, X),
         regions' = regions, Forget(u, {f}),
         owner' \in [Ram -> MemTasks \cup {Nobody}], shares' \in SUBSET (MemTasks \X Ram),
         \A g \in Ram \ {f} : owner'[g] = owner[g],
         \A x \in MemTasks, g \in Ram \ {f} : << x, g >> \in shares' <=> << x, g >> \in shares,
         \A x \in Live \ {u} : owner[f] = x => owner'[f] = x,
         \A x \in Live \ {u} : << x, f >> \in shares => << x, f >> \in shares',
         kind # "el1" => << u, f >> \in shares',
         X = {} \/ (owner'[f] = Nobody /\ \A x \in MemTasks : << x, f >> \notin shares')
  PROVE  Frozen \/ (panicked' = FALSE /\ MemInv')
<1> DEFINE e == [ p \in {f} |-> Desc(kind, p) ]
<1>1. Taken(f) /\ f \notin Reserved /\ u \in MemTasks
  BY Zenon, ReservedFacts, LiveSpaces DEF MemInv
<1>3. /\ wrote' \in [MemTasks -> UNION { [P -> Values \cup {0}] : P \in SUBSET (Pages \ Reserved) }]
      /\ \A x \in MemTasks \ {u} : wrote'[x] = wrote[x]
      /\ DOMAIN wrote'[u] = DOMAIN wrote[u] \ {f}
      /\ \A p \in DOMAIN wrote'[u] : wrote'[u][p] = wrote[u][p]
  BY Zenon, <1>1, Forgotten DEF MemInv
<1>4. CASE Stopped
  BY Zenon, <1>3, <1>4, LiveSpaces DEF Frozen, Stopped, MemInv
<1>5. CASE MappedFrom(u, freeFrames, {f}, kind, X)
  <2>1. PICK N \in SUBSET freeFrames : freeFrames' = (freeFrames \ N) \cup X /\ Remap(u, N, {f}, e)
    BY Zenon, <1>5 DEF MappedFrom
  <2>2. panicked' = FALSE /\ content' = content /\ space' \in [MemTasks -> Spaces \cup {NoSpace}]
    BY Zenon, <1>5 DEF MappedFrom
  <2>3. MemTypeOK'
    BY Zenon, <1>1, <1>3, <2>1, <2>2 DEF MemInv, MemTypeOK
  <2>4. Apart(u, N, {f}, e)
    <3>1. /\ N \subseteq freeFrames /\ N \cap freeFrames' = {}
          /\ \A g \in freeFrames' : g \in freeFrames \/ Taken(g)
      BY ZenonT(40), <1>1, <2>1 DEF Taken
    <3>2. \A g \in Ram : Unowned(g) =>
            g \notin freeFrames' /\ owner'[g] = Nobody /\ \A x \in MemTasks : << x, g >> \notin shares'
      BY Zenon, <2>1 DEF Unowned, Taken
    <3>3. \A p \in {f} : e[p].kind \in UserKinds => ~ Unowned(e[p].pa)
      BY Zenon DEF Desc, Unowned
    <3>4. \A x \in Live, p \in Pages : ~ (x = u /\ p \in {f}) =>
            /\ p \in Ram /\ owner[p] = x => owner'[p] = x
            /\ << x, p >> \in shares => << x, p >> \in shares'
            /\ p \in DOMAIN wrote'[x] <=> p \in DOMAIN wrote[x]
            /\ p \in DOMAIN wrote[x] => wrote'[x][p] = wrote[x][p]
      <4> TAKE x \in Live, p \in Pages
      <4> HAVE ~ (x = u /\ p \in {f})
      <4>1. x \in MemTasks
        BY Zenon, LiveSpaces DEF MemInv
      <4>2. /\ p \in DOMAIN wrote'[x] <=> p \in DOMAIN wrote[x]
            /\ p \in DOMAIN wrote[x] => wrote'[x][p] = wrote[x][p]
        BY Zenon, <1>3, <4>1
      <4>3. << x, p >> \in shares => << x, p >> \in shares'
        BY Zenon, <4>1 DEF MemInv, MemTypeOK
      <4>4. p \in Ram => (owner[p] = x => owner'[p] = x)
        BY Zenon
      <4> QED BY Zenon, <4>2, <4>3, <4>4
    <3> HIDE DEF e
    <3> QED BY Zenon, <2>2, <3>1, <3>2, <3>3, <3>4 DEF Apart
  <2> HIDE DEF e
  <2>5. \A g : g \notin freeFrames' /\ g \notin N /\ (Taken(g) \/ g \in freeFrames) => Taken(g)'
    BY Zenon, <2>1, <2>3, <2>4, TablesStay
  <2>6. X = {} => Taken(f)'
    BY Zenon, <1>1, <2>1, <2>5 DEF Taken
  <2>7. OwnedAreTaken'
    <3>1. ASSUME NEW g \in Ram, owner'[g] # Nobody PROVE Taken(g)' /\ g \notin Reserved
      <4>1. CASE g = f
        BY Zenon, <1>1, <2>6, <3>1, <4>1
      <4>2. CASE g # f
        <5>1. Taken(g) /\ g \notin Reserved
          BY Zenon, <3>1, <4>2, ReservedFacts
        <5> QED BY Zenon, <2>1, <2>5, <4>2, <5>1 DEF Taken
      <4> QED BY Zenon, <4>1, <4>2
    <3>2. ASSUME NEW x \in MemTasks, NEW g \in Ram, << x, g >> \in shares'
          PROVE  Taken(g)' /\ g \notin Reserved
      <4>1. CASE g = f
        BY Zenon, <1>1, <2>6, <3>2, <4>1
      <4>2. CASE g # f
        <5>1. Taken(g) /\ g \notin Reserved
          BY Zenon, <3>2, <4>2, ReservedFacts
        <5> QED BY Zenon, <2>1, <2>5, <4>2, <5>1 DEF Taken
      <4> QED BY Zenon, <4>1, <4>2
    <3>3. \A y \in shares' : \E x \in MemTasks, g \in Ram : y = << x, g >>
      OBVIOUS
    <3> QED BY <3>1, <3>2, <3>3 DEF OwnedAreTaken
  <2>8. RegionsAreKnown'
    BY Zenon, <1>3, <2>1, RegionsStay, LiveSpaces, PageFacts DEF MemInv
  <2>9. \A p \in {f} : (Opened(u, p)' => Identity(u, p)') /\ p \notin DOMAIN wrote'[u]
    BY <1>3, <2>1, PageFacts DEF Identity, Opened, UserKinds, Remap, e, Desc
  <2> QED BY <2>1, <2>2, <2>3, <2>4, <2>7, <2>8, <2>9, InvFromParts, PageFacts, ReservedFacts
<1> QED BY Zenon, <1>4, <1>5

\* sys_free_frames closes the page first and frees the frame then.
LEMMA FreeStep ==
  ASSUME MemInv, NEW t \in MemTasks, NEW f \in Ram, sys_free_frames(t, f)
  PROVE  Frozen \/ (panicked' = FALSE /\ MemInv')
<1> DEFINE k == map_user_pages(Work(freeFrames, space[t]), {f}, "el1")
<1>1. /\ t \in Live /\ owner[f] = t /\ \A x \in MemTasks \ {t} : << x, f >> \notin shares
      /\ owner' = [owner EXCEPT ![f] = Nobody] /\ shares' = shares \ {<< t, f >>}
      /\ Forget(t, {f}) /\ regions' = regions
      /\ Apply(t, [k EXCEPT !.free = @ \cup {f}])
  BY Zenon DEF sys_free_frames
<1>2. Applied(t, k, {f})
  <2>1. k.oom = TRUE \/ (k.oom = FALSE /\ k \in Works)
    <3> DEFINE m == Work(freeFrames, space[t])
    <3>1. m \in Works /\ m.oom = FALSE
      BY Zenon, <1>1, LiveSpaces DEF MemInv, MemTypeOK, Work, Works
    <3>2. {f} \in SUBSET Ram
      BY Zenon
    <3> HIDE DEF m
    <3> QED BY Zenon, <3>1, <3>2, MapEffect DEF m
  <2>2. CASE k.oom = TRUE
    <3>1. [k EXCEPT !.free = @ \cup {f}].oom
      BY <2>2
    <3> QED BY Zenon, <1>1, <2>2, <3>1 DEF Apply, Applied
  <2>3. CASE k.oom = FALSE /\ k \in Works
    BY Zenon, <1>1, <2>3 DEF Apply, Applied, Works
  <2> QED BY Zenon, <2>1, <2>2, <2>3
<1> HIDE DEF k
<1>3. Stopped \/ MappedFrom(t, freeFrames, {f}, "el1", {f})
  BY Zenon, <1>1, <1>2, MapOne DEF k
<1>4. /\ owner' \in [Ram -> MemTasks \cup {Nobody}] /\ shares' \in SUBSET (MemTasks \X Ram)
      /\ \A g \in Ram \ {f} : owner'[g] = owner[g]
      /\ \A x \in MemTasks, g \in Ram \ {f} : << x, g >> \in shares' <=> << x, g >> \in shares
      /\ owner'[f] = Nobody /\ \A x \in MemTasks : << x, f >> \notin shares'
  BY Zenon, <1>1 DEF MemInv, MemTypeOK
<1>5. /\ \A x \in Live \ {t} : owner[f] = x => owner'[f] = x
      /\ \A x \in Live \ {t} : << x, f >> \in shares => << x, f >> \in shares'
      /\ owner[f] # Nobody
  BY Zenon, <1>1, LiveSpaces, MemAssumption DEF MemInv, MemAssumption
<1>6. {f} \in SUBSET {f}
  BY Zenon
<1> QED BY Zenon, <1>1, <1>3, <1>4, <1>5, <1>6, OwnedFrameStep

\* share_frames and map_cow open a page of the receiver, unshare_frames closes it.
LEMMA GrantStep ==
  ASSUME MemInv, NEW t \in MemTasks, NEW f \in Ram, NEW u \in MemTasks,
         NEW kind \in {"user", "cow"}, GrantFrame(t, f, u, kind)
  PROVE  Frozen \/ (panicked' = FALSE /\ MemInv')
<1> DEFINE k == map_user_pages(Work(freeFrames, space[u]), {f}, kind)
<1>1. /\ u \in Live /\ owner[f] = t
      /\ shares' = shares \cup {<< u, f >>} /\ owner' = owner
      /\ Forget(u, {f}) /\ regions' = regions /\ Apply(u, k)
  BY Zenon DEF GrantFrame
<1>2. Applied(u, k, {})
  BY Zenon, <1>1 DEF Apply, Applied
<1> HIDE DEF k
<1>3. Stopped \/ MappedFrom(u, freeFrames, {f}, kind, {})
  BY Zenon, <1>1, <1>2, MapOne DEF k
<1>4. /\ owner' \in [Ram -> MemTasks \cup {Nobody}] /\ shares' \in SUBSET (MemTasks \X Ram)
      /\ \A g \in Ram \ {f} : owner'[g] = owner[g]
      /\ \A x \in MemTasks, g \in Ram \ {f} : << x, g >> \in shares' <=> << x, g >> \in shares
      /\ << u, f >> \in shares'
  BY <1>1 DEF MemInv, MemTypeOK
<1>5. /\ \A x \in Live \ {u} : owner[f] = x => owner'[f] = x
      /\ \A x \in Live \ {u} : << x, f >> \in shares => << x, f >> \in shares'
      /\ owner[f] # Nobody
  BY Zenon, <1>1, LiveSpaces, MemAssumption DEF MemInv, MemAssumption
<1>6. PICK X \in SUBSET {f} : X = {}
  BY Zenon
<1>7. Stopped \/ MappedFrom(u, freeFrames, {f}, kind, X)
  BY Zenon, <1>3, <1>6
<1>8. CASE kind = "user"
  BY Zenon, <1>1, <1>4, <1>5, <1>6, <1>7, <1>8, OwnedFrameStep
<1>9. CASE kind = "cow"
  BY Zenon, <1>1, <1>4, <1>5, <1>6, <1>7, <1>9, OwnedFrameStep
<1> QED BY Zenon, <1>8, <1>9

LEMMA UnshareStep ==
  ASSUME MemInv, NEW t \in MemTasks, NEW f \in Ram, NEW u \in MemTasks,
         sys_unshare_frames(t, f, u)
  PROVE  Frozen \/ (panicked' = FALSE /\ MemInv')
<1> DEFINE k == map_user_pages(Work(freeFrames, space[u]), {f}, "el1")
<1>1. /\ u \in Live /\ owner[f] = t /\ u # t
      /\ shares' = shares \ {<< u, f >>} /\ owner' = owner
      /\ Forget(u, {f}) /\ regions' = regions /\ Apply(u, k)
  BY Zenon DEF sys_unshare_frames
<1>2. Applied(u, k, {})
  BY Zenon, <1>1 DEF Apply, Applied
<1> HIDE DEF k
<1>3. Stopped \/ MappedFrom(u, freeFrames, {f}, "el1", {})
  BY Zenon, <1>1, <1>2, MapOne DEF k
<1>4. /\ owner' \in [Ram -> MemTasks \cup {Nobody}] /\ shares' \in SUBSET (MemTasks \X Ram)
      /\ \A g \in Ram \ {f} : owner'[g] = owner[g]
      /\ \A x \in MemTasks, g \in Ram \ {f} : << x, g >> \in shares' <=> << x, g >> \in shares
  BY Zenon, <1>1 DEF MemInv, MemTypeOK
<1>5. /\ \A x \in Live \ {u} : owner[f] = x => owner'[f] = x
      /\ \A x \in Live \ {u} : << x, f >> \in shares => << x, f >> \in shares'
      /\ owner[f] # Nobody
  BY Zenon, <1>1, LiveSpaces, MemAssumption DEF MemInv, MemAssumption
<1>6. PICK X \in SUBSET {f} : X = {}
  BY Zenon
<1>7. Stopped \/ MappedFrom(u, freeFrames, {f}, "el1", X)
  BY Zenon, <1>3, <1>6
<1> QED BY Zenon, <1>1, <1>4, <1>5, <1>6, <1>7, OwnedFrameStep

\* One page p of task t shows d now; tables were taken from the allocator.
Shows(t, p, d) ==
  /\ panicked' = FALSE /\ content' = content
  /\ space' \in [MemTasks -> Spaces \cup {NoSpace}]
  /\ \E N \in SUBSET freeFrames :
       freeFrames' = freeFrames \ N /\ Remap(t, N, {p}, [ q \in {p} |-> d ])

\* A step that calls map_user_frame panics, or opens one page.
LEMMA MapFrameStep ==
  ASSUME MemInv, NEW t \in Live, NEW p \in Pages, NEW f \in Ram, NEW kind \in {"user", "cow"},
         p \in Ram => space[t].l3[BlockOf(p)] # NoFrame,
         Apply(t, map_user_frame(Work(freeFrames, space[t]), p, f, kind))
  PROVE  Stopped \/ Shows(t, p, Desc(kind, f))
<1> DEFINE m == Work(freeFrames, space[t])
           k == MapLow(m, p, f, kind)
           e == [ q \in {p} |-> Desc(kind, f) ]
<1>1. m \in Works /\ m.oom = FALSE /\ m.free = freeFrames /\ m.s = space[t] /\ m.content = content
  BY Zenon, LiveSpaces DEF MemInv, MemTypeOK, Work, Works
<1>0. Apply(t, k)
  BY Zenon, LowPages DEF map_user_frame
<1> HIDE DEF m, k
<1>2. \/ k.oom = TRUE
      \/ /\ k \in Works /\ k.oom = FALSE /\ k.content = m.content /\ k.free \subseteq m.free
         /\ Remaps(m.s, k.s, m.free \ k.free, {p}, e)
  BY ZenonT(40), <1>1, FrameEffect DEF k
<1>3. CASE k.oom = TRUE
  BY Zenon, <1>0, <1>3 DEF Stopped, Apply
<1>4. CASE k.oom = FALSE
  <2>1. /\ content' = content /\ freeFrames' = k.free /\ space' = [space EXCEPT ![t] = k.s]
        /\ panicked' = FALSE /\ k.free \subseteq freeFrames
        /\ Remaps(space[t], k.s, freeFrames \ k.free, {p}, e)
    BY Zenon, <1>0, <1>1, <1>2, <1>4 DEF Apply
  <2> HIDE DEF e
  <2>2. Remap(t, freeFrames \ k.free, {p}, e) /\ space' \in [MemTasks -> Spaces \cup {NoSpace}]
    BY Zenon, <2>1, RemapView DEF MemInv
  <2>3. freeFrames \ k.free \in SUBSET freeFrames /\ freeFrames' = freeFrames \ (freeFrames \ k.free)
    BY Zenon, <2>1
  <2> QED BY Zenon, <2>1, <2>2, <2>3 DEF e, Shows
<1> QED BY Zenon, <1>2, <1>3, <1>4

\* The resolver opens a page of the stack, or shows the zero page in a demand window.
LEMMA GrowStep ==
  ASSUME MemInv, NEW t \in Live, NEW p \in Vas, ~ Allowed(t, p), ~ IsCow(t, p),
         RegionsAt(t, p) # {}, ~ Strays(t, p), Apply(t, Grow(t, p)), UNCHANGED << regions, owner, shares, wrote >>
  PROVE  Frozen \/ (panicked' = FALSE /\ MemInv')
<1>1. PICK d \in {Desc("user", p), Desc("cow", ZeroPage)} :
        /\ Stopped \/ Shows(t, p, d)
        /\ p \in Pages /\ (d = Desc("user", p) => p \in Reserved)
        /\ d = Desc("cow", ZeroPage) => p \in DOMAIN wrote[t] /\ p \in Zone
  <2> DEFINE c == CHOOSE k \in RegionsAt(t, p) : TRUE
             r == regions[t][c]
  <2>1. c \in RegionsAt(t, p)
    BY Zenon
  <2> HIDE DEF c
  <2>2. c \in DOMAIN regions[t] /\ p \in Window(r)
    BY Zenon, <2>1 DEF RegionsAt
  <2>3. p \in (IF r.kind = "stack" THEN {Stack[t][1], Stack[t][2]} ELSE (DOMAIN wrote[t] \cap Zone) \cup Stray)
    BY Zenon, <2>2 DEF MemInv, RegionsAreKnown
  <2>7. (r.kind = "stack" \/ r.kind = "demand") /\ (r.kind = "demand" => p \notin Stray)
    <3>1. regions[t] \in Seq(Regions)
      BY Zenon, LiveSpaces DEF MemInv, MemTypeOK
    <3>2. r \in Regions
      BY <2>2, <3>1
    <3>3. r.kind = "stack" \/ r.kind = "demand"
      BY Zenon, <3>2 DEF Regions
    <3> QED BY Zenon, <3>3 DEF Strays, RegionAt, c
  <2>4. Grow(t, p) = IF r.kind = "stack"
                       THEN map_user_frame(Work(freeFrames, space[t]), p, p, "user")
                       ELSE map_user_frame(Work(freeFrames, space[t]), p, ZeroPage, "cow")
    BY Zenon DEF Grow, RegionAt, c
  <2> HIDE DEF r
  <2>5. CASE r.kind = "stack"
    <3>1. p \in Reserved /\ p \in Ram /\ space[t].l3[BlockOf(p)] # NoFrame
      BY <2>3, <2>5, LiveSpaces, MemAssumption DEF MemInv, RegionsAreKnown, MemAssumption
    <3>2. Apply(t, map_user_frame(Work(freeFrames, space[t]), p, p, "user"))
      BY Zenon, <2>4, <2>5
    <3>4. p \in Pages
      BY Zenon, <3>1, PageFacts
    <3>3. Stopped \/ Shows(t, p, Desc("user", p))
      BY Zenon, <3>1, <3>2, <3>4, MapFrameStep
    <3> QED BY Zenon, <3>1, <3>3, <3>4 DEF Desc
  <2>6. CASE r.kind # "stack"
    <3>1. p \in DOMAIN wrote[t] /\ p \in Zone /\ p \notin Ram /\ ZeroPage \in Ram /\ p \in Pages
      BY Zenon, <2>3, <2>6, <2>7, PageFacts
    <3>2. Apply(t, map_user_frame(Work(freeFrames, space[t]), p, ZeroPage, "cow"))
      BY Zenon, <2>4, <2>6
    <3>3. Stopped \/ Shows(t, p, Desc("cow", ZeroPage))
      BY Zenon, <3>1, <3>2, MapFrameStep
    <3> QED BY Zenon, <3>1, <3>3 DEF Desc
  <2> QED BY Zenon, <2>5, <2>6
<1>2. CASE Stopped
  BY Zenon, <1>2 DEF Frozen, Stopped
<1>3. CASE Shows(t, p, d)
  <2> DEFINE e == [ q \in {p} |-> d ]
  <2>1. PICK N \in SUBSET freeFrames : freeFrames' = freeFrames \ N /\ Remap(t, N, {p}, e)
    BY Zenon, <1>3 DEF Shows
  <2>2. panicked' = FALSE /\ content' = content /\ space' \in [MemTasks -> Spaces \cup {NoSpace}]
    BY Zenon, <1>3 DEF Shows
  <2>3. MemTypeOK'
    BY Zenon, <2>1, <2>2 DEF MemInv, MemTypeOK
  <2>4. Apart(t, N, {p}, e)
    <3>1. /\ N \subseteq freeFrames /\ N \cap freeFrames' = {}
          /\ \A g \in freeFrames' : g \in freeFrames
      BY Zenon, <2>1
    <3>2. \A g \in Ram : Unowned(g) =>
            g \notin freeFrames' /\ owner'[g] = Nobody /\ \A x \in MemTasks : << x, g >> \notin shares'
      BY Zenon, <2>1 DEF Unowned, Taken
    <3>3. \A q \in {p} : ~ Unowned(e[q].pa)
      BY <1>1, ReservedFacts DEF Desc, Unowned
    <3> HIDE DEF e
    <3> QED BY Zenon, <2>2, <3>1, <3>2, <3>3 DEF Apart
  <2> HIDE DEF e
  <2>5. \A g : g \notin freeFrames' /\ g \notin N /\ (Taken(g) \/ g \in freeFrames) => Taken(g)'
    BY Zenon, <2>1, <2>3, <2>4, TablesStay
  <2>6. OwnedAreTaken'
    <3>1. ASSUME NEW g, Taken(g) PROVE Taken(g)'
      BY Zenon, <2>1, <2>5, <3>1 DEF Taken
    <3> QED BY Zenon, <3>1 DEF MemInv, OwnedAreTaken
  <2>7. RegionsAreKnown'
    BY Zenon, <2>1, RegionsStay
  <2>8. At(t, p)' = d
    BY Zenon, <1>1, <2>1 DEF Remap, e
  <2>9. ~ Opened(t, p)
    <3>1. p < VA_PAGES /\ Low(p) = p
      BY Zenon, <1>1, LowPages
    <3>2. At(t, p).kind # "user"
      BY Zenon, <3>1 DEF Allowed, At
    <3>3. At(t, p).kind # "cow"
      <4>1. read_user_page(space[t], p).kind # "cow"
        BY Zenon, <3>1 DEF IsCow
      <4>2. space[t].l3[BlockOf(p)] # NoFrame => read_user_page(space[t], p) = At(t, p)
        BY Zenon, <3>1 DEF read_user_page, At, Walk
      <4>3. space[t].l3[BlockOf(p)] = NoFrame => At(t, p) \in {Desc("el1", p), None}
        BY Zenon DEF At, Walk
      <4> QED BY <4>1, <4>2, <4>3 DEF Desc, None
    <3> QED BY Zenon, <3>2, <3>3 DEF Opened, UserKinds
  <2>10. CASE d = Desc("user", p)
    <3>1. Identity(t, p)' /\ p \notin DOMAIN wrote'[t]
      BY SMTT(30), <1>1, <2>8, <2>10, LiveSpaces, ReservedFacts DEF Identity, Desc, MemInv, MemTypeOK
    <3> QED BY ZenonT(40), <1>1, <2>1, <2>2, <2>3, <2>4, <2>6, <2>7, <3>1, InvFromPage
  <2>11. CASE d = Desc("cow", ZeroPage)
    <3>1. Blank(t, p)'
      BY Zenon, <1>1, <2>8, <2>11 DEF Blank
    <3>2. wrote[t][p] = 0 /\ content[ZeroPage] = 0 /\ At(t, p)'.pa = ZeroPage /\ Opened(t, p)'
      BY <1>1, <2>8, <2>9, <2>11 DEF MemInv, WritesAreKept, Desc, Opened, UserKinds
    <3>3. content'[At(t, p)'.pa] = wrote'[t][p]
      BY Zenon, <2>2, <3>2
    <3> QED BY ZenonT(40), <1>1, <2>1, <2>2, <2>3, <2>4, <2>6, <2>7, <3>1, <3>2, <3>3, InvFromPage
  <2> QED BY Zenon, <2>10, <2>11
<1> QED BY Zenon, <1>1, <1>2, <1>3

\* Pages Q get the mark v.
LEMMA Marked ==
  ASSUME MemTypeOK, NEW t \in MemTasks, NEW Q \in SUBSET (Pages \ Reserved),
         NEW v \in Values \cup {0}, Remember(t, Q, v)
  PROVE  /\ wrote' \in [MemTasks -> UNION { [P -> Values \cup {0}] : P \in SUBSET (Pages \ Reserved) }]
         /\ \A u \in MemTasks \ {t} : wrote'[u] = wrote[u]
         /\ DOMAIN wrote'[t] = Q \cup DOMAIN wrote[t]
         /\ \A p \in Q : wrote'[t][p] = v
         /\ \A p \in DOMAIN wrote[t] \ Q : wrote'[t][p] = wrote[t][p]
<1> DEFINE W == UNION { [P -> Values \cup {0}] : P \in SUBSET (Pages \ Reserved) }
           w == [ p \in DOMAIN wrote[t] \cup Q |-> IF p \in Q THEN v ELSE wrote[t][p] ]
<1>1. wrote \in [MemTasks -> W] /\ wrote' = [wrote EXCEPT ![t] = w]
  BY Zenon DEF MemTypeOK, Remember
<1>2. PICK P \in SUBSET (Pages \ Reserved) : wrote[t] \in [P -> Values \cup {0}]
  BY <1>1
<1>3. DOMAIN wrote[t] = P
  BY Zenon, <1>2
<1>5. w \in [Q \cup P -> Values \cup {0}] /\ Q \cup P \in SUBSET (Pages \ Reserved)
  BY Zenon, <1>2, <1>3
<1>6. w \in W
  BY Zenon, <1>5
<1>7. /\ DOMAIN w = Q \cup DOMAIN wrote[t] /\ \A p \in Q : w[p] = v
      /\ \A p \in DOMAIN wrote[t] \ Q : w[p] = wrote[t][p]
  BY Zenon
<1> HIDE DEF W, w
<1>8. wrote' \in [MemTasks -> W] /\ wrote'[t] = w /\ \A u \in MemTasks \ {t} : wrote'[u] = wrote[u]
  BY ZenonT(40), <1>1, <1>6
<1> QED BY Zenon, <1>7, <1>8 DEF W

\* cow_split gives the page a frame of its own with the contents it showed.
LEMMA CowStep ==
  ASSUME MemInv, NEW t \in Live, NEW p \in Pages, IsCow(t, p),
         NEW f \in freeFrames, Apply(t, cow_split(t, p, f)), UNCHANGED << regions, owner, shares >>,
         Remember(t, {p}, content[space[t].pte[p].pa])
  PROVE  panicked' = FALSE /\ MemInv'
<1>1. /\ t \in MemTasks /\ space[t] \in Spaces /\ f \in Ram /\ f \notin Reserved
      /\ space[t].l3[BlockOf(p)] # NoFrame /\ At(t, p) = space[t].pte[p] /\ At(t, p).kind = "cow"
  BY Zenon, LiveSpaces, ReservedFacts, LowPages DEF MemInv, IsCow, read_user_page, At, Walk, None
<1>2. Opened(t, p)
  BY Zenon, <1>1 DEF Opened, UserKinds
<1>3. PICK old \in Ram : old = space[t].pte[p].pa
  BY Zenon, <1>1, <1>2, OpenedAreTaken
<1>4. PICK v \in Values \cup {0} : v = content[old]
  BY Zenon, <1>3 DEF MemInv, MemTypeOK
<1>5. p \notin Reserved /\ (p \in Zone => p \in DOMAIN wrote[t])
  <2>1. CASE Identity(t, p)
    BY Zenon, <1>1, <2>1, LiveSpaces, ReservedFacts, PageFacts DEF Identity, MemInv
  <2>2. CASE Blank(t, p)
    BY <1>1, <2>2 DEF Blank, MemInv, MemTypeOK
  <2> QED BY Zenon, <1>1, <1>2, <2>1, <2>2 DEF MemInv, OpenedPages, Private
<1> DEFINE c == [content EXCEPT ![f] = v]
           m == [free |-> freeFrames \ {f}, s |-> space[t], oom |-> FALSE, content |-> c]
           e == [ q \in {p} |-> Desc("user", f) ]
           k == Entered(m, {p}, e)
<1>6. c \in [Ram -> Values \cup {0}]
  BY Zenon, <1>4 DEF MemInv, MemTypeOK
<1>7. cow_split(t, p, f) = k
  BY Zenon, <1>3, <1>4 DEF cow_split
<1>8. m \in Works /\ m.oom = FALSE /\ m.s = space[t] /\ m.free = freeFrames \ {f} /\ m.content = c
  <2> HIDE DEF c
  <2> QED BY Zenon, <1>1, <1>6 DEF Works, MemInv, MemTypeOK
<1>9. e \in [{p} -> Descs] /\ {p} \in SUBSET Pages
  BY Zenon, <1>1 DEF Descs, Desc
<1> HIDE DEF m, e, c
<1>10. /\ k \in Works /\ k.content = m.content /\ k.oom = FALSE /\ k.free = m.free
       /\ Remaps(m.s, k.s, {}, {p}, e)
  BY Zenon, <1>1, <1>8, <1>9, EnteredEffect
<1> HIDE DEF k
<1>11. /\ panicked' = FALSE /\ freeFrames' = freeFrames \ {f} /\ content' = c
       /\ space' = [space EXCEPT ![t] = k.s]
  BY Zenon, <1>7, <1>8, <1>10 DEF Apply
<1>12. Remap(t, {}, {p}, e) /\ space' \in [MemTasks -> Spaces \cup {NoSpace}]
  BY Zenon, <1>8, <1>10, <1>11, RemapView DEF MemInv
<1>13. /\ wrote' \in [MemTasks -> UNION { [P -> Values \cup {0}] : P \in SUBSET (Pages \ Reserved) }]
       /\ \A u \in MemTasks \ {t} : wrote'[u] = wrote[u]
       /\ DOMAIN wrote'[t] = {p} \cup DOMAIN wrote[t]
       /\ wrote'[t][p] = v
       /\ \A q \in DOMAIN wrote[t] \ {p} : wrote'[t][q] = wrote[t][q]
  <2>1. PICK Q \in SUBSET (Pages \ Reserved) : Q = {p}
    BY Zenon, <1>5
  <2>2. Remember(t, Q, v)
    BY Zenon, <1>3, <1>4, <2>1
  <2>3. /\ wrote' \in [MemTasks -> UNION { [P -> Values \cup {0}] : P \in SUBSET (Pages \ Reserved) }]
        /\ \A u \in MemTasks \ {t} : wrote'[u] = wrote[u]
        /\ DOMAIN wrote'[t] = Q \cup DOMAIN wrote[t]
        /\ \A q \in Q : wrote'[t][q] = v
        /\ \A q \in DOMAIN wrote[t] \ Q : wrote'[t][q] = wrote[t][q]
    BY Zenon, <1>1, <2>2, Marked DEF MemInv
  <2> QED BY Zenon, <2>1, <2>3
<1>14. MemTypeOK'
  BY Zenon, <1>6, <1>11, <1>12, <1>13 DEF MemInv, MemTypeOK
<1>15. \A g \in Ram : g = f \/ content'[g] = content[g]
  BY Zenon, <1>11 DEF c, MemInv, MemTypeOK
<1>16. content'[f] = v
  BY Zenon, <1>1, <1>11 DEF c, MemInv, MemTypeOK
<1>17. Apart(t, {}, {p}, e)
  <2>1. \A g \in Ram : Unowned(g) =>
          g \notin freeFrames' /\ owner'[g] = Nobody /\ \A x \in MemTasks : << x, g >> \notin shares'
    BY Zenon, <1>11 DEF Unowned, Taken
  <2>2. \A q \in {p} : ~ Unowned(e[q].pa)
    BY Zenon, ReservedFacts DEF Desc, e
  <2>3. \A x \in Live, q \in Pages : ~ (x = t /\ q \in {p}) =>
          /\ q \in DOMAIN wrote'[x] <=> q \in DOMAIN wrote[x]
          /\ q \in DOMAIN wrote[x] => wrote'[x][q] = wrote[x][q]
    BY ZenonT(40), <1>13, LiveSpaces DEF MemInv
  <2> QED BY ZenonT(40), <1>11, <1>15, <2>1, <2>2, <2>3 DEF Apart
<1>18. \A g : g \notin freeFrames' /\ g \notin {} /\ (Taken(g) \/ g \in freeFrames) => Taken(g)'
  BY <1>12, <1>14, <1>17, TablesStay
<1>19. OwnedAreTaken'
  <2>1. ASSUME NEW g, Taken(g) PROVE Taken(g)'
    BY Zenon, <1>11, <1>18, <2>1 DEF Taken
  <2> QED BY Zenon, <2>1 DEF MemInv, OwnedAreTaken
<1>20. RegionsAreKnown'
  <2>1. \A x \in Live, q \in Zone : q \in DOMAIN wrote'[x] <=> q \in DOMAIN wrote[x]
    BY Zenon, <1>5, <1>13, LiveSpaces DEF MemInv
  <2> QED BY Zenon, <1>12, <2>1, RegionsStay
<1>21. At(t, p)' = Desc("user", f)
  BY Zenon, <1>12 DEF Remap, e
<1>22. Unowned(f)'
  BY Zenon, <1>1, <1>11, <1>18, ReservedFacts DEF Unowned
<1>23. ASSUME NEW x \in Live, NEW q \in Pages, Opened(x, q)', At(x, q)'.pa = f
       PROVE  x = t /\ q = p
  <2>1. CASE ~ (x = t /\ q \in {p})
    <3>1. At(x, q)' = At(x, q)
      BY ZenonT(40), <1>12, <2>1 DEF Remap
    <3> QED BY Zenon, <1>23, <3>1, OpenedAreTaken DEF Opened, Taken
  <2> QED BY Zenon, <2>1
<1>24. /\ At(t, p)'.kind = "user" /\ At(t, p)'.pa = f /\ Opened(t, p)' /\ p \in DOMAIN wrote'[t]
       /\ Live' = Live
  BY <1>12, <1>13, <1>21 DEF Desc, Opened, UserKinds, Remap
<1>25. Private(t, p)'
  BY Zenon, <1>22, <1>23, <1>24 DEF Private
<1>26. content'[At(t, p)'.pa] = wrote'[t][p]
  BY Zenon, <1>13, <1>16, <1>24
<1> QED BY ZenonT(40), <1>11, <1>12, <1>14, <1>17, <1>19, <1>20, <1>24, <1>25, <1>26, InvFromPage

\* sys_map_demand records a window, whose pages in the zone read as zero.
LEMMA DemandStep ==
  ASSUME MemInv, NEW t \in MemTasks, NEW p \in Vas, NEW n \in Nat, p .. p + n - 1 \subseteq Vas,
         sys_map_demand(t, p, n)
  PROVE  MemInv'
<1> DEFINE V == p .. p + n - 1
           Q == V \cap Zone
           r == [kind |-> "demand", base |-> p, pages |-> n]
<1>1. /\ t \in Live /\ p >= ZONE_BASE /\ V \subseteq Vas
      /\ \A k \in DOMAIN regions[t] : Window(regions[t][k]) \cap V = {}
      /\ regions' = [regions EXCEPT ![t] = Append(@, r)]
      /\ Remember(t, Q, 0)
      /\ UNCHANGED << freeFrames, space, content, owner, shares >>
  BY Zenon DEF sys_map_demand, Declare
<1>2. Q \subseteq Zone /\ Q \subseteq V /\ V \subseteq Q \cup Stray
  <2>1. ASSUME NEW x \in V PROVE x >= ZONE_BASE
    BY <1>1, LowPages, MemAssumption DEF MemAssumption
  <2> QED BY Zenon, <1>1, <2>1 DEF Stray
<1>3. Q \in SUBSET (Pages \ Reserved)
  BY Zenon, <1>2, PageFacts, ReservedFacts
<1>4. r \in Regions /\ Window(r) = V
  BY Zenon, LowPages DEF Regions, Window
<1>5. regions[t] \in Seq(Regions)
  BY Zenon DEF MemInv, MemTypeOK
<1> HIDE DEF V, Q, r
<1>6. /\ wrote' \in [MemTasks -> UNION { [P -> Values \cup {0}] : P \in SUBSET (Pages \ Reserved) }]
      /\ \A u \in MemTasks \ {t} : wrote'[u] = wrote[u]
      /\ DOMAIN wrote'[t] = Q \cup DOMAIN wrote[t]
      /\ \A q \in Q : wrote'[t][q] = 0
      /\ \A q \in DOMAIN wrote[t] \ Q : wrote'[t][q] = wrote[t][q]
  <2>1. PICK v \in Values \cup {0} : v = 0
    BY Zenon
  <2>2. Remember(t, Q, v)
    BY Zenon, <1>1, <2>1
  <2> QED BY Zenon, <1>3, <2>1, <2>2, Marked DEF MemInv
<1>7. /\ regions' \in [MemTasks -> Seq(Regions)]
      /\ \A u \in MemTasks \ {t} : regions'[u] = regions[u]
      /\ regions'[t] = Append(regions[t], r)
  BY <1>1, <1>4 DEF MemInv, MemTypeOK
<1>8. MemTypeOK'
  BY Zenon, <1>1, <1>6, <1>7 DEF MemInv, MemTypeOK
<1>9. /\ Live' = Live /\ \A x, q : At(x, q)' = At(x, q) /\ (Opened(x, q)' <=> Opened(x, q))
      /\ \A x : Tables(space[x])' = Tables(space[x])
      /\ \A f : (Taken(f)' <=> Taken(f)) /\ (Unowned(f)' <=> Unowned(f))
  <2>1. Live' = Live /\ \A x, q : At(x, q)' = At(x, q)
    BY Zenon, <1>1 DEF Live, At, Walk
  <2>2. \A x, q : Opened(x, q)' <=> Opened(x, q)
    BY Zenon, <2>1 DEF Opened
  <2>3. \A x : Tables(space[x])' = Tables(space[x])
    BY Zenon, <1>1 DEF Tables
  <2>4. \A f : Taken(f)' <=> Taken(f)
    BY Zenon, <1>1, <2>1, <2>3 DEF Taken
  <2>5. \A f : Unowned(f)' <=> Unowned(f)
    BY Zenon, <1>1, <2>4 DEF Unowned
  <2> QED BY Zenon, <2>1, <2>2, <2>3, <2>4, <2>5
<1>10. TablesApart' /\ OwnedAreTaken'
  BY Zenon, <1>1, <1>9 DEF MemInv, TablesApart, OwnedAreTaken
<1>11. ASSUME NEW q \in Q PROVE ~ Opened(t, q) /\ q \notin DOMAIN wrote[t]
  <2>1. q \notin DOMAIN wrote[t]
    <3>1. RegionsAt(t, q) = {}
      BY Zenon, <1>1, <1>2 DEF RegionsAt
    <3> QED BY Zenon, <1>1, <1>2, <3>1 DEF MemInv, RegionsAreKnown
  <2>2. q \in Pages /\ q \notin Ram
    BY Zenon, <1>1, <1>2, PageFacts
  <2> QED BY Zenon, <1>1, <2>1, <2>2 DEF MemInv, OpenedPages, Identity, Blank, Private
<1>12. \A x \in Live, q \in Pages :
         /\ Identity(x, q) => Identity(x, q)'
         /\ Blank(x, q) => Blank(x, q)'
         /\ Private(x, q) => Private(x, q)'
  <2> TAKE x \in Live, q \in Pages
  <2>1. q \in DOMAIN wrote[x] => q \in DOMAIN wrote'[x]
    BY Zenon, <1>6, LiveSpaces DEF MemInv
  <2>2. Identity(x, q) => Identity(x, q)'
    BY Zenon, <1>1, <1>9 DEF Identity
  <2>3. Blank(x, q) => Blank(x, q)'
    BY Zenon, <1>9, <2>1 DEF Blank
  <2>4. PICK f : f = At(x, q).pa
    BY Zenon
  <2>5. Private(x, q) => Private(x, q)'
    BY Zenon, <1>9, <2>1, <2>4 DEF Private
  <2> QED BY Zenon, <2>2, <2>3, <2>5
<1>13. OpenedPages'
  BY Zenon, <1>9, <1>12 DEF MemInv, OpenedPages
<1>14. WritesAreKept'
  <2> SUFFICES ASSUME NEW x \in Live, NEW q \in DOMAIN wrote'[x]
               PROVE  IF Opened(x, q)
                        THEN content[At(x, q).pa] = wrote'[x][q] /\ (Blank(x, q)' \/ Private(x, q)')
                        ELSE wrote'[x][q] = 0 /\ q \in Zone
    BY Zenon, <1>1, <1>9 DEF MemInv, WritesAreKept
  <2>1. CASE x = t /\ q \in Q
    BY Zenon, <1>2, <1>6, <1>11, <2>1
  <2>2. CASE ~ (x = t /\ q \in Q)
    <3>1. q \in DOMAIN wrote[x] /\ wrote'[x][q] = wrote[x][q]
      BY Zenon, <1>6, <2>2, LiveSpaces DEF MemInv
    <3>2. q \in Pages
      BY <3>1, LiveSpaces DEF MemInv, MemTypeOK
    <3> QED BY Zenon, <1>12, <3>1, <3>2 DEF MemInv, WritesAreKept
  <2> QED BY Zenon, <2>1, <2>2
<1>15. RegionsAreKnown'
  <2> SUFFICES ASSUME NEW x \in Live
               PROVE  /\ \A k \in DOMAIN regions'[x] :
                           Window(regions'[x][k]) \subseteq
                             (IF regions'[x][k].kind = "stack" THEN {Stack[x][1], Stack[x][2]}
                              ELSE (DOMAIN wrote'[x] \cap Zone) \cup Stray)
                      /\ \A q \in DOMAIN wrote'[x] \cap Zone :
                           \E k \in DOMAIN regions'[x] : q \in Window(regions'[x][k])
    BY Zenon, <1>1, <1>9 DEF MemInv, RegionsAreKnown, RegionsAt, Window
  <2>0. /\ \A k \in DOMAIN regions[x] :
             Window(regions[x][k]) \subseteq
               (IF regions[x][k].kind = "stack" THEN {Stack[x][1], Stack[x][2]}
                ELSE (DOMAIN wrote[x] \cap Zone) \cup Stray)
        /\ \A q \in DOMAIN wrote[x] \cap Zone :
             \E k \in DOMAIN regions[x] : q \in Window(regions[x][k])
    BY Zenon DEF MemInv, RegionsAreKnown, RegionsAt
  <2>1. CASE x # t
    BY Zenon, <1>6, <1>7, <2>0, <2>1, LiveSpaces DEF MemInv
  <2>2. CASE x = t
    <3>1. /\ \A k \in DOMAIN regions[t] : k \in DOMAIN regions'[t] /\ regions'[t][k] = regions[t][k]
          /\ \A k \in DOMAIN regions'[t] : k \in DOMAIN regions[t] \/ regions'[t][k] = r
          /\ \E k \in DOMAIN regions'[t] : regions'[t][k] = r
      BY SMTT(30), <1>5, <1>7
    <3>2. r.kind = "demand"
      BY Zenon DEF r
    <3>3. DOMAIN wrote[t] \cap Zone \subseteq DOMAIN wrote'[t] \cap Zone /\ Q \subseteq DOMAIN wrote'[t] \cap Zone
      BY Zenon, <1>2, <1>6
    <3>4. ASSUME NEW k \in DOMAIN regions'[t]
          PROVE  Window(regions'[t][k]) \subseteq
                   (IF regions'[t][k].kind = "stack" THEN {Stack[t][1], Stack[t][2]}
                    ELSE (DOMAIN wrote'[t] \cap Zone) \cup Stray)
      <4>1. CASE k \in DOMAIN regions[t]
        BY Zenon, <2>0, <2>2, <3>1, <3>3, <4>1
      <4>2. CASE regions'[t][k] = r
        BY Zenon, <1>2, <1>4, <3>2, <3>3, <4>2
      <4> QED BY Zenon, <3>1, <4>1, <4>2
    <3>5. ASSUME NEW q \in DOMAIN wrote'[t] \cap Zone
          PROVE  \E k \in DOMAIN regions'[t] : q \in Window(regions'[t][k])
      <4>1. CASE q \in Q
        BY Zenon, <1>2, <1>4, <3>1, <4>1
      <4>2. CASE q \in DOMAIN wrote[t]
        BY Zenon, <2>0, <2>2, <3>1, <4>2
      <4> QED BY Zenon, <1>6, <4>1, <4>2
    <3> QED BY Zenon, <2>2, <3>4, <3>5
  <2> QED BY Zenon, <2>1, <2>2
<1> QED BY Zenon, <1>8, <1>10, <1>13, <1>14, <1>15 DEF MemInv

\* A write reaches the frame of its page, and of private pages only its own.
LEMMA WriteStep ==
  ASSUME MemInv, NEW t \in MemTasks, NEW p \in Pages \ Reserved, NEW v \in Values, Write(t, p, v)
  PROVE  MemInv'
<1>1. /\ t \in Live /\ At(t, p).kind = "user"
      /\ content' = [content EXCEPT ![At(t, p).pa] = v]
      /\ wrote' = IF p \in DOMAIN wrote[t] THEN [wrote EXCEPT ![t][p] = v] ELSE wrote
      /\ UNCHANGED << freeFrames, space, regions, owner, shares >>
  BY Zenon DEF Write, Allowed, At
<1>2. Opened(t, p)
  BY Zenon, <1>1 DEF Opened, UserKinds
<1>3. PICK f \in Ram : f = At(t, p).pa
  BY Zenon, <1>2, OpenedAreTaken, <1>1
<1>4. /\ content' \in [Ram -> Values \cup {0}] /\ content'[f] = v
      /\ \A g \in Ram : g # f => content'[g] = content[g]
  BY Zenon, <1>1, <1>3 DEF MemInv, MemTypeOK
<1>5. /\ wrote' \in [MemTasks -> UNION { [P -> Values \cup {0}] : P \in SUBSET (Pages \ Reserved) }]
      /\ \A x \in MemTasks : DOMAIN wrote'[x] = DOMAIN wrote[x]
      /\ p \in DOMAIN wrote[t] => wrote'[t][p] = v
      /\ \A x \in MemTasks : \A q \in DOMAIN wrote[x] : ~ (x = t /\ q = p) => wrote'[x][q] = wrote[x][q]
  <2> DEFINE W == UNION { [P -> Values \cup {0}] : P \in SUBSET (Pages \ Reserved) }
             w == [wrote[t] EXCEPT ![p] = v]
  <2>1. wrote \in [MemTasks -> W]
    BY Zenon DEF MemInv, MemTypeOK
  <2>2. PICK P \in SUBSET (Pages \ Reserved) : wrote[t] \in [P -> Values \cup {0}]
    BY <2>1
  <2>3. w \in [P -> Values \cup {0}]
    BY Zenon, <2>2
  <2>4. w \in W /\ DOMAIN w = DOMAIN wrote[t] /\ (p \in DOMAIN wrote[t] => w[p] = v)
        /\ \A q \in DOMAIN wrote[t] \ {p} : w[q] = wrote[t][q]
    BY Zenon, <2>2, <2>3
  <2>5. CASE p \in DOMAIN wrote[t]
    <3>1. wrote' = [wrote EXCEPT ![t] = w]
      BY Zenon, <1>1, <2>5
    <3> HIDE DEF w, W
    <3>2. wrote' \in [MemTasks -> W] /\ wrote'[t] = w /\ \A x \in MemTasks \ {t} : wrote'[x] = wrote[x]
      BY Zenon, <2>1, <2>4, <3>1
    <3> QED BY Zenon, <2>4, <3>2 DEF W
  <2>6. CASE p \notin DOMAIN wrote[t]
    <3>1. wrote' = wrote
      BY Zenon, <1>1, <2>6
    <3> QED BY Zenon, <2>1, <2>6, <3>1
  <2> QED BY Zenon, <2>5, <2>6
<1>6. MemTypeOK'
  BY Zenon, <1>1, <1>4, <1>5 DEF MemInv, MemTypeOK
<1>7. /\ Live' = Live /\ \A x, q : At(x, q)' = At(x, q) /\ (Opened(x, q)' <=> Opened(x, q))
      /\ \A x : Tables(space[x])' = Tables(space[x])
      /\ \A g : (Taken(g)' <=> Taken(g)) /\ (Unowned(g)' <=> Unowned(g))
  <2>1. Live' = Live /\ \A x, q : At(x, q)' = At(x, q)
    BY Zenon, <1>1 DEF Live, At, Walk
  <2>2. \A x, q : Opened(x, q)' <=> Opened(x, q)
    BY Zenon, <2>1 DEF Opened
  <2>3. \A x : Tables(space[x])' = Tables(space[x])
    BY Zenon, <1>1 DEF Tables
  <2>4. \A g : Taken(g)' <=> Taken(g)
    BY Zenon, <1>1, <2>1, <2>3 DEF Taken
  <2>5. \A g : Unowned(g)' <=> Unowned(g)
    BY Zenon, <1>1, <2>4 DEF Unowned
  <2> QED BY Zenon, <2>1, <2>2, <2>3, <2>4, <2>5
<1>8. TablesApart' /\ OwnedAreTaken'
  BY Zenon, <1>1, <1>7 DEF MemInv, TablesApart, OwnedAreTaken
<1>9. \A x \in Live, q \in Pages :
        /\ Identity(x, q) => Identity(x, q)'
        /\ Blank(x, q) => Blank(x, q)'
        /\ Private(x, q) => Private(x, q)'
  <2> TAKE x \in Live, q \in Pages
  <2>1. q \in DOMAIN wrote[x] => q \in DOMAIN wrote'[x]
    BY Zenon, <1>5, LiveSpaces DEF MemInv
  <2>2. Identity(x, q) => Identity(x, q)'
    BY Zenon, <1>1, <1>7 DEF Identity
  <2>3. Blank(x, q) => Blank(x, q)'
    BY Zenon, <1>7, <2>1 DEF Blank
  <2>4. PICK g : g = At(x, q).pa
    BY Zenon
  <2>5. Private(x, q) => Private(x, q)'
    BY Zenon, <1>7, <2>1, <2>4 DEF Private
  <2> QED BY Zenon, <2>2, <2>3, <2>5
<1>10. OpenedPages'
  BY Zenon, <1>7, <1>9 DEF MemInv, OpenedPages
<1>11. f \notin Reserved
  <2>1. CASE Identity(t, p)
    BY Zenon, <1>3, <2>1 DEF Identity
  <2>2. CASE Private(t, p)
    BY Zenon, <1>3, <2>2 DEF Private, Unowned
  <2>3. ~ Blank(t, p)
    BY <1>1 DEF Blank, Desc
  <2> QED BY Zenon, <1>1, <1>2, <2>1, <2>2, <2>3 DEF MemInv, OpenedPages
<1>12. WritesAreKept'
  <2>1. content'[ZeroPage] = 0
    BY Zenon, <1>4, <1>11, ReservedFacts, PageFacts DEF MemInv, WritesAreKept
  <2>2. ASSUME NEW x \in Live, NEW q \in DOMAIN wrote[x]
        PROVE  IF Opened(x, q)
                 THEN content'[At(x, q).pa] = wrote'[x][q] /\ (Blank(x, q)' \/ Private(x, q)')
                 ELSE wrote'[x][q] = 0 /\ q \in Zone
    <3>1. x \in MemTasks /\ q \in Pages
      BY LiveSpaces DEF MemInv, MemTypeOK
    <3>2. IF Opened(x, q) THEN content[At(x, q).pa] = wrote[x][q] /\ (Blank(x, q) \/ Private(x, q))
          ELSE wrote[x][q] = 0 /\ q \in Zone
      BY Zenon DEF MemInv, WritesAreKept
    <3>3. CASE x = t /\ q = p
      BY Zenon, <1>2, <1>3, <1>4, <1>5, <1>9, <3>1, <3>2, <3>3
    <3>4. CASE ~ (x = t /\ q = p) /\ ~ Opened(x, q)
      BY Zenon, <1>5, <3>1, <3>2, <3>4
    <3>5. CASE ~ (x = t /\ q = p) /\ Opened(x, q)
      <4>1. At(x, q).pa \in Ram
        BY Zenon, <3>1, <3>5, OpenedAreTaken
      <4>2. At(x, q).pa # f
        <5>1. CASE Blank(x, q)
          BY <1>11, <5>1, ReservedFacts DEF Blank, Desc
        <5>2. CASE Private(x, q)
          BY ZenonT(40), <1>1, <1>2, <1>3, <3>5, <5>2 DEF Private
        <5> QED BY Zenon, <3>2, <3>5, <5>1, <5>2
      <4> QED BY Zenon, <1>4, <1>5, <1>9, <3>1, <3>2, <3>5, <4>1, <4>2
    <3> QED BY Zenon, <3>3, <3>4, <3>5
  <2> QED BY Zenon, <1>5, <1>7, <2>1, <2>2, LiveSpaces DEF WritesAreKept, MemInv
<1>13. RegionsAreKnown'
  <2>1. \A x, q : RegionsAt(x, q)' = RegionsAt(x, q)
    BY Zenon, <1>1 DEF RegionsAt, Window
  <2> QED BY <1>1, <1>5, <1>7, <2>1, LiveSpaces DEF MemInv, RegionsAreKnown, Window
<1> QED BY Zenon, <1>6, <1>8, <1>10, <1>12, <1>13 DEF MemInv

\* A task ends: its tables are freed or leak; the frames it owned, shared and
\* wrote stay taken.
LEMMA GoneStep ==
  ASSUME MemInv, NEW t \in Live, NEW T, T \subseteq Tables(space[t]), Gone(t, T)
  PROVE  MemInv'
<1>1. /\ t \in MemTasks /\ freeFrames' = freeFrames \cup T
      /\ space' = [space EXCEPT ![t] = NoSpace]
      /\ regions' = [regions EXCEPT ![t] = << >>]
      /\ owner' = [ f \in Ram |-> IF owner[f] = t THEN Nobody ELSE owner[f] ]
      /\ shares' = { x \in shares : x[1] # t }
      /\ wrote' = [wrote EXCEPT ![t] = [ p \in {} |-> 0 ]]
      /\ content' = content
  BY ZenonT(40), LiveSpaces DEF Gone, MemInv
<1>2. Tables(space[t]) \subseteq Ram \ Reserved
  BY LiveSpaces, PageFacts DEF MemInv, TablesApart, Tables, Spaces
<1>3. MemTypeOK'
  <2> DEFINE W == UNION { [P -> Values \cup {0}] : P \in SUBSET (Pages \ Reserved) }
             none == [ p \in {} |-> 0 ]
  <2>1. none \in W
    <3>1. none \in [{} -> Values \cup {0}] /\ {} \in SUBSET (Pages \ Reserved)
      BY Zenon
    <3> QED BY Zenon, <3>1
  <2> HIDE DEF W, none
  <2>2. wrote' \in [MemTasks -> W]
    BY Zenon, <1>1, <2>1 DEF MemInv, MemTypeOK, W, none
  <2>3. << >> \in Seq(Regions)
    OBVIOUS
  <2>4. regions' \in [MemTasks -> Seq(Regions)] /\ space' \in [MemTasks -> Spaces \cup {NoSpace}]
    BY Zenon, <1>1, <2>3 DEF MemInv, MemTypeOK
  <2>5. freeFrames' \in SUBSET (Ram \ Reserved) /\ shares' \in SUBSET (MemTasks \X Ram)
    BY Zenon, <1>1, <1>2 DEF MemInv, MemTypeOK
  <2>6. owner' \in [Ram -> MemTasks \cup {Nobody}]
    BY Zenon, <1>1 DEF MemInv, MemTypeOK
  <2> QED BY Zenon, <1>1, <2>2, <2>4, <2>5, <2>6 DEF MemInv, MemTypeOK, W
<1>4. /\ Live' = Live \ {t}
      /\ \A x \in Live \ {t} : /\ space'[x] = space[x] /\ regions'[x] = regions[x]
                               /\ wrote'[x] = wrote[x]
  BY Zenon, <1>1, LiveSpaces DEF Live, MemInv, MemTypeOK
<1>5. /\ \A x \in Live \ {t}, q \in Pages : At(x, q)' = At(x, q) /\ (Opened(x, q)' <=> Opened(x, q))
      /\ \A x \in Live \ {t} : Tables(space[x])' = Tables(space[x])
  <2>1. \A x \in Live \ {t}, q \in Pages : At(x, q)' = At(x, q)
    <3>1. ASSUME NEW x \in Live \ {t}, NEW q \in Pages PROVE At(x, q)' = At(x, q)
      <4>1. space'[x] = space[x]
        BY Zenon, <1>4
      <4>2. At(x, q)' = Walk(space'[x], q)
        BY Zenon DEF At, Walk
      <4> QED BY Zenon, <4>1, <4>2 DEF At
    <3> QED BY Zenon, <3>1
  <2>2. \A x \in Live \ {t}, q \in Pages : Opened(x, q)' <=> Opened(x, q)
    BY Zenon, <2>1 DEF Opened
  <2>3. \A x \in Live \ {t} : Tables(space[x])' = Tables(space[x])
    BY Zenon, <1>4 DEF Tables
  <2> QED BY Zenon, <2>1, <2>2, <2>3
<1>6. ASSUME NEW f, Taken(f) PROVE Taken(f)'
  BY Zenon, <1>1, <1>4, <1>5, <1>6 DEF Taken
<1>7. ASSUME NEW f \in Ram, Unowned(f) PROVE Unowned(f)'
  BY Zenon, <1>1, <1>6, <1>7 DEF Unowned
<1>8. TablesApart'
  <2> SUFFICES ASSUME NEW x \in Live \ {t}
               PROVE  /\ Tables(space[x]) \cap (freeFrames' \cup Reserved) = {}
                      /\ \A y \in Live \ {t, x} : Tables(space[x]) \cap Tables(space[y]) = {}
    BY Zenon, <1>4, <1>5 DEF TablesApart
  <2> QED BY Zenon, <1>1 DEF MemInv, TablesApart
<1>9. OwnedAreTaken'
  <2>1. ASSUME NEW f \in Ram, owner'[f] # Nobody PROVE Taken(f)' /\ f \notin Reserved
    BY Zenon, <1>1, <1>6, <2>1, ReservedFacts
  <2>2. ASSUME NEW x \in shares' PROVE Taken(x[2])' /\ x[2] \notin Reserved
    BY Zenon, <1>1, <1>6 DEF MemInv, OwnedAreTaken
  <2> QED BY Zenon, <2>1, <2>2 DEF OwnedAreTaken
<1>10. ASSUME NEW x \in Live \ {t}, NEW q \in Pages
       PROVE  /\ Identity(x, q) => Identity(x, q)'
              /\ Blank(x, q) => Blank(x, q)'
              /\ Private(x, q) => Private(x, q)'
  <2>1. Identity(x, q) => Identity(x, q)'
    BY Zenon, <1>1, <1>5 DEF Identity, MemInv, MemTypeOK
  <2>2. Blank(x, q) => Blank(x, q)'
    BY Zenon, <1>4, <1>5 DEF Blank
  <2>3. ASSUME Private(x, q) PROVE Private(x, q)'
    <3>1. Opened(x, q)
      BY Zenon, <2>3 DEF Private, Opened, UserKinds
    <3>2. PICK f \in Ram : f = At(x, q).pa
      BY Zenon, <3>1, OpenedAreTaken
    <3>3. Unowned(f)'
      BY Zenon, <1>7, <2>3, <3>2 DEF Private
    <3>4. \A y \in Live', z \in Pages : Opened(y, z)' /\ At(y, z)'.pa = f => y = x /\ z = q
      BY Zenon, <1>4, <1>5, <2>3, <3>2 DEF Private
    <3>5. At(x, q)' = At(x, q) /\ At(x, q).kind = "user" /\ q \in DOMAIN wrote'[x]
      BY Zenon, <1>4, <1>5, <2>3 DEF Private
    <3> QED BY Zenon, <3>2, <3>3, <3>4, <3>5 DEF Private
  <2> QED BY Zenon, <2>1, <2>2, <2>3
<1>11. OpenedPages'
  BY Zenon, <1>4, <1>5, <1>10 DEF MemInv, OpenedPages
<1>12. WritesAreKept'
  <2>1. ASSUME NEW x \in Live \ {t}, NEW q \in DOMAIN wrote[x]
        PROVE  IF Opened(x, q)'
                 THEN content'[At(x, q)'.pa] = wrote'[x][q] /\ (Blank(x, q)' \/ Private(x, q)')
                 ELSE wrote'[x][q] = 0 /\ q \in Zone
    <3>1. q \in Pages
      BY SMTT(30), LiveSpaces DEF MemInv, MemTypeOK
    <3> QED BY SMTT(30), <1>1, <1>4, <1>5, <1>10, <3>1 DEF MemInv, WritesAreKept
  <2> QED BY ZenonT(40), <1>1, <1>4, <2>1 DEF MemInv, WritesAreKept
<1>13. RegionsAreKnown'
  <2>1. \A x \in Live \ {t} : \A q : RegionsAt(x, q)' = RegionsAt(x, q)
    BY Zenon, <1>4 DEF RegionsAt, Window
  <2> QED BY <1>4, <2>1 DEF MemInv, RegionsAreKnown, Window
<1> QED BY Zenon, <1>3, <1>8, <1>9, <1>11, <1>12, <1>13 DEF MemInv

\* What a spawn that finds frames does: the new task has tables N and sees the
\* top page of its stack only.
Spawned(t, N) ==
  /\ N \subseteq freeFrames /\ freeFrames' = freeFrames \ N
  /\ \E s \in Spaces :
       /\ space' = [space EXCEPT ![t] = s]
       /\ Tables(s) = N
       /\ s.l3[BlockOf(Stack[t][1])] # NoFrame
       /\ \A q \in Pages : IF q = Stack[t][2] THEN Walk(s, q) = Desc("user", q)
                          ELSE Walk(s, q) \in Descs /\ Walk(s, q).kind \notin UserKinds
  /\ content' = [ f \in Ram |-> IF f \in {Stack[t][1], Stack[t][2]} THEN 0 ELSE content[f] ]

LEMMA SpawnTables ==
  ASSUME MemInv, NEW t \in MemTasks, spawn_by_name(t)
  PROVE  Stopped \/ (panicked' = FALSE /\ \E N \in SUBSET freeFrames : Spawned(t, N))
<1>1. CASE freeFrames = {}
  <2>1. Apply(t, [oom |-> TRUE])
    BY Zenon, <1>1 DEF spawn_by_name
  <2> QED BY Zenon, <2>1 DEF Apply, Stopped
<1>2. CASE freeFrames # {}
  <2>1. PICK r \in freeFrames : Apply(t, map_user_pages(Cloned(t, r), {Stack[t][2]}, "user"))
    BY Zenon, <1>2 DEF spawn_by_name, Lowest
  <2>2. PICK z \in Reserved : z = Stack[t][2] /\ BlockOf(Stack[t][1]) = BlockOf(z)
    BY Zenon, MemAssumption DEF MemAssumption
  <2> DEFINE l3 == [ b \in Blocks |-> NoFrame ]
             new == [root |-> r, l3 |-> l3, pte |-> Unopened]
             zeroed == [ f \in Ram |-> IF f \in {Stack[t][1], Stack[t][2]} THEN 0 ELSE content[f] ]
             m == [free |-> freeFrames \ {r}, s |-> new, oom |-> FALSE, content |-> zeroed]
             k == map_user_pages(m, {z}, "user")
             e == [ p \in {z} |-> Desc("user", p) ]
  <2>3. Apply(t, k)
    BY Zenon, <2>1, <2>2 DEF Cloned
  <2>4. new \in Spaces
    BY Zenon, <2>1, ReservedFacts, UnopenedType DEF Spaces
  <2>5. zeroed \in [Ram -> Values \cup {0}]
    BY Zenon DEF MemInv, MemTypeOK
  <2>6. /\ m.free = freeFrames \ {r} /\ m.s = new /\ m.content = zeroed /\ m.oom = FALSE
        /\ new.l3 = l3
    BY Zenon
  <2>7. Tables(new) = {r}
    BY Zenon, <2>1, PageFacts, ReservedFacts DEF Tables
  <2>8. \A q \in Pages : Walk(new, q) \in Descs /\ Walk(new, q).kind \notin UserKinds
    BY Zenon, <2>4, PageFacts DEF Walk, Desc, None, Descs, UserKinds
  <2> HIDE DEF new, zeroed
  <2>9. m \in Works
    BY Zenon, <2>4, <2>5, ReservedFacts DEF Works
  <2>10. {z} \in SUBSET Ram /\ z \in Ram /\ z \in Pages
    BY Zenon, ReservedFacts, PageFacts
  <2> HIDE DEF m
  <2>11. \/ k.oom = TRUE
         \/ /\ k \in Works /\ k.oom = FALSE /\ k.content = m.content /\ k.free \subseteq m.free
            /\ Remaps(m.s, k.s, m.free \ k.free, {z}, e)
            /\ \A p \in {z} : k.s.l3[BlockOf(p)] # NoFrame
    BY Zenon, <2>6, <2>9, <2>10, MapEffect
  <2> HIDE DEF k
  <2>12. CASE k.oom = TRUE
    BY Zenon, <2>3, <2>12 DEF Apply, Stopped
  <2>13. CASE k.oom = FALSE
    <3>1. /\ panicked' = FALSE /\ freeFrames' = k.free /\ content' = zeroed
          /\ space' = [space EXCEPT ![t] = k.s] /\ k.free \subseteq freeFrames \ {r}
          /\ Remaps(new, k.s, (freeFrames \ {r}) \ k.free, {z}, e)
          /\ k.s.l3[BlockOf(z)] # NoFrame
      BY Zenon, <2>3, <2>6, <2>11, <2>13 DEF Apply
    <3>2. PICK N \in SUBSET freeFrames : N = freeFrames \ k.free
      BY Zenon
    <3>3. freeFrames' = freeFrames \ N /\ Tables(k.s) = N /\ k.s \in Spaces
      BY Zenon, <2>1, <2>7, <3>1, <3>2 DEF Remaps
    <3>4. \A q \in Pages : IF q = Stack[t][2] THEN Walk(k.s, q) = Desc("user", q)
                          ELSE Walk(k.s, q) \in Descs /\ Walk(k.s, q).kind \notin UserKinds
      BY Zenon, <2>2, <2>8, <3>1 DEF Remaps
    <3> QED BY Zenon, <2>2, <3>1, <3>2, <3>3, <3>4 DEF Spawned, zeroed
  <2> QED BY Zenon, <2>11, <2>12, <2>13
<1> QED BY Zenon, <1>1, <1>2

\* A spawn gives a task a space of its own; the others keep theirs.
LEMMA SpawnStep ==
  ASSUME MemInv, NEW t \in MemTasks, spawn_by_name(t)
  PROVE  Frozen \/ (panicked' = FALSE /\ MemInv')
<1> DEFINE w0 == [ p \in {} |-> 0 ]
           r0 == [kind |-> "stack", base |-> Stack[t][1], pages |-> 2]
<1>1. /\ space[t] = NoSpace /\ UNCHANGED << owner, shares >>
      /\ regions' = [regions EXCEPT ![t] = << r0 >>]
      /\ wrote' = [wrote EXCEPT ![t] = w0]
  BY Zenon DEF spawn_by_name
<1>2. t \notin Live
  BY Zenon, <1>1 DEF Live
<1>3. DOMAIN w0 = {}
  BY Zenon
<1> HIDE DEF w0
<1>4. /\ wrote'[t] = w0 /\ regions'[t] = << r0 >>
      /\ \A x \in Live : x # t /\ wrote'[x] = wrote[x] /\ regions'[x] = regions[x]
  BY Zenon, <1>1, <1>2, LiveSpaces DEF MemInv, MemTypeOK
<1>5. CASE Stopped
  BY Zenon, <1>4, <1>5 DEF Stopped, Frozen
<1>6. ASSUME panicked' = FALSE, NEW N \in SUBSET freeFrames, Spawned(t, N) PROVE MemInv'
  <2>1. PICK s \in Spaces :
          /\ space' = [space EXCEPT ![t] = s]
          /\ Tables(s) = N
          /\ s.l3[BlockOf(Stack[t][1])] # NoFrame
          /\ \A q \in Pages : IF q = Stack[t][2] THEN Walk(s, q) = Desc("user", q)
                             ELSE Walk(s, q) \in Descs /\ Walk(s, q).kind \notin UserKinds
    BY Zenon, <1>6 DEF Spawned
  <2>2. /\ freeFrames' = freeFrames \ N
        /\ content' = [ f \in Ram |-> IF f \in {Stack[t][1], Stack[t][2]} THEN 0 ELSE content[f] ]
    BY Zenon, <1>6 DEF Spawned
  <2>3. /\ Stack[t][1] \in Reserved /\ Stack[t][2] \in Reserved
        /\ Stack[t][2] = Stack[t][1] + 1 /\ Stack[t][1] \in Nat
    BY Zenon, MemAssumption, PageFacts DEF MemAssumption
  <2>4. /\ Live' = Live \cup {t}
        /\ space'[t] = s /\ \A x \in Live : space'[x] = space[x]
        /\ space' \in [MemTasks -> Spaces \cup {NoSpace}]
    <3>1. space \in [MemTasks -> Spaces \cup {NoSpace}]
      BY Zenon DEF MemInv, MemTypeOK
    <3>2. /\ space' \in [MemTasks -> Spaces \cup {NoSpace}] /\ space'[t] = s
          /\ \A x \in MemTasks \ {t} : space'[x] = space[x]
      BY Zenon, <2>1, <3>1
    <3>3. s # NoSpace
      BY Zenon, LiveSpaces DEF MemInv
    <3>4. Live' = Live \cup {t}
      BY Zenon, <3>2, <3>3 DEF Live
    <3> QED BY Zenon, <1>4, <3>2, <3>4 DEF Live
  <2>5. /\ \A x \in Live, q \in Pages : At(x, q)' = At(x, q) /\ (Opened(x, q)' <=> Opened(x, q))
        /\ \A x \in Live : Tables(space[x])' = Tables(space[x])
        /\ Tables(space[t])' = N
    BY <2>1, <2>4 DEF At, Walk, Opened, Tables
  <2>6. \A q \in Pages : /\ Opened(t, q)' => q = Stack[t][2]
                        /\ At(t, Stack[t][2])' = Desc("user", Stack[t][2])
    <3>1. Stack[t][2] \in Pages
      BY Zenon, <2>3, PageFacts, ReservedFacts
    <3>2. \A q \in Pages : At(t, q)' = Walk(s, q)
      BY Zenon, <2>4 DEF At, Walk
    <3> QED BY Zenon, <2>1, <3>1, <3>2 DEF Opened
  <2>7. ASSUME NEW f, Taken(f) PROVE Taken(f)'
    BY Zenon, <2>2, <2>4, <2>5, <2>7 DEF Taken
  <2>8. ASSUME NEW f \in Ram, Unowned(f) PROVE Unowned(f)' /\ content'[f] = content[f]
    BY Zenon, <1>1, <2>2, <2>3, <2>7, <2>8 DEF Unowned
  <2>9. MemTypeOK'
    <3> DEFINE W == UNION { [P -> Values \cup {0}] : P \in SUBSET (Pages \ Reserved) }
    <3>1. w0 \in W
      <4>1. w0 \in [{} -> Values \cup {0}] /\ {} \in SUBSET (Pages \ Reserved)
        BY Zenon DEF w0
      <4> QED BY Zenon, <4>1
    <3> HIDE DEF W
    <3>2. wrote' \in [MemTasks -> W]
      BY Zenon, <1>1, <3>1 DEF MemInv, MemTypeOK, W
    <3>3. r0 \in Regions
      BY Zenon, <2>3 DEF Regions
    <3>4. regions' \in [MemTasks -> Seq(Regions)]
      <4> HIDE DEF r0
      <4>1. << r0 >> \in Seq(Regions)
        BY <3>3
      <4> QED BY Zenon, <1>1, <4>1 DEF MemInv, MemTypeOK
    <3>5. content' \in [Ram -> Values \cup {0}] /\ freeFrames' \in SUBSET (Ram \ Reserved)
      BY Zenon, <2>2 DEF MemInv, MemTypeOK
    <3> QED BY Zenon, <1>1, <2>4, <3>2, <3>4, <3>5 DEF MemInv, MemTypeOK, W
  <2>10. TablesApart'
    <3>1. ASSUME NEW x \in Live, NEW y \in Live \ {x}
          PROVE  Tables(space[x]) \cap Tables(space[y]) = {}
      BY Zenon DEF MemInv, TablesApart
    <3>2. ASSUME NEW x \in Live
          PROVE  Tables(space[x]) \cap (freeFrames \cup Reserved) = {}
      BY Zenon DEF MemInv, TablesApart
    <3>3. N \cap Reserved = {}
      BY Zenon, ReservedFacts
    <3> QED BY Zenon, <2>2, <2>4, <2>5, <3>1, <3>2, <3>3 DEF TablesApart
  <2>11. OwnedAreTaken'
    BY Zenon, <1>1, <2>7 DEF MemInv, OwnedAreTaken
  <2>12. ASSUME NEW x \in Live, NEW q \in Pages
         PROVE  /\ Identity(x, q) => Identity(x, q)'
                /\ Blank(x, q) => Blank(x, q)'
                /\ Private(x, q) => Private(x, q)' /\ content'[At(x, q).pa] = content[At(x, q).pa]
    <3>1. Identity(x, q) => Identity(x, q)'
      BY Zenon, <1>1, <2>5 DEF Identity
    <3>2. Blank(x, q) => Blank(x, q)'
      BY Zenon, <1>4, <2>5 DEF Blank
    <3>3. ASSUME Private(x, q)
          PROVE  Private(x, q)' /\ content'[At(x, q).pa] = content[At(x, q).pa]
      <4>1. Opened(x, q)
        BY Zenon, <3>3 DEF Private, Opened, UserKinds
      <4>2. PICK f \in Ram : f = At(x, q).pa
        BY Zenon, <4>1, OpenedAreTaken
      <4>3. Unowned(f)' /\ content'[f] = content[f] /\ f \notin Reserved
        BY Zenon, <2>8, <3>3, <4>2 DEF Private, Unowned
      <4>4. \A z \in Pages : Opened(t, z)' => At(t, z)'.pa # f
        BY <2>3, <2>6, <4>3 DEF Desc
      <4>5. \A y \in Live', z \in Pages : Opened(y, z)' /\ At(y, z)'.pa = f => y = x /\ z = q
        BY Zenon, <2>4, <2>5, <3>3, <4>2, <4>4 DEF Private
      <4>6. At(x, q)' = At(x, q) /\ At(x, q).kind = "user" /\ q \in DOMAIN wrote'[x]
        BY Zenon, <1>4, <2>5, <3>3 DEF Private
      <4> QED BY Zenon, <4>2, <4>3, <4>5, <4>6 DEF Private
    <3> QED BY Zenon, <3>1, <3>2, <3>3
  <2>13. OpenedPages'
    <3>1. ASSUME NEW q \in Pages, Opened(t, q)' PROVE Identity(t, q)'
      <4>1. PICK z \in Reserved : z = Stack[t][2] /\ q = z
        BY Zenon, <2>3, <2>6, <3>1
      <4>2. At(t, q)' = Desc("user", q) /\ q \in Ram
        BY Zenon, <2>6, <4>1, ReservedFacts
      <4> QED BY <4>1, <4>2 DEF Identity, Desc
    <3>2. ASSUME NEW x \in Live, NEW q \in Pages, Opened(x, q)'
          PROVE  Identity(x, q)' \/ Blank(x, q)' \/ Private(x, q)'
      BY Zenon, <2>5, <2>12, <3>2 DEF MemInv, OpenedPages
    <3> QED BY Zenon, <2>4, <3>1, <3>2 DEF OpenedPages
  <2>14. WritesAreKept'
    <3>1. content'[ZeroPage] = 0
      BY Zenon, <2>2, ReservedFacts DEF MemInv, WritesAreKept
    <3>2. ASSUME NEW x \in Live, NEW q \in DOMAIN wrote[x]
          PROVE  IF Opened(x, q)'
                   THEN content'[At(x, q)'.pa] = wrote'[x][q] /\ (Blank(x, q)' \/ Private(x, q)')
                   ELSE wrote'[x][q] = 0 /\ q \in Zone
      <4>1. q \in Pages
        BY SMTT(30), LiveSpaces DEF MemInv, MemTypeOK
      <4>2. Blank(x, q) => content'[At(x, q).pa] = content[At(x, q).pa]
        BY <3>1 DEF MemInv, WritesAreKept, Blank, Desc
      <4>3. IF Opened(x, q) THEN content[At(x, q).pa] = wrote[x][q] /\ (Blank(x, q) \/ Private(x, q))
            ELSE wrote[x][q] = 0 /\ q \in Zone
        BY Zenon DEF MemInv, WritesAreKept
      <4> QED BY ZenonT(40), <1>4, <2>5, <2>12, <4>1, <4>2, <4>3
    <3> QED BY Zenon, <1>3, <1>4, <2>4, <3>1, <3>2 DEF WritesAreKept
  <2>15. RegionsAreKnown'
    <3>1. \A x \in Live : \A q : RegionsAt(x, q)' = RegionsAt(x, q)
      BY Zenon, <1>4 DEF RegionsAt, Window
    <3>2. Window(r0) \subseteq {Stack[t][1], Stack[t][2]} /\ r0.kind = "stack"
      BY <2>3 DEF Window
    <3>3. DOMAIN regions'[t] = {1} /\ regions'[t][1] = r0
      <4> HIDE DEF r0
      <4> QED BY SMTT(30), <1>4
    <3>4. \A x \in Live : /\ space'[x].l3[BlockOf(Stack[x][1])] # NoFrame
                          /\ \A k \in DOMAIN regions'[x] :
                               Window(regions'[x][k]) \subseteq
                                 (IF regions'[x][k].kind = "stack" THEN {Stack[x][1], Stack[x][2]}
                                  ELSE (DOMAIN wrote'[x] \cap Zone) \cup Stray)
                          /\ \A p \in DOMAIN wrote'[x] \cap Zone : RegionsAt(x, p)' # {}
      BY SMTT(30), <1>4, <2>4, <3>1 DEF MemInv, RegionsAreKnown
    <3> HIDE DEF r0
    <3>5. /\ space'[t].l3[BlockOf(Stack[t][1])] # NoFrame
          /\ \A k \in DOMAIN regions'[t] :
               Window(regions'[t][k]) \subseteq
                 (IF regions'[t][k].kind = "stack" THEN {Stack[t][1], Stack[t][2]}
                  ELSE (DOMAIN wrote'[t] \cap Zone) \cup Stray)
          /\ DOMAIN wrote'[t] = {}
      BY Zenon, <1>3, <1>4, <2>1, <2>4, <3>2, <3>3
    <3> QED BY ZenonT(40), <2>4, <3>4, <3>5 DEF RegionsAreKnown, Window
  <2> QED BY Zenon, <2>9, <2>10, <2>11, <2>13, <2>14, <2>15 DEF MemInv
<1> QED BY Zenon, <1>5, <1>6, SpawnTables
-----------------------------------------------------------------------------
(* The theorems. *)

Safe == TablesAreSound /\ FreeFramesAreUnmapped /\ PrivatePagesKeepWrites

\* What MemInv says about the frames that can be reached from EL0.
LEMMA InvIsSafe == MemInv => Safe
<1> HAVE MemInv
<1>1. \A f \in Ram : content[f] # Junk
  BY MemAssumption DEF MemInv, MemTypeOK, MemAssumption
<1>2. ASSUME NEW t \in Live, NEW d \in UserDescs(t) PROVE Taken(d.pa)
  <2>1. PICK p \in Pages : d = At(t, p) /\ Opened(t, p)
    BY Zenon DEF UserDescs, At, Opened, UserKinds
  <2> QED BY Zenon, <2>1, OpenedAreTaken
<1>3. TablesAreSound
  BY Zenon, <1>1, <1>2 DEF TablesAreSound, MemInv, TablesApart, Taken
<1>4. FreeFramesAreUnmapped
  BY Zenon, <1>2 DEF FreeFramesAreUnmapped, Taken
<1>5. PrivatePagesKeepWrites
  BY Zenon DEF PrivatePagesKeepWrites, MemInv, WritesAreKept, Opened, At, UserKinds
<1> QED BY Zenon, <1>3, <1>4, <1>5 DEF Safe

\* A panic leaves the machine as safe as it was.
LEMMA FrozenIsSafe ==
  ASSUME Safe, Frozen, ~ strayed
  PROVE  Safe'
<1>1. UNCHANGED << freeFrames, space, content >> /\ Live' = Live
  BY ZenonT(40) DEF Frozen, Live
<1>2. TablesAreSound' /\ FreeFramesAreUnmapped'
  BY SMTT(30), <1>1 DEF Safe, TablesAreSound, FreeFramesAreUnmapped, UserDescs, Tables, Walk
<1>3. PrivatePagesKeepWrites'
  BY <1>1 DEF Safe, PrivatePagesKeepWrites, Frozen, Walk
<1> QED BY Zenon, <1>2, <1>3 DEF Safe

\* The machine is in order until it panics or strays, and safe even then.
Orderly ==
  /\ ~ strayed => panicked \in BOOLEAN
  /\ Running => MemInv
  /\ Safe

LEMMA InitOrderly == MemInit => Orderly
<1> SUFFICES ASSUME MemInit PROVE MemInv
  BY Zenon, InvIsSafe DEF Orderly, MemInit, Running
<1>1. Live = {}
  BY Zenon DEF MemInit, Live
<1>2. MemTypeOK
  <2> DEFINE W == UNION { [P -> Values \cup {0}] : P \in SUBSET (Pages \ Reserved) }
             w0 == [ p \in {} |-> 0 ]
  <2>1. w0 \in [{} -> Values \cup {0}] /\ {} \in SUBSET (Pages \ Reserved)
    BY Zenon
  <2>2. w0 \in W
    BY Zenon, <2>1
  <2> HIDE DEF W, w0
  <2>3. wrote \in [MemTasks -> W]
    BY Zenon, <2>2 DEF MemInit, w0
  <2>4. << >> \in Seq(Regions)
    OBVIOUS
  <2>5. regions \in [MemTasks -> Seq(Regions)] /\ space \in [MemTasks -> Spaces \cup {NoSpace}]
    BY Zenon, <2>4 DEF MemInit
  <2>6. /\ content \in [Ram -> Values \cup {0}] /\ owner \in [Ram -> MemTasks \cup {Nobody}]
        /\ freeFrames \in SUBSET (Ram \ Reserved) /\ shares \in SUBSET (MemTasks \X Ram)
    BY Zenon DEF MemInit
  <2> QED BY Zenon, <2>3, <2>5, <2>6 DEF MemTypeOK, W
<1>3. OwnedAreTaken /\ WritesAreKept
  BY Zenon, <1>1, PageFacts DEF MemInit, OwnedAreTaken, WritesAreKept
<1>4. TablesApart /\ OpenedPages /\ RegionsAreKnown
  BY Zenon, <1>1 DEF TablesApart, OpenedPages, RegionsAreKnown
<1> QED BY Zenon, <1>2, <1>3, <1>4 DEF MemInv

\* Stuttering.
LEMMA StutterOrderly ==
  ASSUME Orderly, UNCHANGED memVars
  PROVE  Orderly'
<1>1. /\ UNCHANGED << freeFrames, space, regions, content, owner, shares, wrote, panicked, strayed >>
      /\ Live' = Live
  BY Zenon DEF memVars, Live
<1>2. /\ \A t, p : /\ At(t, p)' = At(t, p) /\ Opened(t, p)' = Opened(t, p)
                   /\ RegionsAt(t, p)' = RegionsAt(t, p)
      /\ \A t : Tables(space[t])' = Tables(space[t]) /\ UserDescs(t)' = UserDescs(t)
  BY ZenonT(40), <1>1 DEF At, Opened, Walk, Tables, UserDescs, RegionsAt, Window
<1>3. \A f : Taken(f)' = Taken(f) /\ Unowned(f)' = Unowned(f)
  BY Zenon, <1>1, <1>2 DEF Taken, Unowned
<1>4. \A t, p : /\ Identity(t, p)' = Identity(t, p) /\ Blank(t, p)' = Blank(t, p)
                /\ Private(t, p)' = Private(t, p)
  BY <1>1, <1>2, <1>3 DEF Identity, Blank, Private, Unowned, Taken
<1>5. MemTypeOK' = MemTypeOK /\ TablesApart' = TablesApart /\ OwnedAreTaken' = OwnedAreTaken
  BY Zenon, <1>1, <1>2, <1>3 DEF MemTypeOK, TablesApart, OwnedAreTaken
<1>6. OpenedPages' = OpenedPages /\ WritesAreKept' = WritesAreKept
  BY Zenon, <1>1, <1>2, <1>4 DEF OpenedPages, WritesAreKept
<1>7. RegionsAreKnown' = RegionsAreKnown
  BY ZenonT(40), <1>1, <1>2 DEF RegionsAreKnown, Window
<1>8. Safe => Safe'
  <2>1. FreeFramesAreUnmapped => FreeFramesAreUnmapped'
    BY Zenon, <1>1, <1>2 DEF FreeFramesAreUnmapped
  <2>2. TablesAreSound => TablesAreSound'
    BY Zenon, <1>1, <1>2 DEF TablesAreSound
  <2>3. PrivatePagesKeepWrites => PrivatePagesKeepWrites'
    BY ZenonT(40), <1>1 DEF PrivatePagesKeepWrites, Walk
  <2> QED BY Zenon, <2>1, <2>2, <2>3 DEF Safe
<1> QED BY Zenon, <1>1, <1>5, <1>6, <1>7, <1>8 DEF Orderly, Running, MemInv

\* After a panic, and after a stray page, nothing runs.
LEMMA StepsRun == MemNext => Running
<1>1. \A t : spawn_by_name(t) \/ kill_task(t) \/ Unrepaired(t) => Running
  BY Zenon DEF spawn_by_name, kill_task, Unrepaired
<1>2. \A t, n : sys_alloc_frames(t, n) \/ sys_free_frames(t, n) => Running
  BY Zenon DEF sys_alloc_frames, sys_free_frames, Call
<1>3. \A t, f, u : sys_share_frames(t, f, u) \/ sys_map_cow(t, f, u) => Running
  BY ZenonT(40) DEF sys_share_frames, sys_map_cow, GrantFrame, Call
<1>4. \A t, f, u : sys_unshare_frames(t, f, u) \/ sys_map_demand(t, f, u) => Running
  BY ZenonT(40) DEF sys_unshare_frames, sys_map_demand, Call
<1>5. \A t, p, v : Write(t, p, v) \/ resolve_user_fault(t, p) => Running
  BY ZenonT(40) DEF Write, resolve_user_fault
<1> QED BY Zenon, <1>1, <1>2, <1>3, <1>4, <1>5 DEF MemNext

LEMMA NextOrderly ==
  ASSUME Orderly, [MemNext]_memVars
  PROVE  Orderly'
<1>1. CASE UNCHANGED memVars
  BY Zenon, <1>1, StutterOrderly
<1>2. CASE MemNext
  <2>1. MemInv /\ panicked = FALSE /\ ~ strayed
    BY Zenon, <1>2, StepsRun DEF Orderly, Running
  <2>0. strayed' => Orderly'
    BY Zenon DEF Orderly, Running, Safe, TablesAreSound, FreeFramesAreUnmapped, PrivatePagesKeepWrites
  <2> SUFFICES strayed' \/ Frozen \/ (panicked' = FALSE /\ MemInv')
    <3>1. MemInv' => Safe'
      BY InvIsSafe, PTL
    <3>2. Safe
      BY Zenon DEF Orderly
    <3>3. Frozen => Safe' /\ panicked' = TRUE
      BY Zenon, <3>2, <2>1, FrozenIsSafe DEF Frozen
    <3> QED BY Zenon, <2>0, <3>1, <3>3 DEF Orderly, Running
  <2> PICK t \in MemTasks :
        \/ spawn_by_name(t) \/ kill_task(t)
        \/ \E n \in 1 .. RUN_MAX : sys_alloc_frames(t, n)
        \/ \E f \in Ram : sys_free_frames(t, f)
        \/ \E f \in Ram, u \in MemTasks :
             sys_share_frames(t, f, u) \/ sys_map_cow(t, f, u) \/ sys_unshare_frames(t, f, u)
        \/ \E p \in Vas, n \in 1 .. RUN_MAX :
             p .. p + n - 1 \subseteq Vas /\ sys_map_demand(t, p, n)
        \/ \E p \in Shown(t) \ Reserved, v \in Values : Write(t, p, v)
        \/ \E p \in Shown(t) : resolve_user_fault(t, p)
        \/ Unrepaired(t)
    BY Zenon, <1>2 DEF MemNext
  <2>2. CASE spawn_by_name(t)
    BY Zenon, <2>1, <2>2, SpawnStep
  <2>3. CASE kill_task(t)
    <3>1. t \in Live /\ Gone(t, Tables(space[t])) /\ Tables(space[t]) \subseteq Tables(space[t])
      BY Zenon, <2>3 DEF kill_task
    <3>2. panicked' = panicked
      BY Zenon, <3>1 DEF Gone
    <3> QED BY Zenon, <2>1, <3>1, <3>2, GoneStep
  <2>4. CASE Unrepaired(t)
    <3>1. t \in Live /\ Gone(t, {}) /\ {} \subseteq Tables(space[t])
      BY Zenon, <2>4 DEF Unrepaired
    <3>2. panicked' = panicked
      BY Zenon, <3>1 DEF Gone
    <3> QED BY Zenon, <2>1, <3>1, <3>2, GoneStep
  <2>5. ASSUME NEW n \in 1 .. RUN_MAX, sys_alloc_frames(t, n)
        PROVE  Frozen \/ (panicked' = FALSE /\ MemInv')
    BY Zenon, <2>1, <2>5, AllocStep
  <2>6. ASSUME NEW f \in Ram, sys_free_frames(t, f)
        PROVE  Frozen \/ (panicked' = FALSE /\ MemInv')
    BY Zenon, <2>1, <2>6, FreeStep
  <2>7. ASSUME NEW f \in Ram, NEW u \in MemTasks, sys_share_frames(t, f, u)
        PROVE  Frozen \/ (panicked' = FALSE /\ MemInv')
    BY Zenon, <2>1, <2>7, GrantStep DEF sys_share_frames
  <2>8. ASSUME NEW f \in Ram, NEW u \in MemTasks, sys_map_cow(t, f, u)
        PROVE  Frozen \/ (panicked' = FALSE /\ MemInv')
    BY Zenon, <2>1, <2>8, GrantStep DEF sys_map_cow
  <2>9. ASSUME NEW f \in Ram, NEW u \in MemTasks, sys_unshare_frames(t, f, u)
        PROVE  Frozen \/ (panicked' = FALSE /\ MemInv')
    BY Zenon, <2>1, <2>9, UnshareStep
  <2>10. ASSUME NEW p \in Vas, NEW n \in 1 .. RUN_MAX,
                p .. p + n - 1 \subseteq Vas, sys_map_demand(t, p, n)
         PROVE  panicked' = FALSE /\ MemInv'
    <3>1. n \in Nat
      OBVIOUS
    <3>2. panicked' = panicked
      BY Zenon, <2>10 DEF sys_map_demand
    <3> QED BY Zenon, <2>1, <2>10, <3>1, <3>2, DemandStep
  <2>11. ASSUME NEW p \in Shown(t) \ Reserved, NEW v \in Values, Write(t, p, v)
         PROVE  panicked' = FALSE /\ MemInv'
    <3>1. p \in Pages \ Reserved /\ panicked' = panicked
      BY Zenon, <2>11, LowPages DEF Shown, Write, Allowed
    <3> QED BY Zenon, <2>1, <2>11, <3>1, WriteStep
  <2>12. ASSUME NEW p \in Shown(t), resolve_user_fault(t, p)
         PROVE  strayed' \/ Frozen \/ (panicked' = FALSE /\ MemInv')
    <3>1. p \in Vas /\ t \in Live /\ ~ Allowed(t, p) /\ UNCHANGED << regions, owner, shares >>
      BY Zenon, <2>12 DEF Shown, resolve_user_fault
    <3>2. CASE IsCow(t, p)
      <4>1. PICK f \in freeFrames : /\ Apply(t, cow_split(t, p, f))
                                    /\ Remember(t, {p}, content[space[t].pte[p].pa])
        BY Zenon, <2>12, <3>2 DEF resolve_user_fault, Lowest
      <4>2. p \in Pages
        BY Zenon, <3>1, <3>2, LowPages DEF IsCow
      <4> QED BY Zenon, <2>1, <3>1, <3>2, <4>1, <4>2, CowStep
    <3>3. CASE ~ IsCow(t, p)
      <4>1. /\ RegionsAt(t, p) # {} /\ Apply(t, Grow(t, p)) /\ UNCHANGED wrote
            /\ strayed' = Strays(t, p)
        BY Zenon, <2>12, <3>3 DEF resolve_user_fault
      <4>2. CASE Strays(t, p)
        <5>1. strayed'
          BY Zenon, <4>1, <4>2
        <5> QED BY Zenon, <5>1
      <4>3. CASE ~ Strays(t, p)
        BY Zenon, <2>1, <3>1, <3>3, <4>1, <4>3, GrowStep
      <4> QED BY Zenon, <4>2, <4>3
    <3> QED BY Zenon, <3>2, <3>3
  <2> QED BY Zenon, <2>2, <2>3, <2>4, <2>5, <2>6, <2>7, <2>8, <2>9, <2>10, <2>11, <2>12
<1> QED BY Zenon, <1>1, <1>2

LEMMA AlwaysOrderly ==
  MemSpec => []Orderly
<1>1. Orderly /\ [MemNext]_memVars => Orderly'
  BY Zenon, NextOrderly
<1> QED BY InitOrderly, <1>1, PTL DEF MemSpec

\* For any number of tasks, frames and pages: no table frame of a live task is
\* free, shared by two tables or reachable from EL0, and descriptors are written
\* into tables only (alloc_table_frame, free_task_tables, map_user_page_frame).
THEOREM TablesStaySound ==
  MemSpec => []TablesAreSound
<1>1. Orderly => TablesAreSound
  BY Zenon DEF Orderly, Safe
<1> QED BY <1>1, AlwaysOrderly, PTL

\* For any number of tasks, frames and pages: a frame in the allocator is mapped
\* by nobody (sys_free_frames, sys_unshare_frames, free_task_tables).
THEOREM FreeFramesStayUnmapped ==
  MemSpec => []FreeFramesAreUnmapped
<1>1. Orderly => FreeFramesAreUnmapped
  BY Zenon DEF Orderly, Safe
<1> QED BY <1>1, AlwaysOrderly, PTL

\* For any number of tasks, frames and pages: a demand page and a split
\* copy-on-write page read as the task's last write (resolve_user_fault,
\* cow_split), whatever frames are freed, reused and shared in between.
THEOREM PrivatePagesKeep ==
  MemSpec => []PrivatePagesKeepWrites
<1>1. Orderly => PrivatePagesKeepWrites
  BY Zenon DEF Orderly, Safe
<1> QED BY <1>1, AlwaysOrderly, PTL
=============================================================================
