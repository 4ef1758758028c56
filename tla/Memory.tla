------------------------------- MODULE Memory -------------------------------
(***************************************************************************)
(* Physical frames and per-task address spaces: the frame allocator         *)
(* (mem/frame.rs), page tables with blocks that are split on demand         *)
(* (mem/page_table.rs), the memory system calls, and the resolver of user   *)
(* faults with its shared zero page and copy-on-write (mem/vm_fault.rs).    *)
(* Every operation runs under SCHED_LOCK, so each is one step.              *)
(*                                                                         *)
(* Addresses are page numbers.  RAM is identity mapped: its page p is the   *)
(* frame p.  A task has a root, which stands for the three upper levels,    *)
(* and one leaf table for every block it has split or opened.  The hardware *)
(* translates the pages below VA_PAGES; the kernel's own walk of the tables *)
(* drops the address bits above them.                                       *)
(*                                                                         *)
(* Callers keep the contract the system calls document: they share and      *)
(* free only frames they own, and free them after unsharing.                *)
(***************************************************************************)
EXTENDS Integers, Sequences

CONSTANTS
  MemTasks,
  Ram,            \* pages of RAM
  Zone,           \* pages outside RAM that tasks can name
  VA_PAGES,       \* pages of an address space (2^36: 48-bit addresses)
  High,           \* bound: pages above them that tasks name
  BLOCK_PAGES,    \* pages per block (512)
  ZONE_BASE,      \* first page map_demand accepts (4 GiB)
  Reserved,       \* frames of the kernel and of the server images
  ZeroPage,       \* the kernel's shared zero page, one of them
  Stack,          \* task -> its stack window, a pair << low, top >>
  TASK_REGIONS,
  Values,         \* what a task can write into a page
  RUN_MAX,        \* bound: frames per alloc_frames, pages per demand window
  MAX_SPAWNS,     \* bound: spawns
  MEM_CALLS       \* bound: memory system calls

VARIABLES
  freeFrames, \* the allocator's bitmap
  space,      \* task -> its tables, or NoSpace
  regions,    \* task -> sequence of region records
  content,    \* frame -> what it holds
  owner,      \* frame -> task that allocated it, Nobody
  shares,     \* pairs << task, frame >> of shared and copy-on-write frames
  wrote,      \* task -> page -> last value of a page only the task writes
  panicked,
  strayed,    \* history: a window was opened where it is not clear of RAM
  spawns, calls_left

memVars == << freeFrames, space, regions, content, owner, shares, wrote, panicked,
              strayed, spawns, calls_left >>

Pages == Ram \cup Zone
Vas == Pages \cup High
Low(p) == p % VA_PAGES     \* l0_idx to l3_idx, nine bits each
NoFrame == -1
NoSpace == [root |-> NoFrame]
Nobody == "nobody"
Junk == 255           \* a page-table descriptor where data was

BlockOf(p) == p \div BLOCK_PAGES
Blocks == { BlockOf(p) : p \in Pages }

\* RAM is made of whole blocks.  A stack window is two pages of the task's
\* image; the image in front of it is opened with the top page, so the blocks
\* of the window are split together (here: the window is in one block).
ASSUME MemAssumption ==
  /\ Vas \subseteq Nat /\ ZONE_BASE \in Nat /\ VA_PAGES \in Nat \ {0}
  /\ \A p \in Pages : p < VA_PAGES
  /\ \A p \in High : p >= VA_PAGES /\ Low(p) \in Pages
  /\ Nobody \notin MemTasks /\ Junk \notin Values \cup {0}
  /\ ZeroPage \in Reserved /\ Reserved \subseteq Ram /\ Ram \cap Zone = {}
  /\ \A p \in Ram, q \in Zone : BlockOf(p) # BlockOf(q)
  /\ \A t \in MemTasks :
       /\ {Stack[t][1], Stack[t][2]} \subseteq Reserved
       /\ Stack[t][2] = Stack[t][1] + 1 /\ BlockOf(Stack[t][1]) = BlockOf(Stack[t][2])

None == [kind |-> "none"]
Desc(kind, pa) == [kind |-> kind, pa |-> pa]
FirstFrame(p) == BlockOf(p) * BLOCK_PAGES

Live == { t \in MemTasks : space[t] # NoSpace }
Tables(s) == ({s.root} \cup { s.l3[b] : b \in Blocks }) \ {NoFrame}

(* The allocator: alloc takes the lowest free frame, alloc_contiguous the   *)
(* lowest run.  A table is taken from a working copy m of the state.        *)
Runs(f, n) == { b \in f : b .. b + n - 1 \subseteq f }
Lowest(S) == { x \in S : \A y \in S : x <= y }

(* m: [free, s, content, oom] while tables are being changed. *)
Work(free, s) == [free |-> free, s |-> s, content |-> content, oom |-> FALSE]

\* One leaf table for each of the blocks B, each the lowest free frame when the
\* blocks are taken in ascending order; no way when there are too few frames.
Assignments(free, B) ==
  { w \in [B -> free] :
      /\ \A b, c \in B : b < c => w[b] < w[c]
      /\ \A f \in free, b \in B : f < w[b] => \E c \in B : f = w[c] }

\* A new leaf shows what its block did: RAM is EL1-only identity.
Unopened == [ p \in Pages |-> IF p \in Ram THEN Desc("el1", p) ELSE None ]

\* alloc_table_frame, alloc_table: expect() panics when nothing is free.
NewLeaves(m, B) ==
  LET w == CHOOSE x \in Assignments(m.free, B) : TRUE IN
  IF Assignments(m.free, B) = {} THEN [m EXCEPT !.oom = TRUE]
  ELSE [m EXCEPT !.free = @ \ { w[b] : b \in B },
                 !.s = [root |-> @.root,
                        l3 |-> [ b \in Blocks |-> IF b \in B THEN w[b] ELSE @.l3[b] ],
                        pte |-> [ p \in Pages |->
                                    IF BlockOf(p) \in B THEN Unopened[p] ELSE @.pte[p] ]]]

\* The pages ps show what entry says; leaf tables are there.
Entered(m, ps, entry) ==
  IF m.oom THEN m
  ELSE [m EXCEPT !.s = [root |-> @.root, l3 |-> @.l3,
                        pte |-> [ p \in Pages |-> IF p \in ps THEN entry[p] ELSE @.pte[p] ]]]

\* The blocks of the pages ps that have no leaf table.
Missing(s, ps) == { b \in Blocks : s.l3[b] = NoFrame /\ \E p \in ps : BlockOf(p) = b }

\* map_user_pages: page by page from the lowest, the covering block is split
\* (once) before the page is entered.
map_user_pages(m, ps, kind) ==
  Entered(NewLeaves(m, Missing(m.s, ps)), ps, [ p \in ps |-> Desc(kind, p) ])

\* map_user_frame at the low page p: ensure_table takes any valid entry for a
\* table, so under a block that was not split the descriptor lands in the
\* block's first frame.
MapLow(m, p, pa, kind) ==
  IF p \in Ram /\ Missing(m.s, {p}) # {}
    THEN [m EXCEPT !.content[FirstFrame(p)] = Junk]
    ELSE Entered(NewLeaves(m, Missing(m.s, {p})), {p}, [ q \in {p} |-> Desc(kind, pa) ])

map_user_frame(m, p, pa, kind) == MapLow(m, Low(p), pa, kind)

\* read_user_page: no leaf table reads as an empty entry.
read_user_page(s, p) ==
  IF s.l3[BlockOf(Low(p))] = NoFrame THEN None ELSE s.pte[Low(p)]

\* What the hardware finds at a page below VA_PAGES: an unsplit block of RAM is
\* EL1-only.
Walk(s, p) ==
  IF s.l3[BlockOf(p)] # NoFrame THEN s.pte[p]
  ELSE IF p \in Ram THEN Desc("el1", p) ELSE None

Apply(t, m) ==
  /\ panicked' = m.oom
  /\ IF m.oom THEN UNCHANGED << freeFrames, space, content >>
     ELSE /\ freeFrames' = m.free /\ content' = m.content
          /\ space' = [space EXCEPT ![t] = m.s]

MemInit ==
  /\ freeFrames = Ram \ Reserved
  /\ space = [ t \in MemTasks |-> NoSpace ]
  /\ regions = [ t \in MemTasks |-> << >> ]
  /\ content = [ f \in Ram |-> 0 ]
  /\ owner = [ f \in Ram |-> Nobody ]
  /\ shares = {}
  /\ wrote = [ t \in MemTasks |-> [ p \in {} |-> 0 ] ]
  /\ panicked = FALSE /\ strayed = FALSE /\ spawns = 0 /\ calls_left = MEM_CALLS

\* What the kernel does after a panic, or once a descriptor was written where no
\* table is, is not followed.
Running == ~ panicked /\ ~ strayed

\* The stack is zeroed, and r is the root of a copy of the kernel's tables.
Cloned(t, r) ==
  [free |-> freeFrames \ {r}, oom |-> FALSE,
   s |-> [root |-> r, l3 |-> [ b \in Blocks |-> NoFrame ], pte |-> Unopened],
   content |-> [ f \in Ram |-> IF f \in {Stack[t][1], Stack[t][2]} THEN 0 ELSE content[f] ]]

\* spawn_by_name_locked: zero the region, clone the kernel's tables, open the
\* image and the top page of the stack, and record the stack window.
spawn_by_name(t) ==
  /\ Running /\ space[t] = NoSpace
  /\ spawns < MAX_SPAWNS /\ spawns' = spawns + 1
  /\ IF freeFrames = {} THEN Apply(t, [oom |-> TRUE])
     ELSE \E r \in Lowest(freeFrames) :
            Apply(t, map_user_pages(Cloned(t, r), {Stack[t][2]}, "user"))
  /\ regions' = [regions EXCEPT ![t] = << [kind |-> "stack", base |-> Stack[t][1], pages |-> 2] >>]
  /\ wrote' = [wrote EXCEPT ![t] = [ p \in {} |-> 0 ]]
  /\ UNCHANGED << owner, shares, strayed, calls_left >>

\* The task is gone: its tables are freed when another task kills it, and
\* leak when it ends itself.  The frames it owns are not freed.
Gone(t, tables) ==
  /\ freeFrames' = freeFrames \cup tables
  /\ space' = [space EXCEPT ![t] = NoSpace]
  /\ regions' = [regions EXCEPT ![t] = << >>]
  /\ owner' = [ f \in Ram |-> IF owner[f] = t THEN Nobody ELSE owner[f] ]
  /\ shares' = { x \in shares : x[1] # t }
  /\ wrote' = [wrote EXCEPT ![t] = [ p \in {} |-> 0 ]]
  /\ UNCHANGED << content, panicked, strayed, spawns, calls_left >>

\* kill_task_locked of another task: free_task_tables.
kill_task(t) == Running /\ t \in Live /\ Gone(t, Tables(space[t]))

\* The task writes p no more, or shares it from now on.
Forget(t, ps) ==
  wrote' = [wrote EXCEPT ![t] = [ p \in DOMAIN wrote[t] \ ps |-> wrote[t][p] ]]

\* From now on only the task writes the pages ps, which read as v.
Remember(t, ps, v) ==
  wrote' = [wrote EXCEPT ![t] =
              [ p \in DOMAIN wrote[t] \cup ps |-> IF p \in ps THEN v ELSE wrote[t][p] ]]

\* A system call is made.
Call == Running /\ calls_left > 0 /\ calls_left' = calls_left - 1

sys_alloc_frames(t, n) ==
  /\ Call /\ t \in Live
  /\ \E b \in Lowest(Runs(freeFrames, n)) :
     LET run == b .. b + n - 1
     IN /\ Apply(t, map_user_pages(Work(freeFrames \ run, space[t]), run, "user"))
        /\ owner' = [ f \in Ram |-> IF f \in run THEN t ELSE owner[f] ]
        /\ Forget(t, run)
  /\ UNCHANGED << regions, shares, strayed, spawns >>

\* The bug of freeing a frame that stays mapped.
sys_free_frames_Mapped(t, f) ==
  /\ Call /\ t \in Live
  /\ owner[f] = t /\ \A u \in MemTasks \ {t} : << u, f >> \notin shares
  /\ Apply(t, Work(freeFrames \cup {f}, space[t]))
  /\ owner' = [owner EXCEPT ![f] = Nobody]
  /\ shares' = shares \ {<< t, f >>}
  /\ Forget(t, {f})
  /\ UNCHANGED << regions, strayed, spawns >>

\* The frame has no user but its owner.
sys_free_frames(t, f) ==
  /\ Call /\ t \in Live
  /\ owner[f] = t /\ \A u \in MemTasks \ {t} : << u, f >> \notin shares
  /\ LET m == map_user_pages(Work(freeFrames, space[t]), {f}, "el1")
     IN Apply(t, [m EXCEPT !.free = @ \cup {f}])
  /\ owner' = [owner EXCEPT ![f] = Nobody]
  /\ shares' = shares \ {<< t, f >>}
  /\ Forget(t, {f})
  /\ UNCHANGED << regions, strayed, spawns >>

\* share_frames and map_cow map a frame of the caller into u's table.
GrantFrame(t, f, u, kind) ==
  /\ Call /\ {t, u} \subseteq Live
  /\ owner[f] = t /\ << u, f >> \notin shares
  /\ Apply(u, map_user_pages(Work(freeFrames, space[u]), {f}, kind))
  /\ shares' = shares \cup {<< u, f >>}
  /\ Forget(u, {f})
  /\ UNCHANGED << regions, owner, strayed, spawns >>

sys_share_frames(t, f, u) == u # t /\ GrantFrame(t, f, u, "user")

sys_map_cow(t, f, u) == GrantFrame(t, f, u, "cow")

sys_unshare_frames(t, f, u) ==
  /\ Call /\ {t, u} \subseteq Live /\ u # t
  /\ owner[f] = t /\ << u, f >> \in shares
  /\ Apply(u, map_user_pages(Work(freeFrames, space[u]), {f}, "el1"))
  /\ shares' = shares \ {<< u, f >>}
  /\ Forget(u, {f})
  /\ UNCHANGED << regions, owner, strayed, spawns >>

Window(r) == r.base .. r.base + r.pages - 1

\* A window is recorded (push_current_region) when it overlaps no other and a
\* slot is left.
Declare(t, p, n) ==
  /\ Len(regions[t]) < TASK_REGIONS
  /\ \A k \in DOMAIN regions[t] : Window(regions[t][k]) \cap (p .. p + n - 1) = {}
  /\ regions' = [regions EXCEPT ![t] =
                   Append(@, [kind |-> "demand", base |-> p, pages |-> n])]

\* The bug of accepting a window over the identity-mapped RAM.
sys_map_demand_Anywhere(t, p, n) ==
  /\ Call /\ t \in Live
  /\ Declare(t, p, n)
  /\ UNCHANGED << freeFrames, space, content, owner, shares, wrote, panicked, strayed, spawns >>

\* From now on the window's pages are the task's own memory, where the window
\* is in the zone.
sys_map_demand(t, p, n) ==
  /\ Call /\ t \in Live
  /\ p >= ZONE_BASE
  /\ Declare(t, p, n)
  /\ Remember(t, (p .. p + n - 1) \cap Zone, 0)
  /\ UNCHANGED << freeFrames, space, content, owner, shares, panicked, strayed, spawns >>

\* The region a page falls into, as a set.
RegionsAt(t, p) == { k \in DOMAIN regions[t] : p \in Window(regions[t][k]) }

\* The region that holds p; windows do not overlap.
RegionAt(t, p) == regions[t][CHOOSE k \in RegionsAt(t, p) : TRUE]

\* Open a page of a stack or demand window.
Grow(t, p) ==
  IF RegionAt(t, p).kind = "stack"
  THEN map_user_frame(Work(freeFrames, space[t]), p, p, "user")
  ELSE map_user_frame(Work(freeFrames, space[t]), p, ZeroPage, "cow")

\* Pages that sys_map_demand takes for its zone although they are RAM, or have
\* no translation of their own.
Stray == { p \in Vas \ Zone : p >= ZONE_BASE }
Strays(t, p) == RegionAt(t, p).kind = "demand" /\ p \in Stray

\* The bug of mapping the fresh frame without copying into it.
cow_split_Blank(t, p, f) ==
  Entered(Work(freeFrames \ {f}, space[t]), {p}, [ q \in {p} |-> Desc("user", f) ])

\* cow_split: copy the shared frame into a fresh one and map that instead.
cow_split(t, p, f) ==
  LET m == [free |-> freeFrames \ {f}, s |-> space[t], oom |-> FALSE,
            content |-> [content EXCEPT ![f] = content[space[t].pte[p].pa]]]
  IN Entered(m, {p}, [ q \in {p} |-> Desc("user", f) ])

\* Pages that tell address spaces apart: all but the images' own top page.
Shown(t) == Vas \ (Reserved \ {Stack[t][1]})

\* A write that the hardware allows.  A read fails only where a write does,
\* and where the page is not copy-on-write it fails in the same way.
Allowed(t, p) == p < VA_PAGES /\ Walk(space[t], p).kind = "user"

Write(t, p, v) ==
  /\ Running /\ t \in Live /\ Allowed(t, p)
  /\ content' = [content EXCEPT ![Walk(space[t], p).pa] = v]
  /\ wrote' = IF p \in DOMAIN wrote[t] THEN [wrote EXCEPT ![t][p] = v] ELSE wrote
  /\ UNCHANGED << freeFrames, space, regions, owner, shares, panicked, strayed, spawns,
                  calls_left >>

\* A permission fault at a copy-on-write page; above VA_PAGES every fault is a
\* translation fault.
IsCow(t, p) == p < VA_PAGES /\ read_user_page(space[t], p).kind = "cow"

\* resolve_user_fault repairs two kinds of page: a copy-on-write page is
\* split, a page of a window is opened.
resolve_user_fault(t, p) ==
  /\ Running /\ t \in Live /\ ~ Allowed(t, p)
  /\ \/ /\ IsCow(t, p)
        /\ \E f \in Lowest(freeFrames) : Apply(t, cow_split(t, p, f))
        /\ Remember(t, {p}, content[space[t].pte[p].pa])
        /\ UNCHANGED strayed
     \/ /\ ~ IsCow(t, p) /\ RegionsAt(t, p) # {}
        /\ Apply(t, Grow(t, p))
        /\ strayed' = Strays(t, p)
        /\ UNCHANGED wrote
  /\ UNCHANGED << regions, owner, shares, spawns, calls_left >>

\* Any other fault, and a split without a free frame, ends the task
\* (exit_current, which leaves its tables allocated).
Unrepaired(t) ==
  /\ Running /\ t \in Live
  /\ \E p \in Shown(t) :
       /\ ~ Allowed(t, p)
       /\ IF IsCow(t, p) THEN freeFrames = {} ELSE RegionsAt(t, p) = {}
  /\ Gone(t, {})

MemNext ==
  \E t \in MemTasks :
    \/ spawn_by_name(t) \/ kill_task(t)
    \/ \E n \in 1 .. RUN_MAX : sys_alloc_frames(t, n)
    \/ \E f \in Ram : sys_free_frames(t, f)
    \/ \E f \in Ram, u \in MemTasks :
         sys_share_frames(t, f, u) \/ sys_map_cow(t, f, u) \/ sys_unshare_frames(t, f, u)
    \/ \E p \in Vas, n \in 1 .. RUN_MAX :
         p .. p + n - 1 \subseteq Vas /\ sys_map_demand(t, p, n)
    \/ \E p \in Shown(t) \ Reserved, v \in Values : Write(t, p, v)
    \/ \E p \in Shown(t) : resolve_user_fault(t, p)
    \/ Unrepaired(t)

MemSpec == MemInit /\ [][MemNext]_memVars
-----------------------------------------------------------------------------
UserDescs(t) == { d \in { Walk(space[t], p) : p \in Pages } : d.kind \in {"user", "cow"} }

\* Page tables are private to the kernel: no table frame of a live task is in
\* the allocator, belongs to a second table, or can be reached from EL0 by any
\* task (alloc_table_frame, free_task_tables, the sharing system calls); and
\* descriptors are written into tables only, as long as no page is opened in a
\* window that sys_map_demand (syscall.rs:512) took for clear of RAM and that
\* is not.
TablesAreSound ==
  ~ strayed =>
    /\ \A f \in Ram : content[f] # Junk
    /\ \A t \in Live :
         /\ Tables(space[t]) \cap (freeFrames \cup Reserved) = {}
         /\ \A u \in Live :
              /\ u # t => Tables(space[t]) \cap Tables(space[u]) = {}
              /\ \A d \in UserDescs(u) : d.pa \notin Tables(space[t])

\* A free frame has no user: whoever allocates it next gets it alone
\* (sys_free_frames demotes before it frees, unshare and kill undo grants), with
\* the exception of TablesAreSound.
FreeFramesAreUnmapped ==
  ~ strayed => \A t \in Live : \A d \in UserDescs(t) : d.pa \notin freeFrames

\* A page of a demand window, and a copy-on-write page once it is split, is
\* private memory: it reads as zero or as the shared contents first and then as
\* the task's own last write, whatever other tasks do with the zero page, the
\* shared frame and reused frames (vm_fault.rs:199), with the exception of
\* TablesAreSound.
PrivatePagesKeepWrites ==
  ~ strayed =>
    \A t \in Live : \A p \in DOMAIN wrote[t] :
      LET d == Walk(space[t], p) IN
      IF d.kind \in {"user", "cow"} THEN content[d.pa] = wrote[t][p] ELSE wrote[t][p] = 0
=============================================================================
