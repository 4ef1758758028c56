-------------------------------- MODULE Heap --------------------------------
(***************************************************************************)
(* The servers' heap: a first-fit free list over frames of the kernel       *)
(* (src/servers/libtanix-sys/src/heap.rs).  Sizes and addresses are in      *)
(* units of 16 bytes, so HEADER is 1 and BLOCK, the smallest block, is 2.   *)
(* The list is kept in list order: a chunk that the heap claims later is    *)
(* put in front, whatever its address.                                      *)
(***************************************************************************)
EXTENDS Integers, Sequences, FiniteSets, FiniteSetsExt, SequencesExt

CONSTANTS
  CHUNK,        \* units in a chunk of GROW_PAGES (= INITIAL_PAGES) frames
  MAX_CHUNKS,   \* the cap MAX_PAGES, in chunks (16)
  ChunkBases,   \* addresses alloc_frames may return, CHUNK apart or more
  Sizes         \* payload sizes the program asks for

HEADER == 1
BLOCK == 2

ASSUME HeapAssumption ==
  /\ CHUNK \in Nat /\ CHUNK >= BLOCK
  /\ MAX_CHUNKS \in Nat \ {0}
  /\ ChunkBases \subseteq Nat
  /\ \A a, b \in ChunkBases : a < b => a + CHUNK <= b
  /\ Sizes \subseteq Nat \ {0}

VARIABLES
  freeList,  \* head and the next pointers: blocks [at, size] in list order
  used,      \* blocks handed to the program
  pages,     \* Heap::pages, in chunks
  claimed    \* bases of the chunks obtained from the kernel

heapVars == << freeList, used, pages, claimed >>

block_size(size) == HEADER + size

Chunk(base) == [ at |-> base, size |-> CHUNK ]

HeapInit ==
  /\ freeList = << >> /\ used = {} /\ pages = 0 /\ claimed = {}

-----------------------------------------------------------------------------
(* alloc: ensure claims the first chunk whenever the list is empty; then     *)
(* search, and grow until some block fits or the cap is reached.             *)

\* The first block of the list that is large enough (0: none).
FirstFit(list, need) ==
  SelectInSeq(list, LAMBDA b : b.size >= need)

\* The list once `need` units are cut from block i: the rest keeps its place
\* when it can hold a block, else the whole block leaves the list.
Cut(list, i, need) ==
  IF list[i].size - need >= BLOCK
  THEN [ list EXCEPT ![i] = [ at |-> @.at + need, size |-> @.size - need ] ]
  ELSE RemoveAt(list, i)
Taken(b, need) ==
  [ at |-> b.at, size |-> IF b.size - need >= BLOCK THEN need ELSE b.size ]

ensure(bases) ==
  [ list |-> << Chunk(Head(bases)) >>, pages |-> 1,
    rest |-> Tail(bases) ]
grow(h) ==
  [ list |-> << Chunk(Head(h.rest)) >> \o h.list, pages |-> h.pages + 1,
    rest |-> Tail(h.rest) ]

\* The loop of alloc from heap h, whose `rest` is what the kernel will give.
Search(start, need) ==
  LET loop[h \in [ list : Seq([ at : Nat, size : Nat ]), pages : Nat, rest : Seq(Nat) ]] ==
        IF FirstFit(h.list, need) # 0 \/ h.pages >= MAX_CHUNKS \/ h.rest = << >>
        THEN h
        ELSE loop[grow(h)]
  IN loop[start]

alloc(size, bases) ==
  LET need == block_size(size)
      start == IF freeList = << >> THEN ensure(bases)
               ELSE [ list |-> freeList, pages |-> pages, rest |-> bases ]
      h == Search(start, need)
      i == FirstFit(h.list, need)
  IN /\ freeList = << >> => bases # << >>
     /\ pages' = h.pages
     /\ claimed' = claimed \cup (ToSet(bases) \ ToSet(h.rest))
     /\ IF i = 0 THEN freeList' = h.list /\ UNCHANGED used
        ELSE /\ freeList' = Cut(h.list, i, need)
             /\ used' = used \cup {Taken(h.list[i], need)}

-----------------------------------------------------------------------------
(* free: a block below the head goes in front as it is; another goes before  *)
(* the first block above it and is joined with that block if they touch.     *)

\* Where the walk from the head's successor stops.
Place(list, b) ==
  LET above == { i \in 2 .. Len(list) : list[i].at >= b.at }
  IN IF above = {} THEN Len(list) + 1 ELSE Min(above)

\* The bug of joining blocks that do not touch.
JoinAny(list, i) ==
  IF i < Len(list)
  THEN RemoveAt([ list EXCEPT ![i].size = @ + list[i + 1].size ], i + 1)
  ELSE list

\* The block at i and its successor, joined if they touch.
Join(list, i) ==
  IF i < Len(list) /\ list[i].at + list[i].size = list[i + 1].at
  THEN RemoveAt([ list EXCEPT ![i].size = @ + list[i + 1].size ], i + 1)
  ELSE list

free(b) ==
  /\ used' = used \ {b}
  /\ freeList' = IF freeList = << >> \/ b.at < freeList[1].at
                 THEN << b >> \o freeList
                 ELSE LET i == Place(freeList, b)
                      IN Join(InsertAt(freeList, i, b), i)
  /\ UNCHANGED << pages, claimed >>

\* The answers of the kernel to the coming alloc_frames calls: unclaimed
\* chunks in any order, or fewer when frames run out.
Answers ==
  { a \in SeqOf(ChunkBases \ claimed, MAX_CHUNKS + 1) : IsInjective(a) }

HeapNext ==
  \/ \E size \in Sizes, bases \in Answers : alloc(size, bases)
  \/ \E b \in used : free(b)

HeapSpec == HeapInit /\ [][HeapNext]_heapVars

-----------------------------------------------------------------------------
Units(b) == b.at .. b.at + b.size - 1
AllBlocks == used \cup ToSet(freeList)
Claimed == UNION { Units(Chunk(base)) : base \in claimed }

\* The free list and the blocks in use tile the memory obtained from the
\* kernel: whatever the order of allocations, frees and growth, and however
\* the chunks lie, splitting and joining neither overlap two blocks nor lose
\* a byte (heap.rs alloc and free).
BlocksTileTheHeap ==
  /\ IsInjective(freeList) /\ used \cap ToSet(freeList) = {}
  /\ \A a, b \in AllBlocks : a # b => Units(a) \cap Units(b) = {}
  /\ UNION { Units(b) : b \in AllBlocks } = Claimed
=============================================================================
