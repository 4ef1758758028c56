------------------------------- MODULE Fat16 -------------------------------
(***************************************************************************)
(* The FAT16 volume (src/servers/libtanix-fs/src/lib.rs) and the fs server  *)
(* in front of it (src/servers/fs/src/main.rs).                             *)
(*                                                                         *)
(* The server is one thread, so a request is a sequence of sector writes.   *)
(* Each write is a step that may be the last before a crash, or may fail;   *)
(* so may a read.  A cluster is one sector here; the FAT occupies           *)
(* fat_sectors sectors, with FPS entries in each.                           *)
(***************************************************************************)
EXTENDS Naturals, Sequences, FiniteSets, FiniteSetsExt

CONSTANTS
  CLUSTERS,     \* total_clusters: data clusters are 2 .. CLUSTERS + 1
  CB,           \* cluster_bytes
  FPS,          \* FAT entries per sector (256)
  fat_sectors,  \* sectors of the FAT, as the boot sector gives it
  FileNames,    \* 8.3 names
  ROOT,         \* root directory at the first mount
  FAT0,         \* FAT at the first mount
  N_FDS,        \* open-file table (4)
  Payloads,     \* name -> payloads of its write requests (up to 20 bytes)
  MAX_SIZE,     \* bound: size of a file
  CRASHES,      \* bound: crashes
  IO_ERRORS     \* bound: failing sector reads and writes

FAT_FREE == 0
FAT_EOC == 65535
Empty == [ name |-> "", start |-> 0, size |-> 0 ]        \* DirEntry::EMPTY
Deleted == [ Empty EXCEPT !.name = "deleted" ]
Numbers == 2 .. CLUSTERS + 1
fat_entries == CLUSTERS                                  \* as mount sets it
FAT_SECTORS == 0 .. fat_sectors - 1

VARIABLES
  dfat, droot, ddata,  \* on disk: the FAT, the root directory, the clusters
  fat,                 \* the cached FAT
  fds,                 \* open-file table: fd -> open file, or NoFd
  op,                  \* the write request in progress, or NoOp
  files,               \* history: name -> bytes acknowledged as written
  unsure,              \* history: name -> offsets an unfinished write touched
  torn,                \* history: a FAT with a chain into a free cluster was mounted
  crashes, ioErrors

fsVars == << dfat, droot, ddata, fat, fds, op, files, unsure, torn, crashes, ioErrors >>
disk == << dfat, droot, ddata >>
history == << files, unsure, torn >>
faults == << crashes, ioErrors >>

NoFd == [ name |-> "" ]
NoOp == [ phase |-> "idle" ]
Fds == 1 .. N_FDS

ASSUME Fat16Assumption ==
  /\ {CLUSTERS, CB, FPS, fat_sectors, N_FDS} \subseteq Nat \ {0}
  /\ CLUSTERS + 2 <= fat_sectors * FPS   \* a consistent image
  /\ {MAX_SIZE, CRASHES, IO_ERRORS} \subseteq Nat
  /\ FAT0 \in [Numbers -> Nat]
  /\ DOMAIN Payloads = FileNames

FsInit ==
  /\ dfat = FAT0 /\ fat = FAT0 /\ droot = ROOT
  /\ ddata = [ c \in Numbers |-> [ i \in 1 .. CB |-> 0 ] ]
  /\ fds = [ f \in Fds |-> NoFd ] /\ op = NoOp
  /\ files = [ n \in FileNames |->
       LET sizes == { ROOT[i].size : i \in { j \in DOMAIN ROOT : ROOT[j].name = n } }
       IN [ i \in 1 .. Max({0} \cup sizes) |-> 0 ] ]
  /\ unsure = [ n \in FileNames |-> {} ] /\ torn = FALSE
  /\ crashes = 0 /\ ioErrors = 0

-----------------------------------------------------------------------------
(* The FAT *)

next_cluster(ft, c) == IF ft[c] >= 65528 \/ ft[c] < 2 THEN 0 ELSE ft[c]

\* The FAT and a cluster (0: none), as the functions below pass them on.
At(ft, c) == [ fat |-> ft, cluster |-> c ]

\* The bug of linking a cluster without marking it as the end of the chain.
alloc_cluster_Unmarked(ft, prev) ==
  LET free == { c \in 2 .. fat_entries - 1 : ft[c] = FAT_FREE }
  IN IF free = {} THEN At(ft, 0)
     ELSE At(IF prev # 0 THEN [ft EXCEPT ![prev] = Min(free)] ELSE ft, Min(free))

alloc_cluster(ft, prev) ==
  LET free == { c \in 2 .. fat_entries - 1 : ft[c] = FAT_FREE }
      c == Min(free)
      ended == [ft EXCEPT ![c] = FAT_EOC]
  IN IF free = {} THEN At(ft, 0)
     ELSE At(IF prev # 0 THEN [ended EXCEPT ![prev] = c] ELSE ended, c)

\* The next cluster of a chain that is being written, extended at its end.
NextOrAlloc(p) ==
  IF p.cluster = 0 THEN p
  ELSE IF next_cluster(p.fat, p.cluster) # 0
  THEN At(p.fat, next_cluster(p.fat, p.cluster))
  ELSE alloc_cluster(p.fat, p.cluster)

\* write_file's walk to the cluster that covers an offset.
Covering(p, offset) ==
  LET walk[k \in 0 .. offset \div CB] ==
        IF k = 0 THEN p ELSE NextOrAlloc(walk[k - 1])
  IN walk[offset \div CB]

-----------------------------------------------------------------------------
(* The root directory *)

\* The sectors that fail from here on: a request goes on without them.
Failing(k) ==
  ioErrors + k <= IO_ERRORS /\ ioErrors' = ioErrors + k /\ UNCHANGED crashes

Slots16 == DOMAIN droot
Ends(root, i) == \E j \in Slots16 : j <= i /\ root[j].name = ""

\* find_root: the entries of that name before the end of the directory, the
\* first of which it returns.  A failing read makes it return none of them:
\* that is for its callers below.
find_root(root, n) == { i \in Slots16 : root[i].name = n /\ ~ Ends(root, i) }

FreeFds == { f \in Fds : fds[f] = NoFd }
OpenFile(n, i, e, writable) ==
  [ name |-> n, idx |-> i, start |-> e.start, size |-> e.size, writable |-> writable ]

\* alloc_fd: a full table makes the open fail.
alloc_fd(o) == IF FreeFds = {} THEN fds ELSE [fds EXCEPT ![Min(FreeFds)] = o]

serve_open(n, writable) ==
  LET i == Min(find_root(droot, n)) IN
  /\ op = NoOp /\ find_root(droot, n) # {}
  /\ fds' = alloc_fd(OpenFile(n, i, droot[i], writable))
  /\ UNCHANGED << disk, fat, op, history, faults >>

\* A write-open of a file that find_root does not return creates it
\* (create_root_file): the file is missing, or a read of the directory failed
\* and the name is entered a second time.  Other failing opens change nothing.
serve_open_create(n) ==
  LET free == { i \in Slots16 : droot[i].name \in {"", "deleted"} }
      i == Min(free)
  IN
  /\ op = NoOp /\ free # {}
  /\ Failing(IF find_root(droot, n) = {} THEN 0 ELSE 1)
  /\ droot' = [droot EXCEPT ![i] = [ Empty EXCEPT !.name = n ]]
  /\ fds' = alloc_fd(OpenFile(n, i, Empty, TRUE))
  /\ UNCHANGED << dfat, ddata, fat, op, history >>

serve_close(f) ==
  /\ op = NoOp /\ fds[f] # NoFd
  /\ fds' = [fds EXCEPT ![f] = NoFd]
  /\ UNCHANGED << disk, fat, op, history, faults >>

-----------------------------------------------------------------------------
(* A write request: data clusters, then the FAT, then the root entry *)

Touched(off, data) == off + 1 .. off + Len(data)
Larger(a, b) == IF a > b THEN a ELSE b

\* The bug of cutting the file after the bytes written.
GrownSize_Cut(size, off, data) == off + Len(data)

\* The size write_file records: a file only grows.
GrownSize(size, off, data) == Larger(size, off + Len(data))

\* serve_write and the head of write_file: the entry is read again from disk,
\* the first cluster is allocated and the chain walked to the offset.  A
\* request whose entry cannot be read is refused and changes nothing.
serve_write(f, off, data) ==
  LET n == fds[f].name
      e == droot[Min(find_root(droot, n))]
      p == Covering(IF e.start = 0 THEN alloc_cluster(fat, 0) ELSE At(fat, e.start), off)
      first == IF e.start = 0 THEN alloc_cluster(fat, 0).cluster ELSE e.start
  IN
  /\ op = NoOp /\ fds[f] # NoFd /\ fds[f].writable
  /\ off <= fds[f].size /\ off + Len(data) <= MAX_SIZE
  /\ find_root(droot, n) # {}
  /\ fat' = p.fat
  /\ op' = IF p.cluster = 0 THEN NoOp
           ELSE [ phase |-> "data", fd |-> f, off |-> off, data |-> data, src |-> 0,
                  cluster |-> p.cluster, skip |-> off % CB, sector |-> 0,
                  entry |-> [ e EXCEPT !.start = first ] ]
  /\ UNCHANGED << disk, fds, history, faults >>

\* The bug of writing a sector that was not read first.
Merge_Unread(sector, need) ==
  [ i \in 1 .. CB |-> IF i \in op.skip + 1 .. op.skip + need
                      THEN op.data[op.src + i - op.skip] ELSE 0 ]

\* The sector with `need` bytes of the request laid over it.
Merge(sector, need) ==
  [ i \in 1 .. CB |-> IF i \in op.skip + 1 .. op.skip + need
                      THEN op.data[op.src + i - op.skip] ELSE sector[i] ]

\* Read-modify-write of the sector under the cursor, then on to the next
\* cluster, which is allocated at the end of the chain.
WriteData ==
  LET need == Min({CB - op.skip, Len(op.data) - op.src})
      q == NextOrAlloc(At(fat, op.cluster))
      n == fds[op.fd].name
      last == op.src + need = Len(op.data)
  IN
  /\ op.phase = "data"
  /\ ddata' = [ddata EXCEPT ![op.cluster] = Merge(@, need)]
  /\ unsure' = [unsure EXCEPT ![n] = @ \cup Touched(op.off, op.data)]
  /\ IF last
     THEN /\ op' = [op EXCEPT !.phase = "fat",
                     !.entry.size = GrownSize(@, op.off, op.data)]
          /\ UNCHANGED fat
     ELSE /\ fat' = q.fat
          /\ op' = IF q.cluster = 0 THEN NoOp
                   ELSE [op EXCEPT !.src = @ + need, !.cluster = q.cluster, !.skip = 0]
  /\ UNCHANGED << dfat, droot, fds, files, torn, faults >>

\* flush_fat writes one sector of the cache; entries it does not count are
\* written as zero.
flush_fat ==
  /\ op.phase = "fat"
  /\ dfat' = [ c \in Numbers |->
       IF c \div FPS # op.sector THEN dfat[c]
       ELSE IF c < fat_entries THEN fat[c] ELSE FAT_FREE ]
  /\ op' = IF op.sector + 1 \in FAT_SECTORS THEN [op EXCEPT !.sector = @ + 1]
           ELSE [op EXCEPT !.phase = "root"]
  /\ UNCHANGED << droot, ddata, fat, fds, history, faults >>

Overwrite(old, off, data) ==
  [ i \in 1 .. Larger(Len(old), off + Len(data)) |->
      IF i \in Touched(off, data) THEN data[i - off] ELSE old[i] ]

\* The end of write_file, which ignores the result of write_root_entry, and of
\* serve_write: the open file is refreshed by another find_root, or left as it
\* was when that fails.  Either way the request is answered with success.
WriteRoot(written, refreshed) ==
  LET f == op.fd
      n == fds[f].name
      e == droot'[Min(find_root(droot', n))]
  IN
  /\ op.phase = "root"
  /\ Failing(Cardinality({ x \in {<<1, written>>, <<2, refreshed>>} : ~ x[2] }))
  /\ droot' = IF written THEN [droot EXCEPT ![fds[f].idx] = op.entry] ELSE droot
  /\ fds' = IF refreshed THEN [fds EXCEPT ![f] = OpenFile(n, @.idx, e, @.writable)] ELSE fds
  /\ files' = [files EXCEPT ![n] = Overwrite(@, op.off, op.data)]
  /\ unsure' = [unsure EXCEPT ![n] = @ \ Touched(op.off, op.data)]
  /\ op' = NoOp
  /\ UNCHANGED << dfat, ddata, fat, torn >>

\* A read or a write fails before: the request is answered with a failure, and
\* what it wrote stays.
WriteFails ==
  /\ op.phase \in {"data", "fat"} /\ Failing(1)
  /\ op' = NoOp
  /\ UNCHANGED << disk, fat, fds, history >>

\* A chain runs into a cluster that the FAT shows as free.
Dangles(ft) == \E c \in Numbers : next_cluster(ft, c) \in Numbers
                                 /\ ft[next_cluster(ft, c)] = FAT_FREE

\* The machine restarts: the volume is mounted again.
Crash ==
  /\ crashes < CRASHES /\ crashes' = crashes + 1
  /\ fat' = dfat /\ torn' = (torn \/ Dangles(dfat))
  /\ fds' = [ f \in Fds |-> NoFd ] /\ op' = NoOp
  /\ UNCHANGED << disk, files, unsure, ioErrors >>

FsNext ==
  \/ \E n \in FileNames : \/ \E writable \in BOOLEAN : serve_open(n, writable)
                          \/ serve_open_create(n)
  \/ \E f \in Fds : \/ serve_close(f)
                    \/ \E off \in 0 .. MAX_SIZE, n \in FileNames :
                         \E data \in Payloads[n] :
                           fds[f].name = n /\ serve_write(f, off, data)
  \/ WriteData \/ flush_fat
  \/ \E written, refreshed \in BOOLEAN : WriteRoot(written, refreshed)
  \/ WriteFails \/ Crash

FsSpec == FsInit /\ [][FsNext]_fsVars

-----------------------------------------------------------------------------
(* Properties *)

\* read_file's walk: the k-th cluster of a chain, 0 past its end.
Follow(ft, c) == IF c = 0 THEN 0 ELSE next_cluster(ft, c)
Nth(ft, start, k) ==
  LET walk[j \in 0 .. k] == IF j = 0 THEN start ELSE Follow(ft, walk[j - 1])
  IN walk[k]

Chain(ft, start) == { Nth(ft, start, k) : k \in 0 .. CLUSTERS } \ {0}

\* read_file of one byte, at position pos counted from 1.
read_file(ft, e, pos) ==
  LET c == Nth(ft, e.start, (pos - 1) \div CB)
  IN IF pos > e.size \/ c = 0 THEN 0 ELSE ddata[c][((pos - 1) % CB) + 1]

Entry(n) == droot[Min(find_root(droot, n))]
Present == { n \in FileNames : find_root(droot, n) # {} }

\* The clusters that hold the bytes of a file: those that cover its size.
Held(ft, e) == { Nth(ft, e.start, pos \div CB) : pos \in 0 .. e.size - 1 }

\* The name was not entered a second time: create_root_file was not reached
\* through a failing read of the directory.
EnteredOnce(n) == Cardinality({ i \in Slots16 : droot[i].name = n }) = 1

\* At every instant, between two sectors of flush_fat too, the clusters that
\* hold a file's bytes are all there on disk, are marked as used, and belong to
\* no other file; once the flush is complete this is so of whole chains.  It
\* rests on write_file's order (data, FAT, root entry).  It ends when a FAT
\* that was written in part, with a chain into a free cluster, is mounted.
VolumeSound ==
  ~ torn =>
    \A n \in Present :
      /\ \A c \in Held(dfat, Entry(n)) : c # 0 /\ dfat[c] # FAT_FREE
      /\ ~ Dangles(dfat) =>
           \A c \in Chain(dfat, Entry(n).start) : dfat[c] # FAT_FREE
      /\ \A m \in Present \ {n} :
           Chain(dfat, Entry(n).start) \cap Chain(dfat, Entry(m).start) = {}

\* Inside its size on disk, a file reads as the bytes that were acknowledged,
\* whatever other files, failed requests and crashes have done since, unless
\* a torn FAT was mounted or the file was entered a second time.
AcknowledgedBytesStay ==
  ~ torn =>
    \A n \in Present : EnteredOnce(n) =>
      \A pos \in (DOMAIN files[n] \cap 1 .. Entry(n).size) \ unsure[n] :
        read_file(fat, Entry(n), pos) = files[n][pos]

\* What an open file remembers of its entry may be old, or was not refreshed
\* because a read failed, but stays a prefix of the file, unless the file was
\* entered a second time: serve_read through it never reads another file's
\* clusters.
OpenFilesArePrefixes ==
  op = NoOp =>
    \A f \in Fds : fds[f] # NoFd /\ EnteredOnce(fds[f].name) =>
      LET e == Entry(fds[f].name) IN
      fds[f].start \in {0, e.start} /\ fds[f].size <= e.size
=============================================================================
