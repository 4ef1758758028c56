---------------------------- MODULE MC_Integrity ----------------------------
(***************************************************************************)
(* The components that keep other programs' data, checked in one run: the   *)
(* FAT16 volume, physical memory and address spaces, the servers' heap, the *)
(* EL3 monitor, the desktop and the display's GPU driver.  They share no    *)
(* state: a behaviour picks one part at the start and only that part moves  *)
(* (see MC_Network).                                                        *)
(***************************************************************************)
EXTENDS Fat16, Memory, Heap, Monitor, Desktop, Gpu

VARIABLE part

MC_ROOT == << Deleted, [ name |-> "A", start |-> 2, size |-> 1 ], Empty >>
MC_FAT0 == [ c \in Numbers |-> IF c = 2 THEN FAT_EOC ELSE FAT_FREE ]
MC_Payloads == "A" :> { << 1, 2 >> } @@ "B" :> { << 3, 4 >> }
MC_Stack == "t" :> << 1, 2 >> @@ "u" :> << 3, 4 >>

dataVars == << part, fsVars, memVars, heapVars, monVars, deskVars, gpuVars >>

Init ==
  /\ part \in {"fs", "memory", "heap", "monitor", "desktop", "gpu"}
  /\ FsInit /\ MemInit /\ HeapInit /\ MonitorInit
  /\ DeskInit /\ GpuInit

\* Only part p may move.
Only(p) ==
  /\ part = p /\ UNCHANGED part
  /\ p # "fs" => UNCHANGED fsVars
  /\ p # "memory" => UNCHANGED memVars
  /\ p # "heap" => UNCHANGED heapVars
  /\ p # "monitor" => UNCHANGED monVars
  /\ p # "desktop" => UNCHANGED deskVars
  /\ p # "gpu" => UNCHANGED gpuVars

Next ==
  \/ Only("fs") /\ FsNext
  \/ Only("memory") /\ MemNext
  \/ Only("heap") /\ HeapNext
  \/ Only("monitor") /\ MonitorNext
  \/ Only("desktop") /\ DeskNext
  \/ Only("gpu") /\ GpuNext

Spec == Init /\ [][Next]_dataVars
=============================================================================
