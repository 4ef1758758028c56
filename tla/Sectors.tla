------------------------------- MODULE Sectors -------------------------------
(***************************************************************************)
(* What a block device promises the file system: a call takes effect on the *)
(* sectors at one instant between its start and its return; a read that     *)
(* succeeds returns what the sector held at that instant, a write that      *)
(* succeeds has happened, and a call that fails may or may not have         *)
(* happened.                                                                *)
(***************************************************************************)
CONSTANTS SectorNos, Contents, Blank

VARIABLES
  disk,   \* sector -> contents
  call,   \* the call in progress: [write, sector, data], or NoCall
  answer  \* answer of the last call: [ok, data]

NoCall == [write |-> FALSE]

Start ==
  /\ call = NoCall
  /\ \E w \in BOOLEAN, s \in SectorNos, d \in Contents :
       call' = [write |-> w, sector |-> s, data |-> d]
  /\ UNCHANGED << disk, answer >>

\* The effect of a write may come before its answer.
Apply ==
  /\ call # NoCall /\ call.write
  /\ disk' = [disk EXCEPT ![call.sector] = call.data]
  /\ UNCHANGED << call, answer >>

Answer ==
  /\ call # NoCall /\ call' = NoCall
  /\ \E ok \in BOOLEAN, d \in Contents :
       /\ answer' = [ok |-> ok, data |-> d]
       /\ ok => d = disk[call.sector]
       /\ ok /\ call.write => d = call.data
  /\ UNCHANGED disk

Init ==
  /\ disk = [ s \in SectorNos |-> Blank ]
  /\ call = NoCall
  /\ answer = [ok |-> FALSE, data |-> Blank]

Spec == Init /\ [][Start \/ Apply \/ Answer]_<< disk, call, answer >>
==============================================================================
