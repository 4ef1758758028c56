----------------------------- MODULE MC_Kernel -----------------------------
(***************************************************************************)
(* Small instances of Kernel.  A task is named after its priority; each     *)
(* workload gives every name the calls its program makes.                   *)
(***************************************************************************)
EXTENDS Kernel

MC_PRIO == [ hi |-> 1, mid |-> 2, low |-> 3 ]
MC_PEERS == [ n \in Names |-> Names ]

Ipc == {"send", "receive_any", "receive_from"}

\* Everybody talks to everybody, sleeps and dies.
MC_CALLS_Ipc == [ n \in Names |-> Ipc \cup {"sleep", "exit", "fault", "other"} ]

\* A manager kills, spawns and execs tasks that use every other call.
MC_CALLS_Life ==
  [ hi  |-> {"receive_any", "kill", "exec", "spawn", "yield", "other"},
    mid |-> {"send", "receive_any", "sleep", "wait_irq", "yield", "exit", "fault"},
    low |-> {"send", "receive_any", "sleep", "wait_irq", "yield", "exit", "fault"} ]

\* `low` never blocks (the hog server); the others sleep and exchange messages.
MC_CALLS_Hog ==
  [ hi |-> Ipc \cup {"sleep"}, mid |-> Ipc \cup {"sleep"}, low |-> {"yield", "other"} ]
\* `low` drives a device, the others compute.
MC_CALLS_Driver == [ hi |-> {"other"}, mid |-> {"other"}, low |-> {"wait_irq"} ]

BootSlots(names) == [ s \in TaskSlots |-> IF s \in DOMAIN names THEN names[s] ELSE "" ]
MC_BOOT_HL  == BootSlots(<<"hi", "low">>)
MC_BOOT_HML == BootSlots(<<"hi", "mid", "low">>)
MC_BOOT_MHL == BootSlots(<<"mid", "hi", "low">>)
MC_BOOT_LHM == BootSlots(<<"low", "hi", "mid">>)
=============================================================================
