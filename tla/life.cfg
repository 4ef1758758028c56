SPECIFICATION Spec
CONSTANTS
  NCPUS = 2
  MAX_TASKS = 5
  IDLE_SLOT_BASE = 4
  MAX_PENDING_SENDERS = 1
  MAX_SLEEP = 1
  BOOT_WOKEN = 2
  PRIO <- MC_PRIO
  PEERS <- MC_PEERS
  CALLS <- MC_CALLS_Life
  BOOT <- MC_BOOT_HL
INVARIANTS OneCpuPerTask WaitsForOneThing NoMissedRendezvous
PROPERTIES QueuedMessageIsTaken
