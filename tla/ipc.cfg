SPECIFICATION Spec
CONSTANTS
  NCPUS = 2
  MAX_TASKS = 5
  IDLE_SLOT_BASE = 4
  MAX_PENDING_SENDERS = 1
  MAX_SLEEP = 1
  BOOT_WOKEN = 3
  PRIO <- MC_PRIO
  PEERS <- MC_PEERS
  CALLS <- MC_CALLS_Ipc
  BOOT <- MC_BOOT_HML
INVARIANTS TypeOK
PROPERTIES WokenByRendezvous ImplementsRendezvous
