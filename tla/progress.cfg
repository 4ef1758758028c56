SPECIFICATION FairSpec
CONSTANTS
  NCPUS = 1
  MAX_TASKS = 5
  IDLE_SLOT_BASE = 4
  MAX_PENDING_SENDERS = 1
  MAX_SLEEP = 2
  BOOT_WOKEN = 3
  PRIO <- MC_PRIO
  PEERS <- MC_PEERS
  CALLS <- MC_CALLS_Hog
  BOOT <- MC_BOOT_HML
PROPERTIES SleepersWake BusyTasksRotate
