SPECIFICATION Spec
CONSTANTS
  QUEUE_SIZE = 2
  IDX_MAX = 4
  SectorNos = {1, 2}
  Contents = {"a", "b"}
  Blank = "a"
  WAIT_ROUNDS = 2
  SLOW = FALSE
  BLK_CALLS = 5
  Secondaries = {1}
  WaitCores = {0}
  ASSERTS = 2
  TENANTS = 2
  RING = 2
  QUANTUM = 1
  MAX_PASSES = 3
  STEPS = 1
  Draining = {0}
  PRINTS = 2
  PINGS = 3
  MSGQ_SLOTS = 4
  DEPTH = 3
INVARIANTS
  EveryReturnHasItsInterrupt
  ResumesWhereItStopped
  EchoAnswersItsPrint
PROPERTIES
  ImplementsSectors
  CallsReturn
  InterruptEndsWait
  ParkedCorePicksWork
  RotationIsOver
  DialogueIsComplete
CHECK_DEADLOCK FALSE
