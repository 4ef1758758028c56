SPECIFICATION MachineFairSpec
CONSTANTS
  Secondaries = {1}
  WaitCores = {1}
  ASSERTS = 2
PROPERTY InterruptEndsWait
CHECK_DEADLOCK FALSE
