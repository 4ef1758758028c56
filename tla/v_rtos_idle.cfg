SPECIFICATION RtosFairSpec
CONSTANTS
  DEMO_MSGS = 3
  TIMER_ROUNDS = 2
  MAX_WAITERS = 2
  MSGQ_DEPTH = 2
PROPERTY GuestParks
CHECK_DEADLOCK FALSE
