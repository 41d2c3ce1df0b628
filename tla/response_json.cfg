SPECIFICATION StreamSpec
CONSTANTS
  None = None
INVARIANTS
  JsonAccepted
CHECK_DEADLOCK FALSE
