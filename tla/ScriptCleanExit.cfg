CONSTANTS
  Args <- MCArgs
SPECIFICATION Spec
INVARIANTS
  CleanExit
CHECK_DEADLOCK FALSE
