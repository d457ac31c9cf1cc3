CONSTANTS
  Calls <- MCCalls
  CmdLines <- MCCmdLines
  Hosts <- MCHosts
  Interps <- MCInterps
SPECIFICATION Spec
INVARIANTS
  TypeOK
  ConfigMkSound
CHECK_DEADLOCK FALSE
