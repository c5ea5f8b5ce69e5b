\* The start-up probe with a command.
SPECIFICATION Spec
CONSTANTS
  NoConf = NoConf
  Confs <- MCConfs
  IntBits <- MCIntBits
  Window <- MCWindow
  JstackLog <- MCJstackLog
  MaxLines <- MCMaxLines
INVARIANTS
  TypeOK
  StraysBounded
PROPERTIES
  ImplementsLoop
  ReadersEnd
CHECK_DEADLOCK FALSE
