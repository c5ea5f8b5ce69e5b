\* One call: what its child writes is not always printed.
SPECIFICATION Spec
CONSTANTS
  Logs <- MCLogs
  JstackLog <- MCJstackLog
  MaxCalls = 1
  MaxLines <- MCMaxLinesTwo
  Uses <- MCUses
INVARIANTS
  LogPrinted
CHECK_DEADLOCK FALSE
