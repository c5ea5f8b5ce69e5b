\* Two calls, with and without time-out, verbose or not.
SPECIFICATION Spec
CONSTANTS
  Logs <- MCLogs
  JstackLog <- MCJstackLog
  MaxCalls = 2
  MaxLines <- MCMaxLines
  Uses <- MCUses
INVARIANTS
  TypeOK
  StrayExplained
  ReportOwn
CHECK_DEADLOCK FALSE
