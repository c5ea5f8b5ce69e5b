------------------------- MODULE MCExecStartupProbe -------------------------
(* Up to two failures; the output of the commands is left out, since no    *)
(* property here is about the logs.                                        *)
EXTENDS ExecStartupProbe

MCIntBits == 16
MCWindow == 2
MCJstackLog == "jstack.log"
MCMaxLines == [l \in {LogName, MCJstackLog} |-> 0]

MCConfs ==
  [probes : {{"exec"}}, initialDelaySeconds : {1}, timeoutSeconds : {1},
   periodSeconds : {0, 1}, successThreshold : {1}, failureThreshold : {-1, 1, 2}]
=============================================================================
