-------------------------- MODULE MCProcessRunner --------------------------
(* Two calls one after the other on one log: six processes and readers at  *)
(* most, of which four overlap when a child outlives its call.             *)
EXTENDS ProcessRunner

(* ExecProbe, the other verbose calls, and CDSDumper when it is not.       *)
MCUses == {<<TRUE, TRUE>>, <<TRUE, FALSE>>, <<FALSE, FALSE>>}

MCLogs == {"startupProbe.log"}
MCJstackLog == "jstack.log"

(* Of jstack only the command is told apart when there are two calls.      *)
MCMaxLines == [l \in MCLogs \cup {MCJstackLog} |-> IF l = MCJstackLog THEN 0 ELSE 1]
MCMaxLinesTwo == [l \in MCLogs \cup {MCJstackLog} |-> 2]
=============================================================================
