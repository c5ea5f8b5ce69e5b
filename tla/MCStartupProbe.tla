--------------------------- MODULE MCStartupProbe ---------------------------
(* Configurations on both sides of every test of getProbeConf.             *)
EXTENDS StartupProbe

(* With ints of 16 bits, 33 seconds are a negative number of milliseconds  *)
(* and 8192 seconds are none.                                              *)
MCIntBits == 16
MCWindow == 3

MCConfs ==
  [probes : {{"exec"}, {"tcpSocket"}, {"httpGet"}}, initialDelaySeconds : {0, 1},
   timeoutSeconds : {1, 33, 8192}, periodSeconds : {1},
   successThreshold : {1, 2}, failureThreshold : 1 .. 3]
  \cup
  [probes : {{}, {"exec"}, {"exec", "httpGet"}}, initialDelaySeconds : {-1, 0},
   timeoutSeconds : {0, 1}, periodSeconds : {0, 1},
   successThreshold : {0, 1}, failureThreshold : {0, 1}]
=============================================================================
