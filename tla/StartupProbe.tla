---------------------------- MODULE StartupProbe ----------------------------
(***************************************************************************)
(* probe/StartupProbe: a process beside the application that probes it     *)
(* until it has started, then ends the profiling with jcmd and dumps the   *)
(* archive.  Here one probe is one step with some outcome, which is all    *)
(* there is to SocketProbe and HttpGetProbe; ExecStartupProbe refines it   *)
(* for ExecProbe, where a probe is a child process.                        *)
(***************************************************************************)
EXTENDS Integers, Sequences

CONSTANTS
  Confs,     \* the configurations that may be in the environment variable
  NoConf,    \* stands for one that is missing or that cannot be decoded
  IntBits,   \* the width of a Java int; 32 in the program
  Window     \* how many outcomes the history keeps

Conf == [probes : SUBSET {"exec", "tcpSocket", "httpGet"},
         initialDelaySeconds : Int, timeoutSeconds : Int, periodSeconds : Int,
         successThreshold : Int, failureThreshold : Int]

ASSUME ConfsAssumption ==
  /\ Confs \subseteq Conf
  /\ NoConf \notin Confs
  /\ IntBits \in Nat \ {0}
  /\ Window \in Nat
  /\ \A c \in Confs : c.failureThreshold <= Window /\ c.successThreshold <= Window

VARIABLES
  conf,             \* probeConf, before getProbeConf what it is read from
  pc,               \* where main is
  consecutiveSucc,
  consecutiveFail,
  recent            \* history: whether each of the last Window probes succeeded

loopVars == <<conf, pc, consecutiveSucc, consecutiveFail, recent>>

Steps == {"configure", "delay", "sleep", "probe", "notify", "dump",
          "dumped", "gaveUp", "thrown"}

TypeOK ==
  /\ conf \in Confs \cup {NoConf}
  /\ pc \in Steps
  /\ consecutiveSucc \in Nat
  /\ consecutiveFail \in Nat
  /\ recent \in Seq(BOOLEAN)

Init ==
  /\ conf \in Confs \cup {NoConf}
  /\ pc = "configure"
  /\ consecutiveSucc = 0
  /\ consecutiveFail = 0
  /\ recent = <<>>

-----------------------------------------------------------------------------
(* getProbeConf and getProbe.                                              *)

\* Mutant: any number of successes may be asked for.
AcceptedAnySuccesses(c) ==
  /\ c.initialDelaySeconds >= 0
  /\ c.timeoutSeconds >= 1
  /\ c.periodSeconds >= 1
  /\ c.successThreshold >= 1
  /\ c.failureThreshold >= 1
  /\ \E p \in c.probes : c.probes = {p}

Accepted(c) ==
  /\ c.initialDelaySeconds >= 0
  /\ c.timeoutSeconds >= 1
  /\ c.periodSeconds >= 1
  /\ c.successThreshold = 1
  /\ c.failureThreshold >= 1
  /\ \E p \in c.probes : c.probes = {p}

Configure ==
  /\ pc = "configure"
  /\ conf # NoConf /\ Accepted(conf)
  /\ pc' = IF conf.initialDelaySeconds > 0 THEN "delay" ELSE "sleep"
  /\ UNCHANGED <<conf, consecutiveSucc, consecutiveFail, recent>>

Reject ==
  /\ pc = "configure"
  /\ conf # NoConf => ~Accepted(conf)
  /\ pc' = "thrown"
  /\ UNCHANGED <<conf, consecutiveSucc, consecutiveFail, recent>>

-----------------------------------------------------------------------------
(* The loop.                                                               *)

Delay ==
  /\ pc = "delay"
  /\ pc' = "sleep"
  /\ UNCHANGED <<conf, consecutiveSucc, consecutiveFail, recent>>

Sleep ==
  /\ pc = "sleep"
  /\ pc' = "probe"
  /\ UNCHANGED <<conf, consecutiveSucc, consecutiveFail, recent>>

(* timeoutSeconds * 1000, in the width of an int.                          *)
Millis(seconds) ==
  LET m == (seconds * 1000) % 2^IntBits
  IN  IF m < 2^(IntBits - 1) THEN m ELSE m - 2^IntBits

(* ExecProbe gives the seconds to the process runner, the other two probes *)
(* give the milliseconds to a socket, where zero means no time-out and     *)
(* less than zero is an IllegalArgumentException.                          *)
Untimed == conf.probes # {"exec"} /\ Millis(conf.timeoutSeconds) = 0
Unusable == conf.probes # {"exec"} /\ Millis(conf.timeoutSeconds) < 0

\* Mutant: a threshold must be exceeded.
JudgeBeyond(success) ==
  /\ consecutiveSucc' = IF success THEN consecutiveSucc + 1 ELSE 0
  /\ consecutiveFail' = IF success THEN 0 ELSE consecutiveFail + 1
  /\ pc' = IF consecutiveFail' > conf.failureThreshold THEN "gaveUp"
           ELSE IF consecutiveSucc' >= conf.successThreshold THEN "notify"
           ELSE "sleep"

\* Mutant: an outcome other than success is not counted.
JudgeSuccessOnly(success) ==
  /\ consecutiveSucc' = IF success THEN consecutiveSucc + 1 ELSE 0
  /\ consecutiveFail' = IF success THEN 0 ELSE consecutiveFail
  /\ pc' = IF consecutiveFail' >= conf.failureThreshold THEN "gaveUp"
           ELSE IF consecutiveSucc' >= conf.successThreshold THEN "notify"
           ELSE "sleep"

\* Mutant: a success takes a failure back.
JudgeTakingBack(success) ==
  /\ consecutiveSucc' = IF success THEN consecutiveSucc + 1 ELSE 0
  /\ consecutiveFail' = IF success THEN consecutiveFail - 1 ELSE consecutiveFail + 1
  /\ pc' = IF consecutiveFail' >= conf.failureThreshold THEN "gaveUp"
           ELSE IF consecutiveSucc' >= conf.successThreshold THEN "notify"
           ELSE "sleep"

(* The counters after a probe, with the tests for the two thresholds.  An  *)
(* exception counts as a failure.                                          *)
Judge(success) ==
  /\ consecutiveSucc' = IF success THEN consecutiveSucc + 1 ELSE 0
  /\ consecutiveFail' = IF success THEN 0 ELSE consecutiveFail + 1
  /\ pc' = IF consecutiveFail' >= conf.failureThreshold THEN "gaveUp"
           ELSE IF consecutiveSucc' >= conf.successThreshold THEN "notify"
           ELSE "sleep"

Remember(success) ==
  recent' = LET all == Append(recent, success)
            IN  IF Len(all) > Window THEN Tail(all) ELSE all

Probe(success) ==
  /\ pc = "probe"
  /\ success => ~Unusable
  /\ Judge(success)
  /\ Remember(success)
  /\ UNCHANGED conf

(* An Error is not caught: readFile throws one when it cannot read the log *)
(* of the command.                                                         *)
ProbeError ==
  /\ pc = "probe"
  /\ conf.probes = {"exec"}
  /\ pc' = "thrown"
  /\ UNCHANGED <<conf, consecutiveSucc, consecutiveFail, recent>>

-----------------------------------------------------------------------------
(* dump: the profiled JVM is told to write its class list, then a JVM is   *)
(* started that dumps the archive.                                         *)

NotifyFinishProfile(success) ==
  /\ pc = "notify"
  /\ pc' = IF success THEN "dump" ELSE "thrown"
  /\ UNCHANGED <<conf, consecutiveSucc, consecutiveFail, recent>>

DoDump(success) ==
  /\ pc = "dump"
  /\ pc' = IF success THEN "dumped" ELSE "thrown"
  /\ UNCHANGED <<conf, consecutiveSucc, consecutiveFail, recent>>

Next ==
  \/ Configure \/ Reject \/ Delay \/ Sleep
  \/ \E success \in BOOLEAN :
       Probe(success) \/ NotifyFinishProfile(success) \/ DoDump(success)
  \/ ProbeError

(* The thread runs, and a probe that has a time-out has an outcome.  jcmd  *)
(* and the dump are waited for without one.                                *)
Answer == pc = "probe" /\ ~Untimed /\ (ProbeError \/ \E success \in BOOLEAN : Probe(success))

Fairness ==
  /\ WF_loopVars(Configure \/ Reject \/ Delay \/ Sleep)
  /\ WF_loopVars(Answer)

Spec == Init /\ [][Next]_loopVars /\ Fairness

-----------------------------------------------------------------------------
(* The last n probes all had this outcome.                                 *)
Streak(success, n) ==
  /\ n <= Len(recent)
  /\ \A i \in (Len(recent) - n + 1) .. Len(recent) : recent[i] = success

(* The loop of main (lines 36-60) stops at the first probe that completes  *)
(* one of the two streaks that the configuration asks for, with the        *)
(* outcome of that streak: no dump without it, no probing beyond it.       *)
ThresholdExact ==
  /\ pc \in {"sleep", "probe"} => /\ ~Streak(TRUE, conf.successThreshold)
                                  /\ ~Streak(FALSE, conf.failureThreshold)
  /\ pc \in {"notify", "dump", "dumped"} => Streak(TRUE, conf.successThreshold)
  /\ pc = "gaveUp" => Streak(FALSE, conf.failureThreshold)

LoopOver == pc \in {"notify", "dump", "dumped", "gaveUp", "thrown"}

(* Whatever the probes find, and in whichever order, the loop of main      *)
(* (lines 36-60) ends, because getProbeConf accepts one success only; the  *)
(* exception is a time-out that wraps to zero, which is none.              *)
LoopEnds == (conf # NoConf => ~Untimed) ~> LoopOver
=============================================================================
