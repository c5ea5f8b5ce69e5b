-------------------------- MODULE ExecStartupProbe --------------------------
(***************************************************************************)
(* The start-up probe with an ExecProbe: StartupProbe's loop over          *)
(* ProcessRunner's processes.  Every probe, jcmd and the dump are calls of *)
(* runProcess, all of them verbose and with one log; only the probes have  *)
(* a time-out.  It implements StartupProbe, for the same variables.        *)
(***************************************************************************)
EXTENDS Integers, Sequences, FiniteSets

CONSTANTS Confs, NoConf, IntBits, Window, JstackLog, MaxLines

VARIABLES
  conf, pc, consecutiveSucc, consecutiveFail, recent,   \* StartupProbe
  calls, logs,                                          \* ProcessRunner
  calling                                               \* whether main is in runProcess

LogName == "startupProbe.log"

(* What the calls are is main's affair here, so the client has none.       *)
Loop == INSTANCE StartupProbe
Runner == INSTANCE ProcessRunner
            WITH Logs <- {LogName}, Uses <- {}, MaxCalls <- Window + 2

ASSUME ExecAssumption ==
  /\ Confs \subseteq Loop!Conf /\ NoConf \notin Confs
  /\ IntBits \in Nat \ {0} /\ Window \in Nat
  /\ \A c \in Confs : c.failureThreshold <= Window /\ c.successThreshold <= Window
  /\ JstackLog # LogName /\ MaxLines \in [{LogName, JstackLog} -> Nat]

loopVars == <<conf, pc, consecutiveSucc, consecutiveFail, recent>>
runnerVars == <<calls, logs>>
vars == <<loopVars, runnerVars, calling>>

TypeOK ==
  /\ Loop!TypeOK
  /\ Runner!TypeOK
  /\ calling \in BOOLEAN

Init ==
  /\ Loop!Init
  /\ Runner!Init
  /\ calling = FALSE

\* Mutant: the probe gives no time-out to its command.
InvokeUntimed ==
  /\ ~calling /\ pc \in {"probe", "notify", "dump"}
  /\ Runner!RunProcess(calls, LogName, TRUE, FALSE, 0)
  /\ calling' = TRUE
  /\ UNCHANGED loopVars

-----------------------------------------------------------------------------
(* isSuccess, notifyFinishProfile and doDump: into runProcess ...          *)
Invoke ==
  /\ ~calling /\ pc \in {"probe", "notify", "dump"}
  /\ Runner!RunProcess(calls, LogName, TRUE, pc = "probe", 0)
  /\ calling' = TRUE
  /\ UNCHANGED loopVars

(* ... and back, with the outcome of the outer call: calls that jstack     *)
(* makes come after it.                                                    *)
IsLast(c) ==
  /\ c \in DOMAIN calls /\ calls[c].by = 0
  /\ \A d \in DOMAIN calls : calls[d].by = 0 => d <= c

LastCall == CHOOSE c \in DOMAIN calls : IsLast(c)

Return ==
  /\ calling /\ Runner!Idle
  /\ LET success == calls[LastCall].outcome = "ok"
     IN  \/ Loop!Probe(success)
         \/ Loop!NotifyFinishProfile(success)
         \/ Loop!DoDump(success)
  /\ calling' = FALSE
  /\ UNCHANGED runnerVars

(* readFile, at the end of a failed command, cannot read the log.          *)
ReturnError ==
  /\ calling /\ Runner!Idle /\ calls[LastCall].outcome = "failed"
  /\ Loop!ProbeError
  /\ calling' = FALSE
  /\ UNCHANGED runnerVars

Main ==
  \/ /\ Loop!Configure \/ Loop!Reject \/ Loop!Delay \/ Loop!Sleep
     /\ UNCHANGED <<runnerVars, calling>>
  \/ Invoke
  \/ Return
  \/ ReturnError
  \/ Runner!Caller /\ UNCHANGED <<loopVars, calling>>

Process(c) == Runner!Child(c) /\ UNCHANGED <<loopVars, calling>>
Reader(c) == Runner!Reader(c) /\ UNCHANGED <<loopVars, calling>>

Next == Main \/ \E c \in DOMAIN calls : Process(c) \/ Reader(c)

(* As in ProcessRunner: nothing makes a probe's command, jcmd or the dump  *)
(* end, unless it is killed.                                               *)
Ends(c) == Runner!Ends(c) /\ UNCHANGED <<loopVars, calling>>

AllCalls == 1 .. 2 * (Window + 2)

Fairness ==
  /\ WF_vars(Main)
  /\ \A c \in AllCalls : /\ WF_vars(c \in DOMAIN calls /\ Reader(c))
                         /\ WF_vars(c \in DOMAIN calls /\ Ends(c))

Spec == Init /\ [][Next]_vars /\ Fairness

-----------------------------------------------------------------------------
(* The probe over child processes is the probe of StartupProbe: every      *)
(* outcome is one the loop may see, and each probe has one in the end even *)
(* if its command hangs (ExecProbe.java:18-22), so that the loop's own     *)
(* liveness carries over.                                                  *)
ImplementsLoop == Loop!Spec

(* Commands that outlive their call pile up: each is a probe that timed    *)
(* out and was not killed (Utils.java:152-153).  Each of them has counted  *)
(* as a failure, so there are never more than failureThreshold.            *)
Strays == {c \in DOMAIN calls : Runner!Done(c) /\ calls[c].child = "running"}

StraysBounded ==
  /\ Strays # {} => conf # NoConf /\ Cardinality(Strays) <= conf.failureThreshold
  /\ pc \in {"sleep", "probe"} /\ ~calling => Cardinality(Strays) <= consecutiveFail

(* The same in this program, where readers may outlive several calls.      *)
ReadersEnd == Runner!ReadersEnd

-----------------------------------------------------------------------------
(* Why StraysBounded holds.  main is in its last call, that of a probe if  *)
(* it has a time-out; every other call is over.                            *)
CallingInv ==
  /\ ~calling => Runner!Idle
  /\ calling =>
       \E c \in DOMAIN calls :
         /\ IsLast(c)
         /\ \A d \in DOMAIN calls : calls[d].by = 0 /\ d # c => Runner!Done(d)
         /\ pc \in {"probe", "notify", "dump"}
         /\ calls[c].timed <=> pc = "probe"
  /\ pc = "configure" \/ conf = NoConf => calls = <<>>

(* A stray has failed, so it has been counted, or will be when main        *)
(* returns from it.                                                        *)
Counted == IF calling THEN Strays \ {LastCall} ELSE Strays

StrayInv ==
  /\ \A c \in Strays : calls[c].outcome = "failed"
  /\ pc \in {"delay", "sleep", "probe"} => Cardinality(Counted) <= consecutiveFail
  /\ conf # NoConf /\ pc \in {"notify", "dump", "dumped", "gaveUp"} =>
       Cardinality(Strays) <= conf.failureThreshold
  /\ pc = "thrown" /\ Strays # {} =>
       conf # NoConf /\ Cardinality(Strays) <= conf.failureThreshold

IndInv == CallingInv /\ StrayInv
=============================================================================
