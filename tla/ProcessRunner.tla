--------------------------- MODULE ProcessRunner ---------------------------
(***************************************************************************)
(* util/Utils.runProcess: one thread starts a child process with a log,    *)
(* waits for it, perhaps with a time-out, and turns its exit value into a  *)
(* result.  A verbose call also starts a thread that copies the log to the *)
(* console.  On a time-out the child is examined with jstack, in a nested  *)
(* call of runProcess, and then killed.                                    *)
(***************************************************************************)
EXTENDS Integers, Sequences

CONSTANTS
  Logs,        \* the log files that callers name
  JstackLog,   \* the log file of jstack, in the same directory
  Uses,        \* the pairs (verbose, timed) that callers pass
  MaxCalls,    \* bound: how many calls the client makes
  MaxLines     \* bound: how many lines a child writes, for each log

ASSUME LogsAssumption ==
  /\ JstackLog \notin Logs
  /\ Uses \subseteq BOOLEAN \X BOOLEAN
  /\ MaxCalls \in Nat
  /\ MaxLines \in [Logs \cup {JstackLog} -> Nat]

VARIABLES
  calls,   \* the calls of runProcess made so far, each with its child and its reader
  logs     \* what is in each log file: lines, as the call and a number

runnerVars == <<calls, logs>>

LogFiles == Logs \cup {JstackLog}

Line == (Nat \ {0}) \X Nat

CallRecord ==
  [log : LogFiles, verbose : BOOLEAN, timed : BOOLEAN,
   by : Nat,        \* 0, or the call whose child this jstack examines
   pc : {"wait", "diagnose", "done"},
   outcome : {"none", "ok", "failed", "timeout"},
   report : Seq(Line),   \* the lines that the exception quotes
   child : {"none", "running", "dying", "exited"},
   ret : {0, 1},
   written : Nat,
   reader : {"none", "read", "look", "done"},
   position : Nat]  \* how many lines of the log the reader has printed

(* A verbose call has a reader from the start of its child on, no other    *)
(* has one; a call without a child has failed.                             *)
Call ==
  {r \in CallRecord :
     /\ r.reader = "none" <=> ~r.verbose \/ r.child = "none"
     /\ r.child = "none" => r.pc = "done" /\ r.outcome = "failed"}

TypeOK ==
  /\ calls \in Seq(Call)
  /\ logs \in [LogFiles -> Seq(Line)]

Init ==
  /\ calls = <<>>
  /\ logs = [l \in LogFiles |-> <<>>]

-----------------------------------------------------------------------------
(* The thread.  It is in the last call that is not done: the others that   *)
(* are not done wait for a jstack.                                         *)

Done(c) == calls[c].pc = "done"
Idle == \A c \in DOMAIN calls : Done(c)
InCall(c) == /\ ~Done(c)
             /\ \A d \in DOMAIN calls : d > c => Done(d)

\* Mutant: the log is copied whether the call is verbose or not.
NewCallReading(l, verbose, timed, by, starts) ==
  [log |-> l, verbose |-> verbose, timed |-> timed, by |-> by,
   pc |-> IF starts THEN "wait" ELSE "done",
   outcome |-> IF starts THEN "none" ELSE "failed",
   report |-> <<>>,
   child |-> IF starts THEN "running" ELSE "none",
   ret |-> 0, written |-> 0,
   reader |-> IF starts THEN "read" ELSE "none",
   position |-> 0]

NewCall(l, verbose, timed, by, starts) ==
  [log |-> l, verbose |-> verbose, timed |-> timed, by |-> by,
   pc |-> IF starts THEN "wait" ELSE "done",
   outcome |-> IF starts THEN "none" ELSE "failed",
   report |-> <<>>,
   child |-> IF starts THEN "running" ELSE "none",
   ret |-> 0, written |-> 0,
   reader |-> IF starts /\ verbose THEN "read" ELSE "none",
   position |-> 0]

\* Mutant: the command is appended to what is in the log.
PrintArgsAppending(l, verbose, c) ==
  logs' = [logs EXCEPT ![l] = IF verbose THEN Append(@, <<c, 0>>) ELSE @]

(* printArgs opens the log without appending to it, verbose or not.        *)
PrintArgs(l, verbose, c) ==
  logs' = [logs EXCEPT ![l] = IF verbose THEN << <<c, 0>> >> ELSE <<>>]

(* The first part of runProcess, up to the wait.  before is calls with     *)
(* what the caller has noted in them; start() throws an IOException when   *)
(* the command is not there.                                               *)
RunProcess(before, l, verbose, timed, by) ==
  \E starts \in BOOLEAN :
    /\ calls' = Append(before, NewCall(l, verbose, timed, by, starts))
    /\ PrintArgs(l, verbose, Len(before) + 1)

(* The wait is over; a return value other than 0 is an exception that      *)
(* quotes the log.                                                         *)
WaitReturns(c) ==
  /\ InCall(c) /\ calls[c].pc = "wait" /\ calls[c].child = "exited"
  /\ calls' = [calls EXCEPT ![c] = [@ EXCEPT
       !.pc = "done",
       !.outcome = IF calls[c].ret = 0 THEN "ok" ELSE "failed",
       !.report = IF calls[c].ret = 0 THEN <<>> ELSE logs[calls[c].log]]]
  /\ UNCHANGED logs

TimesOut(c) ==
  /\ InCall(c) /\ calls[c].pc = "wait" /\ calls[c].timed
  /\ calls[c].child = "running"
  /\ RunProcess([calls EXCEPT ![c] = [@ EXCEPT !.pc = "diagnose"]], JstackLog, TRUE, FALSE, c)

\* Mutant: nothing kills the child.
JstackReturnsLeavingChild(c, j) ==
  /\ InCall(c) /\ calls[c].pc = "diagnose"
  /\ calls[j].by = c /\ calls[j].outcome = "ok"
  /\ calls' = [calls EXCEPT ![c] = [@ EXCEPT !.pc = "done", !.outcome = "timeout"]]
  /\ UNCHANGED logs

(* jstack has been run: destroyForcibly, TimeoutException.                 *)
JstackReturns(c, j) ==
  /\ InCall(c) /\ calls[c].pc = "diagnose"
  /\ calls[j].by = c /\ calls[j].outcome = "ok"
  /\ calls' = [calls EXCEPT ![c] = [@ EXCEPT
       !.pc = "done",
       !.outcome = "timeout",
       !.child = IF calls[c].child = "running" THEN "dying" ELSE calls[c].child]]
  /\ UNCHANGED logs

(* jstack could not be started or failed: its exception leaves this call   *)
(* too, before destroyForcibly.                                            *)
JstackThrows(c, j) ==
  /\ InCall(c) /\ calls[c].pc = "diagnose"
  /\ calls[j].by = c /\ calls[j].outcome = "failed"
  /\ calls' = [calls EXCEPT ![c] = [@ EXCEPT
       !.pc = "done", !.outcome = "failed", !.report = calls[j].report]]
  /\ UNCHANGED logs

Caller ==
  \E c \in DOMAIN calls :
    \/ WaitReturns(c)
    \/ TimesOut(c)
    \/ \E j \in DOMAIN calls : JstackReturns(c, j) \/ JstackThrows(c, j)

-----------------------------------------------------------------------------
(* The children.  Output that is discarded is no step at all.  A process   *)
(* that is being killed may get a last write through.                      *)

ChildWrites(c) ==
  /\ calls[c].child \in {"running", "dying"}
  /\ calls[c].written < MaxLines[calls[c].log]
  /\ calls' = [calls EXCEPT ![c] = [@ EXCEPT !.written = calls[c].written + 1]]
  /\ logs' = [logs EXCEPT ![calls[c].log] = Append(@, <<c, calls[c].written + 1>>)]

ChildExits(c, ret) ==
  /\ \/ calls[c].child = "running"
     \/ calls[c].child = "dying" /\ ret = 1
  /\ calls' = [calls EXCEPT ![c] = [@ EXCEPT !.child = "exited", !.ret = ret]]
  /\ UNCHANGED logs

Child(c) == ChildWrites(c) \/ \E ret \in {0, 1} : ChildExits(c, ret)

-----------------------------------------------------------------------------
(* readProcessOutputWithThread: a line if there is one, then a look at the *)
(* child, over and over.                                                   *)

ReaderReads(c) ==
  /\ calls[c].reader = "read"
  /\ calls' = [calls EXCEPT ![c] = [@ EXCEPT
       !.reader = "look",
       !.position = IF calls[c].position < Len(logs[calls[c].log])
                     THEN calls[c].position + 1 ELSE calls[c].position]]
  /\ UNCHANGED logs

\* Mutant: the thread waits for the call to succeed, not for the child.
ReaderLooksAtCall(c) ==
  /\ calls[c].reader = "look"
  /\ calls' = [calls EXCEPT ![c] = [@ EXCEPT
       !.reader = IF calls[c].outcome = "ok" THEN "done" ELSE "read"]]
  /\ UNCHANGED logs

ReaderLooks(c) ==
  /\ calls[c].reader = "look"
  /\ calls' = [calls EXCEPT ![c] = [@ EXCEPT
       !.reader = IF calls[c].child = "exited" THEN "done" ELSE "read"]]
  /\ UNCHANGED logs

Reader(c) == ReaderReads(c) \/ ReaderLooks(c)

-----------------------------------------------------------------------------
(* A client that runs one process after the other, as StartupProbe and     *)
(* CDSDumper do.                                                           *)

ClientCalls(l, verbose, timed) ==
  /\ Idle
  /\ MaxCalls > Len(SelectSeq(calls, LAMBDA call : call.by = 0))
  /\ RunProcess(calls, l, verbose, timed, 0)

Next ==
  \/ \E l \in Logs, use \in Uses : ClientCalls(l, use[1], use[2])
  \/ Caller
  \/ \E c \in DOMAIN calls : Child(c) \/ Reader(c)

(* The threads run, a killed process dies, and jstack ends by itself (it   *)
(* gives up when the process does not answer).  Nothing makes any other    *)
(* child end.                                                              *)
MustEnd(c) == calls[c].child = "dying" \/ calls[c].by # 0

Ends(c) == MustEnd(c) /\ \E ret \in {0, 1} : ChildExits(c, ret)

RunnerFairness ==
  /\ WF_runnerVars(Caller)
  /\ \A c \in 1 .. 2 * MaxCalls :
       /\ WF_runnerVars(c \in DOMAIN calls /\ Reader(c))
       /\ WF_runnerVars(c \in DOMAIN calls /\ Ends(c))

Spec == Init /\ [][Next]_runnerVars /\ RunnerFairness

-----------------------------------------------------------------------------
(* The call of c timed out: the end of its child was not waited for.       *)
TimedOut(c) == \E j \in DOMAIN calls : calls[j].by = c

(* runProcess leaves no child running behind it, except one whose stack    *)
(* could not be taken (line 152 throws, line 153 is not reached).          *)
StrayExplained ==
  \A c \in DOMAIN calls :
    Done(c) /\ calls[c].child = "running" =>
      \E j \in DOMAIN calls : calls[j].by = c /\ calls[j].outcome = "failed"

(* The exception that reports a failed child (line 165) quotes what this   *)
(* child wrote, or jstack, or a child that was timed out of before: not    *)
(* what an earlier call that ended left in the log of that name.           *)
ReportOwn ==
  \A c \in DOMAIN calls : \A i \in DOMAIN calls[c].report :
    LET writer == calls[c].report[i][1]
    IN  writer = c \/ calls[writer].by = c \/ TimedOut(writer)

(* The thread that copies the log is not a daemon: it ends once its child  *)
(* has (lines 88-90), however main goes on, or the program never ends.     *)
(* Calls are finite in number, so none may be behind for ever.             *)
ReadersEnd ==
  []<>(\A c \in DOMAIN calls :
         calls[c].child = "exited" => calls[c].reader \in {"none", "done"})

(* What the comment on lines 137-139 says the thread is for: what goes to  *)
(* the log goes to the console as well.                                    *)
LogPrinted ==
  \A c \in DOMAIN calls :
    calls[c].reader = "done" => calls[c].position = Len(logs[calls[c].log])
=============================================================================
