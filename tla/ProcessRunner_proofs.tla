------------------------ MODULE ProcessRunner_proofs ------------------------
(***************************************************************************)
(* Theorems about ProcessRunner for any number of calls, lines and logs.   *)
(***************************************************************************)
EXTENDS ProcessRunner, TLAPS

LEMMA CallTypes ==
    ASSUME TypeOK
    PROVE  /\ calls \in Seq(Call) /\ Len(calls) \in Nat /\ DOMAIN calls = 1 .. Len(calls)
           /\ logs \in [LogFiles -> Seq(Line)]
           /\ \A c \in DOMAIN calls : calls[c] \in Call
BY DEF TypeOK

\* An update of one call keeps calls a sequence of calls, and the others.
LEMMA PutCall ==
    ASSUME TypeOK, NEW c \in DOMAIN calls, NEW r \in Call
    PROVE  LET after == [calls EXCEPT ![c] = r]
           IN  /\ after \in Seq(Call) /\ Len(after) = Len(calls)
               /\ DOMAIN after = DOMAIN calls
               /\ after[c] = r
               /\ \A d \in DOMAIN calls : d # c => after[d] = calls[d]
BY CallTypes

\* So does a new call at the end.
LEMMA NewCallType ==
    ASSUME NEW l \in LogFiles, NEW verbose \in BOOLEAN, NEW timed \in BOOLEAN,
           NEW by \in Nat, NEW starts \in BOOLEAN
    PROVE  NewCall(l, verbose, timed, by, starts) \in Call
BY DEF NewCall, Call, CallRecord

-----------------------------------------------------------------------------
(* What a step does to calls: it updates one of them, in fields that depend *)
(* on the action, or begins one.                                            *)

\* A step of one call c; r is what becomes of it.
Updates(c, r) ==
  /\ c \in DOMAIN calls /\ r \in Call
  /\ calls' = [calls EXCEPT ![c] = r]
  /\ r.log = calls[c].log /\ r.timed = calls[c].timed /\ r.by = calls[c].by

LEMMA WaitReturnsUpdates ==
    ASSUME TypeOK, NEW c \in DOMAIN calls, WaitReturns(c)
    PROVE  /\ InCall(c) /\ calls[c].pc = "wait" /\ calls[c].child = "exited"
           /\ \E r : /\ Updates(c, r) /\ r.pc = "done" /\ r.outcome \in {"ok", "failed"}
                     /\ r.report \in {<<>>, logs[calls[c].log]}
                     /\ r.child = calls[c].child
           /\ logs' = logs
<1> DEFINE r == [calls[c] EXCEPT
       !.pc = "done",
       !.outcome = IF calls[c].ret = 0 THEN "ok" ELSE "failed",
       !.report = IF calls[c].ret = 0 THEN <<>> ELSE logs[calls[c].log]]
<1>1. calls[c] \in Call
  BY CallTypes
<1>2. logs[calls[c].log] \in Seq(Line)
  BY <1>1, CallTypes DEF Call, CallRecord
<1>3. r \in Call
  <2>1. (IF calls[c].ret = 0 THEN <<>> ELSE logs[calls[c].log]) \in Seq(Line)
    BY <1>2
  <2>2. (IF calls[c].ret = 0 THEN "ok" ELSE "failed") \in {"none", "ok", "failed", "timeout"}
    OBVIOUS
  <2>3. r \in CallRecord
    BY <1>1, <2>1, <2>2 DEF Call, CallRecord
  <2>4. calls[c].child = "exited"
    BY DEF WaitReturns
  <2>5. r.child = "exited" /\ r.reader = calls[c].reader /\ r.verbose = calls[c].verbose
    BY <1>1, <2>4 DEF Call, CallRecord
  <2>. QED
    BY <1>1, <2>3, <2>4, <2>5 DEF Call
<1>4. Updates(c, r)
  BY <1>1, <1>3 DEF Updates, WaitReturns, Call, CallRecord
<1>5. r.pc = "done" /\ r.outcome \in {"ok", "failed"} /\ r.child = calls[c].child
      /\ r.report \in {<<>>, logs[calls[c].log]}
  BY <1>1 DEF Call, CallRecord
<1>. QED
  BY <1>4, <1>5 DEF WaitReturns

LEMMA JstackReturnsUpdates ==
    ASSUME TypeOK, NEW c \in DOMAIN calls, NEW j \in DOMAIN calls, JstackReturns(c, j)
    PROVE  /\ InCall(c) /\ calls[c].pc = "diagnose" /\ calls[j].by = c
           /\ \E r : /\ Updates(c, r) /\ r.pc = "done" /\ r.outcome = "timeout"
                     /\ r.report = calls[c].report /\ r.child # "running"
                     /\ r.child = "dying" => calls[c].child \in {"running", "dying"}
           /\ logs' = logs
<1> DEFINE r == [calls[c] EXCEPT
       !.pc = "done",
       !.outcome = "timeout",
       !.child = IF calls[c].child = "running" THEN "dying" ELSE calls[c].child]
<1>1. calls[c] \in Call /\ calls[c].pc = "diagnose"
  BY CallTypes DEF JstackReturns
<1>2. r \in Call
  BY <1>1 DEF Call, CallRecord
<1>3. Updates(c, r)
  <2>1. calls' = [calls EXCEPT ![c] = r]
    BY DEF JstackReturns
  <2>2. r.log = calls[c].log /\ r.timed = calls[c].timed /\ r.by = calls[c].by
    BY <1>1 DEF Call, CallRecord
  <2>. QED
    BY <1>2, <2>1, <2>2 DEF Updates
<1>4. /\ r.pc = "done" /\ r.outcome = "timeout" /\ r.report = calls[c].report
      /\ r.child # "running"
      /\ r.child = "dying" => calls[c].child \in {"running", "dying"}
  BY <1>1 DEF Call, CallRecord
<1>. QED
  BY <1>3, <1>4 DEF JstackReturns

LEMMA JstackThrowsUpdates ==
    ASSUME TypeOK, NEW c \in DOMAIN calls, NEW j \in DOMAIN calls, JstackThrows(c, j)
    PROVE  /\ InCall(c) /\ calls[c].pc = "diagnose"
           /\ calls[j].by = c /\ calls[j].outcome = "failed"
           /\ \E r : /\ Updates(c, r) /\ r.pc = "done" /\ r.outcome = "failed"
                     /\ r.report = calls[j].report /\ r.child = calls[c].child
           /\ logs' = logs
<1> DEFINE r == [calls[c] EXCEPT
       !.pc = "done", !.outcome = "failed", !.report = calls[j].report]
<1>1. calls[c] \in Call /\ calls[j] \in Call
  BY CallTypes
<1>2. r \in Call
  BY <1>1 DEF Call, CallRecord
<1>3. Updates(c, r)
  BY <1>1, <1>2 DEF Updates, JstackThrows, Call, CallRecord
<1>4. /\ r.pc = "done" /\ r.outcome = "failed"
      /\ r.report = calls[j].report /\ r.child = calls[c].child
  BY <1>1 DEF Call, CallRecord
<1>. QED
  BY <1>3, <1>4 DEF JstackThrows

\* Steps of children and readers leave the thread's part of a call alone.
Aside(c, r) ==
  /\ Updates(c, r)
  /\ r.pc = calls[c].pc /\ r.outcome = calls[c].outcome /\ r.report = calls[c].report
  /\ \/ r.child = calls[c].child
     \/ r.child = "exited"

LEMMA ChildExitsUpdates ==
    ASSUME TypeOK, NEW c \in DOMAIN calls, NEW ret \in {0, 1}, ChildExits(c, ret)
    PROVE  (\E r : Aside(c, r)) /\ logs' = logs
<1> DEFINE r == [calls[c] EXCEPT !.child = "exited", !.ret = ret]
<1>1. calls[c] \in Call /\ calls[c].child # "none"
  BY CallTypes DEF ChildExits
<1>2. r \in Call
  BY <1>1 DEF Call, CallRecord
<1>3. Aside(c, r)
  BY <1>1, <1>2 DEF Aside, Updates, ChildExits, Call, CallRecord
<1>. QED
  BY <1>3 DEF ChildExits

LEMMA ReaderUpdates ==
    ASSUME TypeOK, NEW c \in DOMAIN calls, Reader(c)
    PROVE  (\E r : Aside(c, r)) /\ logs' = logs
<1>1. calls[c] \in Call
  BY CallTypes
<1>2. CASE ReaderReads(c)
  <2> DEFINE r == [calls[c] EXCEPT
         !.reader = "look",
         !.position = IF calls[c].position < Len(logs[calls[c].log])
                     THEN calls[c].position + 1 ELSE calls[c].position]
  <2>1. calls[c].position \in Nat
    BY <1>1 DEF Call, CallRecord
  <2>2. (IF calls[c].position < Len(logs[calls[c].log])
         THEN calls[c].position + 1 ELSE calls[c].position) \in Nat
    BY <2>1
  <2>3. r \in Call
    <3>1. calls[c].reader = "read"
      BY <1>2 DEF ReaderReads
    <3>. QED
      BY <1>1, <2>2, <3>1 DEF Call, CallRecord
  <2>4. Aside(c, r)
    <3>1. calls' = [calls EXCEPT ![c] = r]
      BY <1>2 DEF ReaderReads
    <3>2. /\ r.log = calls[c].log /\ r.timed = calls[c].timed /\ r.by = calls[c].by
          /\ r.pc = calls[c].pc /\ r.outcome = calls[c].outcome
          /\ r.report = calls[c].report /\ r.child = calls[c].child
      BY <1>1 DEF Call, CallRecord
    <3>. QED
      BY <2>3, <3>1, <3>2 DEF Aside, Updates
  <2>. QED
    BY <1>2, <2>4 DEF ReaderReads
<1>3. CASE ReaderLooks(c)
  <2> DEFINE r == [calls[c] EXCEPT
         !.reader = IF calls[c].child = "exited" THEN "done" ELSE "read"]
  <2>1. r \in Call
    <3>1. calls[c].reader = "look"
      BY <1>3 DEF ReaderLooks
    <3>. QED
      BY <1>1, <3>1 DEF Call, CallRecord
  <2>2. Aside(c, r)
    BY <1>1, <1>3, <2>1 DEF Aside, Updates, ReaderLooks, Call, CallRecord
  <2>. QED
    BY <1>3, <2>2 DEF ReaderLooks
<1>. QED
  BY <1>2, <1>3 DEF Reader

LEMMA ChildWritesUpdates ==
    ASSUME TypeOK, NEW c \in DOMAIN calls, ChildWrites(c)
    PROVE  /\ calls[c].child \in {"running", "dying"}
           /\ \E r : Aside(c, r)
           /\ \E n \in Nat :
                logs' = [logs EXCEPT ![calls[c].log] = Append(@, <<c, n>>)]
<1> DEFINE r == [calls[c] EXCEPT !.written = calls[c].written + 1]
<1>1. calls[c] \in Call /\ calls[c].written + 1 \in Nat
  <2>1. calls[c] \in Call
    BY CallTypes
  <2>2. calls[c].written \in Nat
    BY <2>1 DEF Call, CallRecord
  <2>. QED
    BY <2>1, <2>2
<1>2. r \in Call
  BY <1>1 DEF Call, CallRecord
<1>3. Aside(c, r)
  <2>1. calls' = [calls EXCEPT ![c] = r]
    BY DEF ChildWrites
  <2>2. /\ r.log = calls[c].log /\ r.timed = calls[c].timed /\ r.by = calls[c].by
        /\ r.pc = calls[c].pc /\ r.outcome = calls[c].outcome
        /\ r.report = calls[c].report /\ r.child = calls[c].child
    BY <1>1 DEF Call, CallRecord
  <2>. QED
    BY <1>2, <2>1, <2>2 DEF Aside, Updates
<1>. QED
  BY <1>1, <1>3 DEF ChildWrites

\* A step that begins a call: before is calls, but for a call that notes its
\* time-out, and n the new one.
Begins(before, n, l) ==
  /\ before \in Seq(Call) /\ Len(before) = Len(calls)
  /\ n \in Call /\ l \in LogFiles
  /\ n.log = l /\ n.report = <<>> /\ n.child \in {"none", "running"}
  /\ \/ n.pc = "done" /\ n.outcome = "failed" /\ n.child = "none"
     \/ n.pc = "wait" /\ n.outcome = "none"
  /\ calls' = Append(before, n)
  /\ \E first \in {<<>>, << <<Len(calls) + 1, 0>> >>} : logs' = [logs EXCEPT ![l] = first]

LEMMA RunProcessBegins ==
    ASSUME NEW before \in Seq(Call), Len(before) = Len(calls),
           NEW l \in LogFiles, NEW verbose \in BOOLEAN, NEW timed \in BOOLEAN, NEW by \in Nat,
           RunProcess(before, l, verbose, timed, by)
    PROVE  \E n : Begins(before, n, l) /\ n.by = by /\ n.timed = timed
<1>1. PICK starts \in BOOLEAN :
        /\ calls' = Append(before, NewCall(l, verbose, timed, by, starts))
        /\ PrintArgs(l, verbose, Len(before) + 1)
  BY DEF RunProcess
<1> DEFINE n == NewCall(l, verbose, timed, by, starts)
<1>2. n \in Call
  BY NewCallType
<1>3. /\ n.log = l /\ n.report = <<>> /\ n.child \in {"none", "running"}
      /\ \/ n.pc = "done" /\ n.outcome = "failed" /\ n.child = "none"
         \/ n.pc = "wait" /\ n.outcome = "none"
      /\ n.by = by /\ n.timed = timed
  BY DEF NewCall
<1>4. \E first \in {<<>>, << <<Len(calls) + 1, 0>> >>} : logs' = [logs EXCEPT ![l] = first]
  BY <1>1 DEF PrintArgs
<1>. QED
  BY <1>1, <1>2, <1>3, <1>4 DEF Begins

LEMMA ClientCallsBegins ==
    ASSUME TypeOK, NEW l \in Logs, NEW use \in Uses, ClientCalls(l, use[1], use[2])
    PROVE  Idle /\ \E n : Begins(calls, n, l) /\ n.by = 0
<1>1. use[1] \in BOOLEAN /\ use[2] \in BOOLEAN /\ l \in LogFiles
  BY LogsAssumption DEF LogFiles
<1>2. Idle /\ RunProcess(calls, l, use[1], use[2], 0)
  BY DEF ClientCalls
<1>. QED
  BY <1>1, <1>2, CallTypes, RunProcessBegins

\* The call c, when its child is given up.
LEMMA TimesOutBegins ==
    ASSUME TypeOK, NEW c \in DOMAIN calls, TimesOut(c)
    PROVE  /\ InCall(c) /\ calls[c].pc = "wait" /\ calls[c].timed /\ calls[c].child = "running"
           /\ \E r, n :
                /\ r \in Call /\ r.pc = "diagnose"
                /\ \A f \in {"log", "timed", "by", "outcome", "report", "child"} :
                     r[f] = calls[c][f]
                /\ Begins([calls EXCEPT ![c] = r], n, JstackLog)
                /\ n.by = c /\ ~n.timed
<1> DEFINE r == [calls[c] EXCEPT !.pc = "diagnose"]
           before == [calls EXCEPT ![c] = r]
<1>1. calls[c] \in Call /\ c \in Nat /\ calls[c].child = "running"
  BY CallTypes DEF TimesOut
<1>2. /\ r \in Call /\ r.pc = "diagnose"
      /\ \A f \in {"log", "timed", "by", "outcome", "report", "child"} : r[f] = calls[c][f]
  BY <1>1 DEF Call, CallRecord
<1>3. before \in Seq(Call) /\ Len(before) = Len(calls)
  BY <1>2, PutCall
<1>4. RunProcess(before, JstackLog, TRUE, FALSE, c)
  BY DEF TimesOut
<1>5. \E n : Begins(before, n, JstackLog) /\ n.by = c /\ n.timed = FALSE
  <2>. HIDE DEF before
  <2>1. JstackLog \in LogFiles /\ TRUE \in BOOLEAN /\ FALSE \in BOOLEAN
    BY DEF LogFiles
  <2>. QED
    BY <1>1, <1>3, <1>4, <2>1, RunProcessBegins, ZenonT(60)
<1>. QED
  BY <1>2, <1>5 DEF TimesOut

\* Every step begins a call, updates one, or is a child's or a reader's.
LEMMA Cases ==
    ASSUME TypeOK, Next
    PROVE  \/ \E l \in Logs, use \in Uses : ClientCalls(l, use[1], use[2])
           \/ \E c \in DOMAIN calls : TimesOut(c)
           \/ \E c \in DOMAIN calls : WaitReturns(c)
           \/ \E c, j \in DOMAIN calls : JstackReturns(c, j)
           \/ \E c, j \in DOMAIN calls : JstackThrows(c, j)
           \/ \E c \in DOMAIN calls : ChildWrites(c)
           \/ \E c \in DOMAIN calls, ret \in {0, 1} : ChildExits(c, ret)
           \/ \E c \in DOMAIN calls : Reader(c)
BY DEF Next, Caller, Child

-----------------------------------------------------------------------------
LEMMA BeginsType ==
    ASSUME TypeOK, NEW before, NEW n, NEW l, Begins(before, n, l)
    PROVE  TypeOK'
<1>1. calls' \in Seq(Call)
  BY DEF Begins
<1>2. Len(calls) + 1 \in Nat \ {0}
  BY CallTypes
<1>3. \A first \in {<<>>, << <<Len(calls) + 1, 0>> >>} : first \in Seq(Line)
  <2>1. <<Len(calls) + 1, 0>> \in Line
    BY <1>2 DEF Line
  <2>2. \A e \in Line : <<e>> \in Seq(Line)
    OBVIOUS
  <2>3. << <<Len(calls) + 1, 0>> >> \in Seq(Line)
    BY <2>1, <2>2, Zenon
  <2>4. <<>> \in Seq(Line)
    OBVIOUS
  <2>. QED
    BY <2>3, <2>4
<1>4. logs' \in [LogFiles -> Seq(Line)]
  BY <1>3, CallTypes DEF Begins
<1>. QED
  BY <1>1, <1>4 DEF TypeOK

LEMMA UpdatesType ==
    ASSUME TypeOK, NEW c, NEW r, Updates(c, r)
    PROVE  /\ calls' \in Seq(Call) /\ Len(calls') = Len(calls) /\ DOMAIN calls' = DOMAIN calls
           /\ calls'[c] = r
           /\ \A d \in DOMAIN calls : d # c => calls'[d] = calls[d]
           /\ \A d \in DOMAIN calls : calls'[d].log = calls[d].log
                                      /\ calls'[d].timed = calls[d].timed
                                      /\ calls'[d].by = calls[d].by
BY PutCall DEF Updates

LEMMA TypeStep == TypeOK /\ [Next]_runnerVars => TypeOK'
<1> SUFFICES ASSUME TypeOK, [Next]_runnerVars PROVE TypeOK'
  OBVIOUS
<1>1. ASSUME NEW c, NEW r, Updates(c, r), logs' = logs PROVE TypeOK'
  BY <1>1, UpdatesType DEF TypeOK
<1>2. CASE \E l \in Logs, use \in Uses : ClientCalls(l, use[1], use[2])
  BY <1>2, ClientCallsBegins, BeginsType
<1>3. CASE \E c \in DOMAIN calls : TimesOut(c)
  BY <1>3, TimesOutBegins, BeginsType
<1>4. CASE \E c \in DOMAIN calls : WaitReturns(c)
  BY <1>1, <1>4, WaitReturnsUpdates
<1>5. CASE \E c, j \in DOMAIN calls : JstackReturns(c, j)
  BY <1>1, <1>5, JstackReturnsUpdates
<1>6. CASE \E c, j \in DOMAIN calls : JstackThrows(c, j)
  BY <1>1, <1>6, JstackThrowsUpdates
<1>7. CASE \E c \in DOMAIN calls : ChildWrites(c)
  <2>1. PICK c \in DOMAIN calls : ChildWrites(c)
    BY <1>7
  <2>2. PICK n \in Nat : logs' = [logs EXCEPT ![calls[c].log] = Append(@, <<c, n>>)]
    BY <2>1, ChildWritesUpdates
  <2>3. calls[c].log \in LogFiles /\ <<c, n>> \in Line
    <3>1. calls[c] \in Call /\ c \in Nat \ {0}
      BY CallTypes
    <3>2. calls[c].log \in LogFiles
      BY <3>1 DEF Call, CallRecord
    <3>. QED
      BY <3>1, <3>2 DEF Line
  <2>4. \A s \in Seq(Line), e \in Line : Append(s, e) \in Seq(Line)
    OBVIOUS
  <2>5. Append(logs[calls[c].log], <<c, n>>) \in Seq(Line)
    BY <2>3, <2>4, CallTypes
  <2>6. logs' \in [LogFiles -> Seq(Line)]
    BY <2>2, <2>5, CallTypes
  <2>7. calls' \in Seq(Call)
    BY <2>1, ChildWritesUpdates, UpdatesType DEF Aside
  <2>. QED
    BY <2>6, <2>7 DEF TypeOK
<1>8. CASE \E c \in DOMAIN calls, ret \in {0, 1} : ChildExits(c, ret)
  BY <1>1, <1>8, ChildExitsUpdates DEF Aside
<1>9. CASE \E c \in DOMAIN calls : Reader(c)
  BY <1>1, <1>9, ReaderUpdates DEF Aside
<1>10. CASE UNCHANGED runnerVars
  BY <1>10 DEF runnerVars, TypeOK
<1>. QED
  BY <1>2, <1>3, <1>4, <1>5, <1>6, <1>7, <1>8, <1>9, <1>10, Cases

\* Every call, with its child, its reader and what they have written and
\* printed, keeps its type.
THEOREM TypeCorrect == Spec => []TypeOK
<1>1. Init => TypeOK
  BY DEF Init, TypeOK
<1>. QED
  BY <1>1, TypeStep, PTL DEF Spec

-----------------------------------------------------------------------------
(* The inductive invariant. *)

\* Only the last call can be in its wait; one that is being examined has its
\* jstack; the outcome is that of a call that is done.
PhaseInv ==
  \A c \in DOMAIN calls :
    /\ calls[c].pc = "wait" => c = Len(calls)
    /\ calls[c].pc = "diagnose" => TimedOut(c)
    /\ calls[c].outcome = "failed" => Done(c)

\* jstack is run for an earlier call with a time-out, and has none itself.
NestInv ==
  \A j \in DOMAIN calls :
    calls[j].by # 0 => /\ calls[j].by \in DOMAIN calls /\ calls[j].by < j
                       /\ calls[calls[j].by].timed
                       /\ ~calls[j].timed

\* A child that may still write is that of the last call, or was timed out of.
AliveInv ==
  \A c \in DOMAIN calls :
    /\ calls[c].child = "running" => c = Len(calls) \/ TimedOut(c)
    /\ calls[c].child = "dying" => TimedOut(c)

\* What is in a log was written by the last call that uses it, or by one whose
\* end was not waited for.
LogInv ==
  \A l \in LogFiles : \A i \in DOMAIN logs[l] :
    /\ logs[l][i][1] \in DOMAIN calls
    /\ \A d \in DOMAIN calls : d > logs[l][i][1] /\ calls[d].log = l => TimedOut(logs[l][i][1])

\* Reports quote calls there have been.
ReportInv ==
  \A c \in DOMAIN calls : \A i \in DOMAIN calls[c].report :
    calls[c].report[i][1] \in DOMAIN calls

IndInv ==
  /\ TypeOK
  /\ PhaseInv /\ NestInv /\ AliveInv /\ LogInv /\ ReportInv
  /\ StrayExplained /\ ReportOwn

LEMMA InitInv == Init => IndInv
BY DEF Init, IndInv, TypeOK, PhaseInv, NestInv, AliveInv, LogInv, ReportInv,
       StrayExplained, ReportOwn

\* A new call, when every child that may still write has been timed out of.
LEMMA BeginsInv ==
    ASSUME IndInv, NEW before, NEW n, NEW l, Begins(before, n, l),
           \A d \in DOMAIN calls :
             /\ \A f \in {"log", "timed", "by", "outcome", "report", "child"} :
                  before[d][f] = calls[d][f]
             /\ before[d].pc \in {"done", "diagnose"}
             /\ before[d].pc = "done" <=> Done(d)
             /\ before[d].pc = "diagnose" => TimedOut(d) \/ n.by = d
             /\ calls[d].child = "running" => TimedOut(d) \/ n.by = d,
           n.by # 0 => n.by \in DOMAIN calls /\ calls[n.by].timed /\ ~n.timed
    PROVE  IndInv'
<1> DEFINE N == Len(calls) + 1
<1>1. TypeOK'
  BY BeginsType DEF IndInv
<1>2. /\ Len(calls) \in Nat /\ DOMAIN calls = 1 .. Len(calls)
      /\ Len(calls') = N /\ DOMAIN calls' = 1 .. N /\ calls'[N] = n
      /\ \A d \in DOMAIN calls : calls'[d] = before[d]
  BY CallTypes DEF IndInv, Begins
<1>3. \A d \in DOMAIN calls :
        /\ calls'[d].log = calls[d].log /\ calls'[d].timed = calls[d].timed
        /\ calls'[d].by = calls[d].by /\ calls'[d].outcome = calls[d].outcome
        /\ calls'[d].report = calls[d].report /\ calls'[d].child = calls[d].child
        /\ calls'[d].pc = before[d].pc
  BY <1>2
<1>4. DOMAIN calls \subseteq DOMAIN calls' /\ N \in DOMAIN calls' /\ N \notin DOMAIN calls
      /\ \A d \in DOMAIN calls' : d \in DOMAIN calls \/ d = N
  BY <1>2
<1>5. \A d \in DOMAIN calls : TimedOut(d) \/ n.by = d =>
        TimedOut(d)' /\ \E j \in DOMAIN calls' : calls'[j].by = d
  BY <1>2, <1>3, <1>4 DEF TimedOut
<1>6. PhaseInv'
  <2>1. \A d \in DOMAIN calls :
          /\ calls'[d].pc # "wait"
          /\ calls'[d].pc = "diagnose" => TimedOut(d)'
          /\ calls'[d].outcome = "failed" => calls'[d].pc = "done"
    BY <1>3, <1>5 DEF IndInv, PhaseInv, Done
  <2>2. n.pc # "diagnose" /\ (n.outcome = "failed" => n.pc = "done")
    BY DEF Begins
  <2>. QED
    BY <1>2, <1>4, <2>1, <2>2 DEF PhaseInv, Done
<1>7. NestInv'
  BY <1>2, <1>3, <1>4 DEF IndInv, NestInv
<1>8. AliveInv'
  <2>1. \A d \in DOMAIN calls : calls'[d].child \in {"running", "dying"} => TimedOut(d)'
    BY <1>3, <1>5 DEF IndInv, AliveInv
  <2>2. n.child # "dying"
    BY DEF Begins
  <2>. QED
    BY <1>2, <1>4, <2>1, <2>2 DEF AliveInv
<1>9. LogInv'
  <2> SUFFICES ASSUME NEW m \in LogFiles, NEW i \in DOMAIN logs'[m]
               PROVE  /\ logs'[m][i][1] \in DOMAIN calls'
                      /\ \A d \in DOMAIN calls' :
                           d > logs'[m][i][1] /\ calls'[d].log = m =>
                             \E j \in DOMAIN calls' : calls'[j].by = logs'[m][i][1]
    BY DEF LogInv, TimedOut
  <2>1. PICK first \in {<<>>, << <<N, 0>> >>} : logs' = [logs EXCEPT ![l] = first]
    BY DEF Begins
  <2>2. logs \in [LogFiles -> Seq(Line)] /\ l \in LogFiles /\ n.log = l
    BY CallTypes DEF Begins, IndInv
  <2>3. CASE m = l
    <3>1. logs'[m] = first
      BY <2>1, <2>2, <2>3
    <3>2. first = << <<N, 0>> >> /\ i = 1
      BY <3>1
    <3>3. logs'[m][i][1] = N
      BY <3>1, <3>2
    <3>. QED
      BY <1>2, <1>4, <3>3
  <2>4. CASE m # l
    <3>1. logs'[m] = logs[m]
      BY <2>1, <2>2, <2>4
    <3> DEFINE w == logs[m][i][1]
    <3>2. w \in DOMAIN calls
          /\ \A d \in DOMAIN calls : d > w /\ calls[d].log = m => TimedOut(w)
      BY <3>1 DEF IndInv, LogInv
    <3>3. \A d \in DOMAIN calls' : d > w /\ calls'[d].log = m =>
            \E j \in DOMAIN calls' : calls'[j].by = w
      <4> SUFFICES ASSUME NEW d \in DOMAIN calls', d > w, calls'[d].log = m
                   PROVE  \E j \in DOMAIN calls' : calls'[j].by = w
        OBVIOUS
      <4>1. d \in DOMAIN calls
        BY <1>2, <1>4, <2>2, <2>4
      <4>2. calls[d].log = m
        BY <1>3, <4>1
      <4>3. TimedOut(w)
        BY <3>2, <4>1, <4>2
      <4>. QED
        BY <1>5, <3>2, <4>3
    <3>. QED
      BY <1>4, <3>1, <3>2, <3>3
  <2>. QED
    BY <2>3, <2>4
<1>10. ReportInv'
  <2>1. \A d \in DOMAIN calls : \A i \in DOMAIN calls'[d].report :
          calls'[d].report[i][1] \in DOMAIN calls
    BY <1>3 DEF IndInv, ReportInv
  <2>2. n.report = <<>>
    BY DEF Begins
  <2>. QED
    BY <1>2, <1>4, <2>1, <2>2 DEF ReportInv
<1>11. StrayExplained'
  <2>1. \A d \in DOMAIN calls : calls'[d].pc = "done" /\ calls'[d].child = "running" =>
          \E j \in DOMAIN calls' : calls'[j].by = d /\ calls'[j].outcome = "failed"
    BY <1>3, <1>4 DEF IndInv, StrayExplained, Done
  <2>2. n.pc = "done" => n.child # "running"
    BY DEF Begins
  <2>. QED
    BY <1>2, <1>4, <2>1, <2>2 DEF StrayExplained, Done
<1>12. ReportOwn'
  <2>1. \A d \in DOMAIN calls : \A i \in DOMAIN calls'[d].report :
          \/ calls'[d].report[i][1] = d
          \/ calls'[calls'[d].report[i][1]].by = d
          \/ \E j \in DOMAIN calls' : calls'[j].by = calls'[d].report[i][1]
    BY <1>3, <1>5 DEF IndInv, ReportOwn, ReportInv
  <2>2. n.report = <<>>
    BY DEF Begins
  <2>. QED
    BY <1>2, <1>4, <2>1, <2>2 DEF ReportOwn, TimedOut
<1>. QED
  BY <1>1, <1>6, <1>7, <1>8, <1>9, <1>10, <1>11, <1>12 DEF IndInv

\* An update of one call, with what it must respect.
Respects(c, r) ==
  /\ r.pc \in {calls[c].pc, "done"}
  /\ r.outcome = "failed" => r.pc = "done"
  /\ calls[c].outcome = "failed" => r.outcome = "failed"
  /\ r.child = "running" => calls[c].child = "running"
  /\ r.child = "dying" => TimedOut(c)
  /\ r.pc = "done" /\ r.child = "running" =>
       \E j \in DOMAIN calls : calls[j].by = c /\ calls[j].outcome = "failed"
  /\ \A i \in DOMAIN r.report :
       /\ r.report[i][1] \in DOMAIN calls
       /\ \/ r.report[i][1] = c
          \/ calls[r.report[i][1]].by = c
          \/ TimedOut(r.report[i][1])

LEMMA UpdatesInv ==
    ASSUME IndInv, NEW c, NEW r, Updates(c, r), Respects(c, r), TypeOK', LogInv'
    PROVE  IndInv'
<1>1. /\ c \in DOMAIN calls /\ Len(calls') = Len(calls) /\ DOMAIN calls' = DOMAIN calls
      /\ calls'[c] = r
      /\ \A d \in DOMAIN calls : d # c => calls'[d] = calls[d]
      /\ \A d \in DOMAIN calls : calls'[d].log = calls[d].log
                                 /\ calls'[d].timed = calls[d].timed
                                 /\ calls'[d].by = calls[d].by
  BY UpdatesType DEF IndInv, Updates
<1>2. \A d : TimedOut(d)' <=> TimedOut(d)
  BY <1>1 DEF TimedOut
<1>3. PhaseInv'
  BY <1>1, <1>2 DEF IndInv, PhaseInv, Respects, Done
<1>4. NestInv'
  BY <1>1 DEF IndInv, NestInv
<1>5. AliveInv'
  BY <1>1, <1>2 DEF IndInv, AliveInv, Respects
<1>6. ReportInv'
  BY <1>1 DEF IndInv, ReportInv, Respects
<1>7. StrayExplained'
  <2>1. \A j \in DOMAIN calls : calls[j].outcome = "failed" => calls'[j].outcome = "failed"
    BY <1>1 DEF Respects
  <2>. QED
    BY <1>1, <2>1 DEF IndInv, StrayExplained, Respects, Done
<1>8. ReportOwn'
  <2>1. \A d \in DOMAIN calls : \A i \in DOMAIN calls'[d].report :
          \/ calls'[d].report[i][1] = d
          \/ calls[calls'[d].report[i][1]].by = d
          \/ TimedOut(calls'[d].report[i][1])
    BY <1>1 DEF IndInv, ReportOwn, Respects
  <2>2. \A d \in DOMAIN calls : \A i \in DOMAIN calls'[d].report :
          calls'[d].report[i][1] \in DOMAIN calls
    BY <1>1, <1>6 DEF ReportInv
  <2>. QED
    BY <1>1, <1>2, <2>1, <2>2 DEF ReportOwn
<1>. QED
  BY <1>3, <1>4, <1>5, <1>6, <1>7, <1>8 DEF IndInv

LEMMA LogsKept ==
    ASSUME IndInv, NEW c, NEW r, Updates(c, r), logs' = logs
    PROVE  LogInv'
<1>1. /\ DOMAIN calls' = DOMAIN calls
      /\ \A d \in DOMAIN calls : calls'[d].log = calls[d].log /\ calls'[d].by = calls[d].by
  BY UpdatesType DEF IndInv
<1>2. \A d : TimedOut(d)' <=> TimedOut(d)
  BY <1>1 DEF TimedOut
<1>. QED
  BY <1>1, <1>2 DEF IndInv, LogInv

-----------------------------------------------------------------------------
\* What children and readers do respects the invariant.
LEMMA AsideRespects ==
    ASSUME IndInv, NEW c, NEW r, Aside(c, r)
    PROVE  Updates(c, r) /\ Respects(c, r) /\ calls' \in Seq(Call)
<1>1. Updates(c, r) /\ c \in DOMAIN calls
  BY DEF Aside, Updates
<1>2. r.child \in {"running", "dying"} => r.child = calls[c].child
  BY DEF Aside
<1>3. r.child = "dying" => TimedOut(c)
  BY <1>1, <1>2 DEF IndInv, AliveInv
<1>4. r.pc = "done" /\ r.child = "running" =>
        \E j \in DOMAIN calls : calls[j].by = c /\ calls[j].outcome = "failed"
  BY <1>1, <1>2 DEF Aside, IndInv, StrayExplained, Done
<1>5. r.outcome = "failed" => r.pc = "done"
  BY <1>1 DEF Aside, IndInv, PhaseInv, Done
<1>6. \A i \in DOMAIN r.report :
        /\ r.report[i][1] \in DOMAIN calls
        /\ \/ r.report[i][1] = c
           \/ calls[r.report[i][1]].by = c
           \/ TimedOut(r.report[i][1])
  BY <1>1 DEF Aside, IndInv, ReportInv, ReportOwn
<1>7. calls' \in Seq(Call)
  BY <1>1, UpdatesType DEF IndInv
<1>. QED
  BY <1>1, <1>2, <1>3, <1>4, <1>5, <1>6, <1>7 DEF Respects, Aside

LEMMA ClientCallsInv ==
    ASSUME IndInv, NEW l \in Logs, NEW use \in Uses, ClientCalls(l, use[1], use[2])
    PROVE  IndInv'
<1>1. Idle
  BY ClientCallsBegins DEF IndInv
<1>2. PICK n : Begins(calls, n, l) /\ n.by = 0
  BY ClientCallsBegins DEF IndInv
<1>3. \A d \in DOMAIN calls : Done(d) /\ (calls[d].child = "running" => TimedOut(d))
  BY <1>1 DEF Idle, IndInv, StrayExplained, TimedOut
<1>. QED
  BY <1>2, <1>3, BeginsInv DEF Done

LEMMA TimesOutInv ==
    ASSUME IndInv, NEW c \in DOMAIN calls, TimesOut(c)
    PROVE  IndInv'
<1>1. /\ InCall(c) /\ calls[c].pc = "wait" /\ calls[c].timed /\ calls[c].child = "running"
      /\ calls \in Seq(Call)
  BY TimesOutBegins, CallTypes DEF IndInv
<1>2. PICK r, n :
        /\ r \in Call /\ r.pc = "diagnose"
        /\ \A f \in {"log", "timed", "by", "outcome", "report", "child"} : r[f] = calls[c][f]
        /\ Begins([calls EXCEPT ![c] = r], n, JstackLog)
        /\ n.by = c /\ ~n.timed
  BY TimesOutBegins DEF IndInv
<1> DEFINE before == [calls EXCEPT ![c] = r]
<1>3. before[c] = r /\ \A d \in DOMAIN calls : d # c => before[d] = calls[d]
  BY <1>1, <1>2
<1>4. c = Len(calls) /\ \A d \in DOMAIN calls : d # c => calls[d].pc # "wait"
  BY <1>1, CallTypes DEF IndInv, PhaseInv
<1>5. \A d \in DOMAIN calls : calls[d].pc \in {"wait", "diagnose", "done"}
  BY CallTypes DEF IndInv, Call, CallRecord
<1>6. ASSUME NEW d \in DOMAIN calls
      PROVE  /\ \A f \in {"log", "timed", "by", "outcome", "report", "child"} :
                  before[d][f] = calls[d][f]
             /\ before[d].pc \in {"done", "diagnose"}
             /\ before[d].pc = "done" <=> Done(d)
             /\ before[d].pc = "diagnose" => TimedOut(d) \/ n.by = d
             /\ calls[d].child = "running" => TimedOut(d) \/ n.by = d
  <2>1. CASE d = c
    BY <1>1, <1>2, <1>3, <2>1 DEF Done
  <2>2. CASE d # c
    BY <1>3, <1>4, <1>5, <2>2 DEF Done, IndInv, PhaseInv, AliveInv
  <2>. QED
    BY <2>1, <2>2
<1>7. n.by # 0 => n.by \in DOMAIN calls /\ calls[n.by].timed /\ ~n.timed
  BY <1>1, <1>2
<1> HIDE DEF before
<1>8. Begins(before, n, JstackLog)
  BY <1>2 DEF before
<1>. QED
  BY <1>6, <1>7, <1>8, BeginsInv

LEMMA WaitReturnsInv ==
    ASSUME IndInv, NEW c \in DOMAIN calls, WaitReturns(c), TypeOK'
    PROVE  IndInv'
<1>1. /\ InCall(c) /\ calls[c].pc = "wait" /\ calls[c].child = "exited" /\ logs' = logs
      /\ calls[c] \in Call
  BY WaitReturnsUpdates, CallTypes DEF IndInv
<1>2. PICK r : /\ Updates(c, r) /\ r.pc = "done" /\ r.outcome \in {"ok", "failed"}
               /\ r.report \in {<<>>, logs[calls[c].log]} /\ r.child = calls[c].child
  BY WaitReturnsUpdates DEF IndInv
<1>3. calls[c].outcome # "failed"
  BY <1>1 DEF IndInv, PhaseInv, Done
<1>4. c = Len(calls) /\ DOMAIN calls = 1 .. Len(calls) /\ Len(calls) \in Nat
      /\ calls[c].log \in LogFiles
  BY <1>1, CallTypes DEF IndInv, PhaseInv, Call, CallRecord
<1>5. \A i \in DOMAIN logs[calls[c].log] :
        LET w == logs[calls[c].log][i][1]
        IN  w \in DOMAIN calls /\ (w = c \/ TimedOut(w))
  <2> SUFFICES ASSUME NEW i \in DOMAIN logs[calls[c].log]
               PROVE  /\ logs[calls[c].log][i][1] \in DOMAIN calls
                      /\ \/ logs[calls[c].log][i][1] = c
                         \/ TimedOut(logs[calls[c].log][i][1])
    OBVIOUS
  <2> DEFINE w == logs[calls[c].log][i][1]
  <2>1. w \in DOMAIN calls /\ (c > w => TimedOut(w))
    BY <1>4 DEF IndInv, LogInv
  <2>2. w = c \/ c > w
    BY <1>4, <2>1
  <2>. QED
    BY <2>1, <2>2
<1>6. Respects(c, r)
  BY <1>1, <1>2, <1>3, <1>5 DEF Respects
<1>. QED
  BY <1>1, <1>2, <1>6, LogsKept, UpdatesInv

LEMMA JstackReturnsInv ==
    ASSUME IndInv, NEW c \in DOMAIN calls, NEW j \in DOMAIN calls, JstackReturns(c, j), TypeOK'
    PROVE  IndInv'
<1>1. /\ InCall(c) /\ calls[c].pc = "diagnose" /\ calls[j].by = c /\ logs' = logs
  BY JstackReturnsUpdates DEF IndInv
<1>2. PICK r : /\ Updates(c, r) /\ r.pc = "done" /\ r.outcome = "timeout"
               /\ r.report = calls[c].report /\ r.child # "running"
               /\ r.child = "dying" => calls[c].child \in {"running", "dying"}
  BY JstackReturnsUpdates DEF IndInv
<1>3. calls[c].outcome # "failed" /\ TimedOut(c)
  BY <1>1 DEF IndInv, PhaseInv, Done, TimedOut
<1>4. Respects(c, r)
  BY <1>1, <1>2, <1>3 DEF Respects, IndInv, ReportInv, ReportOwn
<1>. QED
  BY <1>1, <1>2, <1>4, LogsKept, UpdatesInv

LEMMA JstackThrowsInv ==
    ASSUME IndInv, NEW c \in DOMAIN calls, NEW j \in DOMAIN calls, JstackThrows(c, j), TypeOK'
    PROVE  IndInv'
<1>1. /\ InCall(c) /\ calls[c].pc = "diagnose"
      /\ calls[j].by = c /\ calls[j].outcome = "failed" /\ logs' = logs
  BY JstackThrowsUpdates DEF IndInv
<1>2. PICK r : /\ Updates(c, r) /\ r.pc = "done" /\ r.outcome = "failed"
               /\ r.report = calls[j].report /\ r.child = calls[c].child
  BY JstackThrowsUpdates DEF IndInv
<1>3. TimedOut(c) /\ c # 0 /\ ~calls[j].timed
  BY <1>1, CallTypes DEF IndInv, NestInv, TimedOut
<1>4. \A d \in DOMAIN calls : calls[d].by # j
  BY <1>3, CallTypes DEF IndInv, NestInv
<1>5. ASSUME NEW i \in DOMAIN r.report
      PROVE  /\ r.report[i][1] \in DOMAIN calls
             /\ calls[r.report[i][1]].by = c \/ TimedOut(r.report[i][1])
  <2> DEFINE w == r.report[i][1]
  <2>1. w \in DOMAIN calls /\ (w = j \/ calls[w].by = j \/ TimedOut(w))
    BY <1>2, <1>5 DEF IndInv, ReportInv, ReportOwn
  <2>. QED
    BY <1>1, <1>4, <2>1
<1>6. Respects(c, r)
  BY <1>1, <1>2, <1>3, <1>5 DEF Respects, IndInv, AliveInv
<1>. QED
  BY <1>1, <1>2, <1>6, LogsKept, UpdatesInv

LEMMA ChildWritesInv ==
    ASSUME IndInv, NEW c \in DOMAIN calls, ChildWrites(c), TypeOK'
    PROVE  IndInv'
<1>1. PICK r : Aside(c, r)
  BY ChildWritesUpdates DEF IndInv
<1>2. PICK n \in Nat : logs' = [logs EXCEPT ![calls[c].log] = Append(@, <<c, n>>)]
  BY ChildWritesUpdates DEF IndInv
<1>3. calls[c].child \in {"running", "dying"}
  BY ChildWritesUpdates DEF IndInv
<1>4. Updates(c, r) /\ Respects(c, r)
  BY <1>1, AsideRespects
<1>5. /\ DOMAIN calls' = DOMAIN calls /\ DOMAIN calls = 1 .. Len(calls) /\ Len(calls) \in Nat
      /\ \A d \in DOMAIN calls : calls'[d].log = calls[d].log /\ calls'[d].by = calls[d].by
  BY <1>4, UpdatesType, CallTypes DEF IndInv
<1>6. \A d : TimedOut(d)' <=> TimedOut(d)
  BY <1>5 DEF TimedOut
<1>7. \A d \in DOMAIN calls : d > c => TimedOut(c)
  BY <1>3, <1>5 DEF IndInv, AliveInv
<1>8. LogInv'
  <2> SUFFICES ASSUME NEW l \in LogFiles, NEW i \in DOMAIN logs'[l]
               PROVE  /\ logs'[l][i][1] \in DOMAIN calls
                      /\ \A d \in DOMAIN calls :
                           d > logs'[l][i][1] /\ calls[d].log = l => TimedOut(logs'[l][i][1])
    BY <1>5, <1>6 DEF LogInv, TimedOut
  <2>1. logs[l] \in Seq(Line) /\ logs \in [LogFiles -> Seq(Line)]
    BY CallTypes DEF IndInv
  <2>2. CASE logs'[l] = logs[l]
    BY <2>2 DEF IndInv, LogInv
  <2>3. CASE logs'[l] = Append(logs[l], <<c, n>>)
    <3>1. CASE i \in DOMAIN logs[l]
      <4>1. logs'[l][i] = logs[l][i]
        BY <2>1, <2>3, <3>1
      <4>. QED
        BY <3>1, <4>1 DEF IndInv, LogInv
    <3>2. CASE i \notin DOMAIN logs[l]
      <4>1. logs'[l][i] = <<c, n>>
        BY <2>1, <2>3, <3>2
      <4>. QED
        BY <1>7, <4>1
    <3>. QED
      BY <3>1, <3>2
  <2>. QED
    BY <1>2, <2>1, <2>2, <2>3
<1>. QED
  BY <1>4, <1>8, UpdatesInv

LEMMA InvStep == IndInv /\ [Next]_runnerVars => IndInv'
<1> SUFFICES ASSUME IndInv, [Next]_runnerVars PROVE IndInv'
  OBVIOUS
<1>1. TypeOK /\ TypeOK'
  BY TypeStep DEF IndInv
<1>2. ASSUME NEW c, NEW r, Aside(c, r), logs' = logs PROVE IndInv'
  BY <1>1, <1>2, AsideRespects, LogsKept, UpdatesInv
<1>3. CASE \E l \in Logs, use \in Uses : ClientCalls(l, use[1], use[2])
  BY <1>3, ClientCallsInv
<1>4. CASE \E c \in DOMAIN calls : TimesOut(c)
  BY <1>4, TimesOutInv
<1>5. CASE \E c \in DOMAIN calls : WaitReturns(c)
  BY <1>1, <1>5, WaitReturnsInv
<1>6. CASE \E c, j \in DOMAIN calls : JstackReturns(c, j)
  BY <1>1, <1>6, JstackReturnsInv
<1>7. CASE \E c, j \in DOMAIN calls : JstackThrows(c, j)
  BY <1>1, <1>7, JstackThrowsInv
<1>8. CASE \E c \in DOMAIN calls : ChildWrites(c)
  BY <1>1, <1>8, ChildWritesInv
<1>9. CASE \E c \in DOMAIN calls, ret \in {0, 1} : ChildExits(c, ret)
  BY <1>1, <1>2, <1>9, ChildExitsUpdates
<1>10. CASE \E c \in DOMAIN calls : Reader(c)
  BY <1>1, <1>2, <1>10, ReaderUpdates
<1>11. CASE UNCHANGED runnerVars
  <2>1. calls' = calls /\ logs' = logs
    BY <1>11 DEF runnerVars
  <2>. QED
    BY <2>1 DEF IndInv, TypeOK, PhaseInv, NestInv, AliveInv, LogInv, ReportInv,
                StrayExplained, ReportOwn, TimedOut, Done
<1>. QED
  BY <1>1, <1>3, <1>4, <1>5, <1>6, <1>7, <1>8, <1>9, <1>10, <1>11, Cases

\* Where the thread can be, which call is nested in which, whose child may
\* still write and what each log and each report may hold are invariant
\* together.
THEOREM Inductive == Spec => []IndInv
BY InitInv, InvStep, PTL DEF Spec

\* runProcess leaves a child running behind it only when jstack failed.
THEOREM Strays == Spec => []StrayExplained
<1>1. IndInv => StrayExplained
  BY DEF IndInv
<1>. QED
  BY <1>1, Inductive, PTL

\* A failed call quotes its own child, jstack, or a child that was given up.
THEOREM Reports == Spec => []ReportOwn
<1>1. IndInv => ReportOwn
  BY DEF IndInv
<1>. QED
  BY <1>1, Inductive, PTL
=============================================================================
