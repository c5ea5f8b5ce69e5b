---------------------- MODULE ExecStartupProbe_proofs ----------------------
(***************************************************************************)
(* Theorems about ExecStartupProbe for every configuration, every width of *)
(* an int and any number of lines: that it implements StartupProbe, but    *)
(* for the liveness, and what it leaves running.                           *)
(***************************************************************************)
EXTENDS ExecStartupProbe, FiniteSetTheorems, TLAPS

LEMMA InitImplements == Init => Loop!Init
BY DEF Init

\* A call of runProcess is a stutter of the loop but for its return.
LEMMA StepImplements == [Next]_vars => [Loop!Next]_(Loop!loopVars)
<1> SUFFICES ASSUME [Next]_vars PROVE [Loop!Next]_(Loop!loopVars)
  OBVIOUS
<1>1. CASE Loop!Configure \/ Loop!Reject \/ Loop!Delay \/ Loop!Sleep
  BY <1>1 DEF Loop!Next
<1>2. CASE Return
  <2> DEFINE success == calls[LastCall].outcome = "ok"
  <2>1. success \in BOOLEAN
    OBVIOUS
  <2>2. Loop!Probe(success) \/ Loop!NotifyFinishProfile(success) \/ Loop!DoDump(success)
    BY <1>2 DEF Return
  <2> HIDE DEF success
  <2>. QED
    BY <2>1, <2>2 DEF Loop!Next
<1>3. CASE ReturnError
  BY <1>3 DEF ReturnError, Loop!Next
<1>4. CASE UNCHANGED loopVars
  BY <1>4 DEF loopVars, Loop!loopVars
<1>5. CASE Invoke
  BY <1>4, <1>5 DEF Invoke
<1>6. CASE \E c \in DOMAIN calls : Process(c) \/ Reader(c)
  BY <1>4, <1>6 DEF Process, Reader
<1>7. CASE UNCHANGED vars
  BY <1>4, <1>7 DEF vars
<1>8. CASE Runner!Caller /\ UNCHANGED <<loopVars, calling>>
  BY <1>4, <1>8
<1>. QED
  BY <1>1, <1>2, <1>3, <1>5, <1>6, <1>7, <1>8 DEF Next, Main

\* Every behaviour of the probe over child processes is one of the loop with
\* probes that have some outcome: what holds of StartupProbe's states and
\* steps holds here.
THEOREM ImplementsLoopSafely == Spec => Loop!Init /\ [][Loop!Next]_(Loop!loopVars)
BY InitImplements, StepImplements, PTL DEF Spec

-----------------------------------------------------------------------------
(* What is proved of the two parts holds of them here.                     *)

LoopProofs == INSTANCE StartupProbe_proofs
RunnerProofs == INSTANCE ProcessRunner_proofs
                  WITH Logs <- {LogName}, Uses <- {}, MaxCalls <- Window + 2

LEMMA LoopAssumption == LoopProofs!ConfsAssumption
BY ExecAssumption DEF LoopProofs!ConfsAssumption, LoopProofs!Conf, Loop!Conf

LEMMA RunnerAssumption == RunnerProofs!LogsAssumption
BY ExecAssumption DEF RunnerProofs!LogsAssumption, RunnerProofs!LogFiles

LEMMA SameLoop ==
  /\ Loop!Init <=> LoopProofs!Init
  /\ [Loop!Next]_(Loop!loopVars) <=> [LoopProofs!Next]_(LoopProofs!loopVars)
  /\ Loop!TypeOK <=> LoopProofs!TypeOK
<1>1. Loop!Init <=> LoopProofs!Init
  BY DEF Loop!Init, LoopProofs!Init
<1>2. Loop!TypeOK <=> LoopProofs!TypeOK
  BY DEF Loop!TypeOK, LoopProofs!TypeOK, Loop!Steps, LoopProofs!Steps
<1>3. /\ Loop!Configure <=> LoopProofs!Configure
      /\ Loop!Reject <=> LoopProofs!Reject
      /\ Loop!Delay <=> LoopProofs!Delay
      /\ Loop!Sleep <=> LoopProofs!Sleep
      /\ Loop!ProbeError <=> LoopProofs!ProbeError
  BY DEF Loop!Configure, LoopProofs!Configure, Loop!Reject, LoopProofs!Reject,
     Loop!Delay, LoopProofs!Delay, Loop!Sleep, LoopProofs!Sleep,
     Loop!ProbeError, LoopProofs!ProbeError, Loop!Accepted, LoopProofs!Accepted
<1>4. ASSUME NEW success \in BOOLEAN
      PROVE  /\ Loop!Probe(success) <=> LoopProofs!Probe(success)
             /\ Loop!NotifyFinishProfile(success) <=> LoopProofs!NotifyFinishProfile(success)
             /\ Loop!DoDump(success) <=> LoopProofs!DoDump(success)
  BY DEF Loop!Probe, LoopProofs!Probe, Loop!Judge, LoopProofs!Judge,
     Loop!Remember, LoopProofs!Remember, Loop!Unusable, LoopProofs!Unusable,
     Loop!Millis, LoopProofs!Millis,
     Loop!NotifyFinishProfile, LoopProofs!NotifyFinishProfile, Loop!DoDump, LoopProofs!DoDump
<1>5. Loop!Next <=> LoopProofs!Next
  BY <1>3, <1>4 DEF Loop!Next, LoopProofs!Next
<1>. QED
  BY <1>1, <1>2, <1>5 DEF Loop!loopVars, LoopProofs!loopVars

LEMMA SameRunner ==
  /\ Runner!Init <=> RunnerProofs!Init
  /\ Runner!TypeOK <=> RunnerProofs!TypeOK
  /\ Runner!Idle <=> RunnerProofs!Idle
  /\ \A c : Runner!Done(c) <=> RunnerProofs!Done(c)
  /\ \A before, l, verbose, timed, by :
       Runner!RunProcess(before, l, verbose, timed, by)
         <=> RunnerProofs!RunProcess(before, l, verbose, timed, by)
  /\ Runner!Caller <=> RunnerProofs!Caller
  /\ \A c : Runner!Child(c) <=> RunnerProofs!Child(c)
  /\ \A c : Runner!Reader(c) <=> RunnerProofs!Reader(c)
<1>1. Runner!Init <=> RunnerProofs!Init
  BY DEF Runner!Init, RunnerProofs!Init, Runner!LogFiles, RunnerProofs!LogFiles
<1>2. Runner!TypeOK <=> RunnerProofs!TypeOK
  BY DEF Runner!TypeOK, RunnerProofs!TypeOK, Runner!LogFiles, RunnerProofs!LogFiles,
     Runner!Call, RunnerProofs!Call, Runner!CallRecord, RunnerProofs!CallRecord,
     Runner!Line, RunnerProofs!Line
<1>3. \A c : /\ Runner!Done(c) <=> RunnerProofs!Done(c)
             /\ Runner!InCall(c) <=> RunnerProofs!InCall(c)
  BY DEF Runner!Done, RunnerProofs!Done, Runner!InCall, RunnerProofs!InCall
<1>4. Runner!Idle <=> RunnerProofs!Idle
  BY DEF Runner!Idle, RunnerProofs!Idle, Runner!Done, RunnerProofs!Done
<1>5. \A before, l, verbose, timed, by :
        Runner!RunProcess(before, l, verbose, timed, by)
          <=> RunnerProofs!RunProcess(before, l, verbose, timed, by)
  BY DEF Runner!RunProcess, RunnerProofs!RunProcess, Runner!PrintArgs, RunnerProofs!PrintArgs,
     Runner!NewCall, RunnerProofs!NewCall
<1>6. \A c : Runner!WaitReturns(c) <=> RunnerProofs!WaitReturns(c)
  BY <1>3 DEF Runner!WaitReturns, RunnerProofs!WaitReturns
<1>7. \A c : Runner!TimesOut(c) <=> RunnerProofs!TimesOut(c)
  BY <1>3, <1>5 DEF Runner!TimesOut, RunnerProofs!TimesOut
<1>8. \A c, j : /\ Runner!JstackReturns(c, j) <=> RunnerProofs!JstackReturns(c, j)
                /\ Runner!JstackThrows(c, j) <=> RunnerProofs!JstackThrows(c, j)
  BY <1>3 DEF Runner!JstackReturns, RunnerProofs!JstackReturns,
     Runner!JstackThrows, RunnerProofs!JstackThrows
<1>9. Runner!Caller <=> RunnerProofs!Caller
  BY <1>6, <1>7, <1>8 DEF Runner!Caller, RunnerProofs!Caller
<1>10. \A c : Runner!Child(c) <=> RunnerProofs!Child(c)
  BY DEF Runner!Child, RunnerProofs!Child, Runner!ChildWrites, RunnerProofs!ChildWrites,
     Runner!ChildExits, RunnerProofs!ChildExits
<1>11. \A c : Runner!Reader(c) <=> RunnerProofs!Reader(c)
  BY DEF Runner!Reader, RunnerProofs!Reader, Runner!ReaderReads, RunnerProofs!ReaderReads,
     Runner!ReaderLooks, RunnerProofs!ReaderLooks
<1>. QED
  BY <1>1, <1>2, <1>3, <1>4, <1>5, <1>9, <1>10, <1>11

-----------------------------------------------------------------------------
(* The parts' invariants are invariants here.                              *)

\* A call of the runner that main makes between two others begins one.
LEMMA InvokeBegins ==
    ASSUME RunnerProofs!IndInv, CallingInv, Invoke
    PROVE  /\ \E n : RunnerProofs!Begins(calls, n, LogName) /\ n.by = 0 /\ n.timed = (pc = "probe")
           /\ \A d \in DOMAIN calls : calls[d].pc = "done"
<1>1. PICK before \in Seq(RunnerProofs!Call), l \in RunnerProofs!LogFiles,
           verbose \in BOOLEAN, timed \in BOOLEAN :
        before = calls /\ l = LogName /\ verbose = TRUE /\ timed = (pc = "probe")
  BY DEF RunnerProofs!IndInv, RunnerProofs!TypeOK, RunnerProofs!LogFiles
<1>2. RunnerProofs!RunProcess(before, l, verbose, timed, 0)
  BY <1>1, SameRunner DEF Invoke
<1>3. Len(before) = Len(calls) /\ 0 \in Nat
  BY <1>1
<1>4. \E n : RunnerProofs!Begins(before, n, l) /\ n.by = 0 /\ n.timed = timed
  BY <1>2, <1>3, RunnerAssumption, RunnerProofs!RunProcessBegins
<1>. QED
  BY <1>1, <1>4 DEF Invoke, CallingInv, Runner!Idle, Runner!Done

LEMMA RunnerInvStep ==
    ASSUME RunnerProofs!IndInv, CallingInv, [Next]_vars
    PROVE  RunnerProofs!IndInv'
<1>1. CASE Invoke
  <2>1. PICK n : RunnerProofs!Begins(calls, n, LogName) /\ n.by = 0
    BY <1>1, InvokeBegins
  <2>2. \A d \in DOMAIN calls : calls[d].pc = "done"
    BY <1>1, InvokeBegins
  <2>3. \A d \in DOMAIN calls : calls[d].child = "running" => RunnerProofs!TimedOut(d)
    BY <2>2 DEF RunnerProofs!IndInv, RunnerProofs!StrayExplained, RunnerProofs!TimedOut,
       RunnerProofs!Done
  <2>4. \A d \in DOMAIN calls :
          /\ \A f \in {"log", "timed", "by", "outcome", "report", "child"} :
               calls[d][f] = calls[d][f]
          /\ calls[d].pc \in {"done", "diagnose"}
          /\ calls[d].pc = "done" <=> RunnerProofs!Done(d)
          /\ calls[d].pc = "diagnose" => RunnerProofs!TimedOut(d) \/ n.by = d
          /\ calls[d].child = "running" => RunnerProofs!TimedOut(d) \/ n.by = d
    BY <2>2, <2>3 DEF RunnerProofs!Done
  <2>5. n.by # 0 => /\ n.by \in DOMAIN calls
                    /\ calls[n.by].timed /\ ~n.timed
    BY <2>1
  <2>. QED
    BY <2>1, <2>4, <2>5, RunnerAssumption, RunnerProofs!BeginsInv, Zenon
<1>2. ASSUME RunnerProofs!Caller \/ \E c \in DOMAIN calls : RunnerProofs!Child(c) \/ RunnerProofs!Reader(c)
      PROVE  RunnerProofs!IndInv'
  BY <1>2, RunnerAssumption, RunnerProofs!InvStep DEF RunnerProofs!Next
<1>3. ASSUME UNCHANGED runnerVars PROVE RunnerProofs!IndInv'
  <2>1. UNCHANGED RunnerProofs!runnerVars
    BY <1>3 DEF runnerVars, RunnerProofs!runnerVars
  <2>. QED
    BY <2>1, RunnerAssumption, RunnerProofs!InvStep
<1>4. CASE Runner!Caller
  BY <1>2, <1>4, SameRunner
<1>5. CASE \E c \in DOMAIN calls : Process(c) \/ Reader(c)
  BY <1>2, <1>5, SameRunner DEF Process, Reader
<1>6. CASE UNCHANGED runnerVars
  BY <1>3, <1>6
<1>. QED
  BY <1>1, <1>4, <1>5, <1>6 DEF Next, Main, Return, ReturnError, vars

LEMMA LoopInvStep == LoopProofs!IndInv /\ [Next]_vars => LoopProofs!IndInv'
BY StepImplements, SameLoop, LoopAssumption, LoopProofs!InvStep

-----------------------------------------------------------------------------
(* What a step of the runner does to the calls, seen from main.            *)

\* A call that goes from d to e, one step later: it is still main's or not,
\* and ends with its child running only if that child had a time-out, as one
\* that failed.
Goes(d, e) ==
  /\ e.by = d.by /\ e.timed = d.timed
  /\ d.pc = "done" => e.pc = "done" /\ e.outcome = d.outcome
  /\ e.child = "running" => d.child = "running"
  /\ d.pc # "done" /\ e.pc = "done" /\ e.child = "running" =>
       d.by = 0 /\ d.timed /\ e.outcome = "failed"

Keeps ==
  /\ DOMAIN calls \subseteq DOMAIN calls'
  /\ \A d \in DOMAIN calls : Goes(calls[d], calls'[d])
  /\ \A d \in DOMAIN calls' \ DOMAIN calls :
       /\ calls'[d].by # 0
       /\ calls'[d].pc = "done" => calls'[d].child # "running"
       /\ \E c \in DOMAIN calls : calls[c].pc # "done"

LEMMA UpdatesKeep ==
    ASSUME RunnerProofs!TypeOK, NEW c, NEW r, RunnerProofs!Updates(c, r), Goes(calls[c], r)
    PROVE  Keeps
<1>1. /\ DOMAIN calls' = DOMAIN calls /\ calls'[c] = r
      /\ \A d \in DOMAIN calls : d # c => calls'[d] = calls[d]
  BY RunnerAssumption, RunnerProofs!UpdatesType
<1>2. \A d \in DOMAIN calls : Goes(calls[d], calls'[d])
  <2> TAKE d \in DOMAIN calls
  <2>1. CASE d = c
    BY <1>1, <2>1
  <2>2. CASE d # c
    BY <1>1, <2>2 DEF Goes
  <2>. QED
    BY <2>1, <2>2
<1>. QED
  BY <1>1, <1>2 DEF Keeps

LEMMA BeginsKeep ==
    ASSUME RunnerProofs!TypeOK, NEW before, NEW n, NEW l, RunnerProofs!Begins(before, n, l),
           n.by # 0, \E c \in DOMAIN calls : calls[c].pc # "done",
           \A d \in DOMAIN calls : Goes(calls[d], before[d])
    PROVE  Keeps
<1>1. /\ before \in Seq(RunnerProofs!Call) /\ Len(before) = Len(calls)
      /\ calls' = Append(before, n) /\ n \in RunnerProofs!Call
      /\ n.pc = "done" => n.child # "running"
  BY DEF RunnerProofs!Begins
<1>2. Len(calls) \in Nat /\ DOMAIN calls = 1 .. Len(calls)
  BY DEF RunnerProofs!TypeOK
<1>3. /\ DOMAIN calls' = 1 .. Len(calls) + 1 /\ calls'[Len(calls) + 1] = n
      /\ \A d \in DOMAIN calls : calls'[d] = before[d]
  BY <1>1, <1>2
<1>4. DOMAIN calls' \ DOMAIN calls = {Len(calls) + 1} /\ DOMAIN calls \subseteq DOMAIN calls'
  BY <1>2, <1>3
<1>. QED
  BY <1>1, <1>3, <1>4 DEF Keeps

LEMMA AsideKeeps ==
    ASSUME RunnerProofs!TypeOK, NEW c, NEW r, RunnerProofs!Aside(c, r)
    PROVE  Keeps
<1>1. RunnerProofs!Updates(c, r) /\ Goes(calls[c], r)
  BY DEF RunnerProofs!Aside, RunnerProofs!Updates, Goes
<1>. QED
  BY <1>1, UpdatesKeep

LEMMA RunnerKeeps ==
    ASSUME RunnerProofs!IndInv,
           \/ RunnerProofs!Caller
           \/ \E c \in DOMAIN calls : RunnerProofs!Child(c) \/ RunnerProofs!Reader(c)
    PROVE  Keeps
<1>1. RunnerProofs!TypeOK /\ RunnerProofs!NestInv
  BY DEF RunnerProofs!IndInv
<1>2. ASSUME NEW c \in DOMAIN calls, RunnerProofs!WaitReturns(c) PROVE Keeps
  <2>1. PICK r : RunnerProofs!Updates(c, r) /\ r.child = calls[c].child
    BY <1>1, <1>2, RunnerAssumption, RunnerProofs!WaitReturnsUpdates
  <2>2. calls[c].child = "exited" /\ calls[c].pc = "wait"
    BY <1>2 DEF RunnerProofs!WaitReturns
  <2>3. Goes(calls[c], r)
    BY <2>1, <2>2 DEF Goes, RunnerProofs!Updates
  <2>. QED
    BY <1>1, <2>1, <2>3, UpdatesKeep
<1>3. ASSUME NEW c \in DOMAIN calls, RunnerProofs!TimesOut(c) PROVE Keeps
  <2>1. c # 0
    BY <1>1 DEF RunnerProofs!TypeOK
  <2>2. calls[c].pc = "wait" /\ calls \in Seq(RunnerProofs!Call)
    BY <1>1, <1>3 DEF RunnerProofs!TimesOut, RunnerProofs!TypeOK
  <2>3. PICK r, n :
          /\ r \in RunnerProofs!Call /\ r.pc = "diagnose"
          /\ \A f \in {"log", "timed", "by", "outcome", "report", "child"} : r[f] = calls[c][f]
          /\ RunnerProofs!Begins([calls EXCEPT ![c] = r], n, JstackLog)
          /\ n.by = c /\ ~n.timed
    BY <1>1, <1>3, RunnerAssumption, RunnerProofs!TimesOutBegins
  <2> DEFINE before == [calls EXCEPT ![c] = r]
  <2>4. r.by = calls[c].by /\ r.timed = calls[c].timed /\ r.child = calls[c].child
    BY <2>3
  <2>5. Goes(calls[c], r)
    BY <2>2, <2>3, <2>4 DEF Goes
  <2>6. \A d \in DOMAIN calls : Goes(calls[d], before[d])
    <3> TAKE d \in DOMAIN calls
    <3>1. CASE d = c
      BY <2>2, <2>5, <3>1
    <3>2. CASE d # c
      BY <2>2, <3>2 DEF Goes
    <3>. QED
      BY <3>1, <3>2
  <2>. QED
    BY <1>1, <2>1, <2>2, <2>3, <2>6, BeginsKeep
<1>4. ASSUME NEW c \in DOMAIN calls, NEW j \in DOMAIN calls, RunnerProofs!JstackReturns(c, j)
      PROVE  Keeps
  <2>1. PICK r : RunnerProofs!Updates(c, r) /\ r.child # "running"
    BY <1>1, <1>4, RunnerAssumption, RunnerProofs!JstackReturnsUpdates
  <2>2. calls[c].pc = "diagnose"
    BY <1>4 DEF RunnerProofs!JstackReturns
  <2>3. Goes(calls[c], r)
    BY <2>1, <2>2 DEF Goes, RunnerProofs!Updates
  <2>. QED
    BY <1>1, <2>1, <2>3, UpdatesKeep
<1>5. ASSUME NEW c \in DOMAIN calls, NEW j \in DOMAIN calls, RunnerProofs!JstackThrows(c, j)
      PROVE  Keeps
  <2>1. PICK r : RunnerProofs!Updates(c, r) /\ r.child = calls[c].child /\ r.outcome = "failed"
    BY <1>1, <1>5, RunnerAssumption, RunnerProofs!JstackThrowsUpdates
  <2>2. calls[c].pc = "diagnose" /\ calls[j].by = c
    BY <1>5 DEF RunnerProofs!JstackThrows
  <2>3. c # 0
    BY <1>1 DEF RunnerProofs!TypeOK
  <2>4. calls[c].timed /\ calls[c].by = 0
    BY <1>1, <2>2, <2>3 DEF RunnerProofs!NestInv
  <2>5. Goes(calls[c], r)
    BY <2>1, <2>2, <2>4 DEF Goes, RunnerProofs!Updates
  <2>. QED
    BY <1>1, <2>1, <2>5, UpdatesKeep
<1>6. ASSUME NEW c \in DOMAIN calls, RunnerProofs!ChildWrites(c) PROVE Keeps
  BY <1>1, <1>6, AsideKeeps, RunnerAssumption, RunnerProofs!ChildWritesUpdates
<1>7. ASSUME NEW c \in DOMAIN calls, NEW ret \in {0, 1}, RunnerProofs!ChildExits(c, ret) PROVE Keeps
  BY <1>1, <1>7, AsideKeeps, RunnerAssumption, RunnerProofs!ChildExitsUpdates
<1>8. ASSUME NEW c \in DOMAIN calls, RunnerProofs!Reader(c) PROVE Keeps
  BY <1>1, <1>8, AsideKeeps, RunnerAssumption, RunnerProofs!ReaderUpdates
<1>. QED
  BY <1>2, <1>3, <1>4, <1>5, <1>6, <1>7, <1>8 DEF RunnerProofs!Caller, RunnerProofs!Child

-----------------------------------------------------------------------------
(* main's call and its strays.                                             *)

LEMMA LastIs ==
    ASSUME DOMAIN calls \subseteq Int, NEW c, IsLast(c)
    PROVE  LastCall = c
BY DEF LastCall, IsLast

LEMMA LastIsNext ==
    ASSUME (DOMAIN calls)' \subseteq Int, NEW c, IsLast(c)'
    PROVE  LastCall' = c
BY DEF LastCall, IsLast

LEMMA SubsetSize ==
    ASSUME NEW T, IsFiniteSet(T), NEW S \in SUBSET T
    PROVE  /\ IsFiniteSet(S)
           /\ Cardinality(S) \in Nat /\ Cardinality(T) \in Nat
           /\ Cardinality(S) <= Cardinality(T)
BY FS_Subset, FS_CardinalityType

LEMMA StraysFinite ==
    ASSUME RunnerProofs!TypeOK
    PROVE  /\ IsFiniteSet(Strays) /\ Cardinality(Strays) \in Nat
           /\ DOMAIN calls \subseteq Nat \ {0}
<1>1. Len(calls) \in Nat /\ DOMAIN calls = 1 .. Len(calls)
  BY DEF RunnerProofs!TypeOK
<1>2. IsFiniteSet(1 .. Len(calls))
  BY <1>1, FS_Interval
<1>. QED
  BY <1>1, <1>2, SubsetSize DEF Strays

\* At most main's own call is a stray that is not counted.
LEMMA CountedSize ==
    ASSUME RunnerProofs!TypeOK
    PROVE  /\ Cardinality(Counted) \in Nat
           /\ Cardinality(Strays) <= Cardinality(Counted) + 1
           /\ ~calling => Counted = Strays
<1>1. IsFiniteSet(Strays) /\ Cardinality(Strays) \in Nat
  BY StraysFinite
<1>2. CASE calling
  <2>1. Counted = Strays \ {LastCall}
    BY <1>2 DEF Counted
  <2>2. Cardinality(Strays \ {LastCall})
          = IF LastCall \in Strays THEN Cardinality(Strays) - 1 ELSE Cardinality(Strays)
    BY <1>1, FS_RemoveElement
  <2>3. IsFiniteSet(Strays \ {LastCall})
    BY <1>1, FS_RemoveElement
  <2>4. Cardinality(Strays \ {LastCall}) \in Nat
    BY <2>3, FS_CardinalityType
  <2>. QED
    BY <1>1, <1>2, <2>1, <2>2, <2>4
<1>3. CASE ~calling
  BY <1>1, <1>3 DEF Counted
<1>. QED
  BY <1>2, <1>3

AllInv ==
  /\ LoopProofs!IndInv /\ RunnerProofs!IndInv /\ calling \in BOOLEAN
  /\ IndInv

LEMMA AllFacts ==
    ASSUME AllInv
    PROVE  /\ RunnerProofs!IndInv /\ RunnerProofs!TypeOK /\ calls \in Seq(RunnerProofs!Call)
           /\ LoopProofs!IndInv
           /\ consecutiveFail \in Nat
           /\ calling \in BOOLEAN
           /\ CallingInv /\ StrayInv
BY DEF AllInv, IndInv, RunnerProofs!IndInv, RunnerProofs!TypeOK,
   LoopProofs!IndInv, LoopProofs!TypeOK

\* A step of the runner makes a stray of main's own probe at most.
LEMMA RunnerStrays ==
    ASSUME AllInv, Keeps, UNCHANGED <<loopVars, calling>>
    PROVE  /\ \A s \in Strays' :
                \/ s \in Strays
                \/ calling /\ IsLast(s) /\ pc = "probe"
           /\ \A s \in Strays' : calls'[s].outcome = "failed"
<1>1. SUFFICES ASSUME NEW s \in Strays'
               PROVE  /\ \/ s \in Strays
                         \/ calling /\ IsLast(s) /\ pc = "probe"
                      /\ calls'[s].outcome = "failed"
  OBVIOUS
<1>2. s \in DOMAIN calls' /\ calls'[s].pc = "done" /\ calls'[s].child = "running"
  BY DEF Strays, Runner!Done
<1>3. s \in DOMAIN calls /\ Goes(calls[s], calls'[s])
  BY <1>2 DEF Keeps
<1>4. CASE calls[s].pc = "done"
  <2>1. s \in Strays
    BY <1>2, <1>3, <1>4 DEF Goes, Strays, Runner!Done
  <2>. QED
    BY <1>3, <1>4, <2>1, AllFacts DEF Goes, StrayInv
<1>5. CASE calls[s].pc # "done"
  <2>1. calls[s].by = 0 /\ calls[s].timed /\ calls'[s].outcome = "failed"
    BY <1>2, <1>3, <1>5 DEF Goes
  <2>2. calling
    BY <1>3, <1>5, AllFacts DEF CallingInv, Runner!Idle, Runner!Done
  <2>3. IsLast(s) /\ pc = "probe"
    BY <1>3, <1>5, <2>1, <2>2, AllFacts DEF CallingInv, Runner!Done
  <2>. QED
    BY <2>1, <2>2, <2>3
<1>. QED
  BY <1>4, <1>5

-----------------------------------------------------------------------------
(* The steps.                                                              *)

LEMMA InitAll == Init => AllInv
<1> SUFFICES ASSUME Init PROVE AllInv
  OBVIOUS
<1>1. LoopProofs!IndInv
  BY SameLoop, LoopAssumption, LoopProofs!InitInv DEF Init
<1>2. RunnerProofs!IndInv
  BY SameRunner, RunnerAssumption, RunnerProofs!InitInv DEF Init
<1>3. calls = <<>> /\ ~calling /\ calling \in BOOLEAN /\ pc = "configure"
  BY DEF Init, Loop!Init, Runner!Init
<1>4. CallingInv
  BY <1>3 DEF CallingInv, Runner!Idle
<1>5. StrayInv
  BY <1>3 DEF StrayInv, Strays
<1>. QED
  BY <1>1, <1>2, <1>3, <1>4, <1>5 DEF AllInv, IndInv

LEMMA RunnerCalling ==
    ASSUME AllInv, Keeps, RunnerProofs!TypeOK', UNCHANGED <<loopVars, calling>>
    PROVE  CallingInv'
<1>1. pc' = pc /\ conf' = conf /\ calling' = calling
  BY DEF loopVars
<1>2. (~calling => Runner!Idle)'
  BY <1>1, AllFacts DEF CallingInv, Runner!Idle, Runner!Done, Keeps, Goes
<1>3. ASSUME calling
      PROVE  \E c \in DOMAIN calls' :
               /\ IsLast(c)'
               /\ \A d \in DOMAIN calls' : calls'[d].by = 0 /\ d # c => calls'[d].pc = "done"
               /\ pc' \in {"probe", "notify", "dump"}
               /\ calls'[c].timed <=> pc' = "probe"
  <2>1. PICK c \in DOMAIN calls :
          /\ IsLast(c)
          /\ \A d \in DOMAIN calls : calls[d].by = 0 /\ d # c => calls[d].pc = "done"
          /\ pc \in {"probe", "notify", "dump"}
          /\ calls[c].timed <=> pc = "probe"
    BY <1>3, AllFacts DEF CallingInv, Runner!Done
  <2>2. c \in DOMAIN calls' /\ calls'[c].by = calls[c].by /\ calls'[c].timed = calls[c].timed
    BY DEF Keeps, Goes
  <2>3. \A d \in DOMAIN calls' : calls'[d].by = 0 => d \in DOMAIN calls /\ calls[d].by = 0
    BY DEF Keeps, Goes
  <2>4. IsLast(c)'
    BY <2>1, <2>2, <2>3 DEF IsLast
  <2>5. \A d \in DOMAIN calls' : calls'[d].by = 0 /\ d # c => calls'[d].pc = "done"
    BY <2>1, <2>3 DEF Keeps, Goes
  <2>. QED
    BY <1>1, <2>1, <2>2, <2>4, <2>5
<1>4. (pc = "configure" \/ conf = NoConf => calls = <<>>)'
  <2>1. SUFFICES ASSUME pc = "configure" \/ conf = NoConf PROVE calls' = <<>>
    BY <1>1
  <2>2. DOMAIN calls = {}
    BY <2>1, AllFacts DEF CallingInv
  <2>3. DOMAIN calls' = {}
    BY <2>2 DEF Keeps
  <2>. QED
    BY <2>3 DEF RunnerProofs!TypeOK
<1>. QED
  BY <1>1, <1>2, <1>3, <1>4 DEF CallingInv, Runner!Done

LEMMA RunnerStray ==
    ASSUME AllInv, Keeps, RunnerProofs!TypeOK', UNCHANGED <<loopVars, calling>>
    PROVE  StrayInv'
<1>1. pc' = pc /\ conf' = conf /\ consecutiveFail' = consecutiveFail /\ calling' = calling
  BY DEF loopVars
<1>2. IsFiniteSet(Strays) /\ IsFiniteSet(Counted) /\ DOMAIN calls \subseteq Int
  BY AllFacts, StraysFinite, SubsetSize DEF Counted
<1>3. Counted' \subseteq Counted
  <2>1. CASE ~calling
    BY <1>1, <2>1, RunnerStrays DEF Counted
  <2>2. CASE calling
    <3>1. PICK c \in DOMAIN calls : IsLast(c)
      BY <2>2, AllFacts DEF CallingInv
    <3>2. IsLast(c)' /\ (DOMAIN calls)' \subseteq Int
      <4>1. c \in DOMAIN calls' /\ calls'[c].by = 0
        BY <3>1 DEF Keeps, Goes, IsLast
      <4>2. \A d \in DOMAIN calls' : calls'[d].by = 0 => d \in DOMAIN calls /\ calls[d].by = 0
        BY DEF Keeps, Goes
      <4>. QED
        BY <3>1, <4>1, <4>2 DEF IsLast, RunnerProofs!TypeOK
    <3>3. LastCall = c /\ LastCall' = c
      BY <1>2, <3>1, <3>2, LastIs, LastIsNext
    <3>4. \A s \in Strays' : s \in Strays \/ s = c
      BY <1>2, <3>3, RunnerStrays, LastIs
    <3>. QED
      BY <1>1, <2>2, <3>3, <3>4 DEF Counted
  <2>. QED
    BY <2>1, <2>2, AllFacts
<1>4. Cardinality(Counted') <= Cardinality(Counted) /\ Cardinality(Counted') \in Nat
      /\ Cardinality(Counted) \in Nat
  BY <1>2, <1>3, SubsetSize
<1>5. ASSUME pc # "probe"
      PROVE  /\ Strays' \subseteq Strays /\ Cardinality(Strays') <= Cardinality(Strays)
             /\ Cardinality(Strays') \in Nat /\ Cardinality(Strays) \in Nat
  <2>1. Strays' \subseteq Strays
    BY <1>5, RunnerStrays
  <2>. QED
    BY <1>2, <2>1, SubsetSize
<1>6. \A s \in Strays' : calls'[s].outcome = "failed"
  BY RunnerStrays
<1>7. (pc \in {"delay", "sleep", "probe"} => Cardinality(Counted) <= consecutiveFail)'
  BY <1>1, <1>4, AllFacts DEF StrayInv
<1>8. ASSUME conf # NoConf
      PROVE  conf.failureThreshold \in Int
  BY <1>8, AllFacts, LoopAssumption, LoopProofs!ConfTypes DEF LoopProofs!IndInv
<1>9. (conf # NoConf /\ pc \in {"notify", "dump", "dumped", "gaveUp"} =>
         Cardinality(Strays) <= conf.failureThreshold)'
  BY <1>1, <1>5, <1>8, AllFacts DEF StrayInv
<1>10. (pc = "thrown" /\ Strays # {} =>
          conf # NoConf /\ Cardinality(Strays) <= conf.failureThreshold)'
  BY <1>1, <1>5, <1>8, AllFacts DEF StrayInv
<1>. QED
  BY <1>6, <1>7, <1>9, <1>10 DEF StrayInv

\* The loop, where it is and what it has counted.
LEMMA LoopFacts ==
    ASSUME AllInv
    PROVE  /\ pc \in Loop!Steps
           /\ pc \notin {"configure", "thrown"} =>
                /\ conf # NoConf /\ conf.failureThreshold \in Int
                /\ conf.successThreshold = 1 /\ conf.failureThreshold >= 1
           /\ pc \in {"delay", "sleep", "probe"} => consecutiveFail < conf.failureThreshold
           /\ pc \in {"delay", "sleep", "probe"} => consecutiveSucc = 0
<1>1. /\ LoopProofs!TypeOK /\ LoopProofs!AcceptedInv /\ LoopProofs!CountInv
  BY DEF AllInv, LoopProofs!IndInv
<1>2. conf # NoConf => conf.failureThreshold \in Int
  BY <1>1, LoopAssumption, LoopProofs!ConfTypes
<1>3. pc \notin {"configure", "thrown"} => conf # NoConf /\ LoopProofs!Accepted(conf)
  BY <1>1 DEF LoopProofs!AcceptedInv
<1>4. pc \in Loop!Steps
  BY <1>1 DEF LoopProofs!TypeOK, LoopProofs!Steps, Loop!Steps
<1>. QED
  BY <1>1, <1>2, <1>3, <1>4 DEF LoopProofs!Accepted, LoopProofs!CountInv

\* When main is back, there are no more strays than failures, with this one.
LEMMA ReturnFacts ==
    ASSUME AllInv, calling
    PROVE  /\ LastCall \in DOMAIN calls
           /\ calls[LastCall].outcome = "ok" => Counted = Strays
           /\ pc \in {"probe", "notify", "dump"}
           /\ pc # "probe" => Cardinality(Strays) <= conf.failureThreshold
           /\ pc = "probe" => /\ Cardinality(Counted) <= consecutiveFail
                              /\ Cardinality(Strays) <= conf.failureThreshold
<1>1. PICK c \in DOMAIN calls : IsLast(c) /\ pc \in {"probe", "notify", "dump"}
  BY AllFacts DEF CallingInv
<1>2. LastCall = c
  BY <1>1, AllFacts, StraysFinite, LastIs
<1>3. calls[LastCall].outcome = "ok" => Counted = Strays
  BY <1>2, AllFacts DEF StrayInv, Counted
<1>4. Cardinality(Counted) \in Nat /\ Cardinality(Strays) \in Nat
      /\ Cardinality(Strays) <= Cardinality(Counted) + 1
  BY AllFacts, CountedSize, StraysFinite
<1>5. conf # NoConf /\ conf.failureThreshold \in Int
  BY <1>1, LoopFacts
<1>6. pc = "probe" => Cardinality(Counted) <= consecutiveFail /\ consecutiveFail < conf.failureThreshold
  BY AllFacts, LoopFacts DEF StrayInv
<1>7. pc # "probe" => Cardinality(Strays) <= conf.failureThreshold
  BY <1>1, <1>5, AllFacts DEF StrayInv
<1>. QED
  BY <1>1, <1>2, <1>3, <1>4, <1>5, <1>6, <1>7, AllFacts

\* A step of the loop leaves the calls alone, and so the strays.
LEMMA SameCalls ==
    ASSUME calls' = calls
    PROVE  /\ Strays' = Strays
           /\ Runner!Idle <=> \A d \in DOMAIN calls' : calls'[d].pc = "done"
           /\ \A s \in Strays : calls'[s].outcome = calls[s].outcome
BY DEF Strays, Runner!Idle, Runner!Done

LEMMA ReturnInv ==
    ASSUME AllInv, Return \/ ReturnError
    PROVE  CallingInv' /\ StrayInv'
<1>1. /\ calling /\ Runner!Idle /\ calling' = FALSE /\ calls' = calls
      /\ pc \in {"probe", "notify", "dump"}
  BY ReturnFacts DEF Return, ReturnError, runnerVars
<1>2. Strays' = Strays /\ Counted' = Strays
  BY <1>1, SameCalls DEF Counted
<1>3. \A s \in Strays' : calls'[s].outcome = "failed"
  BY <1>1, <1>2, AllFacts DEF StrayInv
<1>4. /\ conf # NoConf /\ conf.failureThreshold \in Int /\ conf.successThreshold = 1
      /\ Cardinality(Strays) <= conf.failureThreshold /\ Cardinality(Strays) \in Nat
      /\ consecutiveFail \in Nat
  BY <1>1, LoopFacts, ReturnFacts, AllFacts, StraysFinite
<1>5. /\ conf' = conf /\ pc' \in {"sleep", "notify", "dump", "dumped", "gaveUp", "thrown"}
      /\ pc' = "sleep" => Cardinality(Strays) <= consecutiveFail'
  <2>1. CASE ReturnError
    BY <2>1 DEF ReturnError, Loop!ProbeError
  <2>2. CASE Return
    <3> DEFINE success == calls[LastCall].outcome = "ok"
    <3>1. CASE Loop!NotifyFinishProfile(success)
      BY <3>1 DEF Loop!NotifyFinishProfile
    <3>2. CASE Loop!DoDump(success)
      BY <3>2 DEF Loop!DoDump
    <3>3. CASE Loop!Probe(success)
      <4>1. pc = "probe" /\ conf' = conf /\ Loop!Judge(success)
        BY <3>3 DEF Loop!Probe
      <4>2. consecutiveSucc = 0
        BY <4>1, LoopFacts
      <4>3. CASE success
        BY <1>4, <4>1, <4>2, <4>3 DEF Loop!Judge
      <4>4. CASE ~success
        <5>1. consecutiveFail' = consecutiveFail + 1 /\ consecutiveSucc' = 0
          BY <4>1, <4>4 DEF Loop!Judge
        <5>2. pc' \in {"gaveUp", "sleep"}
          BY <1>4, <4>1, <5>1 DEF Loop!Judge
        <5>3. Cardinality(Strays) <= consecutiveFail + 1
          BY <1>1, <1>4, <4>1, AllFacts, CountedSize, ReturnFacts
        <5>. QED
          BY <4>1, <5>1, <5>2, <5>3
      <4>. QED
        BY <4>3, <4>4
    <3>. QED
      BY <2>2, <3>1, <3>2, <3>3 DEF Return
  <2>. QED
    BY <2>1, <2>2
<1>6. CallingInv'
  BY <1>1, <1>4, <1>5, SameCalls DEF CallingInv, Runner!Idle, Runner!Done
<1>7. StrayInv'
  BY <1>2, <1>3, <1>4, <1>5 DEF StrayInv
<1>. QED
  BY <1>6, <1>7

LEMMA QuietInv ==
    ASSUME AllInv, Loop!Configure \/ Loop!Reject \/ Loop!Delay \/ Loop!Sleep,
           UNCHANGED <<runnerVars, calling>>
    PROVE  CallingInv' /\ StrayInv'
<1>1. /\ calls' = calls /\ calling' = calling /\ conf' = conf
      /\ consecutiveFail' = consecutiveFail
      /\ pc \in {"configure", "delay", "sleep"}
      /\ pc' \in {"delay", "sleep", "probe", "thrown"}
      /\ pc' = "thrown" => pc = "configure"
      /\ pc' \in {"delay", "sleep", "probe"} /\ pc = "configure" => conf # NoConf
  BY DEF Loop!Configure, Loop!Reject, Loop!Delay, Loop!Sleep, runnerVars
<1>2. ~calling /\ Runner!Idle
  BY <1>1, AllFacts DEF CallingInv
<1>3. Strays' = Strays /\ Counted' = Strays /\ Counted = Strays
  BY <1>1, <1>2, SameCalls, AllFacts, CountedSize DEF Counted
<1>4. pc = "configure" => calls = <<>> /\ Strays = {} /\ Cardinality(Strays) = 0
  BY AllFacts, FS_EmptySet DEF CallingInv, Strays
<1>5. pc # "configure" => conf # NoConf
  BY <1>1, LoopFacts
<1>6. CallingInv'
  BY <1>1, <1>2, <1>4, <1>5, SameCalls DEF CallingInv, Runner!Idle, Runner!Done
<1>7. \A s \in Strays' : calls'[s].outcome = "failed"
  BY <1>1, <1>3, AllFacts DEF StrayInv
<1>8. Cardinality(Strays) <= consecutiveFail
  BY <1>1, <1>3, <1>4, AllFacts DEF StrayInv
<1>9. StrayInv'
  BY <1>1, <1>3, <1>4, <1>7, <1>8 DEF StrayInv
<1>. QED
  BY <1>6, <1>9

LEMMA InvokeInv ==
    ASSUME AllInv, Invoke
    PROVE  CallingInv' /\ StrayInv'
<1>1. /\ ~calling /\ calling' = TRUE /\ pc \in {"probe", "notify", "dump"}
      /\ pc' = pc /\ conf' = conf /\ consecutiveFail' = consecutiveFail
  BY DEF Invoke, loopVars
<1> PICK N \in Nat : N = Len(calls) + 1
  BY AllFacts
<1>2. \A d \in DOMAIN calls : calls[d].pc = "done"
  BY AllFacts, InvokeBegins
<1>3. PICK n : /\ RunnerProofs!Begins(calls, n, LogName) /\ n.by = 0
               /\ n.timed = (pc = "probe")
  BY AllFacts, InvokeBegins
<1>4. /\ n \in RunnerProofs!Call /\ calls' = Append(calls, n)
      /\ n.pc = "done" => n.child # "running"
  BY <1>3 DEF RunnerProofs!Begins
<1>5. /\ Len(calls) \in Nat /\ DOMAIN calls = 1 .. Len(calls)
      /\ DOMAIN calls' = 1 .. N /\ calls'[N] = n
      /\ \A d \in DOMAIN calls : calls'[d] = calls[d]
  BY <1>4, AllFacts
<1>6. IsLast(N)'
  BY <1>3, <1>5 DEF IsLast
<1>7. LastCall' = N
  BY <1>5, <1>6, LastIsNext
<1>8. CallingInv'
  <2>1. \A d \in DOMAIN calls' : calls'[d].by = 0 /\ d # N => calls'[d].pc = "done"
    BY <1>2, <1>5
  <2>2. calls'[N].timed <=> pc' = "probe"
    BY <1>1, <1>3, <1>5
  <2>3. conf # NoConf
    BY <1>1, LoopFacts
  <2>4. N \in DOMAIN calls'
    BY <1>5
  <2>. QED
    BY <1>1, <1>6, <2>1, <2>2, <2>3, <2>4 DEF CallingInv, Runner!Done
<1>9. Strays' = Strays /\ N \notin Strays
  BY <1>4, <1>5 DEF Strays, Runner!Done
<1>10. Counted' = Strays /\ Counted = Strays
  BY <1>1, <1>7, <1>9, AllFacts, CountedSize DEF Counted
<1>11. \A s \in Strays' : calls'[s].outcome = "failed"
  BY <1>5, <1>9, AllFacts DEF StrayInv, Strays
<1>12. StrayInv'
  BY <1>1, <1>9, <1>10, <1>11, AllFacts DEF StrayInv
<1>. QED
  BY <1>8, <1>12

LEMMA AllInvStep == AllInv /\ [Next]_vars => AllInv'
<1> SUFFICES ASSUME AllInv, [Next]_vars PROVE AllInv'
  OBVIOUS
<1>1. LoopProofs!IndInv' /\ RunnerProofs!IndInv'
  BY AllFacts, LoopInvStep, RunnerInvStep
<1>2. RunnerProofs!TypeOK'
  BY <1>1 DEF RunnerProofs!IndInv
<1>3. ASSUME RunnerProofs!Caller \/ \E c \in DOMAIN calls : RunnerProofs!Child(c) \/ RunnerProofs!Reader(c),
             UNCHANGED <<loopVars, calling>>
      PROVE  AllInv'
  <2>1. Keeps
    BY <1>3, AllFacts, RunnerKeeps
  <2>2. CallingInv' /\ StrayInv'
    BY <1>2, <1>3, <2>1, RunnerCalling, RunnerStray
  <2>. QED
    BY <1>1, <1>3, <2>2, AllFacts DEF AllInv, IndInv
<1>4. CASE (Loop!Configure \/ Loop!Reject \/ Loop!Delay \/ Loop!Sleep) /\ UNCHANGED <<runnerVars, calling>>
  <2>1. CallingInv' /\ StrayInv'
    BY <1>4, QuietInv
  <2>. QED
    BY <1>1, <1>4, <2>1, AllFacts DEF AllInv, IndInv
<1>5. CASE Invoke
  <2>1. CallingInv' /\ StrayInv'
    BY <1>5, InvokeInv
  <2>. QED
    BY <1>1, <1>5, <2>1 DEF AllInv, IndInv, Invoke
<1>6. CASE Return \/ ReturnError
  <2>1. CallingInv' /\ StrayInv'
    BY <1>6, ReturnInv
  <2>. QED
    BY <1>1, <1>6, <2>1 DEF AllInv, IndInv, Return, ReturnError
<1>7. CASE Runner!Caller /\ UNCHANGED <<loopVars, calling>>
  BY <1>3, <1>7, SameRunner
<1>8. CASE \E c \in DOMAIN calls : Process(c) \/ Reader(c)
  BY <1>3, <1>8, SameRunner DEF Process, Reader
<1>9. CASE UNCHANGED vars
  <2>1. /\ calls' = calls /\ calling' = calling /\ pc' = pc /\ conf' = conf
        /\ consecutiveFail' = consecutiveFail
    BY <1>9 DEF vars, loopVars, runnerVars
  <2>2. CallingInv' /\ StrayInv'
    BY <2>1, AllFacts DEF CallingInv, StrayInv, Strays, Counted, IsLast, LastCall,
       Runner!Idle, Runner!Done
  <2>. QED
    BY <1>1, <2>1, <2>2, AllFacts DEF AllInv, IndInv
<1>. QED
  BY <1>4, <1>5, <1>6, <1>7, <1>8, <1>9 DEF Next, Main

-----------------------------------------------------------------------------
(* What follows.                                                           *)

\* Where main is, which of its calls has a time-out and which children it has
\* left behind, with what the two parts keep of their own.
THEOREM Inductive == Spec => []AllInv
BY InitAll, AllInvStep, PTL DEF Spec

\* Every variable of the loop and of the runner keeps its type when the one
\* runs over the other.
THEOREM TypeCorrect == Spec => []TypeOK
<1>1. AllInv => TypeOK
  <2> SUFFICES ASSUME AllInv PROVE TypeOK
    OBVIOUS
  <2>1. LoopProofs!TypeOK /\ RunnerProofs!TypeOK /\ calling \in BOOLEAN
    BY DEF AllInv, LoopProofs!IndInv, RunnerProofs!IndInv
  <2>. QED
    BY <2>1, SameLoop, SameRunner DEF TypeOK
<1>. QED
  BY <1>1, Inductive, PTL

\* The commands that main could neither wait for nor kill are never more than
\* the failures that the configuration allows, and while main goes on probing
\* each of them is a failure it has counted.
THEOREM FewStrays == Spec => []StraysBounded
<1>1. AllInv => StraysBounded
  <2> SUFFICES ASSUME AllInv PROVE StraysBounded
    OBVIOUS
  <2>1. /\ Cardinality(Counted) \in Nat /\ Cardinality(Strays) \in Nat
        /\ Cardinality(Strays) <= Cardinality(Counted) + 1
        /\ ~calling => Counted = Strays
    BY AllFacts, CountedSize, StraysFinite
  <2>2. ASSUME Strays # {}
        PROVE  conf # NoConf /\ Cardinality(Strays) <= conf.failureThreshold
    <3>1. calls # <<>>
      BY <2>2 DEF Strays
    <3>2. pc # "configure" /\ conf # NoConf
      BY <3>1, AllFacts DEF CallingInv
    <3>3. CASE pc \in {"delay", "sleep", "probe"}
      BY <2>1, <3>2, <3>3, LoopFacts, AllFacts DEF StrayInv
    <3>4. CASE pc \in {"notify", "dump", "dumped", "gaveUp", "thrown"}
      BY <2>2, <3>2, <3>4, AllFacts DEF StrayInv
    <3>. QED
      BY <3>2, <3>3, <3>4, LoopFacts DEF Loop!Steps
  <2>3. pc \in {"sleep", "probe"} /\ ~calling => Cardinality(Strays) <= consecutiveFail
    BY <2>1, AllFacts DEF StrayInv
  <2>. QED
    BY <2>2, <2>3 DEF StraysBounded
<1>. QED
  BY <1>1, Inductive, PTL

=============================================================================
