------------------------ MODULE StartupProbe_proofs ------------------------
(***************************************************************************)
(* Theorems about StartupProbe for every set of configurations and every   *)
(* width of an int.                                                        *)
(***************************************************************************)
EXTENDS StartupProbe, TLAPS

\* A configuration is in use only if it was accepted.  Until a threshold is
\* met there have been failures only, each counted, and fewer than allowed:
\* the one success that getProbeConf accepts ends the loop.
AcceptedInv == pc \notin {"configure", "thrown"} => conf # NoConf /\ Accepted(conf)

CountInv ==
  /\ pc \in {"configure", "delay", "sleep", "probe"} =>
       /\ consecutiveSucc = 0
       /\ Len(recent) = consecutiveFail
       /\ \A i \in 1 .. Len(recent) : recent[i] = FALSE
  /\ pc = "configure" => consecutiveFail = 0
  /\ pc \in {"delay", "sleep", "probe"} => consecutiveFail < conf.failureThreshold

IndInv == TypeOK /\ AcceptedInv /\ CountInv /\ ThresholdExact

LEMMA ConfTypes ==
    ASSUME TypeOK, conf # NoConf
    PROVE  /\ conf.failureThreshold \in Int /\ conf.failureThreshold <= Window
           /\ Window \in Nat
BY ConfsAssumption DEF TypeOK, Conf

LEMMA InitInv == Init => IndInv
BY ConfsAssumption DEF Init, IndInv, TypeOK, AcceptedInv, CountInv, ThresholdExact, Steps

\* With failures only, and too few of them, neither streak is there.
LEMMA NoStreak ==
    ASSUME recent \in Seq(BOOLEAN), conf # NoConf, Accepted(conf),
           \A i \in 1 .. Len(recent) : recent[i] = FALSE,
           conf.failureThreshold \in Int, Len(recent) < conf.failureThreshold
    PROVE  ~Streak(TRUE, conf.successThreshold) /\ ~Streak(FALSE, conf.failureThreshold)
<1>1. conf.successThreshold = 1
  BY DEF Accepted
<1>2. ~Streak(FALSE, conf.failureThreshold)
  BY DEF Streak
<1>3. ~Streak(TRUE, 1)
  <2>1. Len(recent) \in Nat
    OBVIOUS
  <2>2. CASE Len(recent) = 0
    BY <2>2 DEF Streak
  <2>3. CASE Len(recent) # 0
    <3>1. Len(recent) \in 1 .. Len(recent)
          /\ Len(recent) \in (Len(recent) - 1 + 1) .. Len(recent)
      BY <2>1, <2>3
    <3>. QED
      BY <3>1 DEF Streak
  <2>. QED
    BY <2>2, <2>3, Zenon
<1>. QED
  BY <1>1, <1>2, <1>3

\* A probe, in a state where there have been failures only.
LEMMA ProbeInv ==
    ASSUME IndInv, NEW success \in BOOLEAN, Probe(success)
    PROVE  IndInv'
<1>1. /\ pc = "probe" /\ conf' = conf /\ conf # NoConf /\ Accepted(conf)
      /\ recent \in Seq(BOOLEAN) /\ consecutiveFail \in Nat
      /\ consecutiveSucc = 0 /\ Len(recent) = consecutiveFail
      /\ \A i \in 1 .. Len(recent) : recent[i] = FALSE
      /\ consecutiveFail < conf.failureThreshold
  BY DEF IndInv, Probe, TypeOK, CountInv, AcceptedInv
<1>2. /\ conf.failureThreshold \in Int /\ conf.failureThreshold <= Window /\ Window \in Nat
      /\ conf.successThreshold = 1 /\ conf.failureThreshold >= 1
  BY <1>1, ConfTypes DEF IndInv, Accepted
<1>3. recent' = Append(recent, success)
  <2>1. Len(Append(recent, success)) = consecutiveFail + 1
    BY <1>1
  <2>2. ~(Len(Append(recent, success)) > Window)
    BY <1>1, <1>2, <2>1
  <2>. QED
    BY <2>2 DEF Probe, Remember
<1>4. /\ recent' \in Seq(BOOLEAN) /\ Len(recent') = consecutiveFail + 1
      /\ recent'[Len(recent')] = success
      /\ \A i \in 1 .. Len(recent) : recent'[i] = FALSE
  BY <1>1, <1>3
<1>5. CASE success
  <2>1. consecutiveSucc' = 1 /\ consecutiveFail' = 0 /\ pc' = "notify"
    BY <1>1, <1>2, <1>5 DEF Probe, Judge
  <2>2. Streak(TRUE, conf.successThreshold)'
    <3>1. conf'.successThreshold = 1 /\ Len(recent') \in Nat /\ 1 <= Len(recent')
      BY <1>1, <1>2, <1>4
    <3>2. \A i \in (Len(recent') - 1 + 1) .. Len(recent') : i = Len(recent')
      BY <3>1
    <3>. QED
      BY <1>4, <1>5, <3>1, <3>2 DEF Streak
  <2>. QED
    BY <1>1, <1>4, <2>1, <2>2
       DEF IndInv, TypeOK, AcceptedInv, CountInv, ThresholdExact, Steps
<1>6. CASE ~success
  <2>1. consecutiveSucc' = 0 /\ consecutiveFail' = consecutiveFail + 1
    BY <1>6 DEF Probe, Judge
  <2>2. pc' = IF consecutiveFail + 1 >= conf.failureThreshold THEN "gaveUp" ELSE "sleep"
    BY <1>2, <2>1 DEF Probe, Judge
  <2>3. \A i \in 1 .. Len(recent') : recent'[i] = FALSE
    BY <1>1, <1>4, <1>6
  <2>4. CASE pc' = "gaveUp"
    <3>1. Len(recent') = conf'.failureThreshold
      BY <1>1, <1>2, <1>4, <2>2, <2>4
    <3>2. Streak(FALSE, conf.failureThreshold)'
      BY <1>1, <1>2, <2>3, <3>1 DEF Streak
    <3>3. TypeOK' /\ AcceptedInv'
      <4>1. /\ pc' = "gaveUp" /\ conf' = conf /\ conf \in Confs \cup {NoConf}
            /\ consecutiveSucc' \in Nat /\ consecutiveFail' \in Nat
            /\ recent' \in Seq(BOOLEAN)
        BY <1>1, <1>4, <2>1, <2>4 DEF IndInv, TypeOK
      <4>2. TypeOK'
        BY <4>1 DEF TypeOK, Steps
      <4>3. AcceptedInv'
        BY <1>1, <4>1 DEF AcceptedInv, Accepted
      <4>. QED
        BY <4>2, <4>3
    <3>4. CountInv'
      BY <2>4 DEF CountInv
    <3>5. ThresholdExact'
      BY <2>4, <3>2 DEF ThresholdExact
    <3>. QED
      BY <3>3, <3>4, <3>5 DEF IndInv
  <2>5. CASE pc' = "sleep" /\ consecutiveFail + 1 < conf.failureThreshold
    <3>1. (~Streak(TRUE, conf.successThreshold) /\ ~Streak(FALSE, conf.failureThreshold))'
      BY <1>1, <1>2, <1>4, <2>3, <2>5 DEF Accepted, Streak
    <3>2. TypeOK' /\ AcceptedInv'
      <4>1. /\ pc' = "sleep" /\ conf' = conf /\ conf \in Confs \cup {NoConf}
            /\ consecutiveSucc' \in Nat /\ consecutiveFail' \in Nat
            /\ recent' \in Seq(BOOLEAN)
        BY <1>1, <1>4, <2>1, <2>5 DEF IndInv, TypeOK
      <4>2. TypeOK'
        BY <4>1 DEF TypeOK, Steps
      <4>3. AcceptedInv'
        BY <1>1, <4>1 DEF AcceptedInv, Accepted
      <4>. QED
        BY <4>2, <4>3
    <3>3. CountInv'
      BY <1>1, <1>4, <2>1, <2>3, <2>5 DEF CountInv
    <3>4. ThresholdExact'
      BY <2>5, <3>1 DEF ThresholdExact
    <3>. QED
      BY <3>2, <3>3, <3>4 DEF IndInv
  <2>. QED
    BY <1>1, <1>2, <2>2, <2>4, <2>5
<1>. QED
  BY <1>5, <1>6

LEMMA InvStep == IndInv /\ [Next]_loopVars => IndInv'
<1> SUFFICES ASSUME IndInv, [Next]_loopVars PROVE IndInv'
  OBVIOUS
<1> USE DEF IndInv
<1>1. CASE Configure
  <2>1. /\ conf # NoConf /\ Accepted(conf) /\ pc' \in {"delay", "sleep"} /\ pc = "configure"
        /\ UNCHANGED <<conf, consecutiveSucc, consecutiveFail, recent>>
    BY <1>1 DEF Configure
  <2>2. consecutiveFail = 0 /\ Len(recent) = 0 /\ conf.failureThreshold >= 1
        /\ conf.failureThreshold \in Int
    BY <2>1, ConfTypes DEF CountInv, Accepted
  <2>3. ~Streak(TRUE, conf.successThreshold) /\ ~Streak(FALSE, conf.failureThreshold)
    <3>1. recent \in Seq(BOOLEAN) /\ \A i \in 1 .. Len(recent) : recent[i] = FALSE
      BY <2>1 DEF TypeOK, CountInv
    <3>2. Len(recent) < conf.failureThreshold
      BY <2>2
    <3>. QED
      BY <2>1, <2>2, <3>1, <3>2, NoStreak
  <2>4. (~Streak(TRUE, conf.successThreshold) /\ ~Streak(FALSE, conf.failureThreshold))'
    BY <2>1, <2>3 DEF Streak
  <2>5. TypeOK' /\ AcceptedInv'
    BY <2>1 DEF TypeOK, AcceptedInv, Accepted, Steps
  <2>6. CountInv'
    BY <2>1, <2>2 DEF CountInv
  <2>7. ThresholdExact'
    BY <2>1, <2>4 DEF ThresholdExact
  <2>. QED
    BY <2>5, <2>6, <2>7
<1>2. CASE Reject \/ ProbeError
  BY <1>2 DEF Reject, ProbeError, TypeOK, AcceptedInv, CountInv, ThresholdExact, Steps
<1>3. CASE Delay \/ Sleep
  <2>1. /\ pc \in {"delay", "sleep"} /\ pc' \in {"sleep", "probe"}
        /\ UNCHANGED <<conf, consecutiveSucc, consecutiveFail, recent>>
    BY <1>3 DEF Delay, Sleep
  <2>2. conf # NoConf /\ Accepted(conf) /\ Len(recent) < conf.failureThreshold
    BY <2>1 DEF AcceptedInv, CountInv
  <2>3. ~Streak(TRUE, conf.successThreshold) /\ ~Streak(FALSE, conf.failureThreshold)
    BY <2>1, <2>2, ConfTypes, NoStreak DEF TypeOK, CountInv
  <2>4. (~Streak(TRUE, conf.successThreshold) /\ ~Streak(FALSE, conf.failureThreshold))'
    BY <2>1, <2>3 DEF Streak
  <2>. QED
    BY <2>1, <2>2, <2>4
       DEF TypeOK, AcceptedInv, Accepted, CountInv, ThresholdExact, Steps
<1>4. CASE \E success \in BOOLEAN : Probe(success)
  BY <1>4, ProbeInv
<1>5. CASE \E success \in BOOLEAN : NotifyFinishProfile(success) \/ DoDump(success)
  <2>1. /\ pc \in {"notify", "dump"} /\ pc' \in {"dump", "dumped", "thrown"}
        /\ UNCHANGED <<conf, consecutiveSucc, consecutiveFail, recent>>
    BY <1>5 DEF NotifyFinishProfile, DoDump
  <2>2. Streak(TRUE, conf.successThreshold)'
    BY <2>1 DEF ThresholdExact, Streak
  <2>. QED
    BY <2>1, <2>2 DEF TypeOK, AcceptedInv, Accepted, CountInv, ThresholdExact, Steps
<1>6. CASE UNCHANGED loopVars
  BY <1>6 DEF loopVars, TypeOK, AcceptedInv, Accepted, CountInv, ThresholdExact, Streak
<1>. QED
  BY <1>1, <1>2, <1>3, <1>4, <1>5, <1>6 DEF Next

\* The types of the loop's variables, what has been accepted, and the failures
\* counted so far are invariant together.
THEOREM Inductive == Spec => []IndInv
BY InitInv, InvStep, PTL DEF Spec

\* The counters are of the right type.
THEOREM TypeCorrect == Spec => []TypeOK
<1>1. IndInv => TypeOK
  BY DEF IndInv
<1>. QED
  BY <1>1, Inductive, PTL

\* The loop ends exactly with the streak that was asked for.
THEOREM Thresholds == Spec => []ThresholdExact
<1>1. IndInv => ThresholdExact
  BY DEF IndInv
<1>. QED
  BY <1>1, Inductive, PTL
=============================================================================
