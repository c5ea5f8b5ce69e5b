----------------------- MODULE ClassComparator_proofs -----------------------
(***************************************************************************)
(* Theorems about ClassComparator for every list of classes, whatever its  *)
(* order and its ids, and every scan.                                      *)
(***************************************************************************)
EXTENDS ClassComparator, TLAPS

LEMMA InputFacts ==
    ASSUME TypeOK
    PROVE  /\ list \in Seq(ClassDesc) /\ Len(list) \in Nat
           /\ input.notFound \in Seq(Names) /\ Len(input.notFound) \in Nat
           /\ input.scan \in [Names -> SUBSET FileInfo]
           /\ \A i \in Positions : list[i] \in ClassDesc /\ list[i].id \in Ids
                                   /\ list[i].name \in Names
<1>1. input \in Input
  BY InputsAssumption DEF TypeOK
<1>2. list \in Seq(ClassDesc) /\ input.notFound \in Seq(Names)
      /\ input.scan \in [Names -> SUBSET FileInfo]
  BY <1>1 DEF Input, list
<1>3. \A i \in Positions : list[i] \in ClassDesc
  BY <1>2 DEF Positions
<1>4. \A c \in ClassDesc : c.id \in Ids /\ c.name \in Names
  BY DEF ClassDesc
<1>. QED
  BY <1>2, <1>3, <1>4

LEMMA OwnResultType == \A c : OwnResult(c) \in DirectResults \cup {"SAME"}
BY DEF OwnResult, DirectResults

LEMMA HierarchyResultType ==
    \A c : HierarchyResult(c) \in {"SAME", "SUPER_CHANGED", "INTERFACE_CHANGED"}
BY DEF HierarchyResult

\* The arguments are never assigned.
LEMMA InputKept == Next => input' = input
BY DEF Next, CompareClass, EndCompare, StartRound, NoRound, MarkClass, EndRound,
       CompareNotFound, EndNotFound, Prepare, EndPrepare, inputVars

LEMMA TypeStep == TypeOK /\ [Next]_vars => TypeOK'
<1> SUFFICES ASSUME TypeOK, [Next]_vars PROVE TypeOK'
  OBVIOUS
<1>0. input' = input /\ list' = list /\ Positions' = Positions
  BY InputKept DEF vars, inputVars, list, Positions
<1>1. CASE CompareClass
  <2>1. OwnResult(list[cursor]) \in Results
    BY OwnResultType DEF Results
  <2>2. result' \in [Positions -> Results \cup {NONE}]
    BY <1>1, <2>1 DEF CompareClass, TypeOK
  <2>3. UNCHANGED <<pc, diffClassId, candidate, updated, report, written, notFoundResultList>>
        /\ cursor' = cursor + 1
    BY <1>1 DEF CompareClass, roundVars, writeVars
  <2>. QED
    BY <1>0, <2>2, <2>3 DEF TypeOK
<1>2. CASE EndCompare \/ NoRound \/ EndRound \/ EndNotFound \/ EndPrepare
  BY <1>0, <1>2 DEF EndCompare, NoRound, EndRound, EndNotFound, EndPrepare, TypeOK,
                    roundVars, writeVars
<1>3. CASE StartRound
  <2>1. diffClassId' \subseteq Ids /\ candidate' \subseteq Positions
    BY <1>3, InputFacts DEF StartRound, Changed
  <2>2. UNCHANGED <<result, report, written, notFoundResultList>>
        /\ cursor' = 1 /\ pc' = "mark" /\ updated' \in BOOLEAN
    BY <1>3 DEF StartRound, writeVars
  <2>. QED
    BY <1>0, <2>1, <2>2 DEF TypeOK
<1>4. CASE MarkClass
  <2>1. HierarchyResult(list[cursor]) \in Results
    BY HierarchyResultType DEF Results
  <2>2. result' \in [Positions -> Results \cup {NONE}] /\ updated' \in BOOLEAN
    BY <1>4, <2>1 DEF MarkClass, TypeOK
  <2>. QED
    BY <1>0, <1>4, <2>2 DEF MarkClass, TypeOK, writeVars
<1>5. CASE CompareNotFound
  <2>1. cursor \in 1..Len(input.notFound) /\ notFoundResultList \in Seq(Names)
    BY <1>5, InputFacts DEF CompareNotFound, TypeOK
  <2>2. input.notFound[cursor] \in Names
    BY <2>1, InputFacts
  <2>3. notFoundResultList' \in Seq(Names)
    BY <1>5, <2>1, <2>2 DEF CompareNotFound
  <2>4. /\ UNCHANGED <<pc, input, result, diffClassId, candidate, updated, report, written>>
        /\ cursor' = cursor + 1
    BY <1>5 DEF CompareNotFound, inputVars, roundVars
  <2>5. cursor' \in Nat \ {0}
    BY <2>4 DEF TypeOK
  <2>. QED
    BY <1>0, <2>3, <2>4, <2>5 DEF TypeOK
<1>6. CASE Prepare
  <2>1. cursor \in Positions /\ report \in Seq(Positions) /\ list[cursor].name \in Names
    BY <1>6, InputFacts DEF Prepare, TypeOK, Positions
  <2>2. report' \in Seq(Positions) /\ written' \subseteq Names
    <3>1. CASE report' = report /\ written' = written
      BY <2>1, <3>1 DEF TypeOK
    <3>2. CASE /\ report' = Append(report, cursor)
               /\ written' = written \cup {list[cursor].name}
      BY <2>1, <3>2 DEF TypeOK
    <3>. QED
      BY <1>6, <3>1, <3>2 DEF Prepare
  <2>. QED
    BY <1>0, <1>6, <2>2 DEF Prepare, TypeOK, roundVars
<1>7. CASE UNCHANGED vars
  BY <1>0, <1>7 DEF vars, TypeOK, inputVars, roundVars, writeVars
<1>. QED
  BY <1>1, <1>2, <1>3, <1>4, <1>5, <1>6, <1>7 DEF Next

LEMMA InitType == Init => TypeOK
<1> SUFFICES ASSUME Init PROVE TypeOK
  OBVIOUS
<1>1. report \in Seq(Positions) /\ notFoundResultList \in Seq(Names)
  BY DEF Init
<1>2. result \in [Positions -> Results \cup {NONE}] /\ updated \in BOOLEAN
  BY DEF Init
<1>. QED
  BY <1>1, <1>2 DEF Init, TypeOK

\* The types of all variables are invariant: every class keeps exactly one
\* of the results of CompareResult.
THEOREM TypeCorrect == Spec => []TypeOK
BY InitType, TypeStep, PTL DEF Spec

-----------------------------------------------------------------------------
(* Steps that leave the results alone, and steps that set one. *)

LEMMA ResultType ==
    ASSUME TypeOK
    PROVE  /\ result \in [Positions -> Results \cup {NONE}] /\ cursor \in Nat \ {0}
           /\ candidate \subseteq Positions /\ updated \in BOOLEAN
           /\ NONE \notin Results /\ "SAME" # NONE
BY InputsAssumption DEF TypeOK, Results

\* A step that sets a result sets that of the cursor, which had none yet or
\* was SAME.
LEMMA ResultStep ==
    ASSUME TypeOK, IndInv, Next
    PROVE  \/ result' = result
           \/ /\ CompareClass /\ cursor \in Positions /\ result[cursor] = NONE
              /\ result' = [result EXCEPT ![cursor] = OwnResult(list[cursor])]
           \/ /\ MarkClass /\ cursor \in candidate /\ result[cursor] = "SAME"
              /\ result' = [result EXCEPT ![cursor] = HierarchyResult(list[cursor])]
<1>1. CASE CompareClass
  <2>1. cursor \in Positions /\ pc = "compare"
        /\ result' = [result EXCEPT ![cursor] = OwnResult(list[cursor])]
    BY <1>1, InputFacts, ResultType DEF CompareClass, Positions
  <2>2. result[cursor] = NONE
    BY <2>1, ResultType DEF IndInv, CompareInv
  <2>. QED
    BY <1>1, <2>1, <2>2
<1>2. CASE MarkClass
  <2>1. CASE cursor \in candidate
    BY <1>2, <2>1, ResultType DEF MarkClass, IndInv, RoundInv
  <2>2. CASE cursor \notin candidate
    BY <1>2, <2>2 DEF MarkClass
  <2>. QED
    BY <2>1, <2>2
<1>3. CASE ~CompareClass /\ ~MarkClass
  BY <1>3 DEF Next, EndCompare, StartRound, NoRound, EndRound, CompareNotFound, EndNotFound,
              Prepare, EndPrepare
<1>. QED
  BY <1>1, <1>2, <1>3

LEMMA ChangedKept ==
    ASSUME TypeOK, IndInv, [Next]_vars
    PROVE  \A i \in Positions : result[i] \notin {NONE, "SAME"} => result'[i] = result[i]
<1>1. CASE UNCHANGED vars
  BY <1>1 DEF vars
<1>2. CASE Next
  BY <1>2, ResultStep, ResultType
<1>. QED
  BY <1>1, <1>2

LEMMA ListKept ==
    ASSUME [Next]_vars
    PROVE  input' = input /\ list' = list /\ Positions' = Positions
BY InputKept DEF vars, inputVars, list, Positions

LEMMA CompareStep == TypeOK /\ IndInv /\ [Next]_vars => CompareInv'
<1> SUFFICES ASSUME TypeOK, IndInv, [Next]_vars PROVE CompareInv'
  OBVIOUS
<1>0. CompareInv /\ Positions' = Positions
  BY ListKept DEF IndInv
<1>1. CASE CompareClass
  <2>1. cursor \in Positions /\ pc = "compare" /\ pc' = "compare" /\ cursor' = cursor + 1
        /\ result' = [result EXCEPT ![cursor] = OwnResult(list[cursor])]
    BY <1>1, InputFacts, ResultType DEF CompareClass, Positions
  <2>2. OwnResult(list[cursor]) # NONE
    BY OwnResultType, ResultType DEF Results
  <2>3. ASSUME NEW i \in Positions PROVE result'[i] # NONE <=> i < cursor + 1
    <3>1. result'[i] = IF i = cursor THEN OwnResult(list[cursor]) ELSE result[i]
      BY <2>1, ResultType
    <3>2. i \in Nat /\ cursor \in Nat
      BY ResultType DEF Positions
    <3>3. result[i] # NONE <=> i < cursor
      BY <1>0, <2>1 DEF CompareInv
    <3>. QED
      BY <2>2, <3>1, <3>2, <3>3
  <2>. QED
    BY <1>0, <2>1, <2>3 DEF CompareInv
<1>2. CASE EndCompare
  <2>1. pc = "compare" /\ pc' = "round" /\ result' = result /\ cursor > Len(list)
    BY <1>2 DEF EndCompare
  <2>2. \A i \in Positions : i < cursor
    BY <2>1, InputFacts, ResultType DEF Positions
  <2>. QED
    BY <1>0, <2>1, <2>2 DEF CompareInv
<1>3. CASE MarkClass
  <2>1. pc = "mark" /\ pc' = "mark"
    BY <1>3 DEF MarkClass
  <2>2. ASSUME NEW i \in Positions PROVE result'[i] # NONE
    <3>1. result[i] # NONE
      BY <1>0, <2>1 DEF CompareInv
    <3>2. HierarchyResult(list[cursor]) # NONE
      BY HierarchyResultType, ResultType DEF Results
    <3>. QED
      BY <1>3, <3>1, <3>2, ResultType DEF MarkClass
  <2>. QED
    BY <1>0, <2>1, <2>2 DEF CompareInv
<1>4. CASE StartRound \/ NoRound \/ EndRound \/ CompareNotFound \/ EndNotFound \/ Prepare
           \/ EndPrepare
  <2>1. pc # "compare" /\ pc' # "compare" /\ result' = result
    BY <1>4 DEF StartRound, NoRound, EndRound, CompareNotFound, EndNotFound, Prepare, EndPrepare
  <2>. QED
    BY <1>0, <2>1 DEF CompareInv
<1>5. CASE UNCHANGED vars
  BY <1>0, <1>5 DEF vars, CompareInv
<1>. QED
  BY <1>1, <1>2, <1>3, <1>4, <1>5 DEF Next

-----------------------------------------------------------------------------
(* Results of their own, and what lies below a changed class. *)

LEMMA OwnKept ==
    ASSUME [Next]_vars
    PROVE  /\ \A i \in Positions : OwnResult(list[i])' = OwnResult(list[i])
           /\ Affected' = Affected
<1>1. \A i \in Positions : OwnResult(list[i])' = OwnResult(list[i])
  BY ListKept DEF OwnResult
<1>. QED
  BY <1>1, ListKept DEF Affected, ParentIds, Interfaces

LEMMA AffectedOwn ==
    ASSUME NEW i \in Positions, OwnResult(list[i]) # "SAME"
    PROVE  i \in Affected
BY DEF Affected

LEMMA AffectedBelow ==
    ASSUME NEW i \in Positions, NEW j \in Affected, list[j].id \in ParentIds(list[i])
    PROVE  i \in Affected
<1>1. j \in Positions
  BY DEF Affected
<1>. QED
  BY <1>1 DEF Affected

\* A class marked in a round has a parent that was changed before the round.
LEMMA MarkParent ==
    ASSUME TypeOK, IndInv, pc = "mark", NEW c \in ClassDesc, HierarchyResult(c) # "SAME"
    PROVE  \E j \in Positions :
              /\ result[j] \notin {NONE, "SAME"}
              /\ list[j].id \in ParentIds(c)
              /\ HierarchyResult(c) = "SUPER_CHANGED" => list[j].id = c.super
              /\ HierarchyResult(c) = "INTERFACE_CHANGED" => list[j].id \in Interfaces(c)
<1>1. PICK x \in diffClassId :
         /\ x \in ParentIds(c)
         /\ HierarchyResult(c) = "SUPER_CHANGED" => x = c.super
         /\ HierarchyResult(c) = "INTERFACE_CHANGED" => x \in Interfaces(c)
  <2>1. CASE c.super \in diffClassId
    <3>1. c.super \in Ids /\ c.super # NONE
      BY <2>1, InputsAssumption DEF TypeOK
    <3>. QED
      BY <2>1, <3>1 DEF HierarchyResult, ParentIds
  <2>2. CASE c.super \notin diffClassId
    BY <2>2 DEF HierarchyResult, ParentIds
  <2>. QED
    BY <2>1, <2>2
<1>2. diffClassId = {list[i].id : i \in Positions \ candidate}
      /\ \A i \in Positions \ candidate : result[i] # "SAME"
  BY DEF IndInv, RoundInv
<1>3. PICK j \in Positions \ candidate : x = list[j].id
  BY <1>1, <1>2
<1>4. result[j] # NONE
  BY <1>3 DEF IndInv, CompareInv
<1>. QED
  BY <1>1, <1>2, <1>3, <1>4

LEMMA OwnStep == TypeOK /\ IndInv /\ [Next]_vars => OwnInv'
<1> SUFFICES ASSUME TypeOK, IndInv, [Next]_vars,
                    NEW i \in Positions, result'[i] \in DirectResults \cup {"SAME"}
             PROVE  result'[i] = OwnResult(list[i])
  BY ListKept, OwnKept DEF OwnInv
<1>0. result[i] \in DirectResults \cup {"SAME"} => result[i] = OwnResult(list[i])
  BY DEF IndInv, OwnInv
<1>1. CASE result' = result
  BY <1>0, <1>1
<1>2. CASE CompareClass /\ result' = [result EXCEPT ![cursor] = OwnResult(list[cursor])]
  BY <1>0, <1>2, ResultType
<1>3. CASE MarkClass /\ cursor \in candidate /\ result[cursor] = "SAME"
           /\ result' = [result EXCEPT ![cursor] = HierarchyResult(list[cursor])]
  BY <1>0, <1>3, ResultType, HierarchyResultType DEF DirectResults
<1>. QED
  BY <1>1, <1>2, <1>3, ResultStep DEF vars

LEMMA SoundStep == TypeOK /\ IndInv /\ [Next]_vars => SoundInv'
<1> SUFFICES ASSUME TypeOK, IndInv, [Next]_vars,
                    NEW i \in Positions, result'[i] \notin {NONE, "SAME"}
             PROVE  i \in Affected
  BY ListKept, OwnKept DEF SoundInv
<1>0. \A j \in Positions : result[j] \notin {NONE, "SAME"} => j \in Affected
  BY DEF IndInv, SoundInv
<1>1. CASE result' = result
  BY <1>0, <1>1
<1>2. CASE CompareClass /\ result' = [result EXCEPT ![cursor] = OwnResult(list[cursor])]
  <2>1. CASE i = cursor
    BY <1>2, <2>1, ResultType, AffectedOwn
  <2>2. CASE i # cursor
    BY <1>0, <1>2, <2>2, ResultType
  <2>. QED
    BY <2>1, <2>2
<1>3. CASE MarkClass /\ cursor \in candidate /\ result[cursor] = "SAME"
           /\ result' = [result EXCEPT ![cursor] = HierarchyResult(list[cursor])]
  <2>1. CASE i = cursor
    <3>1. HierarchyResult(list[i]) # "SAME" /\ pc = "mark" /\ list[i] \in ClassDesc
      BY <1>3, <2>1, ResultType, InputFacts DEF MarkClass
    <3>2. PICK j \in Positions : result[j] \notin {NONE, "SAME"}
                                 /\ list[j].id \in ParentIds(list[i])
      BY <3>1, MarkParent
    <3>. QED
      BY <1>0, <3>2, AffectedBelow
  <2>2. CASE i # cursor
    BY <1>0, <1>3, <2>2, ResultType
  <2>. QED
    BY <2>1, <2>2
<1>. QED
  BY <1>1, <1>2, <1>3, ResultStep DEF vars

LEMMA BlameStep == TypeOK /\ IndInv /\ [Next]_vars => BlameJustified'
<1> SUFFICES ASSUME TypeOK, IndInv, [Next]_vars, NEW i \in Positions
             PROVE  /\ result'[i] = "SUPER_CHANGED" =>
                          \E j \in Positions : list[j].id = list[i].super
                                               /\ result'[j] \notin {"SAME", NONE}
                    /\ result'[i] = "INTERFACE_CHANGED" =>
                          \E j \in Positions : list[j].id \in Interfaces(list[i])
                                               /\ result'[j] \notin {"SAME", NONE}
  BY ListKept DEF BlameJustified, Interfaces
<1>0. \A j \in Positions : result[j] \notin {NONE, "SAME"} => result'[j] \notin {NONE, "SAME"}
  BY ChangedKept
<1>1. CASE result'[i] = result[i]
  BY <1>0, <1>1 DEF IndInv, BlameJustified
<1>2. CASE CompareClass /\ result' = [result EXCEPT ![cursor] = OwnResult(list[cursor])]
           /\ i = cursor
  BY <1>2, ResultType, OwnResultType DEF DirectResults
<1>3. CASE MarkClass /\ result' = [result EXCEPT ![cursor] = HierarchyResult(list[cursor])]
           /\ i = cursor
  <2>1. result'[i] = HierarchyResult(list[i]) /\ pc = "mark" /\ list[i] \in ClassDesc
    BY <1>3, ResultType, InputFacts DEF MarkClass
  <2>2. CASE HierarchyResult(list[i]) = "SAME"
    BY <2>1, <2>2
  <2>3. CASE HierarchyResult(list[i]) # "SAME"
    BY <1>0, <2>1, <2>3, MarkParent
  <2>. QED
    BY <2>2, <2>3
<1>4. result'[i] = result[i] \/ i = cursor
  BY ResultStep, ResultType DEF vars
<1>. QED
  BY <1>1, <1>2, <1>3, <1>4, ResultStep DEF vars

-----------------------------------------------------------------------------
(* The rounds. *)

\* A class that a round leaves SAME has no parent among the changed ones.
LEMMA SameParents ==
    ASSUME NEW c, HierarchyResult(c) = "SAME"
    PROVE  ParentIds(c) \cap diffClassId \subseteq {}
BY DEF HierarchyResult, ParentIds

LEMMA RoundStep == TypeOK /\ IndInv /\ [Next]_vars => RoundInv'
<1> SUFFICES ASSUME TypeOK, IndInv, [Next]_vars, pc' = "mark" PROVE RoundInv'
  BY DEF RoundInv
<1>0. list' = list /\ Positions' = Positions /\ \A c : ParentIds(c)' = ParentIds(c)
  BY ListKept DEF ParentIds, Interfaces
<1>1. CASE StartRound
  <2>1. /\ diffClassId' = {list[i].id : i \in Changed} /\ candidate' = Positions \ Changed
        /\ ~updated' /\ cursor' = 1 /\ result' = result
    BY <1>1 DEF StartRound
  <2>2. Changed = Positions \ candidate' /\ \A i \in Positions : i \in Changed <=> result[i] # "SAME"
    BY <2>1 DEF Changed
  <2>3. diffClassId' = {list[i].id : i \in Positions \ candidate'}
    BY <2>1, <2>2
  <2>4. \A i \in candidate' : i >= cursor' /\ result[i] = "SAME"
    BY <2>1, <2>2 DEF Positions
  <2>5. \A i \in candidate' : ~(i < cursor')
    BY <2>1, <2>4 DEF Positions
  <2>. QED
    BY <1>0, <2>1, <2>2, <2>3, <2>4, <2>5 DEF RoundInv
<1>2. CASE MarkClass
  <2>0. /\ pc = "mark" /\ cursor \in Positions /\ cursor \in Nat /\ cursor' = cursor + 1
        /\ diffClassId' = diffClassId /\ candidate' = candidate
    BY <1>2, InputFacts, ResultType DEF MarkClass, Positions
  <2>1. /\ diffClassId = {list[i].id : i \in Positions \ candidate}
        /\ \A i \in Positions \ candidate : result[i] # "SAME"
        /\ \A i \in candidate : i >= cursor \/ ~updated => result[i] = "SAME"
        /\ ~updated => \A i \in candidate :
                           i < cursor => ParentIds(list[i]) \cap diffClassId = {}
    BY <2>0 DEF IndInv, RoundInv
  <2>2. \A i \in candidate : i \in Nat /\ i \in Positions
    BY ResultType DEF Positions
  <2>3. CASE cursor \notin candidate
    <3>1. result' = result /\ updated' = updated
      BY <1>2, <2>3 DEF MarkClass
    <3>2. \A i \in candidate : (i < cursor + 1 => i < cursor) /\ (i >= cursor + 1 => i >= cursor)
      BY <2>0, <2>2, <2>3
    <3>. QED
      BY <1>0, <2>0, <2>1, <3>1, <3>2 DEF RoundInv
  <2>4. CASE cursor \in candidate
    <3>1. /\ result' = [result EXCEPT ![cursor] = HierarchyResult(list[cursor])]
          /\ updated' = (updated \/ HierarchyResult(list[cursor]) # "SAME")
      BY <1>2, <2>4 DEF MarkClass
    <3>2. \A i \in Positions : result'[i] = IF i = cursor THEN HierarchyResult(list[cursor])
                                            ELSE result[i]
      BY <2>0, <3>1, ResultType
    <3>3. \A i \in Positions \ candidate : result'[i] # "SAME"
      BY <2>1, <2>4, <3>2
    <3>4. ASSUME NEW i \in candidate, i >= cursor + 1 \/ ~updated' PROVE result'[i] = "SAME"
      <4>1. CASE i = cursor
        <5>1. ~updated'
          BY <2>0, <3>4, <4>1
        <5>. QED
          BY <2>0, <3>1, <3>2, <4>1, <5>1
      <4>2. CASE i # cursor
        <5>1. i >= cursor \/ ~updated
          <6>1. CASE i >= cursor + 1
            BY <2>0, <2>2, <6>1
          <6>2. CASE ~updated'
            BY <3>1, <6>2
          <6>. QED
            BY <3>4, <6>1, <6>2
        <5>. QED
          BY <2>1, <2>2, <3>2, <4>2, <5>1
      <4>. QED
        BY <4>1, <4>2
    <3>5. ASSUME ~updated', NEW i \in candidate, i < cursor + 1
          PROVE  ParentIds(list[i]) \cap diffClassId = {}
      <4>0. ~updated /\ HierarchyResult(list[cursor]) = "SAME"
        BY <3>1, <3>5
      <4>1. CASE i = cursor
        BY <4>0, <4>1, SameParents
      <4>2. CASE i # cursor
        <5>1. i < cursor
          BY <2>0, <2>2, <3>5, <4>2
        <5>. QED
          BY <2>1, <4>0, <5>1
      <4>. QED
        BY <4>1, <4>2
    <3>. QED
      BY <1>0, <2>0, <2>1, <3>3, <3>4, <3>5 DEF RoundInv
  <2>. QED
    BY <2>3, <2>4
<1>3. CASE CompareClass \/ EndCompare \/ NoRound \/ EndRound \/ CompareNotFound \/ EndNotFound
           \/ Prepare \/ EndPrepare
  BY <1>3 DEF CompareClass, EndCompare, NoRound, EndRound, CompareNotFound, EndNotFound, Prepare, EndPrepare
<1>4. CASE UNCHANGED vars
  <2>1. RoundInv
    BY DEF IndInv
  <2>. QED
    BY <1>0, <1>4, <2>1 DEF vars, roundVars, RoundInv
<1>. QED
  BY <1>1, <1>2, <1>3, <1>4 DEF Next

\* The rounds end with no class left SAME below a changed one: a last round
\* that marked nothing has found no parent among the changed classes.
LEMMA ClosedStep == TypeOK /\ IndInv /\ [Next]_vars => HierarchyClosed'
<1> SUFFICES ASSUME TypeOK, IndInv, [Next]_vars, Compared',
                    NEW i \in Positions, NEW j \in Positions,
                    result'[i] = "SAME", list[j].id \in ParentIds(list[i])
             PROVE  result'[j] = "SAME"
  BY ListKept DEF HierarchyClosed, ParentIds, Interfaces
<1>1. CASE NoRound
  BY <1>1 DEF NoRound, Changed
<1>2. CASE EndRound
  <2>1. pc = "mark" /\ cursor > Len(list) /\ ~updated /\ result' = result
    BY <1>2 DEF EndRound, Compared
  <2>2. /\ diffClassId = {list[k].id : k \in Positions \ candidate}
        /\ \A k \in Positions \ candidate : result[k] # "SAME"
        /\ \A k \in candidate : result[k] = "SAME"
        /\ \A k \in candidate : k < cursor => ParentIds(list[k]) \cap diffClassId = {}
    BY <2>1 DEF IndInv, RoundInv
  <2>3. i \in candidate /\ i < cursor
    BY <2>1, <2>2, InputFacts, ResultType DEF Positions
  <2>4. list[j].id \notin diffClassId
    BY <2>2, <2>3
  <2>. QED
    BY <2>1, <2>2, <2>4
<1>3. CASE CompareNotFound \/ EndNotFound \/ Prepare \/ EndPrepare
  <2>1. Compared /\ result' = result
    BY <1>3 DEF CompareNotFound, EndNotFound, Prepare, EndPrepare, Compared
  <2>. QED
    BY <2>1 DEF IndInv, HierarchyClosed
<1>4. CASE UNCHANGED vars
  BY <1>4 DEF vars, IndInv, HierarchyClosed, Compared
<1>5. CASE CompareClass \/ EndCompare \/ StartRound \/ MarkClass
  BY <1>5 DEF CompareClass, EndCompare, StartRound, MarkClass, Compared
<1>. QED
  BY <1>1, <1>2, <1>3, <1>4, <1>5 DEF Next

-----------------------------------------------------------------------------
(* The report. *)

\* Up to prepare nothing is selected, and nothing has to be.
LEMMA NothingReported ==
    ASSUME TypeOK, IndInv, [Next]_vars, pc \notin {"prepare", "done"}
    PROVE  ReportInv'
<1>1. report = << >> /\ written = {}
  BY DEF IndInv, ReportInv
<1>2. CASE pc' = "prepare"
  <2>1. cursor' = 1 /\ UNCHANGED <<report, written>>
    BY <1>2 DEF Next, vars, writeVars, CompareClass, EndCompare, StartRound, NoRound, MarkClass,
                EndRound, CompareNotFound, EndNotFound, Prepare, EndPrepare
  <2>2. \A i \in Positions : ~(i < 1)
    BY InputFacts DEF Positions
  <2>. QED
    BY <1>1, <1>2, <2>1, <2>2, ListKept DEF ReportInv
<1>3. CASE pc' # "prepare"
  <2>1. pc' # "done" /\ UNCHANGED <<report, written>>
    BY <1>3 DEF Next, vars, writeVars, CompareClass, EndCompare, StartRound, NoRound, MarkClass,
                EndRound, CompareNotFound, EndNotFound, Prepare, EndPrepare
  <2>. QED
    BY <1>1, <1>3, <2>1, ListKept DEF ReportInv
<1>. QED
  BY <1>2, <1>3

LEMMA PrepareReports == ASSUME TypeOK, IndInv, Prepare PROVE ReportInv'
<1>0. /\ pc = "prepare" /\ pc' = "prepare" /\ cursor \in Positions /\ cursor \in Nat
      /\ cursor' = cursor + 1 /\ result' = result /\ list' = list /\ Positions' = Positions
  BY InputFacts, ResultType, ListKept DEF Prepare, Positions, Next
<1>1. /\ \A k \in 1..Len(report) : result[report[k]] # "SAME" /\ list[report[k]].name \in written
      /\ \A n \in written : \E k \in 1..Len(report) : list[report[k]].name = n
      /\ \A i \in Positions : i < cursor /\ result[i] # "SAME" => list[i].name \in written
      /\ \A k, m \in 1..Len(report) : list[report[k]].name = list[report[m]].name => k = m
  BY <1>0 DEF IndInv, ReportInv
<1>2. \A i \in Positions : i < cursor + 1 => i < cursor \/ i = cursor
  BY <1>0 DEF Positions
<1>3. CASE result[cursor] = "SAME" \/ list[cursor].name \in written
  <2>1. report' = report /\ written' = written
    BY <1>3 DEF Prepare
  <2>2. \A i \in Positions : i < cursor + 1 /\ result[i] # "SAME" => list[i].name \in written
    BY <1>1, <1>2, <1>3
  <2>. QED
    BY <1>0, <1>1, <2>1, <2>2 DEF ReportInv
<1>4. CASE result[cursor] # "SAME" /\ list[cursor].name \notin written
  <2>1. report' = Append(report, cursor) /\ written' = written \cup {list[cursor].name}
    BY <1>4 DEF Prepare
  <2>2. /\ Len(report') = Len(report) + 1 /\ Len(report) \in Nat
        /\ \A k \in 1..Len(report) : report'[k] = report[k]
        /\ report'[Len(report) + 1] = cursor
    BY <1>0, <2>1 DEF TypeOK
  <2>3. \A k \in 1..Len(report') : k \in 1..Len(report) \/ k = Len(report) + 1
    BY <2>2
  <2>4. \A k \in 1..Len(report') : result[report'[k]] # "SAME"
                                   /\ list[report'[k]].name \in written'
    BY <1>1, <1>4, <2>1, <2>2, <2>3
  <2>5. \A n \in written' : \E k \in 1..Len(report') : list[report'[k]].name = n
    <3>1. ASSUME NEW n \in written PROVE \E k \in 1..Len(report') : list[report'[k]].name = n
      BY <1>1, <2>2
    <3>2. Len(report) + 1 \in 1..Len(report') /\ list[report'[Len(report) + 1]].name = list[cursor].name
      BY <2>2
    <3>. QED
      BY <2>1, <3>1, <3>2
  <2>6. \A i \in Positions : i < cursor + 1 /\ result[i] # "SAME" => list[i].name \in written'
    BY <1>1, <1>2, <2>1
  <2>7. \A k, m \in 1..Len(report') : list[report'[k]].name = list[report'[m]].name => k = m
    <3>1. \A k \in 1..Len(report) : list[report'[k]].name # list[report'[Len(report) + 1]].name
      BY <1>1, <1>4, <2>2
    <3>2. \A k, m \in 1..Len(report) : list[report'[k]].name = list[report'[m]].name => k = m
      BY <1>1, <2>2
    <3>. QED
      BY <2>3, <3>1, <3>2
  <2>. QED
    BY <1>0, <2>4, <2>5, <2>6, <2>7 DEF ReportInv
<1>. QED
  BY <1>3, <1>4

LEMMA ReportStep == TypeOK /\ IndInv /\ [Next]_vars => ReportInv'
<1> SUFFICES ASSUME TypeOK, IndInv, [Next]_vars PROVE ReportInv'
  OBVIOUS
<1>1. CASE pc \notin {"prepare", "done"}
  BY <1>1, NothingReported
<1>2. CASE Prepare
  BY <1>2, PrepareReports
<1>3. CASE EndPrepare
  <2>1. /\ pc = "prepare" /\ pc' = "done" /\ cursor > Len(list)
        /\ result' = result /\ report' = report /\ written' = written
        /\ list' = list /\ Positions' = Positions
    BY <1>3, ListKept DEF EndPrepare, writeVars
  <2>2. \A i \in Positions : i < cursor
    BY <2>1, InputFacts, ResultType DEF Positions
  <2>. QED
    BY <2>1, <2>2 DEF IndInv, ReportInv
<1>4. CASE UNCHANGED vars
  <2>1. ReportInv
    BY DEF IndInv
  <2>. QED
    BY <1>4, <2>1, ListKept DEF vars, writeVars, ReportInv
<1>5. CASE Next /\ pc \in {"prepare", "done"} /\ ~Prepare /\ ~EndPrepare
  BY <1>5 DEF Next, CompareClass, EndCompare, StartRound, NoRound, MarkClass,
              EndRound, CompareNotFound, EndNotFound
<1>. QED
  BY <1>1, <1>2, <1>3, <1>4, <1>5

-----------------------------------------------------------------------------

LEMMA InitInv == Init => IndInv
<1> SUFFICES ASSUME Init PROVE IndInv
  OBVIOUS
<1>1. /\ pc = "compare" /\ cursor = 1 /\ result = [i \in Positions |-> NONE]
      /\ report = << >> /\ written = {} /\ input \in Input
      /\ NONE \notin Results
  BY InputsAssumption DEF Init
<1>2. \A i \in Positions : result[i] = NONE /\ ~(i < cursor)
  <2>1. Positions \subseteq Nat \ {0}
    BY DEF Positions
  <2>. QED
    BY <1>1, <2>1
<1>3. CompareInv /\ OwnInv /\ SoundInv /\ BlameJustified
  BY <1>1, <1>2 DEF CompareInv, OwnInv, SoundInv, BlameJustified, Results, DirectResults
<1>4. RoundInv /\ HierarchyClosed
  BY <1>1 DEF RoundInv, HierarchyClosed, Compared
<1>5. ReportInv
  BY <1>1, <1>2 DEF ReportInv
<1>. QED
  BY <1>3, <1>4, <1>5 DEF IndInv

LEMMA IndStep == TypeOK /\ IndInv /\ [Next]_vars => IndInv'
BY CompareStep, OwnStep, SoundStep, RoundStep, ReportStep, ClosedStep, BlameStep DEF IndInv

\* Which classes have a result and why, what a round has left to do, and what
\* the report names so far are invariant together.
THEOREM Inductive == Spec => []IndInv
BY InitInv, IndStep, TypeCorrect, PTL DEF Spec

\* When invalidByClassHierarchy returns, no class is still SAME whose super
\* class or interface is not: no stale class is kept in the archive.
THEOREM Closed == Spec => []HierarchyClosed
<1>1. IndInv => HierarchyClosed
  BY DEF IndInv
<1>. QED
  BY <1>1, Inductive, PTL

\* SUPER_CHANGED and INTERFACE_CHANGED are never given without a changed
\* class under that relation.
THEOREM Justified == Spec => []BlameJustified
<1>1. IndInv => BlameJustified
  BY DEF IndInv
<1>. QED
  BY <1>1, Inductive, PTL

LEMMA ExactWhenClosed == TypeOK /\ IndInv => HierarchyExact
<1> SUFFICES ASSUME TypeOK, IndInv, pc = "notFound" PROVE Changed = Affected
  BY DEF HierarchyExact
<1>1. \A i \in Positions : result[i] # NONE
  BY DEF IndInv, CompareInv
<1>2. Changed \subseteq Affected
  BY <1>1 DEF IndInv, SoundInv, Changed
<1>3. Changed \in SUBSET Positions
  BY DEF Changed
<1>4. ASSUME NEW j \in Positions, OwnResult(list[j]) # "SAME" PROVE j \in Changed
  BY <1>4 DEF IndInv, OwnInv, Changed
<1>5. ASSUME NEW j \in Positions, NEW k \in Changed, list[k].id \in ParentIds(list[j])
      PROVE  j \in Changed
  BY <1>5 DEF IndInv, HierarchyClosed, Compared, Changed
<1>6. Affected \subseteq Changed
  BY <1>3, <1>4, <1>5 DEF Affected
<1>. QED
  BY <1>2, <1>6

\* The rounds of invalidByClassHierarchy invalidate exactly the classes whose
\* files changed and those below one, in whatever order the list has them.
THEOREM Exact == Spec => []HierarchyExact
BY ExactWhenClosed, TypeCorrect, Inductive, PTL

\* When prepare is done the report names every changed class, and no name
\* twice.
THEOREM Reported == Spec => []ReportExact
<1>1. TypeOK /\ IndInv => ReportExact
  <2> SUFFICES ASSUME TypeOK, IndInv, pc = "done" PROVE ReportExact
    BY DEF ReportExact
  <2>1. /\ \A k \in 1..Len(report) : result[report[k]] # "SAME" /\ list[report[k]].name \in written
        /\ \A n \in written : \E k \in 1..Len(report) : list[report[k]].name = n
        /\ \A i \in Positions : result[i] # "SAME" => list[i].name \in written
        /\ \A k, m \in 1..Len(report) : list[report[k]].name = list[report[m]].name => k = m
    BY DEF IndInv, ReportInv
  <2>2. \A k \in 1..Len(report) : report[k] \in Positions
    BY DEF TypeOK
  <2>3. {list[report[k]].name : k \in 1..Len(report)} = {list[i].name : i \in Changed}
    BY <2>1, <2>2 DEF Changed
  <2>. QED
    BY <2>1, <2>3 DEF ReportExact
<1>. QED
  BY <1>1, TypeCorrect, Inductive, PTL

\* No later round and no later class changes the reason first found for a
\* class.
THEOREM Kept == Spec => ResultKept
<1>1. TypeOK /\ IndInv /\ [Next]_vars =>
        [\A i \in Positions : result[i] \notin {NONE, "SAME"} => result'[i] = result[i]]_vars
  BY ChangedKept
<1>. QED
  BY <1>1, TypeCorrect, Inductive, PTL DEF Spec, ResultKept

-----------------------------------------------------------------------------
(* The names that were not found when the archive was dumped. *)

LEMMA NotFoundStep == TypeOK /\ NotFoundInv /\ [Next]_vars => NotFoundInv'
<1> SUFFICES ASSUME TypeOK, NotFoundInv, [Next]_vars,
                    NEW k \in 1..Len(input.notFound),
                    pc' \in {"prepare", "done"} \/ (pc' = "notFound" /\ k < cursor'),
                    input.scan[input.notFound[k]] # {}
             PROVE  \E m \in 1..Len(notFoundResultList') : notFoundResultList'[m] = input.notFound[k]
  BY ListKept DEF NotFoundInv
<1>0. /\ notFoundResultList \in Seq(Names) /\ Len(notFoundResultList) \in Nat
      /\ cursor \in Nat \ {0} /\ Len(input.notFound) \in Nat
      /\ \A n \in 1..Len(input.notFound) : input.notFound[n] \in Names
  BY InputFacts DEF TypeOK
<1>1. ASSUME notFoundResultList' = notFoundResultList,
             pc \in {"prepare", "done"} \/ (pc = "notFound" /\ k < cursor)
      PROVE  \E m \in 1..Len(notFoundResultList') : notFoundResultList'[m] = input.notFound[k]
  BY <1>1 DEF NotFoundInv
<1>2. CASE CompareNotFound
  <2>1. /\ pc = "notFound" /\ pc' = "notFound" /\ cursor' = cursor + 1
        /\ notFoundResultList' = IF input.scan[input.notFound[cursor]] # {}
                                 THEN Append(notFoundResultList, input.notFound[cursor])
                                 ELSE notFoundResultList
    BY <1>2 DEF CompareNotFound
  <2>2. CASE k = cursor
    <3>1. notFoundResultList' = Append(notFoundResultList, input.notFound[k])
      BY <2>1, <2>2
    <3>2. /\ Len(notFoundResultList') = Len(notFoundResultList) + 1
          /\ notFoundResultList'[Len(notFoundResultList) + 1] = input.notFound[k]
      BY <1>0, <3>1
    <3>3. Len(notFoundResultList) + 1 \in 1..Len(notFoundResultList')
      BY <1>0, <3>2
    <3>. QED
      BY <3>2, <3>3
  <2>3. CASE k # cursor
    <3>1. k < cursor
      BY <1>0, <2>1, <2>3
    <3>2. PICK m \in 1..Len(notFoundResultList) : notFoundResultList[m] = input.notFound[k]
      BY <2>1, <3>1 DEF NotFoundInv
    <3>3. CASE notFoundResultList' = notFoundResultList
      BY <3>2, <3>3
    <3>4. CASE notFoundResultList' = Append(notFoundResultList, input.notFound[cursor])
      <4>1. cursor \in 1..Len(input.notFound)
        BY <1>0, <1>2 DEF CompareNotFound
      <4>2. /\ m \in 1..Len(notFoundResultList')
            /\ notFoundResultList'[m] = notFoundResultList[m]
        BY <1>0, <3>4, <4>1
      <4>. QED
        BY <3>2, <4>2
    <3>. QED
      BY <2>1, <3>3, <3>4
  <2>. QED
    BY <2>2, <2>3
<1>3. CASE EndNotFound
  BY <1>0, <1>1, <1>3 DEF EndNotFound, writeVars
<1>4. CASE Prepare \/ EndPrepare
  BY <1>1, <1>4 DEF Prepare, EndPrepare, writeVars
<1>5. CASE NoRound \/ EndRound
  <2>1. pc' \in {"notFound", "round"} /\ cursor' = 1
    BY <1>5 DEF NoRound, EndRound
  <2>. QED
    BY <2>1
<1>6. CASE CompareClass \/ EndCompare \/ StartRound \/ MarkClass
  <2>1. pc' \in {"compare", "round", "mark"}
    BY <1>6 DEF CompareClass, EndCompare, StartRound, MarkClass
  <2>. QED
    BY <2>1
<1>7. CASE UNCHANGED vars
  BY <1>1, <1>7 DEF vars, writeVars
<1>. QED
  BY <1>2, <1>3, <1>4, <1>5, <1>6, <1>7 DEF Next

\* A class that was missing when the archive was dumped and is in the
\* application now is in the second part of the report.
THEOREM NotFoundReported == Spec => []NotFoundInv
<1>1. Init => NotFoundInv
  BY DEF Init, NotFoundInv
<1>. QED
  BY <1>1, NotFoundStep, TypeCorrect, PTL DEF Spec

=============================================================================
