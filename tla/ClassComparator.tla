--------------------------- MODULE ClassComparator ---------------------------
(***************************************************************************)
(* com.alibaba.jvm.cds.diff.ClassComparator: which of the classes in the   *)
(* fingerprint file changed since the archive was dumped.                  *)
(*                                                                         *)
(* compare first gives each class a result of its own, from the class      *)
(* files a scan of the application found under its name, then invalidates  *)
(* the classes below a changed one, round after round, until a round       *)
(* changes nothing; write reports each name once.                          *)
(*                                                                         *)
(*   "compare"    compareClasses, one class per step                       *)
(*   "round"      invalidByClassHierarchy, the head of the loop            *)
(*   "mark"       its body, one position of toCompareList per step         *)
(*   "notFound"   compareNotFoundClasses, one name per step                *)
(*   "prepare"    prepare, one class per step                              *)
(*                                                                         *)
(* A WithResult is a position in list; result[i] is its result.            *)
(***************************************************************************)
EXTENDS Naturals, Sequences, FiniteSets

CONSTANTS
    Ids,       \* class ids: final ones, and raw ones of rejected classes
    Names,     \* class names
    Prints,    \* CRC32 fingerprints
    Files,     \* file names of jars
    Versions,  \* releases of a multi-release jar, with one for none
    NONE,      \* no result, no super id
    Inputs     \* what the comparator may be given

ClassDesc == [id : Ids, name : Names, super : Ids \cup {NONE}, interfaces : Seq(Ids),
              fingerprint : Prints, ownerFile : Files]

FileInfo == [fingerprint : Prints, filename : Files, version : Versions]

\* classDescList, notFoundClassList and classFileInfoMap; a name that no
\* file was found under has no entry in the map, here the empty set.
Input == [list : Seq(ClassDesc), notFound : Seq(Names), scan : [Names -> SUBSET FileInfo]]

DirectResults == {"CLASS_NOT_FOUND", "NO_FILE_MATCH", "CRC32_DIFF"}

Results == DirectResults \cup {"SAME", "SUPER_CHANGED", "INTERFACE_CHANGED"}

ASSUME InputsAssumption == Inputs \subseteq Input /\ NONE \notin Ids /\ NONE \notin Results

VARIABLES
    pc,
    input,       \* the constructor's and compare's arguments
    result,      \* the result of each class
    cursor,      \* the index of the loop that is running
    diffClassId, \* the ids of the classes changed when the round began
    candidate,   \* the positions that were SAME when the round began
    updated,     \* has the round changed a result?
    report,      \* the positions prepare has selected
    written,     \* the names of those positions
    notFoundResultList

inputVars == <<input>>
roundVars == <<diffClassId, candidate, updated>>
writeVars == <<report, written, notFoundResultList>>
vars == <<pc, inputVars, result, cursor, roundVars, writeVars>>

list == input.list

Positions == 1..Len(list)

Init ==
    /\ input \in Inputs
    /\ pc = "compare" /\ cursor = 1
    /\ result = [i \in Positions |-> NONE]
    /\ diffClassId = {} /\ candidate = {} /\ updated = FALSE
    /\ report = << >> /\ written = {} /\ notFoundResultList = << >>

-----------------------------------------------------------------------------
(* compareClasses *)

\* A name found once is compared with what was found, whatever file it is
\* in; a name found more than once, with the files named like the owner.
OwnResult(c) ==
    LET found == input.scan[c.name]
        owned == {f \in found : f.filename = c.ownerFile}
        against == IF Cardinality(found) > 1 THEN owned ELSE found
    IN  IF found = {} THEN "CLASS_NOT_FOUND"
        ELSE IF against = {} THEN "NO_FILE_MATCH"
        ELSE IF \E f \in against : f.fingerprint = c.fingerprint THEN "SAME"
        ELSE "CRC32_DIFF"

CompareClass ==
    /\ pc = "compare" /\ cursor <= Len(list)
    /\ result' = [result EXCEPT ![cursor] = OwnResult(list[cursor])]
    /\ cursor' = cursor + 1
    /\ UNCHANGED <<pc, inputVars, roundVars, writeVars>>

EndCompare ==
    /\ pc = "compare" /\ cursor > Len(list)
    /\ pc' = "round"
    /\ UNCHANGED <<inputVars, result, cursor, roundVars, writeVars>>

-----------------------------------------------------------------------------
(* invalidByClassHierarchy *)

Changed == {i \in Positions : result[i] # "SAME"}

\* Mutant: a round visits every class again, the changed ones too.
StartRoundOnAll ==
    /\ pc = "round" /\ Changed # {} /\ Changed # Positions
    /\ diffClassId' = {list[i].id : i \in Changed}
    /\ candidate' = Positions
    /\ updated' = FALSE
    /\ cursor' = 1
    /\ pc' = "mark"
    /\ UNCHANGED <<inputVars, result, writeVars>>

\* Both collections are computed at the head of a round: results that change
\* within the round are seen by the next one.
StartRound ==
    /\ pc = "round" /\ Changed # {} /\ Changed # Positions
    /\ diffClassId' = {list[i].id : i \in Changed}
    /\ candidate' = Positions \ Changed
    /\ updated' = FALSE
    /\ cursor' = 1
    /\ pc' = "mark"
    /\ UNCHANGED <<inputVars, result, writeVars>>

\* Nothing changed, or nothing left that did not.
NoRound ==
    /\ pc = "round" /\ (Changed = {} \/ Changed = Positions)
    /\ pc' = "notFound" /\ cursor' = 1
    /\ UNCHANGED <<inputVars, result, roundVars, writeVars>>

Interfaces(c) == {c.interfaces[k] : k \in DOMAIN c.interfaces}

\* Mutant: an interface that changed is reported as the super class.
HierarchyResultSwapped(c) ==
    IF Interfaces(c) \cap diffClassId # {} THEN "SUPER_CHANGED"
    ELSE IF c.super \in diffClassId THEN "INTERFACE_CHANGED"
    ELSE "SAME"

\* Mutant: interfaces are not looked at.
HierarchyResultOfSuper(c) == IF c.super \in diffClassId THEN "SUPER_CHANGED" ELSE "SAME"

HierarchyResult(c) ==
    IF c.super \in diffClassId THEN "SUPER_CHANGED"
    ELSE IF Interfaces(c) \cap diffClassId # {} THEN "INTERFACE_CHANGED"
    ELSE "SAME"

\* Mutant: every class a round visits counts as an update.
MarkClassAlwaysUpdates ==
    /\ pc = "mark" /\ cursor <= Len(list)
    /\ IF cursor \in candidate
       THEN /\ result' = [result EXCEPT ![cursor] = HierarchyResult(list[cursor])]
            /\ updated' = TRUE
       ELSE UNCHANGED <<result, updated>>
    /\ cursor' = cursor + 1
    /\ UNCHANGED <<pc, inputVars, diffClassId, candidate, writeVars>>

MarkClass ==
    /\ pc = "mark" /\ cursor <= Len(list)
    /\ IF cursor \in candidate
       THEN /\ result' = [result EXCEPT ![cursor] = HierarchyResult(list[cursor])]
            /\ updated' = (updated \/ HierarchyResult(list[cursor]) # "SAME")
       ELSE UNCHANGED <<result, updated>>
    /\ cursor' = cursor + 1
    /\ UNCHANGED <<pc, inputVars, diffClassId, candidate, writeVars>>

\* Mutant: one round is enough.
EndRoundOnce ==
    /\ pc = "mark" /\ cursor > Len(list)
    /\ pc' = "notFound"
    /\ cursor' = 1
    /\ UNCHANGED <<inputVars, result, roundVars, writeVars>>

\* "reach a fixed point,no more to update"
EndRound ==
    /\ pc = "mark" /\ cursor > Len(list)
    /\ pc' = IF updated THEN "round" ELSE "notFound"
    /\ cursor' = 1
    /\ UNCHANGED <<inputVars, result, roundVars, writeVars>>

-----------------------------------------------------------------------------
(* compareNotFoundClasses, prepare *)

CompareNotFound ==
    /\ pc = "notFound" /\ cursor <= Len(input.notFound)
    /\ notFoundResultList' = IF input.scan[input.notFound[cursor]] # {}
                             THEN Append(notFoundResultList, input.notFound[cursor])
                             ELSE notFoundResultList
    /\ cursor' = cursor + 1
    /\ UNCHANGED <<pc, inputVars, result, roundVars, report, written>>

EndNotFound ==
    /\ pc = "notFound" /\ cursor > Len(input.notFound)
    /\ pc' = "prepare" /\ cursor' = 1
    /\ UNCHANGED <<inputVars, result, roundVars, writeVars>>

\* Mutant: what is written is remembered by id.
PrepareById ==
    /\ pc = "prepare" /\ cursor <= Len(list)
    /\ IF result[cursor] = "SAME" \/ list[cursor].id \in written
       THEN UNCHANGED <<report, written>>
       ELSE /\ report' = Append(report, cursor)
            /\ written' = written \cup {list[cursor].id}
    /\ cursor' = cursor + 1
    /\ UNCHANGED <<pc, inputVars, result, roundVars, notFoundResultList>>

\* Mutant: a name is written for every class that has it.
PrepareEveryClass ==
    /\ pc = "prepare" /\ cursor <= Len(list)
    /\ IF result[cursor] = "SAME"
       THEN UNCHANGED <<report, written>>
       ELSE /\ report' = Append(report, cursor)
            /\ written' = written \cup {list[cursor].name}
    /\ cursor' = cursor + 1
    /\ UNCHANGED <<pc, inputVars, result, roundVars, notFoundResultList>>

Prepare ==
    /\ pc = "prepare" /\ cursor <= Len(list)
    /\ IF result[cursor] = "SAME" \/ list[cursor].name \in written
       THEN UNCHANGED <<report, written>>
       ELSE /\ report' = Append(report, cursor)
            /\ written' = written \cup {list[cursor].name}
    /\ cursor' = cursor + 1
    /\ UNCHANGED <<pc, inputVars, result, roundVars, notFoundResultList>>

EndPrepare ==
    /\ pc = "prepare" /\ cursor > Len(list)
    /\ pc' = "done"
    /\ UNCHANGED <<inputVars, result, cursor, roundVars, writeVars>>

Next ==
    \/ CompareClass \/ EndCompare
    \/ StartRound \/ NoRound \/ MarkClass \/ EndRound
    \/ CompareNotFound \/ EndNotFound \/ Prepare \/ EndPrepare

\* A sequential program that waits for nothing.
Spec == Init /\ [][Next]_vars /\ WF_vars(Next)

-----------------------------------------------------------------------------
(* Properties *)

\* The type of every variable.
TypeOK ==
    /\ pc \in {"compare", "round", "mark", "notFound", "prepare", "done"}
    /\ input \in Inputs
    /\ result \in [Positions -> Results \cup {NONE}]
    /\ cursor \in Nat \ {0}
    /\ diffClassId \subseteq Ids /\ candidate \subseteq Positions /\ updated \in BOOLEAN
    /\ report \in Seq(Positions) /\ written \subseteq Names
    /\ notFoundResultList \in Seq(Names)

Compared == pc \in {"notFound", "prepare", "done"}

ParentIds(c) == ({c.super} \ {NONE}) \cup Interfaces(c)

\* When the rounds are over no class is still SAME below a changed one.
HierarchyClosed ==
    Compared => \A i, j \in Positions :
        result[i] = "SAME" /\ list[j].id \in ParentIds(list[i]) => result[j] = "SAME"

\* A class blamed on its super or on an interface has a changed one, under
\* that very relation.
BlameJustified ==
    \A i \in Positions :
        /\ result[i] = "SUPER_CHANGED" =>
              \E j \in Positions : list[j].id = list[i].super /\ result[j] \notin {"SAME", NONE}
        /\ result[i] = "INTERFACE_CHANGED" =>
              \E j \in Positions : list[j].id \in Interfaces(list[i])
                                   /\ result[j] \notin {"SAME", NONE}

\* The smallest set that holds the classes whose own files changed and what
\* is below a member: the rounds compute it, no more and no less.
Affected == {i \in Positions : \A V \in SUBSET Positions :
    (/\ \A j \in Positions : OwnResult(list[j]) # "SAME" => j \in V
     /\ \A j \in Positions, k \in V : list[k].id \in ParentIds(list[j]) => j \in V) => i \in V}

HierarchyExact == pc = "notFound" => Changed = Affected

\* The report names every changed class, and no name twice.
ReportExact ==
    pc = "done" =>
        /\ {list[report[k]].name : k \in 1..Len(report)} = {list[i].name : i \in Changed}
        /\ \A k, m \in 1..Len(report) : list[report[k]].name = list[report[m]].name => k = m

\* A class found changed stays so, for the reason first found.
ResultKept ==
    [][\A i \in Positions : result[i] \notin {NONE, "SAME"} => result'[i] = result[i]]_vars

\* The rounds come to an end.
Termination == <>(pc = "done")

-----------------------------------------------------------------------------
(* The inductive invariant behind HierarchyClosed and ReportExact. *)

\* Which classes have a result.
CompareInv ==
    \A i \in Positions : result[i] # NONE <=> (pc = "compare" => i < cursor)

\* Results of their own are kept, and SAME is one of them.
OwnInv == \A i \in Positions :
    result[i] \in DirectResults \cup {"SAME"} => result[i] = OwnResult(list[i])

\* No round goes further than it must.
SoundInv == \A i \in Positions : result[i] \notin {NONE, "SAME"} => i \in Affected

\* Within a round: what it began with is still changed, what it has not
\* visited still SAME, and if it has changed nothing the visited classes have
\* no parent among the changed ones.
RoundInv ==
    pc = "mark" =>
        /\ diffClassId = {list[i].id : i \in Positions \ candidate}
        /\ \A i \in Positions \ candidate : result[i] # "SAME"
        /\ \A i \in candidate : i >= cursor \/ ~updated => result[i] = "SAME"
        /\ ~updated => \A i \in candidate :
                          i < cursor => ParentIds(list[i]) \cap diffClassId = {}

\* The names selected so far.
ReportInv ==
    /\ pc \notin {"prepare", "done"} => report = << >> /\ written = {}
    /\ \A k \in 1..Len(report) : result[report[k]] # "SAME" /\ list[report[k]].name \in written
    /\ \A n \in written : \E k \in 1..Len(report) : list[report[k]].name = n
    /\ \A i \in Positions :
          /\ pc = "done" \/ (pc = "prepare" /\ i < cursor)
          /\ result[i] # "SAME"
          => list[i].name \in written
    /\ \A k, m \in 1..Len(report) : list[report[k]].name = list[report[m]].name => k = m

\* The names looked at so far that were found.
NotFoundInv ==
    \A k \in 1..Len(input.notFound) :
        /\ pc \in {"prepare", "done"} \/ (pc = "notFound" /\ k < cursor)
        /\ input.scan[input.notFound[k]] # {}
        => \E m \in 1..Len(notFoundResultList) : notFoundResultList[m] = input.notFound[k]

IndInv == /\ CompareInv /\ OwnInv /\ SoundInv /\ RoundInv /\ ReportInv
          /\ HierarchyClosed /\ BlameJustified

=============================================================================
