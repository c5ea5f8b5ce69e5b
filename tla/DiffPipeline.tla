----------------------------- MODULE DiffPipeline -----------------------------
(***************************************************************************)
(* The static diff, end to end: the class list pipeline describes what is  *)
(* archived in the fingerprint file; later, when the application may have  *)
(* changed, com.alibaba.jvm.cds.diff.DiffClasses reads that file, scans    *)
(* the application and has the comparator report the classes that can no   *)
(* longer be used.                                                         *)
(*                                                                         *)
(* Composes ClassListTransform (pc, cursor), ClassScan (phase) and         *)
(* ClassComparator (comparePc, position), one after the other; what is     *)
(* added is FingerprintFile, which stands between the first and the last.  *)
(***************************************************************************)
EXTENDS ClassScan

CONSTANTS
    Object, RawIds, Paths, Hashes, Lines, MaxLines,
    FileName,    \* what getOwnerFile makes of a jar or a directory
    Fingerprint, \* the "fingerprint:" token of a line, NONE if it has none
    Dash,        \* "-"
    NullText,    \* "null"
    Deployed     \* the application that was profiled

VARIABLES
    \* ClassListTransform
    pc, cursor, lines, all, allNotFound, notFoundSet, nameid, idIds, eagerSet,
    appSet, klassID, fatJarCache, signCache, out, fingerprints, notFoundNames,
    \* ClassComparator
    comparePc, position, input, result, diffClassId, candidate, updated,
    report, written, notFoundResultList

Transform == INSTANCE ClassListTransform WITH StaticDiff <- TRUE

Comparator == INSTANCE ClassComparator WITH
    pc <- comparePc, cursor <- position,
    Ids <- RawIds \cup Nat, Prints <- Prints \cup {NullText}, Inputs <- {}

dumpVars == <<pc, cursor, lines, all, allNotFound, notFoundSet, nameid, idIds, eagerSet,
              appSet, klassID, fatJarCache, signCache, out, fingerprints, notFoundNames>>

compareVars == <<comparePc, position, input, result, diffClassId, candidate, updated,
                 report, written, notFoundResultList>>

vars == <<dumpVars, scanVars, compareVars>>

\* Jars are paths, a line with a URL for its origin has a source, and a
\* directory in a jar is not a jar.
ASSUME PipelineAssumption ==
    /\ Transform!ConstantsAssumption /\ Transform!LinesAssumption
    /\ NONE \notin Comparator!Results
    /\ Jars \subseteq Paths
    /\ FileName \in [Paths -> Files]
    /\ \A a \in Applications, j \in Jars : a.jar[j].file = FileName[j]
    /\ \A l \in Lines : l.origin = "file" =>
          /\ l.source # NONE
          /\ l.source.form = "fileDir" => l.source.inner \notin Jars
    /\ Fingerprint \in [Lines -> Prints \cup {NONE}]
    /\ Dash \notin RawIds \cup Nat
    /\ NullText \notin Prints /\ NONE \notin Prints
    /\ Deployed \in Applications

Init ==
    /\ Transform!Init
    /\ ScanInit
    /\ comparePc = "idle" /\ position = 1
    /\ input = [list |-> << >>, notFound |-> << >>, scan |-> << >>]
    /\ result = << >>
    /\ diffClassId = {} /\ candidate = {} /\ updated = FALSE
    /\ report = << >> /\ written = {} /\ notFoundResultList = << >>

-----------------------------------------------------------------------------
(* FingerprintFile: addClassRecord, write, read *)

\* Mutant: a nested jar is taken for the jar it is in.
MainPath(s) == s.main

\* getOwnerFile: the last component of the origin, which is the source as the
\* JVM wrote it.
OwnerPath(s) == IF s.form \in {"fatJar", "fileDir"} THEN s.inner ELSE s.main

OwnerFile(s) == FileName[OwnerPath(s)]

FormatConvert(x) == IF x = NONE THEN Dash ELSE x

ParseConvert(x) == IF x = Dash THEN NONE ELSE x

\* Mutant: a class without interfaces is told by its super class.
FormatNoInterfaces(d) ==
    LET l == Transform!Klasses[d.id]
    IN  [id |-> d.id, name |-> d.name, super |-> FormatConvert(d.super),
         interfaces |-> IF d.super # NONE \/ d.interfaces = << >> THEN <<Dash>> ELSE d.interfaces,
         fingerprint |-> IF Fingerprint[l] = NONE THEN NullText ELSE Fingerprint[l],
         ownerFile |-> OwnerFile(l.source)]

\* ClassDesc.format.  The pipeline has numbered all records by now: the id is
\* the position.  String.join spells null.
Format(d) ==
    LET l == Transform!Klasses[d.id]
    IN  [id |-> d.id, name |-> d.name, super |-> FormatConvert(d.super),
         interfaces |-> IF d.interfaces = << >> THEN <<Dash>> ELSE d.interfaces,
         fingerprint |-> IF Fingerprint[l] = NONE THEN NullText ELSE Fingerprint[l],
         ownerFile |-> OwnerFile(l.source)]

\* Mutant: "-" is read back as an interface.
ParseAsIs(f) == [f EXCEPT !.super = ParseConvert(@)]

\* ClassDesc.parse
Parse(f) == [f EXCEPT !.super = ParseConvert(@),
                      !.interfaces = IF @ = <<Dash>> THEN << >> ELSE @]

Described == [k \in DOMAIN fingerprints |-> Parse(Format(fingerprints[k]))]

-----------------------------------------------------------------------------
(* DiffClasses.main *)

Dump == Transform!Next /\ UNCHANGED <<scanVars, compareVars>>

\* The fingerprint file has been written.
Scan ==
    /\ pc = "done" /\ ScanNext
    /\ UNCHANGED <<dumpVars, compareVars>>

StartCompare ==
    /\ phase = "done" /\ comparePc = "idle"
    /\ input' = [list |-> Described, notFound |-> notFoundNames, scan |-> found]
    /\ comparePc' = "compare"
    /\ result' = [i \in DOMAIN fingerprints |-> NONE]
    /\ UNCHANGED <<dumpVars, scanVars, position, diffClassId, candidate, updated,
                   report, written, notFoundResultList>>

Compare ==
    /\ comparePc # "idle" /\ Comparator!Next
    /\ UNCHANGED <<dumpVars, scanVars>>

Next == Dump \/ Scan \/ StartCompare \/ Compare

Spec == Init /\ [][Next]_vars

-----------------------------------------------------------------------------
(* Properties *)

\* The types of the scan, and what the comparator is given: the file has been
\* read back as something its theorems are about.
TypeOK ==
    /\ ScanTypeOK
    /\ comparePc \in {"idle", "compare", "round", "mark", "notFound", "prepare", "done"}
    /\ comparePc # "idle" => input \in Comparator!Input

Klass(i) == Transform!Klasses[i]

FromFile == {i \in DOMAIN Transform!Klasses : Klass(i).origin = "file"}

\* The jar that holds the class file of class i.
Holder(i) == IF Klass(i).source.form = "fatJar" THEN Klass(i).source.inner ELSE Klass(i).source.main

\* The class files at the place of class i; a plain directory is not a jar and
\* has none.
Place(app, i) ==
    {c \in UNION {app.jar[j].classes : j \in Jars \cap {Holder(i)}} :
        IF Klass(i).source.form = "fileDir" THEN c.name = Klass(i).name /\ c.path # c.name
        ELSE c.path = Klass(i).name}

HasBytes(classes, i) == \E c \in classes : c.fingerprint = Fingerprint[Klass(i)]

\* A class is gone if its place does not hold what was archived any more.  It
\* may have moved: then the only file of its name is what was archived.
Gone(i) ==
    LET elsewhere == found[Klass(i).name]
    IN  /\ ~HasBytes(Place(application, i), i)
        /\ ~(Cardinality(elsewhere) = 1 /\ HasBytes(elsewhere, i))

FileParents(i) == {p \in Transform!KeptParents(i) : p \in FromFile}

\* The classes of the final list that are gone or below one that is, along
\* parents that come from files.
Outdated ==
    LET archived == Transform!Kept \cap FromFile
    IN  {i \in archived : \A V \in SUBSET archived :
            (/\ \A j \in archived : Gone(j) => j \in V
             /\ \A j \in archived : FileParents(j) \cap V # {} => j \in V) => i \in V}

Reported == {input.list[report[k]].name : k \in DOMAIN report}

Missed == {out[k].name : k \in {m \in DOMAIN out : ~out[m].found}}

\* Jars of one file name in two directories are taken for one jar, and so is
\* one called class-dummy for what is in no jar.
DistinctFiles ==
    LET owners == {OwnerPath(Klass(i).source) : i \in FromFile}
    IN  /\ \A j \in ReadJars, k \in ReadJars \cup owners : FileName[j] = FileName[k] => j = k
        /\ \A k \in owners : FileName[k] # ClassDummy

\* Whatever was renumbered, rejected or extracted in between: an archived
\* class that is gone, or below one that is, is reported, and so is a class
\* archived as not found that there is now.
DiffSound ==
    comparePc = "done" =>
        /\ DistinctFiles => \A i \in Outdated : Klass(i).name \in Reported
        /\ \A n \in Missed : found[n] # {} => \E k \in DOMAIN notFoundResultList :
                                                 notFoundResultList[k] = n

\* The scan can tell where a class of the profiled application is from: it is
\* in a jar that is read, or is unpacked and the only one of its name.
Traceable(i) ==
    /\ HasBytes(Place(Deployed, i), i)
    /\ IF Klass(i).source.form = "fileDir"
       THEN Holder(i) \in FatJars /\ Cardinality(found[Klass(i).name]) = 1
       ELSE Holder(i) \in ReadJars

\* An application that has not changed is not reported: neither the ids that
\* rejected classes and reused addresses leave in the file nor a class with
\* the same name elsewhere make it look different.
DiffQuiet ==
    comparePc = "done" /\ application = Deployed /\ (\A i \in FromFile : Traceable(i)) =>
        report = << >>

-----------------------------------------------------------------------------
(* What the parts hand over to each other; with the invariants of the parts *)
(* this is behind TypeOK, DiffSound and DiffQuiet.                          *)

HandOverInv ==
    /\ phase # "idle" => pc = "done"
    /\ comparePc # "idle" => phase = "done"
    /\ pc = "done" => notFoundNames = [k \in DOMAIN allNotFound |-> allNotFound[k].name]
    /\ comparePc = "idle" => /\ position = 1 /\ diffClassId = {} /\ candidate = {} /\ updated = FALSE
                             /\ report = << >> /\ written = {} /\ notFoundResultList = << >>
    /\ comparePc # "idle" =>
          input = [list |-> Described, notFound |-> notFoundNames, scan |-> found]

=============================================================================
