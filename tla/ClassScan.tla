------------------------------ MODULE ClassScan ------------------------------
(***************************************************************************)
(* com.alibaba.jvm.cds.diff.ClassScanner: doScan finds every class file of *)
(* an application, given as lines that name directories and jars.  A fat   *)
(* jar is unpacked to a temporary directory and read once more from there. *)
(*                                                                         *)
(*   "line"    doScan, at application.lines[line]                          *)
(*   "jars"    readClassesInJar over todo, which is what is left of the    *)
(*             line's jars, in whatever order the directory lists them     *)
(*   "unzip"   fatJar has been read and has jars inside                    *)
(*   "nested"  readClassesInJar over what it contains, not recursive       *)
(*   "files"   readClassFromClassFile over its own class files             *)
(*   "delete"  deleteFiles                                                 *)
(***************************************************************************)
EXTENDS Naturals, Sequences, FiniteSets

CONSTANTS
    Names,        \* class names, and entry names without ".class"
    Prints,       \* fingerprints
    Jars,         \* jars, the nested ones too
    Files,        \* file names
    Versions,     \* releases in META-INF/versions
    ClassDummy,   \* the file name given to a class file that is in no jar
    NoVersion,    \* null
    NONE,
    Applications  \* what may be scanned

\* A class file: where it is below a release directory or the root, and the
\* name it has for itself, NONE if the class reader cannot parse it.
ClassFile == [path : Names, name : Names \cup {NONE}, release : Versions, fingerprint : Prints]

JarContent == [file : Files, classes : SUBSET ClassFile, nested : SUBSET Jars]

\* What a line names: the class files below it, the jars in it, or itself.
Line == [type : {"class", "jar", "illFormed"},
         is : {"missing", "directory", "jar", "file"},
         classes : SUBSET ClassFile, jars : SUBSET Jars]

Application == [lines : Seq(Line), jar : [Jars -> JarContent]]

FileInfo == [fingerprint : Prints, filename : Files, version : Versions]

\* What is on a disk is finite.
ASSUME ScanAssumption ==
    /\ Applications \subseteq Application
    /\ IsFiniteSet(Jars)
    /\ \A a \in Applications :
          /\ \A j \in Jars : IsFiniteSet(a.jar[j].classes)
          /\ \A k \in DOMAIN a.lines : IsFiniteSet(a.lines[k].classes)
    /\ ClassDummy \in Files /\ NoVersion \in Versions
    /\ NONE \notin Names \cup Jars

VARIABLES
    phase, application, line, todo, fatJar, nested,
    found,  \* result: the class files under each name
    temp    \* the jars that are unpacked in the temporary directory

scanVars == <<phase, application, line, todo, fatJar, nested, found, temp>>

NoApplication == [lines |-> << >>, jar |-> << >>]

ScanInit ==
    /\ phase = "idle" /\ application = NoApplication
    /\ line = 1 /\ todo = {} /\ fatJar = NONE /\ nested = {}
    /\ found = [n \in Names |-> {}] /\ temp = {}

-----------------------------------------------------------------------------

DoScan ==
    /\ phase = "idle"
    /\ application' \in Applications
    /\ phase' = "line"
    /\ UNCHANGED <<line, todo, fatJar, nested, found, temp>>

\* The class entries of a jar, under the names of the entries.
FoundInJar(j, n) ==
    {[fingerprint |-> c.fingerprint, filename |-> application.jar[j].file,
      version |-> c.release] :
        c \in {d \in application.jar[j].classes : d.path = n}}

\* Class files on disk, under their own names; what cannot be parsed is
\* ignored.
FoundOnDisk(classes, n) ==
    {[fingerprint |-> c.fingerprint, filename |-> ClassDummy, version |-> NoVersion] :
        c \in {d \in classes : d.name = n}}

current == application.lines[line]

AtLine(type) == phase = "line" /\ line <= Len(application.lines) /\ current.type = type

ScanClasses ==
    /\ AtLine("class") /\ current.is = "directory"
    /\ found' = [n \in Names |-> found[n] \cup FoundOnDisk(current.classes, n)]
    /\ line' = line + 1
    /\ UNCHANGED <<phase, application, todo, fatJar, nested, temp>>

ScanJar ==
    /\ AtLine("jar") /\ current.is \in {"directory", "jar"}
    /\ todo' = current.jars
    /\ phase' = "jars"
    /\ UNCHANGED <<application, line, fatJar, nested, found, temp>>

ReadJar(j) ==
    /\ phase = "jars" /\ j \in todo
    /\ found' = [n \in Names |-> found[n] \cup FoundInJar(j, n)]
    /\ todo' = todo \ {j}
    /\ IF application.jar[j].nested = {}
       THEN UNCHANGED <<phase, fatJar>>
       ELSE phase' = "unzip" /\ fatJar' = j
    /\ UNCHANGED <<application, line, nested, temp>>

EndJars ==
    /\ phase = "jars" /\ todo = {}
    /\ phase' = "line" /\ line' = line + 1
    /\ UNCHANGED <<application, todo, fatJar, nested, found, temp>>

Unzip ==
    /\ phase = "unzip"
    /\ temp' = temp \cup {fatJar}
    /\ nested' = application.jar[fatJar].nested
    /\ phase' = "nested"
    /\ UNCHANGED <<application, line, todo, fatJar, found>>

\* Jars inside a nested jar are not looked at.
ReadNested(j) ==
    /\ phase = "nested" /\ j \in nested
    /\ found' = [n \in Names |-> found[n] \cup FoundInJar(j, n)]
    /\ nested' = nested \ {j}
    /\ UNCHANGED <<phase, application, line, todo, fatJar, temp>>

\* Mutant: the class files of a fat jar itself are left where they are.
ReadFilesNone ==
    /\ phase = "nested" /\ nested = {}
    /\ phase' = "delete"
    /\ UNCHANGED <<application, line, todo, fatJar, nested, found, temp>>

ReadFiles ==
    /\ phase = "nested" /\ nested = {}
    /\ found' = [n \in Names |-> found[n] \cup FoundOnDisk(application.jar[fatJar].classes, n)]
    /\ phase' = "delete"
    /\ UNCHANGED <<application, line, todo, fatJar, nested, temp>>

Delete ==
    /\ phase = "delete"
    /\ temp' = temp \ {fatJar}
    /\ phase' = "jars" /\ fatJar' = NONE
    /\ UNCHANGED <<application, line, todo, nested, found>>

EndScan ==
    /\ phase = "line" /\ line > Len(application.lines)
    /\ phase' = "done"
    /\ UNCHANGED <<application, line, todo, fatJar, nested, found, temp>>

\* A line that is ill-formed or names the wrong thing, a jar that is none, an
\* IOException: the program ends, and what is unpacked stays unpacked.
ScanFails ==
    /\ phase \notin {"idle", "done", "failed"}
    /\ temp' \in {temp, temp \cup ({fatJar} \ {NONE})}
    /\ phase' = "failed"
    /\ UNCHANGED <<application, line, todo, fatJar, nested, found>>

ScanNext ==
    \/ DoScan \/ ScanClasses \/ ScanJar \/ EndJars \/ EndScan
    \/ \E j \in Jars : ReadJar(j) \/ ReadNested(j)
    \/ Unzip \/ ReadFiles \/ Delete \/ ScanFails

-----------------------------------------------------------------------------
(* Properties *)

ScanTypeOK ==
    /\ phase \in {"idle", "line", "jars", "unzip", "nested", "delete", "done", "failed"}
    /\ application \in Applications \cup {NoApplication}
    /\ line \in 1..(Len(application.lines) + 1)
    /\ todo \subseteq Jars /\ nested \subseteq Jars /\ fatJar \in Jars \cup {NONE}
    /\ found \in [Names -> SUBSET FileInfo] /\ temp \subseteq Jars

\* The class files of the application under a name, each with the file names
\* it is found under: those of a fat jar twice, as entries and unpacked.
TopJars == UNION {application.lines[k].jars :
                     k \in {m \in DOMAIN application.lines : application.lines[m].type = "jar"}}

FatJars == {j \in TopJars : application.jar[j].nested # {}}

LooseClasses ==
    UNION ({application.lines[k].classes :
                k \in {m \in DOMAIN application.lines : application.lines[m].type = "class"}}
           \cup {application.jar[j].classes : j \in FatJars})

ReadJars == TopJars \cup UNION {application.jar[j].nested : j \in FatJars}

FoundIn(classes, jars) ==
    [n \in Names |-> FoundOnDisk(classes, n) \cup UNION {FoundInJar(j, n) : j \in jars}]

\* A scan that returns has found every class file there is, down to the jars
\* in the jars, and nothing else, whatever the order; and it has deleted what
\* it unpacked.  One jar at most is unpacked at any time.
ScanExact ==
    /\ phase = "done" =>
          /\ found = FoundIn(LooseClasses, ReadJars)
          /\ temp = {}
    /\ temp \subseteq {fatJar}

-----------------------------------------------------------------------------
(* The inductive invariant behind ScanExact. *)

InFatJar == phase \in {"unzip", "nested", "delete"}

InJars == phase = "jars" \/ InFatJar

\* Where the scan is: which line, which jar of it is unpacked.
PhaseInv ==
    /\ phase = "idle" => line = 1 /\ found = [n \in Names |-> {}]
    /\ phase # "idle" => application \in Applications
    /\ phase = "done" => line = Len(application.lines) + 1
    /\ InJars => line <= Len(application.lines) /\ current.type = "jar" /\ todo \subseteq current.jars
    /\ phase # "failed" => (fatJar # NONE <=> InFatJar)
    /\ InFatJar => fatJar \in current.jars \ todo /\ application.jar[fatJar].nested # {}
    /\ phase = "nested" => nested \subseteq application.jar[fatJar].nested
    /\ phase = "delete" => nested = {}
    /\ temp \subseteq {fatJar}

Before(type) == {k \in 1..(line - 1) : application.lines[k].type = type}

JarsBefore == UNION {application.lines[k].jars : k \in Before("jar")}

\* The jars whose entries have been read, and those among them that were fat
\* and are done with.
JarsRead == JarsBefore \cup IF InJars THEN current.jars \ todo ELSE {}

FatJarsRead ==
    {j \in JarsBefore \cup (JarsRead \ {fatJar}) : application.jar[j].nested # {}}

\* The class files and the jars that have been read, in the order of the scan.
LooseRead ==
    UNION ({application.lines[k].classes : k \in Before("class")}
           \cup {application.jar[j].classes : j \in FatJarsRead}
           \cup IF phase = "delete" THEN {application.jar[fatJar].classes} ELSE {})

EntriesRead ==
    JarsRead \cup
    UNION ({application.jar[j].nested : j \in FatJarsRead}
           \cup IF phase \in {"nested", "delete"} THEN {application.jar[fatJar].nested \ nested} ELSE {})

FoundInv == phase \notin {"idle", "failed"} => found = FoundIn(LooseRead, EntriesRead)

ScanInv == ScanTypeOK /\ PhaseInv /\ FoundInv

=============================================================================
