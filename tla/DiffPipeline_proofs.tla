------------------------- MODULE DiffPipeline_proofs -------------------------
(***************************************************************************)
(* Theorems about DiffPipeline, and ClassScan in it, for every application *)
(* and every class list.                                                   *)
(***************************************************************************)
EXTENDS DiffPipeline, FiniteSetTheorems, TLAPS

-----------------------------------------------------------------------------
(* The scan. *)

LEMMA ApplicationTypes ==
    ASSUME application \in Applications
    PROVE  /\ application.lines \in Seq(Line) /\ Len(application.lines) \in Nat
           /\ \A k \in 1..Len(application.lines) :
                 /\ application.lines[k].jars \subseteq Jars
                 /\ application.lines[k].classes \subseteq ClassFile
           /\ \A j \in Jars : /\ application.jar[j].nested \subseteq Jars
                              /\ application.jar[j].classes \subseteq ClassFile
                              /\ application.jar[j].file \in Files
<1>1. application \in Application
  BY ScanAssumption
<1>2. application.lines \in Seq(Line) /\ application.jar \in [Jars -> JarContent]
  BY <1>1 DEF Application
<1>3. \A k \in 1..Len(application.lines) : application.lines[k] \in Line
  BY <1>2
<1>4. \A j \in Jars : application.jar[j] \in JarContent
  BY <1>2
<1>. QED
  BY <1>2, <1>3, <1>4 DEF Line, JarContent

\* What is found has the type of what the scanner returns.
LEMMA FoundTypes ==
    ASSUME application \in Applications, NEW n \in Names
    PROVE  /\ \A j \in Jars : FoundInJar(j, n) \subseteq FileInfo
           /\ \A classes \in SUBSET ClassFile : FoundOnDisk(classes, n) \subseteq FileInfo
<1>1. \A c \in ClassFile : c.fingerprint \in Prints /\ c.release \in Versions
  BY DEF ClassFile
<1>2. \A j \in Jars : FoundInJar(j, n) \subseteq FileInfo
  BY <1>1, ApplicationTypes DEF FoundInJar, FileInfo
<1>3. \A classes \in SUBSET ClassFile : FoundOnDisk(classes, n) \subseteq FileInfo
  BY <1>1, ScanAssumption DEF FoundOnDisk, FileInfo
<1>. QED
  BY <1>2, <1>3

\* A step that reads the class files C and the jars J.
LEMMA FoundStep ==
    ASSUME found = FoundIn(LooseRead, EntriesRead), application' = application, NEW C, NEW J,
           found' = [n \in Names |->
               found[n] \cup FoundOnDisk(C, n) \cup UNION {FoundInJar(j, n) : j \in J}],
           LooseRead' = LooseRead \cup C, EntriesRead' = EntriesRead \cup J
    PROVE  (found = FoundIn(LooseRead, EntriesRead))'
<1>1. ASSUME NEW n \in Names
      PROVE  found'[n] = FoundOnDisk(LooseRead', n) \cup UNION {FoundInJar(j, n)' : j \in EntriesRead'}
  <2>1. found[n] = FoundOnDisk(LooseRead, n) \cup UNION {FoundInJar(j, n) : j \in EntriesRead}
    BY DEF FoundIn
  <2>2. FoundOnDisk(LooseRead', n) = FoundOnDisk(LooseRead, n) \cup FoundOnDisk(C, n)
    BY DEF FoundOnDisk
  <2>3. \A j : FoundInJar(j, n)' = FoundInJar(j, n)
    BY DEF FoundInJar
  <2>4. \A x : x \in UNION {FoundInJar(j, n)' : j \in EntriesRead'}
                <=> \/ x \in UNION {FoundInJar(j, n) : j \in EntriesRead}
                    \/ x \in UNION {FoundInJar(j, n) : j \in J}
    BY <2>3
  <2>5. found'[n] = found[n] \cup FoundOnDisk(C, n) \cup UNION {FoundInJar(j, n) : j \in J}
    OBVIOUS
  <2>6. \A x : x \in found'[n]
                <=> x \in FoundOnDisk(LooseRead', n) \cup UNION {FoundInJar(j, n)' : j \in EntriesRead'}
    BY <2>1, <2>2, <2>4, <2>5
  <2>. QED
    BY <2>6
<1>2. found' = [n \in Names |-> FoundOnDisk(LooseRead', n) \cup UNION {FoundInJar(j, n)' : j \in EntriesRead'}]
  BY <1>1
<1>. QED
  BY <1>2 DEF FoundIn

LEMMA FoundSame ==
    ASSUME found = FoundIn(LooseRead, EntriesRead), application' = application,
           found' = found, LooseRead' = LooseRead, EntriesRead' = EntriesRead
    PROVE  (found = FoundIn(LooseRead, EntriesRead))'
<1>1. \A j, n : FoundInJar(j, n)' = FoundInJar(j, n)
  BY DEF FoundInJar
<1>. QED
  BY <1>1 DEF FoundIn

LEMMA ScanInitInv == ScanInit => ScanInv
<1> SUFFICES ASSUME ScanInit PROVE ScanInv
  OBVIOUS
<1>1. application.lines = << >> /\ Len(application.lines) = 0
  BY DEF ScanInit, NoApplication
<1>2. ScanTypeOK
  BY <1>1 DEF ScanInit, ScanTypeOK
<1>3. PhaseInv
  BY DEF ScanInit, PhaseInv, InJars, InFatJar
<1>. QED
  BY <1>2, <1>3 DEF ScanInit, ScanInv, FoundInv

\* What the invariant says of a scan that is going on.
LEMMA ScanFacts ==
    ASSUME ScanInv, phase \notin {"idle", "failed"}
    PROVE  /\ application \in Applications
           /\ line \in Nat /\ line >= 1 /\ line <= Len(application.lines) + 1
           /\ Len(application.lines) \in Nat
           /\ found = FoundIn(LooseRead, EntriesRead)
           /\ todo \subseteq Jars /\ nested \subseteq Jars /\ temp \subseteq {fatJar}
           /\ found \in [Names -> SUBSET FileInfo]
           /\ InJars => /\ line <= Len(application.lines) /\ current.type = "jar"
                        /\ todo \subseteq current.jars /\ current.jars \subseteq Jars
                        /\ current.classes \subseteq ClassFile
           /\ InFatJar => /\ fatJar \in current.jars \ todo /\ fatJar \in Jars
                          /\ application.jar[fatJar].nested # {}
                          /\ application.jar[fatJar].nested \subseteq Jars
                          /\ application.jar[fatJar].classes \subseteq ClassFile
           /\ ~InFatJar => fatJar = NONE
           /\ NONE \notin Jars
<1>1. /\ application \in Applications
      /\ line \in Nat /\ line >= 1 /\ line <= Len(application.lines) + 1
      /\ Len(application.lines) \in Nat /\ NONE \notin Jars
  <2>1. application \in Applications
    BY DEF ScanInv, PhaseInv
  <2>2. Len(application.lines) \in Nat
    BY <2>1, ApplicationTypes
  <2>. QED
    BY <2>1, <2>2, ScanAssumption DEF ScanInv, ScanTypeOK
<1>2. /\ todo \subseteq Jars /\ nested \subseteq Jars /\ temp \subseteq {fatJar}
      /\ found \in [Names -> SUBSET FileInfo] /\ found = FoundIn(LooseRead, EntriesRead)
  BY DEF ScanInv, ScanTypeOK, PhaseInv, FoundInv
<1>3. ASSUME InJars
      PROVE  /\ line <= Len(application.lines) /\ current.type = "jar"
             /\ todo \subseteq current.jars /\ current.jars \subseteq Jars
             /\ current.classes \subseteq ClassFile
  BY <1>1, <1>3, ApplicationTypes DEF ScanInv, PhaseInv, current
<1>4. ASSUME InFatJar
      PROVE  fatJar \in current.jars \ todo /\ application.jar[fatJar].nested # {}
  BY <1>4 DEF ScanInv, PhaseInv
<1>5. ~InFatJar => fatJar = NONE
  BY DEF ScanInv, PhaseInv
<1>6. InFatJar => fatJar \in Jars
  BY <1>3, <1>4 DEF InJars
<1>. QED
  BY <1>1, <1>2, <1>3, <1>4, <1>5, <1>6, ApplicationTypes

\* The line after the current one.
LEMMA BeforeNext ==
    ASSUME line \in Nat, line >= 1, line' = line + 1, application' = application, NEW type
    PROVE  Before(type)' = Before(type) \cup IF current.type = type THEN {line} ELSE {}
<1>1. 1..(line' - 1) = 1..(line - 1) \cup {line}
  OBVIOUS
<1>. QED
  BY <1>1 DEF Before, current

LEMMA DoScanInv ==
    ASSUME ScanInv, DoScan
    PROVE  ScanInv'
<1>1. /\ phase = "idle" /\ phase' = "line" /\ application' \in Applications
      /\ line = 1 /\ line' = 1 /\ todo' = todo /\ fatJar' = fatJar /\ nested' = nested
      /\ found' = found /\ temp' = temp /\ found = [n \in Names |-> {}]
  BY DEF DoScan, ScanInv, PhaseInv
<1>2. Len(application'.lines) \in Nat
  <2>1. application' \in Application
    BY <1>1, ScanAssumption
  <2>. QED
    BY <2>1 DEF Application
<1>3. ScanTypeOK'
  BY <1>1, <1>2 DEF ScanInv, ScanTypeOK
<1>4. PhaseInv'
  BY <1>1 DEF ScanInv, PhaseInv, InJars, InFatJar
<1>5. LooseRead' = {} /\ EntriesRead' = {}
  <2>1. \A type : Before(type)' = {}
    BY <1>1 DEF Before
  <2>2. JarsBefore' = {} /\ JarsRead' = {} /\ FatJarsRead' = {}
    BY <1>1, <2>1 DEF JarsBefore, JarsRead, FatJarsRead, InJars, InFatJar
  <2>. QED
    BY <1>1, <2>1, <2>2 DEF LooseRead, EntriesRead
<1>6. FoundInv'
  BY <1>1, <1>5 DEF FoundInv, FoundIn, FoundOnDisk
<1>. QED
  BY <1>3, <1>4, <1>6 DEF ScanInv

LEMMA ScanClassesInv ==
    ASSUME ScanInv, ScanClasses
    PROVE  ScanInv'
<1> DEFINE C == current.classes
<1>1. /\ phase = "line" /\ phase' = "line" /\ line' = line + 1 /\ line <= Len(application.lines)
      /\ current.type = "class" /\ application' = application
      /\ todo' = todo /\ fatJar' = fatJar /\ nested' = nested /\ temp' = temp
      /\ found' = [n \in Names |-> found[n] \cup FoundOnDisk(C, n)]
  BY DEF ScanClasses, AtLine
<1>2. /\ application \in Applications
      /\ line \in Nat /\ line >= 1 /\ Len(application.lines) \in Nat
      /\ found = FoundIn(LooseRead, EntriesRead) /\ found \in [Names -> SUBSET FileInfo]
      /\ fatJar = NONE /\ C \subseteq ClassFile
  BY <1>1, ScanFacts, ApplicationTypes DEF InFatJar, current
<1>3. ScanTypeOK'
  <2>1. found' \in [Names -> SUBSET FileInfo]
    BY <1>1, <1>2, FoundTypes
  <2>. QED
    BY <1>1, <1>2, <2>1 DEF ScanInv, ScanTypeOK
<1>4. PhaseInv'
  BY <1>1, <1>2 DEF ScanInv, PhaseInv, InJars, InFatJar
<1>5. /\ Before("class")' = Before("class") \cup {line} /\ Before("jar")' = Before("jar")
  BY <1>1, <1>2, BeforeNext
<1>6. JarsBefore' = JarsBefore /\ JarsRead' = JarsRead /\ FatJarsRead' = FatJarsRead
  BY <1>1, <1>5 DEF JarsBefore, JarsRead, FatJarsRead, InJars, InFatJar
<1>7. LooseRead' = LooseRead \cup C /\ EntriesRead' = EntriesRead \cup {}
  BY <1>1, <1>5, <1>6 DEF LooseRead, EntriesRead, current
<1>8. PICK D : D = C
  OBVIOUS
<1>9. found' = [n \in Names |->
        found[n] \cup FoundOnDisk(D, n) \cup UNION {FoundInJar(j, n) : j \in {}}]
  BY <1>1, <1>8
<1>10. FoundInv'
  BY <1>1, <1>2, <1>7, <1>8, <1>9, FoundStep DEF FoundInv
<1>. QED
  BY <1>3, <1>4, <1>10 DEF ScanInv

LEMMA ScanJarInv ==
    ASSUME ScanInv, ScanJar
    PROVE  ScanInv'
<1>1. /\ phase = "line" /\ phase' = "jars" /\ line' = line /\ line <= Len(application.lines)
      /\ current.type = "jar" /\ application' = application
      /\ todo' = current.jars /\ fatJar' = fatJar /\ nested' = nested /\ temp' = temp
      /\ found' = found /\ current' = current
  BY DEF ScanJar, AtLine, current
<1>2. /\ application \in Applications
      /\ line \in Nat /\ line >= 1 /\ Len(application.lines) \in Nat
      /\ found = FoundIn(LooseRead, EntriesRead) /\ fatJar = NONE
      /\ current.jars \subseteq Jars
  BY <1>1, ScanFacts, ApplicationTypes DEF InFatJar, current
<1>3. ScanTypeOK'
  BY <1>1, <1>2 DEF ScanInv, ScanTypeOK
<1>4. PhaseInv'
  BY <1>1, <1>2 DEF ScanInv, PhaseInv, InJars, InFatJar
<1>5. \A type : Before(type)' = Before(type)
  BY <1>1 DEF Before
<1>6. JarsBefore' = JarsBefore /\ JarsRead' = JarsRead /\ FatJarsRead' = FatJarsRead
  BY <1>1, <1>5 DEF JarsBefore, JarsRead, FatJarsRead, InJars, InFatJar
<1>7. LooseRead' = LooseRead /\ EntriesRead' = EntriesRead
  BY <1>1, <1>5, <1>6 DEF LooseRead, EntriesRead
<1>8. FoundInv'
  BY <1>1, <1>2, <1>7, FoundSame DEF FoundInv
<1>. QED
  BY <1>3, <1>4, <1>8 DEF ScanInv

\* The jars read when a jar is about to be read, with no other unpacked.
LEMMA JarsFacts ==
    ASSUME ScanInv, phase = "jars"
    PROVE  /\ JarsRead = JarsBefore \cup (current.jars \ todo)
           /\ FatJarsRead = {j \in JarsBefore \cup (current.jars \ todo) :
                                application.jar[j].nested # {}}
<1>1. fatJar = NONE /\ NONE \notin Jars /\ current.jars \subseteq Jars
  BY ScanFacts DEF InFatJar, InJars
<1>. QED
  BY <1>1 DEF JarsRead, FatJarsRead, InJars, InFatJar

LEMMA ReadJarInv ==
    ASSUME ScanInv, NEW j \in Jars, ReadJar(j)
    PROVE  ScanInv'
<1>1. /\ phase = "jars" /\ j \in todo /\ line' = line /\ application' = application
      /\ todo' = todo \ {j} /\ nested' = nested /\ temp' = temp /\ current' = current
      /\ found' = [n \in Names |-> found[n] \cup FoundInJar(j, n)]
      /\ \/ application.jar[j].nested = {} /\ phase' = "jars" /\ fatJar' = fatJar
         \/ application.jar[j].nested # {} /\ phase' = "unzip" /\ fatJar' = j
  BY DEF ReadJar, current
<1>2. /\ application \in Applications /\ line \in Nat /\ line >= 1
      /\ line <= Len(application.lines) /\ Len(application.lines) \in Nat
      /\ found = FoundIn(LooseRead, EntriesRead) /\ found \in [Names -> SUBSET FileInfo]
      /\ fatJar = NONE /\ NONE \notin Jars /\ temp \subseteq {fatJar}
      /\ todo \subseteq current.jars /\ current.jars \subseteq Jars /\ current.type = "jar"
  BY <1>1, ScanFacts DEF InFatJar, InJars
<1>3. ScanTypeOK'
  <2>1. found' \in [Names -> SUBSET FileInfo]
    BY <1>1, <1>2, FoundTypes
  <2>. QED
    BY <1>1, <1>2, <2>1 DEF ScanInv, ScanTypeOK
<1>4. PhaseInv'
  <2>1. temp = {}
    BY <1>2 DEF ScanInv, ScanTypeOK
  <2>. QED
    BY <1>1, <1>2, <2>1 DEF ScanInv, PhaseInv, InJars, InFatJar
<1>5. \A type : Before(type)' = Before(type)
  BY <1>1 DEF Before
<1>6. JarsBefore' = JarsBefore
  BY <1>1, <1>5 DEF JarsBefore
<1>7. JarsRead' = JarsRead \cup {j}
  BY <1>1, <1>2, <1>6, JarsFacts DEF JarsRead, InJars, InFatJar
<1>8. FatJarsRead' = FatJarsRead
  <2>1. \A k : application.jar[k].nested' = application.jar[k].nested
    BY <1>1
  <2>2. CASE application.jar[j].nested = {}
    BY <1>1, <1>2, <1>6, <1>7, <2>1, <2>2, JarsFacts DEF FatJarsRead
  <2>3. CASE application.jar[j].nested # {}
    <3>1. JarsBefore' \cup (JarsRead' \ {fatJar'}) = JarsBefore \cup (current.jars \ todo)
      BY <1>1, <1>6, <1>7, <2>3, JarsFacts
    <3>. QED
      BY <1>1, <2>1, <3>1, JarsFacts DEF FatJarsRead
  <2>. QED
    BY <2>2, <2>3
<1>9. LooseRead' = LooseRead \cup {} /\ EntriesRead' = EntriesRead \cup {j}
  BY <1>1, <1>5, <1>7, <1>8 DEF LooseRead, EntriesRead
<1>10. found' = [n \in Names |->
        found[n] \cup FoundOnDisk({}, n) \cup UNION {FoundInJar(k, n) : k \in {j}}]
  BY <1>1 DEF FoundOnDisk
<1>11. FoundInv'
  BY <1>1, <1>2, <1>9, <1>10, FoundStep DEF FoundInv
<1>. QED
  BY <1>3, <1>4, <1>11 DEF ScanInv

LEMMA EndJarsInv ==
    ASSUME ScanInv, EndJars
    PROVE  ScanInv'
<1>1. /\ phase = "jars" /\ phase' = "line" /\ todo = {} /\ line' = line + 1
      /\ application' = application /\ todo' = todo /\ fatJar' = fatJar /\ nested' = nested
      /\ temp' = temp /\ found' = found
  BY DEF EndJars
<1>2. /\ application \in Applications /\ line \in Nat /\ line >= 1
      /\ line <= Len(application.lines) /\ Len(application.lines) \in Nat
      /\ found = FoundIn(LooseRead, EntriesRead) /\ fatJar = NONE /\ NONE \notin Jars
      /\ current.jars \subseteq Jars /\ current.type = "jar"
  BY <1>1, ScanFacts DEF InFatJar, InJars
<1>3. ScanTypeOK'
  BY <1>1, <1>2 DEF ScanInv, ScanTypeOK
<1>4. PhaseInv'
  BY <1>1, <1>2 DEF ScanInv, PhaseInv, InJars, InFatJar
<1>5. /\ Before("jar")' = Before("jar") \cup {line} /\ Before("class")' = Before("class")
  BY <1>1, <1>2, BeforeNext
<1>6. JarsBefore' = JarsBefore \cup current.jars
  BY <1>1, <1>5 DEF JarsBefore, current
<1>7. JarsRead' = JarsRead
  BY <1>1, <1>6, JarsFacts DEF JarsRead, InJars, InFatJar
<1>8. FatJarsRead' = FatJarsRead
  <2>1. JarsBefore' \cup (JarsRead' \ {fatJar'}) = JarsBefore \cup (current.jars \ todo)
    BY <1>1, <1>6, <1>7, JarsFacts
  <2>2. \A k : application.jar[k].nested' = application.jar[k].nested
    BY <1>1
  <2>. QED
    BY <1>1, <2>1, <2>2, JarsFacts DEF FatJarsRead
<1>9. LooseRead' = LooseRead /\ EntriesRead' = EntriesRead
  BY <1>1, <1>5, <1>7, <1>8 DEF LooseRead, EntriesRead
<1>10. FoundInv'
  BY <1>1, <1>2, <1>9, FoundSame DEF FoundInv
<1>. QED
  BY <1>3, <1>4, <1>10 DEF ScanInv

\* A step within a fat jar.
LEMMA FatJarSame ==
    ASSUME ScanInv, InFatJar, InFatJar',
           UNCHANGED <<application, line, todo, fatJar>>
    PROVE  /\ \A type : Before(type)' = Before(type)
           /\ FatJarsRead' = FatJarsRead /\ JarsRead' = JarsRead
<1>1. \A type : Before(type)' = Before(type)
  BY DEF Before
<1>2. JarsBefore' = JarsBefore
  BY <1>1 DEF JarsBefore
<1>3. JarsRead' = JarsRead
  BY <1>2 DEF JarsRead, InJars, current
<1>. QED
  BY <1>1, <1>2, <1>3 DEF FatJarsRead

LEMMA UnzipInv ==
    ASSUME ScanInv, Unzip
    PROVE  ScanInv'
<1>1. /\ phase = "unzip" /\ phase' = "nested" /\ line' = line /\ application' = application
      /\ todo' = todo /\ fatJar' = fatJar /\ found' = found /\ current' = current
      /\ temp' = temp \cup {fatJar} /\ nested' = application.jar[fatJar].nested
  BY DEF Unzip, current
<1>2. /\ application \in Applications /\ found = FoundIn(LooseRead, EntriesRead)
      /\ fatJar \in Jars /\ temp \subseteq {fatJar} /\ application.jar[fatJar].nested \subseteq Jars
  BY <1>1, ScanFacts DEF InFatJar
<1>3. ScanTypeOK'
  BY <1>1, <1>2 DEF ScanInv, ScanTypeOK
<1>4. PhaseInv'
  BY <1>1, <1>2 DEF ScanInv, PhaseInv, InJars, InFatJar
<1>5. /\ \A type : Before(type)' = Before(type)
      /\ FatJarsRead' = FatJarsRead /\ JarsRead' = JarsRead
  BY <1>1, FatJarSame DEF InFatJar
<1>6. LooseRead' = LooseRead /\ EntriesRead' = EntriesRead
  BY <1>1, <1>5 DEF LooseRead, EntriesRead
<1>7. FoundInv'
  BY <1>1, <1>2, <1>6, FoundSame DEF FoundInv
<1>. QED
  BY <1>3, <1>4, <1>7 DEF ScanInv

LEMMA ReadNestedInv ==
    ASSUME ScanInv, NEW j \in Jars, ReadNested(j)
    PROVE  ScanInv'
<1>1. /\ phase = "nested" /\ phase' = "nested" /\ j \in nested /\ nested' = nested \ {j}
      /\ line' = line /\ application' = application /\ current' = current
      /\ todo' = todo /\ fatJar' = fatJar /\ temp' = temp
      /\ found' = [n \in Names |-> found[n] \cup FoundInJar(j, n)]
  BY DEF ReadNested, current
<1>2. /\ application \in Applications /\ found = FoundIn(LooseRead, EntriesRead)
      /\ found \in [Names -> SUBSET FileInfo]
      /\ nested \subseteq application.jar[fatJar].nested
  BY <1>1, ScanFacts DEF ScanInv, PhaseInv
<1>3. ScanTypeOK'
  <2>1. found' \in [Names -> SUBSET FileInfo]
    BY <1>1, <1>2, FoundTypes
  <2>. QED
    BY <1>1, <1>2, <2>1 DEF ScanInv, ScanTypeOK
<1>4. PhaseInv'
  BY <1>1, <1>2 DEF ScanInv, PhaseInv, InJars, InFatJar
<1>5. /\ \A type : Before(type)' = Before(type)
      /\ FatJarsRead' = FatJarsRead /\ JarsRead' = JarsRead
  BY <1>1, FatJarSame DEF InFatJar
<1>6. application.jar[fatJar].nested \ nested' = (application.jar[fatJar].nested \ nested) \cup {j}
  BY <1>1, <1>2
<1>7. LooseRead' = LooseRead \cup {} /\ EntriesRead' = EntriesRead \cup {j}
  <2>1. LooseRead' = LooseRead
    BY <1>1, <1>5 DEF LooseRead
  <2> DEFINE inside == UNION {application.jar[k].nested : k \in FatJarsRead}
  <2>2. inside' = inside
    BY <1>1, <1>5
  <2>9. phase = "nested" /\ phase' = "nested"
    BY <1>1
  <2>3. \A x : x \in EntriesRead <=> \/ x \in JarsRead \/ x \in inside
                                     \/ x \in application.jar[fatJar].nested \ nested
    BY <2>9 DEF EntriesRead
  <2>4. \A x : x \in EntriesRead' <=> \/ x \in JarsRead' \/ x \in inside'
                                      \/ x \in application'.jar[fatJar'].nested \ nested'
    BY <2>9 DEF EntriesRead
  <2>. HIDE DEF inside
  <2>5. EntriesRead' = EntriesRead \cup {j}
    BY <1>1, <1>5, <1>6, <2>2, <2>3, <2>4
  <2>. QED
    BY <2>1, <2>5
<1>8. found' = [n \in Names |->
        found[n] \cup FoundOnDisk({}, n) \cup UNION {FoundInJar(k, n) : k \in {j}}]
  BY <1>1 DEF FoundOnDisk
<1>9. FoundInv'
  BY <1>1, <1>2, <1>7, <1>8, FoundStep DEF FoundInv
<1>. QED
  BY <1>3, <1>4, <1>9 DEF ScanInv

LEMMA ReadFilesInv ==
    ASSUME ScanInv, ReadFiles
    PROVE  ScanInv'
<1> DEFINE C == application.jar[fatJar].classes
<1>1. /\ phase = "nested" /\ phase' = "delete" /\ nested = {} /\ nested' = nested
      /\ line' = line /\ application' = application /\ current' = current
      /\ todo' = todo /\ fatJar' = fatJar /\ temp' = temp
      /\ found' = [n \in Names |-> found[n] \cup FoundOnDisk(C, n)]
  BY DEF ReadFiles, current
<1>2. /\ application \in Applications /\ found = FoundIn(LooseRead, EntriesRead)
      /\ found \in [Names -> SUBSET FileInfo] /\ C \subseteq ClassFile
  BY <1>1, ScanFacts DEF InFatJar
<1>3. ScanTypeOK'
  <2>1. found' \in [Names -> SUBSET FileInfo]
    BY <1>1, <1>2, FoundTypes
  <2>. QED
    BY <1>1, <1>2, <2>1 DEF ScanInv, ScanTypeOK
<1>4. PhaseInv'
  BY <1>1, <1>2 DEF ScanInv, PhaseInv, InJars, InFatJar
<1>5. /\ \A type : Before(type)' = Before(type)
      /\ FatJarsRead' = FatJarsRead /\ JarsRead' = JarsRead
  BY <1>1, FatJarSame DEF InFatJar
<1>6. LooseRead' = LooseRead \cup C /\ EntriesRead' = EntriesRead \cup {}
  BY <1>1, <1>5 DEF LooseRead, EntriesRead
<1>7. PICK D : D = C
  OBVIOUS
<1>8. found' = [n \in Names |->
        found[n] \cup FoundOnDisk(D, n) \cup UNION {FoundInJar(k, n) : k \in {}}]
  BY <1>1, <1>7
<1>9. FoundInv'
  BY <1>1, <1>2, <1>6, <1>7, <1>8, FoundStep DEF FoundInv
<1>. QED
  BY <1>3, <1>4, <1>9 DEF ScanInv

LEMMA DeleteInv ==
    ASSUME ScanInv, Delete
    PROVE  ScanInv'
<1>1. /\ phase = "delete" /\ phase' = "jars" /\ fatJar' = NONE /\ temp' = temp \ {fatJar}
      /\ line' = line /\ application' = application /\ current' = current
      /\ todo' = todo /\ nested' = nested /\ found' = found
  BY DEF Delete, current
<1>2. /\ application \in Applications /\ found = FoundIn(LooseRead, EntriesRead)
      /\ temp \subseteq {fatJar} /\ nested = {} /\ NONE \notin Jars
      /\ fatJar \in current.jars \ todo /\ application.jar[fatJar].nested # {}
      /\ current.jars \subseteq Jars /\ line <= Len(application.lines)
  BY <1>1, ScanFacts DEF InFatJar, InJars, ScanInv, PhaseInv
<1>3. ScanTypeOK'
  BY <1>1, <1>2 DEF ScanInv, ScanTypeOK
<1>4. PhaseInv'
  BY <1>1, <1>2 DEF ScanInv, PhaseInv, InJars, InFatJar
<1>5. \A type : Before(type)' = Before(type)
  BY <1>1 DEF Before
<1>6. JarsBefore' = JarsBefore
  BY <1>1, <1>5 DEF JarsBefore
<1>7. /\ JarsRead' = JarsRead /\ JarsRead = JarsBefore \cup (current.jars \ todo)
  BY <1>1, <1>6 DEF JarsRead, InJars, InFatJar
<1>8. FatJarsRead' = FatJarsRead \cup {fatJar}
  <2>1. JarsBefore' \cup (JarsRead' \ {fatJar'})
          = (JarsBefore \cup (JarsRead \ {fatJar})) \cup {fatJar}
    <3>1. JarsBefore' \cup (JarsRead' \ {NONE}) = JarsBefore \cup (current.jars \ todo)
      BY <1>2, <1>6, <1>7
    <3>. QED
      BY <1>1, <1>2, <1>7, <3>1
  <2>2. \A k : application.jar[k].nested' = application.jar[k].nested
    BY <1>1
  <2>. QED
    BY <1>2, <2>1, <2>2 DEF FatJarsRead
<1>9. LooseRead' = LooseRead
  <2> DEFINE loose == {application.lines[k].classes : k \in Before("class")}
             inFat == {application.jar[j].classes : j \in FatJarsRead}
             last == {application.jar[fatJar].classes}
  <2>1. LooseRead = UNION (loose \cup inFat \cup last)
    BY <1>1 DEF LooseRead
  <2>2. LooseRead' = UNION (loose' \cup inFat' \cup {})
    BY <1>1 DEF LooseRead
  <2>3. loose' = loose
    BY <1>1, <1>5
  <2>4. inFat' = inFat \cup last
    BY <1>1, <1>8
  <2>. HIDE DEF loose, inFat, last
  <2>. QED
    BY <2>1, <2>2, <2>3, <2>4
<1>10. EntriesRead' = EntriesRead
  <2> DEFINE inside == {application.jar[j].nested : j \in FatJarsRead}
             last == application.jar[fatJar].nested
  <2>1. EntriesRead = JarsRead \cup (UNION inside) \cup last
    <3>1. last \ nested = last
      BY <1>1, <1>2
    <3>. QED
      BY <1>1, <3>1 DEF EntriesRead
  <2>2. EntriesRead' = JarsRead' \cup UNION inside'
    BY <1>1 DEF EntriesRead
  <2>3. inside' = inside \cup {last}
    BY <1>1, <1>8
  <2>. HIDE DEF inside, last
  <2>4. UNION inside' = (UNION inside) \cup last
    BY <2>3
  <2>. QED
    BY <1>7, <2>1, <2>2, <2>4
<1>11. FoundInv'
  BY <1>1, <1>2, <1>9, <1>10, FoundSame DEF FoundInv
<1>. QED
  BY <1>3, <1>4, <1>11 DEF ScanInv

LEMMA EndScanInv ==
    ASSUME ScanInv, EndScan
    PROVE  ScanInv'
<1>1. /\ phase = "line" /\ phase' = "done" /\ line > Len(application.lines)
      /\ UNCHANGED <<application, line, todo, fatJar, nested, found, temp>>
  BY DEF EndScan
<1>2. /\ application \in Applications /\ found = FoundIn(LooseRead, EntriesRead)
      /\ line \in Nat /\ line <= Len(application.lines) + 1 /\ Len(application.lines) \in Nat
      /\ fatJar = NONE
  BY <1>1, ScanFacts DEF InFatJar
<1>3. ScanTypeOK'
  BY <1>1, <1>2 DEF ScanInv, ScanTypeOK
<1>4. PhaseInv'
  BY <1>1, <1>2 DEF ScanInv, PhaseInv, InJars, InFatJar
<1>5. \A type : Before(type)' = Before(type)
  BY <1>1 DEF Before
<1>6. JarsBefore' = JarsBefore /\ JarsRead' = JarsRead /\ FatJarsRead' = FatJarsRead
  BY <1>1, <1>5 DEF JarsBefore, JarsRead, FatJarsRead, InJars, InFatJar
<1>7. LooseRead' = LooseRead /\ EntriesRead' = EntriesRead
  BY <1>1, <1>5, <1>6 DEF LooseRead, EntriesRead
<1>8. FoundInv'
  BY <1>1, <1>2, <1>7, FoundSame DEF FoundInv
<1>. QED
  BY <1>3, <1>4, <1>8 DEF ScanInv

LEMMA ScanFailsInv ==
    ASSUME ScanInv, ScanFails
    PROVE  ScanInv'
<1>1. /\ phase \notin {"idle", "done", "failed"} /\ phase' = "failed"
      /\ temp' \in {temp, temp \cup ({fatJar} \ {NONE})}
      /\ UNCHANGED <<application, line, todo, fatJar, nested, found>>
  BY DEF ScanFails
<1>2. temp \subseteq {fatJar} /\ application \in Applications
  BY <1>1 DEF ScanInv, PhaseInv
<1>3. ScanTypeOK'
  <2>1. temp' \subseteq Jars
    BY <1>1 DEF ScanInv, ScanTypeOK
  <2>. QED
    BY <1>1, <2>1 DEF ScanInv, ScanTypeOK
<1>4. PhaseInv'
  BY <1>1, <1>2 DEF PhaseInv, InJars, InFatJar
<1>. QED
  BY <1>1, <1>3, <1>4 DEF ScanInv, FoundInv

LEMMA ScanStep == ScanInv /\ [ScanNext]_scanVars => ScanInv'
<1> SUFFICES ASSUME ScanInv, [ScanNext]_scanVars PROVE ScanInv'
  OBVIOUS
<1>1. CASE ScanNext
  <2>1. CASE DoScan \/ ScanClasses \/ ScanJar \/ EndJars \/ EndScan
    BY <2>1, DoScanInv, ScanClassesInv, ScanJarInv, EndJarsInv, EndScanInv, Zenon
  <2>2. CASE \E j \in Jars : ReadJar(j) \/ ReadNested(j)
    BY <2>2, ReadJarInv, ReadNestedInv, Zenon
  <2>3. CASE Unzip \/ ReadFiles \/ Delete \/ ScanFails
    BY <2>3, UnzipInv, ReadFilesInv, DeleteInv, ScanFailsInv, Zenon
  <2>. QED
    BY <1>1, <2>1, <2>2, <2>3 DEF ScanNext
<1>2. CASE UNCHANGED scanVars
  <2>1. UNCHANGED <<phase, application, line, todo, fatJar, nested, found, temp>>
    BY <1>2 DEF scanVars
  <2>2. ScanTypeOK' /\ PhaseInv'
    BY <2>1 DEF ScanInv, ScanTypeOK, PhaseInv, InJars, InFatJar, current
  <2>3. \A type : Before(type)' = Before(type)
    BY <2>1 DEF Before
  <2>4. JarsBefore' = JarsBefore
    BY <2>1, <2>3 DEF JarsBefore
  <2>5. JarsRead' = JarsRead
    BY <2>1, <2>4 DEF JarsRead, InJars, InFatJar, current
  <2>6. FatJarsRead' = FatJarsRead
    BY <2>1, <2>4, <2>5 DEF FatJarsRead
  <2>7. LooseRead' = LooseRead
    BY <2>1, <2>3, <2>6 DEF LooseRead
  <2>8. EntriesRead' = EntriesRead
    BY <2>1, <2>5, <2>6 DEF EntriesRead
  <2>9. FoundInv'
    BY <2>1, <2>7, <2>8, FoundSame DEF ScanInv, FoundInv
  <2>. QED
    BY <2>2, <2>9 DEF ScanInv
<1>. QED
  BY <1>1, <1>2

LEMMA ScanInvExact == ScanInv => ScanExact
<1> SUFFICES ASSUME ScanInv PROVE ScanExact
  OBVIOUS
<1>1. temp \subseteq {fatJar}
  BY DEF ScanInv, PhaseInv
<1>2. ASSUME phase = "done"
      PROVE  found = FoundIn(LooseClasses, ReadJars) /\ temp = {}
  <2>1. /\ line = Len(application.lines) + 1 /\ fatJar = NONE /\ NONE \notin Jars
        /\ application.lines \in Seq(Line) /\ Len(application.lines) \in Nat
        /\ found = FoundIn(LooseRead, EntriesRead)
    BY <1>2, ScanFacts, ApplicationTypes DEF ScanInv, PhaseInv, InFatJar
  <2>2. temp = {}
    BY <1>1, <2>1 DEF ScanInv, ScanTypeOK
  <2>3. \A type : Before(type) = {k \in DOMAIN application.lines : application.lines[k].type = type}
    BY <2>1 DEF Before
  <2>4. JarsBefore = TopJars /\ JarsRead = TopJars
    BY <1>2, <2>3 DEF JarsBefore, JarsRead, TopJars, InJars, InFatJar
  <2>5. FatJarsRead = FatJars
    BY <2>4 DEF FatJarsRead, FatJars
  <2>6. LooseRead = LooseClasses /\ EntriesRead = ReadJars
    BY <1>2, <2>3, <2>4, <2>5 DEF LooseRead, LooseClasses, EntriesRead, ReadJars
  <2>. QED
    BY <2>1, <2>2, <2>6
<1>. QED
  BY <1>1, <1>2 DEF ScanExact

-----------------------------------------------------------------------------
(* The scan as a part of the pipeline. *)

LEMMA PipelineScans == [Next]_vars => [ScanNext]_scanVars
BY DEF Next, Dump, Scan, StartCompare, Compare, vars, scanVars

\* Which line and which jar the scan is in, and that what it has found is
\* what it has read so far, are invariant together.
THEOREM ScanInductive == Spec => []ScanInv
<1>1. Init => ScanInv
  BY ScanInitInv DEF Init
<1>. QED
  BY <1>1, ScanStep, PipelineScans, PTL DEF Spec

\* A scan that returns has found every class file of the application and
\* nothing else, and has at most one fat jar unpacked at a time.
THEOREM ScansExactly == Spec => []ScanExact
BY ScanInductive, ScanInvExact, PTL

-----------------------------------------------------------------------------
(* What is proved of the three parts holds of them here. *)

TransformProofs == INSTANCE ClassListTransform_proofs WITH StaticDiff <- TRUE

ComparatorProofs == INSTANCE ClassComparator_proofs WITH
    pc <- comparePc, cursor <- position,
    Ids <- RawIds \cup Nat, Prints <- Prints \cup {NullText}, Inputs <- Comparator!Input

LEMMA SameCardinality ==
    \A S : /\ Transform!Cardinality(S) = Cardinality(S)
           /\ TransformProofs!Cardinality(S) = Cardinality(S)
           /\ Comparator!Cardinality(S) = Cardinality(S)
           /\ ComparatorProofs!Cardinality(S) = Cardinality(S)
BY DEF Transform!Cardinality, TransformProofs!Cardinality, Cardinality,
       Comparator!Cardinality, ComparatorProofs!Cardinality

LEMMA DumpAssumptions ==
    TransformProofs!ConstantsAssumption /\ TransformProofs!LinesAssumption
BY PipelineAssumption
   DEF Transform!ConstantsAssumption, Transform!LinesAssumption, Transform!Line, Transform!Texts,
       Transform!Source, Transform!Forms, Transform!Origins,
       TransformProofs!ConstantsAssumption, TransformProofs!LinesAssumption, TransformProofs!Line,
       TransformProofs!Texts, TransformProofs!Source, TransformProofs!Forms, TransformProofs!Origins

\* The pipeline as DiffPipeline instantiates it and as its theorems do.
LEMMA DumpParts ==
  /\ Transform!Init <=> TransformProofs!Init
  /\ Transform!Next <=> TransformProofs!Next
<1>1. Transform!Init <=> TransformProofs!Init
  BY DEF Transform!Init, TransformProofs!Init
<1>3. \A map, key, value : /\ Transform!Put(map, key, value) = TransformProofs!Put(map, key, value)
                           /\ Transform!Lookup(map, key) = TransformProofs!Lookup(map, key)
  BY DEF Transform!Put, TransformProofs!Put, Transform!Lookup, TransformProofs!Lookup,
       Transform!NoRecord, TransformProofs!NoRecord
<1>4. Transform!Parse <=> TransformProofs!Parse
  <2>1. ASSUME NEW l
        PROVE  /\ Transform!SkipLine(l) <=> TransformProofs!SkipLine(l)
               /\ Transform!CompleteRecord(l) <=> TransformProofs!CompleteRecord(l)
               /\ Transform!AddNotFound(l) <=> TransformProofs!AddNotFound(l)
               /\ Transform!AddRecord(l) <=> TransformProofs!AddRecord(l)
               /\ Transform!MissingId(l) <=> TransformProofs!MissingId(l)
               /\ Transform!BlankLine(l) <=> TransformProofs!BlankLine(l)
    <3>1. Transform!SkipLine(l) <=> TransformProofs!SkipLine(l)
      BY DEF Transform!SkipLine, TransformProofs!SkipLine, Transform!IsInitiating,
       TransformProofs!IsInitiating, Transform!IsNotFound, TransformProofs!IsNotFound,
       Transform!IsKlass, TransformProofs!IsKlass, Transform!IsSkipped,
       TransformProofs!IsSkipped, Transform!HasForm, TransformProofs!HasForm, Transform!Read,
       TransformProofs!Read, Transform!decodeVars, TransformProofs!decodeVars,
       Transform!fileVars, TransformProofs!fileVars
    <3>2. Transform!CompleteRecord(l) <=> TransformProofs!CompleteRecord(l)
      BY DEF Transform!CompleteRecord, TransformProofs!CompleteRecord, Transform!IsInitiating,
       TransformProofs!IsInitiating, Transform!Key, TransformProofs!Key, Transform!Put,
       TransformProofs!Put, Transform!Lookup, TransformProofs!Lookup, Transform!NoRecord,
       TransformProofs!NoRecord, Transform!Read, TransformProofs!Read, Transform!decodeVars,
       TransformProofs!decodeVars, Transform!fileVars, TransformProofs!fileVars
    <3>3. Transform!AddNotFound(l) <=> TransformProofs!AddNotFound(l)
      BY DEF Transform!AddNotFound, TransformProofs!AddNotFound, Transform!IsInitiating,
       TransformProofs!IsInitiating, Transform!IsNotFound, TransformProofs!IsNotFound,
       Transform!HasForm, TransformProofs!HasForm, Transform!NewNotFound,
       TransformProofs!NewNotFound, Transform!Read, TransformProofs!Read,
       Transform!decodeVars, TransformProofs!decodeVars, Transform!fileVars,
       TransformProofs!fileVars
    <3>4. Transform!AddRecord(l) <=> TransformProofs!AddRecord(l)
      BY DEF Transform!AddRecord, TransformProofs!AddRecord, Transform!IsInitiating,
       TransformProofs!IsInitiating, Transform!IsKlass, TransformProofs!IsKlass,
       Transform!HasForm, TransformProofs!HasForm, Transform!NewRecord,
       TransformProofs!NewRecord, Transform!Key, TransformProofs!Key, Transform!Put,
       TransformProofs!Put, Transform!Lookup, TransformProofs!Lookup, Transform!NoRecord,
       TransformProofs!NoRecord, Transform!Read, TransformProofs!Read, Transform!decodeVars,
       TransformProofs!decodeVars, Transform!fileVars, TransformProofs!fileVars
    <3>5. Transform!MissingId(l) <=> TransformProofs!MissingId(l)
      BY DEF Transform!MissingId, TransformProofs!MissingId, Transform!IsInitiating,
       TransformProofs!IsInitiating, Transform!IsKlass, TransformProofs!IsKlass,
       Transform!HasForm, TransformProofs!HasForm, Transform!Read, TransformProofs!Read,
       Transform!decodeVars, TransformProofs!decodeVars, Transform!fileVars,
       TransformProofs!fileVars
    <3>6. Transform!BlankLine(l) <=> TransformProofs!BlankLine(l)
      BY DEF Transform!BlankLine, TransformProofs!BlankLine, Transform!Read, TransformProofs!Read,
       Transform!decodeVars, TransformProofs!decodeVars, Transform!fileVars,
       TransformProofs!fileVars
    <3>. QED
      BY <3>1, <3>2, <3>3, <3>4, <3>5, <3>6
  <2>2. Transform!EndOfFile <=> TransformProofs!EndOfFile
    BY DEF Transform!EndOfFile, TransformProofs!EndOfFile, Transform!parseVars,
       TransformProofs!parseVars, Transform!decodeVars, TransformProofs!decodeVars,
       Transform!fileVars, TransformProofs!fileVars
  <2>. QED
    BY <2>1, <2>2, Zenon DEF Transform!Parse, TransformProofs!Parse
<1>5. \A i : /\ Transform!Registered(i) = TransformProofs!Registered(i)
             /\ Transform!Numbered(i) = TransformProofs!Numbered(i)
             /\ Transform!NumberRecord(i) <=> TransformProofs!NumberRecord(i)
  BY <1>3, Zenon DEF Transform!Registered, TransformProofs!Registered, Transform!Numbered,
       TransformProofs!Numbered, Transform!NumberRecord, TransformProofs!NumberRecord,
       Transform!fileVars, TransformProofs!fileVars
<1>6. \A i, x : /\ Transform!Known(i, x) <=> TransformProofs!Known(i, x)
                /\ Transform!Resolve(i, x) = TransformProofs!Resolve(i, x)
  BY <1>3, <1>5, Zenon DEF Transform!Known, TransformProofs!Known, Transform!Resolve, TransformProofs!Resolve,
       Transform!NoRecord, TransformProofs!NoRecord
<1>7. \A i : /\ Transform!Resolved(i) = TransformProofs!Resolved(i)
             /\ Transform!ParentsKnown(i) <=> TransformProofs!ParentsKnown(i)
  BY <1>6 DEF Transform!Resolved, TransformProofs!Resolved, Transform!ParentsKnown,
       TransformProofs!ParentsKnown
<1>8. \A s, t : /\ Transform!DecodedSources(s) = TransformProofs!DecodedSources(s)
                /\ Transform!DecodeMayThrow(s) <=> TransformProofs!DecodeMayThrow(s)
                /\ Transform!CacheExtracted(s, t) = TransformProofs!CacheExtracted(s, t)
                /\ Transform!Verdicts(s) = TransformProofs!Verdicts(s)
                /\ Transform!CacheVerdict(s, t) = TransformProofs!CacheVerdict(s, t)
                /\ Transform!Classify(s) <=> TransformProofs!Classify(s)
  BY <1>3 DEF Transform!DecodedSources, TransformProofs!DecodedSources, Transform!DecodeMayThrow,
       TransformProofs!DecodeMayThrow, Transform!CacheExtracted,
       TransformProofs!CacheExtracted, Transform!Verdicts, TransformProofs!Verdicts,
       Transform!CacheVerdict, TransformProofs!CacheVerdict, Transform!Classify,
       TransformProofs!Classify, Transform!HasForm, TransformProofs!HasForm
<1>9. Transform!ObjectRecord = TransformProofs!ObjectRecord
  BY DEF Transform!ObjectRecord, TransformProofs!ObjectRecord
<1>10. Transform!Decode <=> TransformProofs!Decode
  <2>1. /\ Transform!NoObject <=> TransformProofs!NoObject
        /\ Transform!EndDecode <=> TransformProofs!EndDecode
    BY DEF Transform!NoObject, TransformProofs!NoObject, Transform!EndDecode,
       TransformProofs!EndDecode, Transform!parseVars, TransformProofs!parseVars,
       Transform!decodeVars, TransformProofs!decodeVars, Transform!fileVars,
       TransformProofs!fileVars
  <2>2. Transform!DecodeObject <=> TransformProofs!DecodeObject
    BY <1>5, <1>8, <1>9, Zenon DEF Transform!DecodeObject, TransformProofs!DecodeObject
  <2>3. \A i : Transform!JudgeRecord(i) <=> TransformProofs!JudgeRecord(i)
    <3>. SUFFICES ASSUME NEW i
                  PROVE  Transform!JudgeRecord(i) <=> TransformProofs!JudgeRecord(i)
      OBVIOUS
    <3>. QED
      BY <1>5, <1>7, <1>8 DEF Transform!JudgeRecord, TransformProofs!JudgeRecord
  <2>4. \A i : Transform!OrphanRecord(i) <=> TransformProofs!OrphanRecord(i)
    BY <1>5, <1>7, <1>8 DEF Transform!OrphanRecord, TransformProofs!OrphanRecord
  <2>5. \A i : Transform!DecodeThrows(i) <=> TransformProofs!DecodeThrows(i)
    BY <1>5, <1>7, <1>8, <1>9 DEF Transform!DecodeThrows, TransformProofs!DecodeThrows
  <2>. QED
    BY <2>1, <2>2, <2>3, <2>4, <2>5 DEF Transform!Decode, TransformProofs!Decode
<1>11. \A r : /\ Transform!HasParents(r) <=> TransformProofs!HasParents(r)
              /\ Transform!ClassLine(r) = TransformProofs!ClassLine(r)
              /\ Transform!NotFoundLine(r) = TransformProofs!NotFoundLine(r)
              /\ Transform!ClassDesc(r) = TransformProofs!ClassDesc(r)
  BY Zenon DEF Transform!HasParents, TransformProofs!HasParents, Transform!HasForm,
       TransformProofs!HasForm, Transform!Forms, TransformProofs!Forms, Transform!ClassLine,
       TransformProofs!ClassLine, Transform!NotFoundLine, TransformProofs!NotFoundLine,
       Transform!ClassDesc, TransformProofs!ClassDesc
<1>12. /\ Transform!PrepareNotFound <=> TransformProofs!PrepareNotFound
       /\ Transform!EndNotFound <=> TransformProofs!EndNotFound
       /\ Transform!WriteClass <=> TransformProofs!WriteClass
       /\ Transform!EndWrite <=> TransformProofs!EndWrite
       /\ Transform!WriteNotFound <=> TransformProofs!WriteNotFound
       /\ Transform!EndWriteNotFound <=> TransformProofs!EndWriteNotFound
       /\ Transform!AddFingerprint <=> TransformProofs!AddFingerprint
       /\ Transform!EndFingerprint <=> TransformProofs!EndFingerprint
  BY <1>11, Zenon
  DEF Transform!PrepareNotFound, TransformProofs!PrepareNotFound, Transform!EndNotFound,
       TransformProofs!EndNotFound, Transform!WriteClass, TransformProofs!WriteClass,
       Transform!EndWrite, TransformProofs!EndWrite, Transform!WriteNotFound,
       TransformProofs!WriteNotFound, Transform!EndWriteNotFound,
       TransformProofs!EndWriteNotFound, Transform!AddFingerprint,
       TransformProofs!AddFingerprint, Transform!EndFingerprint,
       TransformProofs!EndFingerprint, Transform!parseVars, TransformProofs!parseVars,
       Transform!decodeVars, TransformProofs!decodeVars, Transform!fileVars,
       TransformProofs!fileVars
<1>13. Transform!Next <=> TransformProofs!Next
  BY <1>4, <1>10, <1>12, Zenon DEF Transform!Next, TransformProofs!Next
<1>. QED
  BY <1>1, <1>13

\* The definitions that speak of the lines read.
LEMMA KlassParts ==
  /\ Transform!Klasses = TransformProofs!Klasses
  /\ Transform!Kept = TransformProofs!Kept
  /\ \A i : Transform!KeptParents(i) = TransformProofs!KeptParents(i)
<1>1. \A l : Transform!IsKlass(l) <=> TransformProofs!IsKlass(l)
  BY DEF Transform!IsKlass, TransformProofs!IsKlass, Transform!IsInitiating,
       TransformProofs!IsInitiating, Transform!HasForm, TransformProofs!HasForm
<1>2. Transform!KlassLines = TransformProofs!KlassLines
  BY <1>1 DEF Transform!KlassLines, TransformProofs!KlassLines
<1>3. \A p : Transform!Count(p) = TransformProofs!Count(p)
  <2>1. \A p : {q \in Transform!KlassLines : q <= p} = {q \in TransformProofs!KlassLines : q <= p}
    BY <1>2
  <2>. QED
    BY <2>1, SameCardinality DEF Transform!Count, TransformProofs!Count
<1>4. \A i : Transform!Position(i) = TransformProofs!Position(i)
  BY <1>2, <1>3 DEF Transform!Position, TransformProofs!Position
<1>5. Transform!Klasses = TransformProofs!Klasses
  <2>1. 1..Transform!Cardinality(Transform!KlassLines)
           = 1..TransformProofs!Cardinality(TransformProofs!KlassLines)
    BY <1>2, SameCardinality
  <2>2. \A i : lines[Transform!Position(i)] = lines[TransformProofs!Position(i)]
    BY <1>4
  <2>. QED
    BY <2>1, <2>2 DEF Transform!Klasses, TransformProofs!Klasses
<1>6. \A S : Transform!Latest(S) = TransformProofs!Latest(S)
  BY DEF Transform!Latest, TransformProofs!Latest, Transform!NoRecord, TransformProofs!NoRecord
<1>7. \A i, x : Transform!ParentOf(i, x) = TransformProofs!ParentOf(i, x)
  BY <1>5, <1>6 DEF Transform!ParentOf, TransformProofs!ParentOf
<1>8. \A r : Transform!Parents(r) = TransformProofs!Parents(r)
  BY DEF Transform!Parents, TransformProofs!Parents
<1>9. \A i : /\ Transform!Rejected(i) <=> TransformProofs!Rejected(i)
             /\ Transform!KeptParents(i) = TransformProofs!KeptParents(i)
  BY <1>5, <1>7, <1>8 DEF Transform!Rejected, TransformProofs!Rejected, Transform!HasForm,
       TransformProofs!HasForm, Transform!KeptParents, TransformProofs!KeptParents
<1>10. Transform!Kept = TransformProofs!Kept
  BY <1>5, <1>7, <1>8, <1>9 DEF Transform!Kept, TransformProofs!Kept
<1>. QED
  BY <1>5, <1>9, <1>10

\* The comparator in the same way.
LEMMA CompareParts ==
  /\ Comparator!Next <=> ComparatorProofs!Next
  /\ Comparator!ClassDesc = ComparatorProofs!ClassDesc
  /\ Comparator!Input = ComparatorProofs!Input
<1>1. /\ Comparator!ClassDesc = ComparatorProofs!ClassDesc
      /\ Comparator!FileInfo = ComparatorProofs!FileInfo
  BY DEF Comparator!ClassDesc, ComparatorProofs!ClassDesc, Comparator!FileInfo,
       ComparatorProofs!FileInfo
<1>2. Comparator!Input = ComparatorProofs!Input
  BY <1>1 DEF Comparator!Input, ComparatorProofs!Input
<1>3. \A c : Comparator!OwnResult(c) = ComparatorProofs!OwnResult(c)
  BY SameCardinality DEF Comparator!OwnResult, ComparatorProofs!OwnResult
<1>4. \A c : Comparator!HierarchyResult(c) = ComparatorProofs!HierarchyResult(c)
  BY DEF Comparator!HierarchyResult, ComparatorProofs!HierarchyResult, Comparator!Interfaces,
       ComparatorProofs!Interfaces
<1>5. /\ Comparator!CompareClass <=> ComparatorProofs!CompareClass
      /\ Comparator!EndCompare <=> ComparatorProofs!EndCompare
      /\ Comparator!MarkClass <=> ComparatorProofs!MarkClass
      /\ Comparator!EndRound <=> ComparatorProofs!EndRound
  BY <1>3, <1>4, Zenon
  DEF Comparator!CompareClass, ComparatorProofs!CompareClass, Comparator!EndCompare,
       ComparatorProofs!EndCompare, Comparator!MarkClass, ComparatorProofs!MarkClass,
       Comparator!EndRound, ComparatorProofs!EndRound, Comparator!list, ComparatorProofs!list,
       Comparator!inputVars, ComparatorProofs!inputVars, Comparator!roundVars,
       ComparatorProofs!roundVars, Comparator!writeVars, ComparatorProofs!writeVars
<1>6. /\ Comparator!StartRound <=> ComparatorProofs!StartRound
      /\ Comparator!NoRound <=> ComparatorProofs!NoRound
  BY DEF Comparator!StartRound, ComparatorProofs!StartRound, Comparator!NoRound,
       ComparatorProofs!NoRound, Comparator!Changed, ComparatorProofs!Changed,
       Comparator!Positions, ComparatorProofs!Positions, Comparator!list,
       ComparatorProofs!list, Comparator!inputVars, ComparatorProofs!inputVars,
       Comparator!roundVars, ComparatorProofs!roundVars, Comparator!writeVars,
       ComparatorProofs!writeVars
<1>7. /\ Comparator!CompareNotFound <=> ComparatorProofs!CompareNotFound
      /\ Comparator!EndNotFound <=> ComparatorProofs!EndNotFound
      /\ Comparator!Prepare <=> ComparatorProofs!Prepare
      /\ Comparator!EndPrepare <=> ComparatorProofs!EndPrepare
  BY DEF Comparator!CompareNotFound, ComparatorProofs!CompareNotFound, Comparator!EndNotFound,
       ComparatorProofs!EndNotFound, Comparator!Prepare, ComparatorProofs!Prepare,
       Comparator!EndPrepare, ComparatorProofs!EndPrepare, Comparator!list,
       ComparatorProofs!list, Comparator!inputVars, ComparatorProofs!inputVars,
       Comparator!roundVars, ComparatorProofs!roundVars, Comparator!writeVars,
       ComparatorProofs!writeVars
<1>. QED
  BY <1>1, <1>2, <1>5, <1>6, <1>7 DEF Comparator!Next, ComparatorProofs!Next

LEMMA CompareAssumptions == ComparatorProofs!InputsAssumption
BY PipelineAssumption, CompareParts
   DEF ComparatorProofs!InputsAssumption, Transform!ConstantsAssumption,
       Comparator!Results, ComparatorProofs!Results, Comparator!DirectResults,
       ComparatorProofs!DirectResults

-----------------------------------------------------------------------------
(* The fingerprint file. *)

DumpInv == TransformProofs!TypeOK /\ TransformProofs!IndInv /\ TransformProofs!ExactInv

\* What is known of a description when the pipeline is done.
LEMMA Descriptions ==
    ASSUME DumpInv, pc = "done"
    PROVE  /\ fingerprints \in Seq(TransformProofs!Desc) /\ Len(fingerprints) \in Nat
           /\ DOMAIN fingerprints = 1..Len(fingerprints)
           /\ \A d \in 1..Len(fingerprints) :
                 /\ fingerprints[d] \in TransformProofs!Desc
                 /\ fingerprints[d].id \in FromFile
                 /\ Klass(fingerprints[d].id) \in Lines
                 /\ Klass(fingerprints[d].id).source \in Transform!Source
                 /\ fingerprints[d].name = Klass(fingerprints[d].id).name
<1>1. fingerprints \in Seq(TransformProofs!Desc)
  BY DEF DumpInv, TransformProofs!TypeOK
<1>2. ASSUME NEW d \in 1..Len(fingerprints)
      PROVE  /\ fingerprints[d].id \in DOMAIN TransformProofs!Klasses
             /\ TransformProofs!Klasses[fingerprints[d].id] \in Lines
             /\ TransformProofs!Klasses[fingerprints[d].id].origin = "file"
             /\ fingerprints[d].name = TransformProofs!Klasses[fingerprints[d].id].name
  BY TransformProofs!DescribedClasses, DumpAssumptions DEF DumpInv
<1>3. \A l \in Lines : l.origin = "file" => l.source \in Transform!Source
  BY PipelineAssumption DEF Transform!LinesAssumption, Transform!Line
<1>. QED
  BY <1>1, <1>2, <1>3, KlassParts DEF Klass, FromFile

LEMMA ParsedRecord ==
    ASSUME NEW id, NEW name, NEW super, NEW interfaces, NEW fingerprint, NEW ownerFile
    PROVE  Parse([id |-> id, name |-> name, super |-> super, interfaces |-> interfaces,
                  fingerprint |-> fingerprint, ownerFile |-> ownerFile])
            = [id |-> id, name |-> name, super |-> ParseConvert(super),
               interfaces |-> IF interfaces = <<Dash>> THEN << >> ELSE interfaces,
               fingerprint |-> fingerprint, ownerFile |-> ownerFile]
<1> DEFINE f == [id |-> id, name |-> name, super |-> super, interfaces |-> interfaces,
                 fingerprint |-> fingerprint, ownerFile |-> ownerFile]
           read == IF interfaces = <<Dash>> THEN << >> ELSE interfaces
           parsed == ParseConvert(super)
<1>1. Parse(f) = [[f EXCEPT !.super = parsed] EXCEPT !.interfaces = read]
  BY DEF Parse
<1> HIDE DEF read, parsed
<1>2. [f EXCEPT !.super = parsed]
        = [id |-> id, name |-> name, super |-> parsed, interfaces |-> interfaces,
           fingerprint |-> fingerprint, ownerFile |-> ownerFile]
  OBVIOUS
<1>3. [[id |-> id, name |-> name, super |-> parsed, interfaces |-> interfaces,
        fingerprint |-> fingerprint, ownerFile |-> ownerFile] EXCEPT !.interfaces = read]
        = [id |-> id, name |-> name, super |-> parsed, interfaces |-> read,
           fingerprint |-> fingerprint, ownerFile |-> ownerFile]
  OBVIOUS
<1>. QED
  BY <1>1, <1>2, <1>3, Zenon DEF read, parsed

\* What is written is read back: the comparator is given the descriptions as
\* the pipeline made them, with the fingerprint and the file of the class.
LEMMA FileRoundTrip ==
    ASSUME DumpInv, pc = "done"
    PROVE  /\ DOMAIN Described = 1..Len(fingerprints)
           /\ \A d \in 1..Len(fingerprints) :
                 LET c == Described[d]
                     i == fingerprints[d].id
                 IN  /\ c.id = i /\ c.name = Klass(i).name
                     /\ c.super = fingerprints[d].super
                     /\ c.interfaces = fingerprints[d].interfaces
                     /\ c.fingerprint = IF Fingerprint[Klass(i)] = NONE THEN NullText
                                        ELSE Fingerprint[Klass(i)]
                     /\ c.ownerFile = OwnerFile(Klass(i).source)
                     /\ c \in Comparator!ClassDesc
<1>1. DOMAIN Described = 1..Len(fingerprints)
  BY Descriptions DEF Described
<1>2. ASSUME NEW d \in 1..Len(fingerprints)
      PROVE  LET c == Described[d]
                 i == fingerprints[d].id
             IN  /\ c.id = i /\ c.name = Klass(i).name
                 /\ c.super = fingerprints[d].super
                 /\ c.interfaces = fingerprints[d].interfaces
                 /\ c.fingerprint = IF Fingerprint[Klass(i)] = NONE THEN NullText
                                    ELSE Fingerprint[Klass(i)]
                 /\ c.ownerFile = OwnerFile(Klass(i).source)
                 /\ c \in Comparator!ClassDesc
  <2> DEFINE f == fingerprints[d]
             i == f.id
             c == Described[d]
             print == IF Fingerprint[Klass(i)] = NONE THEN NullText ELSE Fingerprint[Klass(i)]
  <2>1. /\ f \in TransformProofs!Desc /\ Klass(i) \in Lines /\ f.name = Klass(i).name
        /\ Klass(i).source \in Transform!Source
    BY Descriptions
  <2>2. /\ f.id \in RawIds \cup Nat /\ f.name \in Names
        /\ f.super \in RawIds \cup Nat \cup {NONE} /\ f.interfaces \in Seq(RawIds \cup Nat)
    BY <2>1 DEF TransformProofs!Desc, TransformProofs!Ids
  <2>3. c = Parse(Format(f))
    BY <1>1, Descriptions DEF Described
  <2>4. ParseConvert(FormatConvert(f.super)) = f.super
    BY <2>2, PipelineAssumption DEF ParseConvert, FormatConvert
  <2>5. f.interfaces # <<Dash>>
    <3>1. SUFFICES ASSUME f.interfaces = <<Dash>> PROVE FALSE
      OBVIOUS
    <3>2. f.interfaces[1] \in RawIds \cup Nat
      BY <2>2, <3>1
    <3>. QED
      BY <3>1, <3>2, PipelineAssumption
  <2>6. c = [id |-> f.id, name |-> f.name, super |-> f.super, interfaces |-> f.interfaces,
             fingerprint |-> print, ownerFile |-> OwnerFile(Klass(i).source)]
    <3> DEFINE owner == OwnerFile(Klass(i).source)
               dashed == IF f.interfaces = << >> THEN <<Dash>> ELSE f.interfaces
    <3>1. Format(f) = [id |-> f.id, name |-> f.name, super |-> FormatConvert(f.super),
                       interfaces |-> dashed, fingerprint |-> print, ownerFile |-> owner]
      BY DEF Format, Klass
    <3> HIDE DEF print, owner, dashed
    <3>2. Parse(Format(f)) =
             [id |-> f.id, name |-> f.name, super |-> ParseConvert(FormatConvert(f.super)),
              interfaces |-> IF dashed = <<Dash>> THEN << >> ELSE dashed,
              fingerprint |-> print, ownerFile |-> owner]
      BY <3>1, ParsedRecord
    <3>3. (IF dashed = <<Dash>> THEN << >> ELSE dashed) = f.interfaces
      BY <2>5 DEF dashed
    <3>. QED
      BY <2>3, <2>4, <3>2, <3>3 DEF owner
  <2>7. print \in Prints \cup {NullText}
    BY <2>1, PipelineAssumption
  <2>8. OwnerFile(Klass(i).source) \in Files
    BY <2>1, PipelineAssumption DEF OwnerFile, OwnerPath, Transform!Source
  <2>9. c \in Comparator!ClassDesc
    BY <2>2, <2>6, <2>7, <2>8 DEF Comparator!ClassDesc
  <2>. QED
    BY <2>1, <2>6, <2>9
<1>. QED
  BY <1>1, <1>2

LEMMA HandedOver ==
    ASSUME DumpInv, pc = "done", ScanInv
    PROVE  /\ Described \in Seq(Comparator!ClassDesc) /\ Len(Described) = Len(fingerprints)
           /\ [list |-> Described, notFound |-> notFoundNames, scan |-> found] \in Comparator!Input
<1>1. Len(fingerprints) \in Nat
  BY Descriptions
<1>2. Described \in Seq(Comparator!ClassDesc) /\ Len(Described) = Len(fingerprints)
  <2>1. Described = [d \in 1..Len(fingerprints) |-> Described[d]]
    BY FileRoundTrip DEF Described
  <2>2. \A d \in 1..Len(fingerprints) : Described[d] \in Comparator!ClassDesc
    BY FileRoundTrip
  <2>. QED
    BY <1>1, <2>1, <2>2
<1>3. notFoundNames \in Seq(Names)
  BY DEF DumpInv, TransformProofs!TypeOK
<1>4. FileInfo \subseteq Comparator!FileInfo
  BY DEF FileInfo, Comparator!FileInfo
<1>5. found \in [Names -> SUBSET Comparator!FileInfo]
  <2>1. found \in [Names -> SUBSET FileInfo]
    BY DEF ScanInv, ScanTypeOK
  <2>. QED
    BY <1>4, <2>1
<1>. QED
  BY <1>2, <1>3, <1>5 DEF Comparator!Input

-----------------------------------------------------------------------------
(* The parts keep their invariants, and hand over what the next one expects. *)

CompareInv == comparePc # "idle" => /\ ComparatorProofs!TypeOK /\ ComparatorProofs!IndInv
                                    /\ ComparatorProofs!NotFoundInv

PipelineInv == DumpInv /\ ScanInv /\ HandOverInv /\ CompareInv

LEMMA PipelineInit == Init => PipelineInv
<1> SUFFICES ASSUME Init PROVE PipelineInv
  OBVIOUS
<1>1. TransformProofs!Init
  BY DumpParts DEF Init
<1>2. TransformProofs!TypeOK
  BY <1>1, TransformProofs!InitType, DumpAssumptions
<1>3. TransformProofs!IndInv
  BY <1>1, TransformProofs!InitInv, DumpAssumptions
<1>4. TransformProofs!ExactInv
  BY <1>1, TransformProofs!InitExact, DumpAssumptions
<1>5. ScanInv
  BY ScanInitInv DEF Init
<1>6. phase = "idle" /\ comparePc = "idle" /\ pc = "parse"
  BY DEF Init, ScanInit, Transform!Init
<1>7. HandOverInv
  BY <1>6 DEF Init, HandOverInv
<1>. QED
  BY <1>2, <1>3, <1>4, <1>5, <1>6, <1>7 DEF PipelineInv, DumpInv, CompareInv

LEMMA DumpStep == DumpInv /\ [Next]_vars => DumpInv'
<1> SUFFICES ASSUME DumpInv, [Next]_vars PROVE DumpInv'
  OBVIOUS
<1>1. [TransformProofs!Next]_(TransformProofs!vars)
  <2>1. Transform!Next \/ UNCHANGED dumpVars
    BY DEF Next, Dump, Scan, StartCompare, Compare, vars
  <2>2. UNCHANGED dumpVars => UNCHANGED TransformProofs!vars
    BY DEF dumpVars, TransformProofs!vars, TransformProofs!parseVars, TransformProofs!decodeVars,
           TransformProofs!fileVars
  <2>. QED
    BY <2>1, <2>2, DumpParts
<1>2. TransformProofs!TypeOK'
  BY <1>1, TransformProofs!TypeStep, DumpAssumptions DEF DumpInv
<1>3. TransformProofs!IndInv'
  BY <1>1, <1>2, TransformProofs!IndStep, DumpAssumptions DEF DumpInv
<1>4. TransformProofs!ExactInv'
  BY <1>1, TransformProofs!ExactStep, DumpAssumptions DEF DumpInv
<1>. QED
  BY <1>2, <1>3, <1>4 DEF DumpInv
\* What is known of the class list does not change once it has been read.
LEMMA KlassesKept ==
    ASSUME UNCHANGED lines
    PROVE  /\ Transform!Klasses' = Transform!Klasses
           /\ \A i : Klass(i)' = Klass(i)
<1>1. Transform!KlassLines' = Transform!KlassLines
  BY DEF Transform!KlassLines
<1>2. \A p : Transform!Count(p)' = Transform!Count(p)
  <2>1. \A p : {q \in Transform!KlassLines' : q <= p} = {q \in Transform!KlassLines : q <= p}
    BY <1>1
  <2>. QED
    BY <2>1 DEF Transform!Count
<1>3. \A i : Transform!Position(i)' = Transform!Position(i)
  BY <1>1, <1>2 DEF Transform!Position
<1>4. Transform!Klasses' = Transform!Klasses
  BY <1>1, <1>3 DEF Transform!Klasses
<1>. QED
  BY <1>4 DEF Klass

LEMMA DescribedKept ==
    ASSUME UNCHANGED <<lines, fingerprints>>
    PROVE  Described' = Described
<1>1. \A d : Format(d)' = Format(d)
  BY KlassesKept DEF Format
<1>. QED
  BY <1>1 DEF Described

LEMMA HandOverStep == PipelineInv /\ [Next]_vars => HandOverInv'
<1> SUFFICES ASSUME PipelineInv, [Next]_vars PROVE HandOverInv'
  OBVIOUS
<1>1. HandOverInv
  BY DEF PipelineInv
<1>2. CASE Dump
  <2>1. UNCHANGED <<scanVars, compareVars>> /\ TransformProofs!Next /\ pc # "done"
    BY <1>2, DumpParts, DumpAssumptions, TransformProofs!DoneStops DEF Dump
  <2>2. phase = "idle" /\ comparePc = "idle"
    BY <1>1, <2>1 DEF HandOverInv
  <2>3. pc' = "done" => notFoundNames' = [k \in DOMAIN allNotFound' |-> allNotFound'[k].name]
    BY <2>1, TransformProofs!DoneNames, DumpAssumptions
  <2>. QED
    BY <1>1, <2>1, <2>2, <2>3 DEF HandOverInv, scanVars, compareVars
<1>3. CASE ~Dump
  <2>1. UNCHANGED dumpVars
    BY <1>3 DEF Next, Scan, StartCompare, Compare, vars
  <2>2. UNCHANGED <<pc, allNotFound, notFoundNames>> /\ Described' = Described
    BY <2>1, DescribedKept DEF dumpVars
  <2>3. CASE Scan
    <3>1. pc = "done" /\ phase # "done" /\ UNCHANGED compareVars
      BY <2>3 DEF Scan, ScanNext, DoScan, ScanClasses, ScanJar, EndJars, EndScan, ReadJar,
                  ReadNested, Unzip, ReadFiles, Delete, ScanFails, AtLine
    <3>. QED
      BY <1>1, <2>2, <3>1 DEF HandOverInv, compareVars
  <2>4. CASE StartCompare
    BY <1>1, <2>2, <2>4 DEF HandOverInv, StartCompare, scanVars
  <2>5. CASE Compare
    <3>1. UNCHANGED scanVars /\ ComparatorProofs!Next /\ comparePc # "idle"
      BY <2>5, CompareParts DEF Compare
    <3>2. input' = input
      BY <3>1, ComparatorProofs!InputKept, CompareAssumptions
    <3>3. comparePc' # "idle"
      BY <3>1 DEF ComparatorProofs!Next, ComparatorProofs!CompareClass,
         ComparatorProofs!EndCompare, ComparatorProofs!StartRound, ComparatorProofs!NoRound,
         ComparatorProofs!MarkClass, ComparatorProofs!EndRound,
         ComparatorProofs!CompareNotFound, ComparatorProofs!EndNotFound,
         ComparatorProofs!Prepare, ComparatorProofs!EndPrepare
    <3>. QED
      BY <1>1, <2>2, <3>1, <3>2, <3>3 DEF HandOverInv, scanVars
  <2>6. CASE UNCHANGED vars
    BY <1>1, <2>2, <2>6 DEF HandOverInv, vars, scanVars, compareVars
  <2>. QED
    BY <1>3, <2>3, <2>4, <2>5, <2>6 DEF Next
<1>. QED
  BY <1>2, <1>3

\* The comparator starts as its theorems expect it to, on what it is given.
LEMMA CompareStarts ==
    ASSUME PipelineInv, StartCompare
    PROVE  ComparatorProofs!Init'
<1>1. /\ phase = "done" /\ pc = "done" /\ comparePc = "idle" /\ comparePc' = "compare"
      /\ position' = 1 /\ diffClassId' = {} /\ candidate' = {} /\ updated' = FALSE
      /\ report' = << >> /\ written' = {} /\ notFoundResultList' = << >>
      /\ input' = [list |-> Described, notFound |-> notFoundNames, scan |-> found]
      /\ result' = [i \in DOMAIN fingerprints |-> NONE]
  BY DEF StartCompare, PipelineInv, HandOverInv
<1>2. /\ input' \in Comparator!Input /\ input'.list = Described
      /\ Len(Described) = Len(fingerprints) /\ DOMAIN fingerprints = 1..Len(fingerprints)
  BY <1>1, HandedOver, Descriptions DEF PipelineInv
<1>3. result' = [i \in 1..Len(input'.list) |-> NONE]
  BY <1>1, <1>2
<1>. QED
  BY <1>1, <1>2, <1>3 DEF ComparatorProofs!Init, ComparatorProofs!Positions, ComparatorProofs!list

LEMMA CompareInitial ==
    ComparatorProofs!Init =>
        ComparatorProofs!TypeOK /\ ComparatorProofs!IndInv /\ ComparatorProofs!NotFoundInv
<1> SUFFICES ASSUME ComparatorProofs!Init
             PROVE  ComparatorProofs!TypeOK /\ ComparatorProofs!IndInv /\ ComparatorProofs!NotFoundInv
  OBVIOUS
<1>1. ComparatorProofs!TypeOK
  BY ComparatorProofs!InitType, CompareAssumptions
<1>2. ComparatorProofs!IndInv
  BY ComparatorProofs!InitInv, CompareAssumptions
<1>3. ComparatorProofs!NotFoundInv
  BY DEF ComparatorProofs!Init, ComparatorProofs!NotFoundInv
<1>. QED
  BY <1>1, <1>2, <1>3

LEMMA CompareStep == PipelineInv /\ [Next]_vars => CompareInv'
<1> SUFFICES ASSUME PipelineInv, [Next]_vars PROVE CompareInv'
  OBVIOUS
<1>1. CASE StartCompare
  <2>1. ComparatorProofs!Init'
    BY <1>1, CompareStarts
  <2>2. (ComparatorProofs!TypeOK /\ ComparatorProofs!IndInv /\ ComparatorProofs!NotFoundInv)'
    BY <2>1, CompareInitial, PTL
  <2>. QED
    BY <2>2 DEF CompareInv
<1>2. CASE ~StartCompare
  <2>1. CASE comparePc' = "idle"
    BY <2>1 DEF CompareInv
  <2>2. CASE comparePc' # "idle"
    <3>1. [ComparatorProofs!Next]_(ComparatorProofs!vars)
      <4>1. Comparator!Next \/ UNCHANGED compareVars
        BY <1>2 DEF Next, Dump, Scan, Compare, vars
      <4>2. UNCHANGED compareVars => UNCHANGED ComparatorProofs!vars
        BY DEF compareVars, ComparatorProofs!vars, ComparatorProofs!inputVars,
               ComparatorProofs!roundVars, ComparatorProofs!writeVars
      <4>. QED
        BY <4>1, <4>2, CompareParts
    <3>2. comparePc # "idle"
      BY <1>2, <2>2 DEF Next, Dump, Scan, Compare, vars, compareVars
    <3>3. ComparatorProofs!TypeOK /\ ComparatorProofs!IndInv /\ ComparatorProofs!NotFoundInv
      BY <3>2 DEF PipelineInv, CompareInv
    <3>4. ComparatorProofs!TypeOK'
      BY <3>1, <3>3, ComparatorProofs!TypeStep, CompareAssumptions
    <3>5. ComparatorProofs!IndInv'
      BY <3>1, <3>3, ComparatorProofs!IndStep, CompareAssumptions
    <3>6. ComparatorProofs!NotFoundInv'
      BY <3>1, <3>3, ComparatorProofs!NotFoundStep, CompareAssumptions
    <3>. QED
      BY <3>4, <3>5, <3>6 DEF CompareInv
  <2>. QED
    BY <2>1, <2>2
<1>. QED
  BY <1>1, <1>2

LEMMA PipelineStep == PipelineInv /\ [Next]_vars => PipelineInv'
<1>1. PipelineInv /\ [Next]_vars => ScanInv'
  BY ScanStep, PipelineScans DEF PipelineInv
<1>. QED
  BY <1>1, DumpStep, HandOverStep, CompareStep DEF PipelineInv

\* The invariants of the three parts, and what each hands over to the next,
\* are invariant together.
THEOREM Inductive == Spec => []PipelineInv
BY PipelineInit, PipelineStep, PTL DEF Spec

LEMMA PipelineTypes == PipelineInv => TypeOK
<1> SUFFICES ASSUME PipelineInv PROVE TypeOK
  OBVIOUS
<1>1. ScanTypeOK
  BY DEF PipelineInv, ScanInv
<1>2. ASSUME comparePc # "idle"
      PROVE  /\ comparePc \in {"compare", "round", "mark", "notFound", "prepare", "done"}
             /\ input \in Comparator!Input
  BY <1>2 DEF PipelineInv, CompareInv, ComparatorProofs!TypeOK
<1>. QED
  BY <1>1, <1>2 DEF TypeOK

\* The fingerprint file is read back as what the comparator's theorems are
\* about.
THEOREM TypeCorrect == Spec => []TypeOK
BY Inductive, PipelineTypes, PTL

-----------------------------------------------------------------------------
(* What a scan finds is finite: a name found once is told from one found    *)
(* more than once.                                                          *)

LEMMA FiniteImage ==
    ASSUME NEW S, IsFiniteSet(S), NEW f
    PROVE  IsFiniteSet({f[x] : x \in S})
<1> DEFINE T == {f[x] : x \in S}
           g == [x \in S |-> f[x]]
<1>1. g \in Surjection(S, T)
  BY DEF Surjection
<1>. QED
  BY <1>1, FS_Surjection

LEMMA FoundFinite ==
    ASSUME application \in Applications, NEW n \in Names
    PROVE  /\ IsFiniteSet(FoundIn(LooseClasses, ReadJars)[n])
           /\ ReadJars \subseteq Jars /\ FatJars \subseteq Jars
<1>1. /\ DOMAIN application.lines = 1..Len(application.lines)
      /\ Len(application.lines) \in Nat
      /\ \A k \in 1..Len(application.lines) :
            application.lines[k].jars \subseteq Jars /\ IsFiniteSet(application.lines[k].classes)
      /\ \A j \in Jars : /\ IsFiniteSet(application.jar[j].classes)
                         /\ application.jar[j].nested \subseteq Jars
  BY ApplicationTypes, ScanAssumption
<1>2. TopJars \subseteq Jars
  BY <1>1 DEF TopJars
<1>3. FatJars \subseteq Jars /\ ReadJars \subseteq Jars
  BY <1>1, <1>2 DEF FatJars, ReadJars
<1>4. IsFiniteSet(FatJars) /\ IsFiniteSet(ReadJars)
  BY <1>3, ScanAssumption, FS_Subset
<1>5. IsFiniteSet(LooseClasses)
  <2> DEFINE L == {k \in DOMAIN application.lines : application.lines[k].type = "class"}
             f == [k \in L |-> application.lines[k].classes]
             g == [j \in FatJars |-> application.jar[j].classes]
             A == {f[k] : k \in L}
             B == {g[j] : j \in FatJars}
  <2>1. IsFiniteSet(L)
    <3>1. IsFiniteSet(1..Len(application.lines))
      BY <1>1, FS_Interval
    <3>2. L \in SUBSET (1..Len(application.lines))
      BY <1>1
    <3>. QED
      BY <3>1, <3>2, FS_Subset
  <2>2. LooseClasses = UNION (A \cup B)
    BY DEF LooseClasses
  <2>3. \A T \in A \cup B : IsFiniteSet(T)
    BY <1>1, <1>3
  <2>4. IsFiniteSet(A)
    <3> HIDE DEF L, f
    <3>. QED
      BY <2>1, FiniteImage
  <2>5. IsFiniteSet(B)
    <3> HIDE DEF g
    <3>. QED
      BY <1>4, FiniteImage
  <2> HIDE DEF A, B
  <2>6. IsFiniteSet(A \cup B)
    BY <2>4, <2>5, FS_Union
  <2>. QED
    BY <2>2, <2>3, <2>6, FS_UNION
<1>6. IsFiniteSet(FoundOnDisk(LooseClasses, n))
  <2> DEFINE C == {c \in LooseClasses : c.name = n}
             f == [c \in C |-> [fingerprint |-> c.fingerprint, filename |-> ClassDummy,
                                version |-> NoVersion]]
  <2>1. IsFiniteSet(C)
    BY <1>5, FS_Subset
  <2>2. FoundOnDisk(LooseClasses, n) = {f[c] : c \in C}
    BY DEF FoundOnDisk
  <2> HIDE DEF C, f
  <2>. QED
    BY <2>1, <2>2, FiniteImage
<1>7. ASSUME NEW j \in ReadJars PROVE IsFiniteSet(FoundInJar(j, n))
  <2> DEFINE C == {c \in application.jar[j].classes : c.path = n}
             f == [c \in C |-> [fingerprint |-> c.fingerprint, filename |-> application.jar[j].file,
                                version |-> c.release]]
  <2>1. IsFiniteSet(C)
    BY <1>1, <1>3, FS_Subset
  <2>2. FoundInJar(j, n) = {f[c] : c \in C}
    BY DEF FoundInJar
  <2> HIDE DEF C, f
  <2>. QED
    BY <2>1, <2>2, FiniteImage
<1>8. IsFiniteSet(UNION {FoundInJar(j, n) : j \in ReadJars})
  <2> DEFINE f == [j \in ReadJars |-> FoundInJar(j, n)]
             A == {f[j] : j \in ReadJars}
  <2>1. {FoundInJar(j, n) : j \in ReadJars} = A
    OBVIOUS
  <2>2. \A T \in A : IsFiniteSet(T)
    BY <1>7
  <2>3. IsFiniteSet(A)
    <3> HIDE DEF f
    <3>. QED
      BY <1>4, FiniteImage
  <2> HIDE DEF A
  <2>. QED
    BY <2>1, <2>2, <2>3, FS_UNION
<1>9. FoundIn(LooseClasses, ReadJars)[n]
        = FoundOnDisk(LooseClasses, n) \cup UNION {FoundInJar(j, n) : j \in ReadJars}
  BY DEF FoundIn
<1>10. IsFiniteSet(FoundIn(LooseClasses, ReadJars)[n])
  BY <1>6, <1>8, <1>9, FS_Union
<1>. QED
  BY <1>3, <1>10

-----------------------------------------------------------------------------
(* The report, when the comparator is done. *)

LEMMA DoneFacts ==
    ASSUME PipelineInv, comparePc = "done"
    PROVE  /\ pc = "done" /\ phase = "done" /\ application \in Applications
           /\ DumpInv /\ ComparatorProofs!TypeOK /\ ComparatorProofs!IndInv
           /\ ComparatorProofs!NotFoundInv
           /\ input = [list |-> Described, notFound |-> notFoundNames, scan |-> found]
           /\ notFoundNames = [k \in DOMAIN allNotFound |-> allNotFound[k].name]
           /\ found = FoundIn(LooseClasses, ReadJars) /\ found \in [Names -> SUBSET FileInfo]
<1>1. /\ pc = "done" /\ phase = "done" /\ DumpInv /\ ComparatorProofs!TypeOK
      /\ ComparatorProofs!IndInv /\ ComparatorProofs!NotFoundInv
      /\ input = [list |-> Described, notFound |-> notFoundNames, scan |-> found]
      /\ notFoundNames = [k \in DOMAIN allNotFound |-> allNotFound[k].name]
  BY DEF PipelineInv, HandOverInv, CompareInv
<1>2. application \in Applications /\ found \in [Names -> SUBSET FileInfo]
  BY <1>1 DEF PipelineInv, ScanInv, PhaseInv, ScanTypeOK
<1>3. found = FoundIn(LooseClasses, ReadJars)
  BY <1>1, ScanInvExact DEF PipelineInv, ScanExact
<1>. QED
  BY <1>1, <1>2, <1>3

\* The positions of the comparator's list, and what stands at each.
LEMMA ListFacts ==
    ASSUME PipelineInv, comparePc = "done"
    PROVE  /\ ComparatorProofs!list = Described
           /\ ComparatorProofs!Positions = 1..Len(fingerprints) /\ Len(fingerprints) \in Nat
           /\ \A d \in 1..Len(fingerprints) :
                 LET c == Described[d]
                     i == fingerprints[d].id
                 IN  /\ i \in FromFile /\ c.id = i /\ c.name = Klass(i).name
                     /\ Klass(i).name \in Names /\ Klass(i) \in Lines
                     /\ Klass(i).source \in Transform!Source
                     /\ c.fingerprint = IF Fingerprint[Klass(i)] = NONE THEN NullText
                                        ELSE Fingerprint[Klass(i)]
                     /\ c.ownerFile = OwnerFile(Klass(i).source)
                     /\ ComparatorProofs!ParentIds(c) = TransformProofs!Parents(fingerprints[d])
                     /\ result[d] = "SAME" => ComparatorProofs!OwnResult(c) = "SAME"
<1>1. ComparatorProofs!list = Described
  BY DoneFacts DEF ComparatorProofs!list
<1>2. ComparatorProofs!Positions = 1..Len(fingerprints) /\ Len(fingerprints) \in Nat
  <2>1. Len(Described) = Len(fingerprints) /\ Len(fingerprints) \in Nat
    BY DoneFacts, HandedOver, Descriptions DEF PipelineInv
  <2>. QED
    BY <1>1, <2>1 DEF ComparatorProofs!Positions
<1>3. ASSUME NEW d \in 1..Len(fingerprints)
      PROVE  LET c == Described[d]
                 i == fingerprints[d].id
             IN  /\ i \in FromFile /\ c.id = i /\ c.name = Klass(i).name
                 /\ Klass(i).name \in Names /\ Klass(i) \in Lines
                 /\ Klass(i).source \in Transform!Source
                 /\ c.fingerprint = IF Fingerprint[Klass(i)] = NONE THEN NullText
                                    ELSE Fingerprint[Klass(i)]
                 /\ c.ownerFile = OwnerFile(Klass(i).source)
                 /\ ComparatorProofs!ParentIds(c) = TransformProofs!Parents(fingerprints[d])
                 /\ result[d] = "SAME" => ComparatorProofs!OwnResult(c) = "SAME"
  <2> DEFINE c == Described[d]
             i == fingerprints[d].id
  <2>1. /\ i \in FromFile /\ Klass(i) \in Lines /\ Klass(i).source \in Transform!Source
    BY DoneFacts, Descriptions
  <2>2. /\ c.id = i /\ c.name = Klass(i).name
        /\ c.super = fingerprints[d].super /\ c.interfaces = fingerprints[d].interfaces
        /\ c.fingerprint = IF Fingerprint[Klass(i)] = NONE THEN NullText
                           ELSE Fingerprint[Klass(i)]
        /\ c.ownerFile = OwnerFile(Klass(i).source)
        /\ c \in Comparator!ClassDesc
    BY DoneFacts, FileRoundTrip
  <2>3. Klass(i).name \in Names
    BY <2>2 DEF Comparator!ClassDesc
  <2>4. ComparatorProofs!ParentIds(c) = TransformProofs!Parents(fingerprints[d])
    BY <2>2 DEF ComparatorProofs!ParentIds, ComparatorProofs!Interfaces, TransformProofs!Parents
  <2>5. result[d] = "SAME" => ComparatorProofs!OwnResult(c) = "SAME"
    <3>1. ComparatorProofs!OwnInv
      BY DoneFacts DEF ComparatorProofs!IndInv
    <3>. QED
      BY <1>1, <1>2, <3>1 DEF ComparatorProofs!OwnInv
  <2>. QED
    BY <2>1, <2>2, <2>3, <2>4, <2>5
<1>. QED
  BY <1>1, <1>2, <1>3

\* The file there is for the owner, as getOwnerFile and the scan name it.
OwnedFiles(i) == {f \in found[Klass(i).name] : f.filename = OwnerFile(Klass(i).source)}

\* When a class compares as SAME.
LEMMA OwnResults ==
    ASSUME PipelineInv, comparePc = "done", NEW d \in 1..Len(fingerprints),
           NEW i, i = fingerprints[d].id
    PROVE  ComparatorProofs!OwnResult(Described[d]) = "SAME" <=>
              \E f \in IF Cardinality(found[Klass(i).name]) > 1 THEN OwnedFiles(i)
                       ELSE found[Klass(i).name] :
                 f.fingerprint = IF Fingerprint[Klass(i)] = NONE THEN NullText
                                 ELSE Fingerprint[Klass(i)]
<1> DEFINE c == Described[d]
           there == found[Klass(i).name]
           against == IF Cardinality(there) > 1 THEN OwnedFiles(i) ELSE there
           print == IF Fingerprint[Klass(i)] = NONE THEN NullText ELSE Fingerprint[Klass(i)]
<1>1. input.scan[c.name] = there /\ c.fingerprint = print
      /\ {f \in there : f.filename = c.ownerFile} = OwnedFiles(i)
  BY DoneFacts, ListFacts DEF OwnedFiles
<1>2. OwnedFiles(i) \subseteq there
  BY DEF OwnedFiles
<1> HIDE DEF c, there, print
<1>3. ComparatorProofs!OwnResult(c) =
         IF there = {} THEN "CLASS_NOT_FOUND"
         ELSE IF against = {} THEN "NO_FILE_MATCH"
         ELSE IF \E f \in against : f.fingerprint = print THEN "SAME"
         ELSE "CRC32_DIFF"
  BY <1>1, SameCardinality DEF ComparatorProofs!OwnResult
<1> HIDE DEF against
<1>4. ComparatorProofs!OwnResult(c) = "SAME" <=> \E f \in against : f.fingerprint = print
  <2>1. against \subseteq there
    BY <1>2 DEF against
  <2>. QED
    BY <1>3, <2>1
<1>. QED
  BY <1>4 DEF c, there, against, print

\* What the scan finds under the name of a class: class files in jars that it
\* reads, and loose ones.
LEMMA FoundWhere ==
    ASSUME PipelineInv, comparePc = "done", NEW n \in Names
    PROVE  /\ \A f \in found[n] :
                 \/ f.filename = ClassDummy
                 \/ \E j \in ReadJars : \E c \in application.jar[j].classes :
                       c.path = n /\ f.fingerprint = c.fingerprint /\ f.filename = FileName[j]
           /\ \A j \in ReadJars : \A c \in application.jar[j].classes :
                 c.path = n => \E f \in found[n] :
                    f.fingerprint = c.fingerprint /\ f.filename = FileName[j]
           /\ \A c \in LooseClasses :
                 c.name = n => \E f \in found[n] : f.fingerprint = c.fingerprint
<1>1. found[n] = FoundOnDisk(LooseClasses, n) \cup UNION {FoundInJar(j, n) : j \in ReadJars}
  BY DoneFacts DEF FoundIn
<1>2. \A j \in ReadJars : application.jar[j].file = FileName[j]
  BY DoneFacts, FoundFinite, PipelineAssumption
<1>3. ASSUME NEW j \in ReadJars
      PROVE  /\ \A f \in FoundInJar(j, n) : \E c \in application.jar[j].classes :
                    c.path = n /\ f.fingerprint = c.fingerprint /\ f.filename = FileName[j]
             /\ \A c \in application.jar[j].classes : c.path = n =>
                    \E f \in FoundInJar(j, n) :
                       f.fingerprint = c.fingerprint /\ f.filename = FileName[j]
  <2>1. ASSUME NEW c \in application.jar[j].classes, c.path = n
        PROVE  \E f \in FoundInJar(j, n) :
                  f.fingerprint = c.fingerprint /\ f.filename = FileName[j]
    <3> DEFINE f == [fingerprint |-> c.fingerprint, filename |-> application.jar[j].file,
                     version |-> c.release]
    <3>1. f \in FoundInJar(j, n)
      BY <2>1 DEF FoundInJar
    <3>. QED
      BY <1>2, <3>1
  <2>2. \A f \in FoundInJar(j, n) : \E c \in application.jar[j].classes :
            c.path = n /\ f.fingerprint = c.fingerprint /\ f.filename = FileName[j]
    BY <1>2 DEF FoundInJar
  <2>. QED
    BY <2>1, <2>2
<1>4. /\ \A f \in FoundOnDisk(LooseClasses, n) : f.filename = ClassDummy
      /\ \A c \in LooseClasses : c.name = n =>
            \E f \in FoundOnDisk(LooseClasses, n) : f.fingerprint = c.fingerprint
  <2>1. ASSUME NEW c \in LooseClasses, c.name = n
        PROVE  \E f \in FoundOnDisk(LooseClasses, n) : f.fingerprint = c.fingerprint
    <3> DEFINE f == [fingerprint |-> c.fingerprint, filename |-> ClassDummy,
                     version |-> NoVersion]
    <3>1. f \in FoundOnDisk(LooseClasses, n)
      BY <2>1 DEF FoundOnDisk
    <3>. QED
      BY <3>1
  <2>. QED
    BY <2>1 DEF FoundOnDisk
<1>. QED
  BY <1>1, <1>3, <1>4

\* A class that is gone does not compare as SAME.
LEMMA GoneDiffers ==
    ASSUME PipelineInv, comparePc = "done", DistinctFiles, NEW d \in 1..Len(fingerprints),
           NEW i, i = fingerprints[d].id, Gone(i)
    PROVE  ComparatorProofs!OwnResult(Described[d]) # "SAME"
<1> SUFFICES ASSUME ComparatorProofs!OwnResult(Described[d]) = "SAME" PROVE FALSE
  OBVIOUS
<1> DEFINE there == found[Klass(i).name]
           s == Klass(i).source
<1>1. /\ i \in FromFile /\ Klass(i).name \in Names /\ Klass(i) \in Lines
      /\ s \in Transform!Source /\ Klass(i).origin = "file"
  BY ListFacts DEF FromFile
<1>2. PICK f \in IF Cardinality(there) > 1 THEN OwnedFiles(i) ELSE there :
         f.fingerprint = IF Fingerprint[Klass(i)] = NONE THEN NullText ELSE Fingerprint[Klass(i)]
  BY OwnResults
<1>3. f \in there /\ (Cardinality(there) > 1 => f.filename = OwnerFile(s))
  BY <1>2 DEF OwnedFiles
<1>4. f.fingerprint = Fingerprint[Klass(i)]
  <2>1. f.fingerprint \in Prints
    BY <1>1, <1>3, DoneFacts DEF FileInfo
  <2>. QED
    BY <1>2, <2>1, PipelineAssumption
<1>5. CASE Cardinality(there) > 1
  <2>1. FileName[OwnerPath(s)] # ClassDummy
    BY <1>1 DEF DistinctFiles
  <2>2. PICK j \in ReadJars : \E c \in application.jar[j].classes :
           c.path = Klass(i).name /\ f.fingerprint = c.fingerprint /\ f.filename = FileName[j]
    BY <1>1, <1>3, <1>5, <2>1, FoundWhere DEF OwnerFile
  <2>3. PICK c \in application.jar[j].classes :
           c.path = Klass(i).name /\ f.fingerprint = c.fingerprint /\ f.filename = FileName[j]
    BY <2>2
  <2>4. FileName[j] = FileName[OwnerPath(s)]
    BY <1>3, <1>5, <2>3 DEF OwnerFile
  <2>5. j = OwnerPath(s)
    <3>1. OwnerPath(s) \in {OwnerPath(Klass(k).source) : k \in FromFile}
      BY <1>1
    <3>. QED
      BY <2>4, <3>1 DEF DistinctFiles
  <2>6. j \in Jars
    BY DoneFacts, FoundFinite, <1>1
  <2>7. s.form # "fileDir" /\ j = Holder(i)
    BY <1>1, <2>5, <2>6, PipelineAssumption DEF OwnerPath, Holder
  <2>8. c \in Place(application, i)
    BY <2>3, <2>6, <2>7 DEF Place
  <2>. QED
    BY <1>4, <2>3, <2>8 DEF Gone, HasBytes
<1>6. CASE ~(Cardinality(there) > 1)
  <2>1. IsFiniteSet(there)
    BY <1>1, DoneFacts, FoundFinite
  <2>2. Cardinality(there) \in Nat /\ Cardinality(there) # 0
    BY <1>3, <2>1, FS_CardinalityType, FS_EmptySet
  <2>3. Cardinality(there) = 1
    BY <1>6, <2>2
  <2>. QED
    BY <1>3, <1>4, <2>3 DEF Gone, HasBytes
<1>. QED
  BY <1>5, <1>6

\* A class the scan can trace in the profiled application compares as SAME.
LEMMA TraceableSame ==
    ASSUME PipelineInv, comparePc = "done", application = Deployed,
           NEW d \in 1..Len(fingerprints), Traceable(fingerprints[d].id)
    PROVE  ComparatorProofs!OwnResult(Described[d]) = "SAME"
<1> DEFINE i == fingerprints[d].id
           there == found[Klass(i).name]
           s == Klass(i).source
<1>1. /\ Klass(i).name \in Names /\ s \in Transform!Source
  BY ListFacts
<1>2. PICK c \in Place(Deployed, i) : c.fingerprint = Fingerprint[Klass(i)]
  BY DEF Traceable, HasBytes
<1>3. Holder(i) \in Jars /\ c \in application.jar[Holder(i)].classes
  BY <1>2 DEF Place
<1>4. c.fingerprint \in Prints
  BY <1>3, DoneFacts, ApplicationTypes DEF ClassFile
<1>5. c.fingerprint = IF Fingerprint[Klass(i)] = NONE THEN NullText ELSE Fingerprint[Klass(i)]
  BY <1>2, <1>4, PipelineAssumption
<1>6. CASE s.form = "fileDir"
  <2>1. c.name = Klass(i).name /\ Holder(i) \in FatJars /\ Cardinality(there) = 1
    BY <1>2, <1>6 DEF Place, Traceable
  <2>2. c \in LooseClasses
    BY <1>3, <2>1 DEF LooseClasses
  <2>3. \E f \in there : f.fingerprint = c.fingerprint
    BY <1>1, <2>1, <2>2, FoundWhere
  <2>. QED
    BY <1>5, <2>1, <2>3, OwnResults
<1>7. CASE s.form # "fileDir"
  <2>1. c.path = Klass(i).name /\ Holder(i) \in ReadJars /\ Holder(i) = OwnerPath(s)
    BY <1>2, <1>7 DEF Place, Traceable, Holder, OwnerPath
  <2>2. PICK f \in there : f.fingerprint = c.fingerprint /\ f.filename = FileName[Holder(i)]
    BY <1>1, <1>3, <2>1, FoundWhere
  <2>3. f \in OwnedFiles(i)
    BY <2>1, <2>2 DEF OwnedFiles, OwnerFile
  <2>. QED
    BY <1>5, <2>2, <2>3, OwnResults
<1>. QED
  BY <1>6, <1>7

\* Every class whose result is not SAME is named in the report.
LEMMA ChangedReported ==
    ASSUME PipelineInv, comparePc = "done", NEW d \in 1..Len(fingerprints), result[d] # "SAME"
    PROVE  Klass(fingerprints[d].id).name \in Reported
<1>1. /\ ComparatorProofs!ReportInv /\ report \in Seq(ComparatorProofs!Positions)
      /\ ComparatorProofs!list = Described /\ input.list = Described
      /\ ComparatorProofs!Positions = 1..Len(fingerprints)
      /\ Described[d].name = Klass(fingerprints[d].id).name
  BY DoneFacts, ListFacts DEF ComparatorProofs!IndInv, ComparatorProofs!TypeOK
<1>2. \E k \in 1..Len(report) : Described[report[k]].name = Described[d].name
  BY <1>1 DEF ComparatorProofs!ReportInv
<1>. QED
  BY <1>1, <1>2 DEF Reported

\* The archived classes that were found changed hold those that are gone and
\* what is below them.
LEMMA OutdatedReported ==
    ASSUME PipelineInv, comparePc = "done", DistinctFiles, NEW i \in Outdated
    PROVE  Klass(i).name \in Reported
<1> DEFINE archived == Transform!Kept \cap FromFile
           V == {j \in archived : \E d \in 1..Len(fingerprints) :
                    fingerprints[d].id = j /\ result[d] # "SAME"}
<1>1. ASSUME NEW j \in archived
      PROVE  \E d \in 1..Len(fingerprints) :
                /\ fingerprints[d].id = j
                /\ TransformProofs!Parents(fingerprints[d]) = Transform!KeptParents(j)
  <2>1. TransformProofs!FingerprintComplete
    BY DoneFacts, DumpAssumptions, TransformProofs!FileComplete DEF DumpInv
  <2>2. j \in TransformProofs!Kept /\ TransformProofs!Klasses[j].origin = "file"
    BY KlassParts DEF FromFile, Klass
  <2>3. DOMAIN fingerprints = 1..Len(fingerprints)
    BY DoneFacts, Descriptions
  <2>. QED
    BY <2>1, <2>2, <2>3, DoneFacts, KlassParts DEF TransformProofs!FingerprintComplete
<1>2. ASSUME NEW j \in archived, Gone(j)
      PROVE  j \in V
  <2>1. PICK d \in 1..Len(fingerprints) : fingerprints[d].id = j
    BY <1>1
  <2>2. result[d] # "SAME"
    BY <1>2, <2>1, GoneDiffers, ListFacts
  <2>. QED
    BY <2>1, <2>2
<1>3. ASSUME NEW j \in archived, FileParents(j) \cap V # {}
      PROVE  j \in V
  <2>1. PICK p \in FileParents(j) : p \in V
    BY <1>3
  <2>2. PICK e \in 1..Len(fingerprints) : fingerprints[e].id = p /\ result[e] # "SAME"
    BY <2>1
  <2>3. PICK d \in 1..Len(fingerprints) :
           /\ fingerprints[d].id = j
           /\ TransformProofs!Parents(fingerprints[d]) = Transform!KeptParents(j)
    BY <1>1
  <2>4. Described[e].id \in ComparatorProofs!ParentIds(Described[d])
    BY <2>1, <2>2, <2>3, ListFacts DEF FileParents
  <2>5. ComparatorProofs!HierarchyClosed
    BY DoneFacts DEF ComparatorProofs!IndInv
  <2>6. result[d] # "SAME"
    BY <2>2, <2>4, <2>5, ListFacts
    DEF ComparatorProofs!HierarchyClosed, ComparatorProofs!Compared
  <2>. QED
    BY <2>3, <2>6
<1>4. V \in SUBSET archived
  OBVIOUS
<1>5. i \in V
  BY <1>2, <1>3, <1>4 DEF Outdated
<1>6. PICK d \in 1..Len(fingerprints) : fingerprints[d].id = i /\ result[d] # "SAME"
  BY <1>5
<1>. QED
  BY <1>6, ChangedReported

LEMMA MissedFound ==
    ASSUME PipelineInv, comparePc = "done", NEW n \in Missed, found[n] # {}
    PROVE  \E k \in DOMAIN notFoundResultList : notFoundResultList[k] = n
<1>1. PICK k \in DOMAIN out : ~out[k].found /\ out[k].name = n
  BY DEF Missed
<1>2. PICK m \in DOMAIN allNotFound : allNotFound[m].name = n
  BY <1>1, DoneFacts, DumpAssumptions, TransformProofs!MissedRecords DEF DumpInv
<1>3. notFoundNames \in Seq(Names) /\ input.notFound = notFoundNames /\ input.scan = found
  BY DoneFacts DEF DumpInv, TransformProofs!TypeOK
<1>4. m \in 1..Len(input.notFound) /\ input.notFound[m] = n
  BY <1>2, <1>3, DoneFacts
<1>5. notFoundResultList \in Seq(Names)
  BY DoneFacts DEF ComparatorProofs!TypeOK
<1>. QED
  BY <1>3, <1>4, <1>5, DoneFacts DEF ComparatorProofs!NotFoundInv

LEMMA PipelineSound == PipelineInv => DiffSound
BY OutdatedReported, MissedFound DEF DiffSound

\* Every archived class that is gone, or below one that is, is reported under
\* its name, and so is every class archived as not found that there is now:
\* the archive is never used for an application it does not fit.
THEOREM Sound == Spec => []DiffSound
BY Inductive, PipelineSound, PTL

LEMMA PipelineQuiet == PipelineInv => DiffQuiet
<1> SUFFICES ASSUME PipelineInv, comparePc = "done", application = Deployed,
                    \A i \in FromFile : Traceable(i)
             PROVE  report = << >>
  BY DEF DiffQuiet
<1>1. /\ ComparatorProofs!list = Described
      /\ ComparatorProofs!Positions = 1..Len(fingerprints)
  BY ListFacts
<1>2. \A d \in 1..Len(fingerprints) : ComparatorProofs!OwnResult(Described[d]) = "SAME"
  BY ListFacts, TraceableSame
<1>3. ComparatorProofs!Affected = {}
  BY <1>1, <1>2 DEF ComparatorProofs!Affected
<1>4. /\ ComparatorProofs!CompareInv /\ ComparatorProofs!SoundInv /\ ComparatorProofs!ReportInv
      /\ report \in Seq(1..Len(fingerprints))
  BY <1>1, DoneFacts DEF ComparatorProofs!IndInv, ComparatorProofs!TypeOK
<1>5. \A d \in 1..Len(fingerprints) : result[d] = "SAME"
  BY <1>1, <1>3, <1>4 DEF ComparatorProofs!CompareInv, ComparatorProofs!SoundInv
<1>6. \A k \in 1..Len(report) : result[report[k]] # "SAME" /\ report[k] \in 1..Len(fingerprints)
  BY <1>4 DEF ComparatorProofs!ReportInv
<1>7. Len(report) = 0
  BY <1>4, <1>5, <1>6
<1>. QED
  BY <1>4, <1>7

\* An application that has not changed, and whose classes the scan can trace,
\* is not reported at all.
THEOREM Quiet == Spec => []DiffQuiet
BY Inductive, PipelineQuiet, PTL


=============================================================================
