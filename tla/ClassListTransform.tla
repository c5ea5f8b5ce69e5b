------------------------- MODULE ClassListTransform -------------------------
(***************************************************************************)
(* The class list pipeline of com.alibaba.jvm.cds.classlist: it turns the  *)
(* class list a JVM wrote while it ran an application into the list from   *)
(* which the CDS archive is dumped.                                        *)
(*                                                                         *)
(* ClassListTransformer.create chains four workers, each of which calls    *)
(* the next one at the end of its own run:                                 *)
(*                                                                         *)
(*   "parse"          ParseOriginClassList.run reads the lines             *)
(*   "decode"         SourceDecoder.run renumbers, resolves and validates  *)
(*   "notFound"       PrepareClassNotFoundList.run                         *)
(*   "write"          WriteFinalClassList.run, the classes                 *)
(*   "writeNotFound"  WriteFinalClassList.run, the not-found classes       *)
(*   "fingerprint"    ParseOriginClassList.genFingerprintFile, after the   *)
(*                    calls have returned, when static diff is enabled     *)
(*                                                                         *)
(* Every worker is a loop over a list; one action is one iteration and     *)
(* cursor is its index.  An exception anywhere ends the run ("failed").    *)
(* A Java reference to a record is its index in all; NoRecord is null.     *)
(***************************************************************************)
EXTENDS Naturals, Sequences, FiniteSets

CONSTANTS
    Names,        \* class names
    Object,       \* java/lang/Object
    RawIds,       \* class addresses ("0x...") of the profiled JVM
    Paths,        \* jars and directories, outer and nested
    Hashes,       \* class loader hashes
    NONE,         \* an absent token (null)
    Lines,        \* the lines a class list may hold
    MaxLines,     \* bound: the longest class list
    StaticDiff    \* CDSDumper.enableStaticDiffClass()

Forms == {"jrt", "path", "dir", "file", "jarFile", "fatJar", "fileDir",
          "badJar", "notFoundClass", "jvmDefineClass"}

\* A source: how it is spelled, the outer jar or path, and the entry in it.
Source == [form : Forms, main : Paths, inner : Paths]

HasForm(s, forms) == s # NONE /\ s.form \in forms

\* FingerprintFile.accept tells "file:" and "jar:file:" from anything else.
Origins == {"file", "other"}

Texts == {"blank", "comment", "lambda", "record"}

Line == [text : Texts, name : Names, id : RawIds \cup {NONE},
         super : RawIds \cup {NONE}, interfaces : Seq(RawIds),
         source : Source \cup {NONE}, origin : Origins \cup {NONE},
         defining : Hashes \cup {NONE}, initiating : Hashes \cup {NONE}]

ASSUME ConstantsAssumption ==
    /\ Object \in Names
    /\ NONE \notin RawIds \cup Nat \cup Hashes \cup Source \cup Origins
    /\ RawIds \cap Nat = {}          \* "0x..." is never a decimal number
    /\ MaxLines \in Nat
    /\ StaticDiff \in BOOLEAN

\* The addresses of a class, its super and its interfaces are those of
\* classes that are alive together, so they differ; Object has no interface.
ASSUME LinesAssumption ==
    /\ Lines \subseteq Line
    /\ \A l \in Lines :
          /\ l.super = NONE \/ l.super # l.id
          /\ \A k \in 1..Len(l.interfaces) : l.interfaces[k] # l.id
          /\ l.name = Object => l.interfaces = << >>

VARIABLES
    pc,           \* the worker that is running
    cursor,       \* the index of its loop
    lines,        \* the lines read so far
    all,          \* ClassesCDSDesc.all
    allNotFound,  \* ClassesCDSDesc.allNotFound
    notFoundSet,  \* ClassesCDSDesc.notFoundSet
    nameid,       \* ParseOriginClassList.run: nameidCDSData
    idIds,        \* ClassesCDSDesc.idIds
    eagerSet,     \* ClassesCDSDesc.eagerCDSSet
    appSet,       \* ClassesCDSDesc.appCDSSet
    klassID,      \* ClassesCDSDesc.klassID
    fatJarCache,  \* SourceDecoder.fatJarCache: the nested jars extracted
    signCache,    \* SignedJarValidator.signSourceMap: path |-> rejected?
    out,          \* the lines of the final class list
    fingerprints, \* FingerprintFile.classDescList
    notFoundNames \* FingerprintFile.notFoundClassList

parseVars  == <<lines, all, allNotFound, notFoundSet, nameid>>
decodeVars == <<idIds, eagerSet, appSet, fatJarCache, signCache>>
fileVars   == <<out, fingerprints, notFoundNames>>
vars == <<pc, cursor, parseVars, decodeVars, klassID, fileVars>>

NoRecord == 0

Ids == RawIds \cup Nat

\* A ClassCDSDesc.  id, super and interfaces hold raw ids until SourceDecoder
\* replaces them.
Record == [name : Names, id : Ids, super : Ids \cup {NONE},
           interfaces : Seq(Ids), source : Source \cup {NONE},
           origin : Origins \cup {NONE}, defining : Hashes \cup {NONE},
           initiating : Hashes \cup {NONE}, invalid : BOOLEAN]

NotFoundRecord == [name : Names, id : Nat \cup {NONE},
                   initiating : Hashes \cup {NONE}, invalid : BOOLEAN]

\* HashMap.put
Put(map, key, value) ==
    [k \in DOMAIN map \cup {key} |-> IF k = key THEN value ELSE map[k]]

\* HashMap.get
Lookup(map, key) == IF key \in DOMAIN map THEN map[key] ELSE NoRecord

Init ==
    /\ pc = "parse" /\ cursor = 1
    /\ lines = << >> /\ all = << >> /\ allNotFound = << >>
    /\ notFoundSet = {} /\ nameid = << >> /\ idIds = << >>
    /\ eagerSet = {} /\ appSet = {} /\ klassID = 1
    /\ fatJarCache = {} /\ signCache = << >>
    /\ out = << >> /\ fingerprints = << >> /\ notFoundNames = << >>

-----------------------------------------------------------------------------
(* ParseOriginClassList *)

\* The branches of the if chain, in its order.
IsInitiating(l) == l.text = "record" /\ l.defining # NONE /\ l.initiating # NONE

IsNotFound(l) == /\ l.text = "record" /\ ~IsInitiating(l)
                 /\ HasForm(l.source, {"notFoundClass"})

IsKlass(l) == /\ l.text = "record" /\ ~IsInitiating(l)
              /\ ~HasForm(l.source, {"notFoundClass", "jvmDefineClass"})

IsSkipped(l) == l.text # "blank" /\ ~IsInitiating(l) /\ ~IsNotFound(l) /\ ~IsKlass(l)

Key(l) == <<l.name, l.id, l.defining>>

NewRecord(l) ==
    [name |-> l.name, id |-> l.id, super |-> l.super, interfaces |-> l.interfaces,
     source |-> l.source, origin |-> l.origin, defining |-> l.defining,
     initiating |-> NONE, invalid |-> FALSE]

NewNotFound(l) ==
    [name |-> l.name, id |-> NONE, initiating |-> l.initiating, invalid |-> FALSE]

Read(l) ==
    /\ pc = "parse" /\ Len(lines) < MaxLines
    /\ lines' = Append(lines, l)
    /\ UNCHANGED <<cursor, decodeVars, klassID, fileVars>>

\* Comments, __JVM_DefineClass__ and lambda lines leave no trace.
SkipLine(l) ==
    /\ IsSkipped(l) /\ Read(l)
    /\ UNCHANGED <<pc, all, allNotFound, notFoundSet, nameid>>

\* Mutant: every such line completes the record again.
CompleteRecordAgain(l) ==
    /\ IsInitiating(l) /\ l.id # NONE /\ Read(l)
    /\ LET i == Lookup(nameid, Key(l)) IN
       all' = IF i # NoRecord THEN [all EXCEPT ![i].initiating = l.initiating] ELSE all
    /\ UNCHANGED <<pc, allNotFound, notFoundSet, nameid>>

\* A line with both hashes completes the record it names, once.
CompleteRecord(l) ==
    /\ IsInitiating(l) /\ l.id # NONE /\ Read(l)
    /\ LET i == Lookup(nameid, Key(l)) IN
       all' = IF i # NoRecord /\ all[i].initiating = NONE
              THEN [all EXCEPT ![i].initiating = l.initiating]
              ELSE all
    /\ UNCHANGED <<pc, allNotFound, notFoundSet, nameid>>

AddNotFound(l) ==
    /\ IsNotFound(l) /\ Read(l)
    /\ IF <<l.name, l.initiating>> \in notFoundSet
       THEN UNCHANGED <<allNotFound, notFoundSet>>
       ELSE /\ allNotFound' = Append(allNotFound, NewNotFound(l))
            /\ notFoundSet' = notFoundSet \cup {<<l.name, l.initiating>>}
    /\ UNCHANGED <<pc, all, nameid>>

AddRecord(l) ==
    /\ IsKlass(l) /\ l.id # NONE /\ Read(l)
    /\ all' = Append(all, NewRecord(l))
    /\ nameid' = Put(nameid, Key(l), Len(all) + 1)
    /\ UNCHANGED <<pc, allNotFound, notFoundSet>>

\* getId: "no Id in line".
MissingId(l) ==
    /\ IsInitiating(l) \/ IsKlass(l)
    /\ l.id = NONE /\ Read(l)
    /\ pc' = "failed"
    /\ UNCHANGED <<all, allNotFound, notFoundSet, nameid>>

\* while (!line.isEmpty()): the rest of the file, if any, is not read.
BlankLine(l) ==
    /\ l.text = "blank" /\ Read(l)
    /\ pc' = "decode"
    /\ UNCHANGED <<all, allNotFound, notFoundSet, nameid>>

\* readLine returns null; on an empty file line.isEmpty() dereferences it.
EndOfFile ==
    /\ pc = "parse"
    /\ pc' = IF lines = << >> THEN "failed" ELSE "decode"
    /\ UNCHANGED <<cursor, parseVars, decodeVars, klassID, fileVars>>

Parse ==
    \/ \E l \in Lines : \/ SkipLine(l) \/ CompleteRecord(l) \/ AddNotFound(l)
                        \/ AddRecord(l) \/ MissingId(l) \/ BlankLine(l)
    \/ EndOfFile

-----------------------------------------------------------------------------
(* SourceDecoder *)

\* decodeSource: the sources a record may end with.  An extraction from a fat
\* jar that fails is only logged and leaves the source as it was; a nested
\* name found in the cache is not extracted again.
DecodedSources(s) ==
    IF s = NONE THEN {s}
    ELSE CASE s.form \in {"file", "jarFile"} -> {[s EXCEPT !.form = "path", !.inner = s.main]}
           [] s.form = "fatJar" -> {[form |-> "path", main |-> s.inner, inner |-> s.inner]}
                                   \cup {t \in {s} : s.inner \notin fatJarCache}
           [] s.form = "fileDir" -> {[form |-> "dir", main |-> s.inner, inner |-> s.inner]}
           [] s.form = "badJar" -> {}
           [] OTHER -> {s}

\* "Cannot parse", an entry that is missing, an IOException.
DecodeMayThrow(s) == HasForm(s, {"badJar", "fileDir"})

\* fatJarCache.put, after an extraction; t is what the source s became.
CacheExtracted(s, t) ==
    IF HasForm(s, {"fatJar"}) /\ HasForm(t, {"path"})
    THEN fatJarCache \cup {s.inner}
    ELSE fatJarCache

\* SignedJarValidator.isInvalid: FALSE is valid, TRUE is signed or unknown.
\* Only a jar on disk is opened, and its verdict is computed once.
Verdicts(s) ==
    IF ~HasForm(s, {"path"}) THEN {FALSE}
    ELSE IF s.main \in DOMAIN signCache THEN {signCache[s.main]} ELSE BOOLEAN

CacheVerdict(s, rejected) ==
    IF HasForm(s, {"path"}) THEN Put(signCache, s.main, rejected) ELSE signCache

\* Mutant: the application loader gets a name a custom loader has.
ClassifyTwice(r) ==
    /\ appSet' = IF r.source # NONE /\ r.defining = NONE THEN appSet \cup {r.name} ELSE appSet
    /\ eagerSet' = IF r.source # NONE /\ r.defining # NONE /\ r.name \notin appSet
                   THEN eagerSet \cup {r.name} ELSE eagerSet

\* invalidCheck: its result is ignored, its effect on the two sets is not.
Classify(r) ==
    /\ appSet' = IF r.source # NONE /\ r.defining = NONE /\ r.name \notin eagerSet
                 THEN appSet \cup {r.name} ELSE appSet
    /\ eagerSet' = IF r.source # NONE /\ r.defining # NONE /\ r.name \notin appSet
                   THEN eagerSet \cup {r.name} ELSE eagerSet

\* Mutant: a raw id stays with the class that had it first.
RegisteredOnce(i) ==
    IF all[i].id \in DOMAIN idIds THEN idIds ELSE Put(idIds, all[i].id, i)

\* A record is registered under its raw id and numbered before its parents
\* are looked up.
Registered(i) == Put(idIds, all[i].id, i)

Numbered(i) == [all EXCEPT ![i].id = klassID]

\* Mutant: a parent that was rejected will do.
KnownThoughInvalid(i, x) == Lookup(Registered(i), x) # NoRecord

Known(i, x) ==
    LET k == Lookup(Registered(i), x) IN k # NoRecord /\ ~all[k].invalid

\* Mutant: a parent that is not known is forgotten.
ResolveOrForget(i, x) == IF Known(i, x) THEN Numbered(i)[Registered(i)[x]].id ELSE NONE

Resolve(i, x) == IF Known(i, x) THEN Numbered(i)[Registered(i)[x]].id ELSE x

\* The record with the parents that are known replaced, the others raw.
Resolved(i) ==
    [all[i] EXCEPT !.id = klassID,
                   !.super = IF @ = NONE THEN NONE ELSE Resolve(i, @),
                   !.interfaces = [k \in DOMAIN @ |-> Resolve(i, @[k])]]

ParentsKnown(i) ==
    /\ all[i].super = NONE \/ Known(i, all[i].super)
    /\ \A k \in DOMAIN all[i].interfaces : Known(i, all[i].interfaces[k])

\* The part of an iteration that every record goes through.
NumberRecord(i) ==
    /\ pc = "decode" /\ cursor = i /\ i \in 1..Len(all)
    /\ idIds' = Registered(i)
    /\ klassID' = klassID + 1
    /\ cursor' = i + 1
    /\ UNCHANGED <<lines, allNotFound, notFoundSet, nameid, fileVars>>

ObjectRecord == [all[1] EXCEPT !.id = klassID, !.super = NONE]

\* all.get(0) on an empty list, or "First should be java/lang/Object!".
NoObject ==
    /\ pc = "decode" /\ cursor = 1
    /\ ~(Len(all) > 0 /\ all[1].name = Object)
    /\ pc' = "failed"
    /\ UNCHANGED <<cursor, parseVars, decodeVars, klassID, fileVars>>

\* The first record is neither classified nor validated.
DecodeObject ==
    /\ NumberRecord(1) /\ all[1].name = Object
    /\ \E s \in DecodedSources(all[1].source) :
          /\ all' = [all EXCEPT ![1] = [ObjectRecord EXCEPT !.source = s]]
          /\ fatJarCache' = CacheExtracted(all[1].source, s)
    /\ UNCHANGED <<pc, eagerSet, appSet, signCache>>

\* Super and interfaces are known and valid: decode the source, validate it.
JudgeRecord(i) ==
    /\ NumberRecord(i) /\ i > 1 /\ ParentsKnown(i)
    /\ Classify(all[i])
    /\ \E s \in DecodedSources(all[i].source) : \E rejected \in Verdicts(s) :
          /\ all' = [all EXCEPT ![i] = [Resolved(i) EXCEPT !.source = s, !.invalid = rejected]]
          /\ fatJarCache' = CacheExtracted(all[i].source, s)
          /\ signCache' = CacheVerdict(s, rejected)
    /\ UNCHANGED pc

\* A parent is missing or invalid: so is the record.
OrphanRecord(i) ==
    /\ NumberRecord(i) /\ i > 1 /\ ~ParentsKnown(i)
    /\ Classify(all[i])
    /\ all' = [all EXCEPT ![i] = [Resolved(i) EXCEPT !.invalid = TRUE]]
    /\ UNCHANGED <<pc, fatJarCache, signCache>>

DecodeThrows(i) ==
    /\ NumberRecord(i) /\ DecodeMayThrow(all[i].source)
    /\ IF i = 1
       THEN /\ all[1].name = Object
            /\ all' = [all EXCEPT ![1] = ObjectRecord]
            /\ UNCHANGED <<eagerSet, appSet>>
       ELSE /\ ParentsKnown(i)
            /\ all' = [all EXCEPT ![i] = Resolved(i)]
            /\ Classify(all[i])
    /\ pc' = "failed"
    /\ UNCHANGED <<fatJarCache, signCache>>

EndDecode ==
    /\ pc = "decode" /\ cursor > 1 /\ cursor > Len(all)
    /\ pc' = "notFound" /\ cursor' = 1
    /\ UNCHANGED <<parseVars, decodeVars, klassID, fileVars>>

Decode ==
    \/ NoObject \/ DecodeObject \/ EndDecode
    \/ JudgeRecord(cursor) \/ OrphanRecord(cursor) \/ DecodeThrows(cursor)

-----------------------------------------------------------------------------
(* PrepareClassNotFoundList *)

\* Mutant: the counter stays where it is.
PrepareWithoutCounting ==
    /\ pc = "notFound" /\ cursor <= Len(allNotFound)
    /\ IF allNotFound[cursor].name \in appSet
       THEN allNotFound' = [allNotFound EXCEPT ![cursor].invalid = TRUE]
       ELSE allNotFound' = [allNotFound EXCEPT ![cursor].id = klassID]
    /\ cursor' = cursor + 1
    /\ UNCHANGED <<pc, lines, all, notFoundSet, nameid, decodeVars, klassID, fileVars>>

\* Mutant: the loop does not get past a class that is left out.
PrepareWithoutAdvance ==
    /\ pc = "notFound" /\ cursor <= Len(allNotFound)
    /\ IF allNotFound[cursor].name \in appSet
       THEN /\ allNotFound' = [allNotFound EXCEPT ![cursor].invalid = TRUE]
            /\ UNCHANGED <<klassID, cursor>>
       ELSE /\ allNotFound' = [allNotFound EXCEPT ![cursor].id = klassID]
            /\ klassID' = klassID + 1
            /\ cursor' = cursor + 1
    /\ UNCHANGED <<pc, lines, all, notFoundSet, nameid, decodeVars, fileVars>>

\* A class the application loader did load was not "not found"; the others
\* are numbered after the records.
PrepareNotFound ==
    /\ pc = "notFound" /\ cursor <= Len(allNotFound)
    /\ IF allNotFound[cursor].name \in appSet
       THEN /\ allNotFound' = [allNotFound EXCEPT ![cursor].invalid = TRUE]
            /\ UNCHANGED klassID
       ELSE /\ allNotFound' = [allNotFound EXCEPT ![cursor].id = klassID]
            /\ klassID' = klassID + 1
    /\ cursor' = cursor + 1
    /\ UNCHANGED <<pc, lines, all, notFoundSet, nameid, decodeVars, fileVars>>

EndNotFound ==
    /\ pc = "notFound" /\ cursor > Len(allNotFound)
    /\ pc' = "write" /\ cursor' = 1
    /\ UNCHANGED <<parseVars, decodeVars, klassID, fileVars>>

-----------------------------------------------------------------------------
(* WriteFinalClassList *)

\* ClassCDSDesc.write prints the parents of a class that has a source outside
\* the runtime image, and falls back on the defining hash.
HasParents(r) == HasForm(r.source, Forms \ {"jrt"})

ClassLine(r) ==
    [name |-> r.name, id |-> r.id,
     super |-> IF HasParents(r) THEN r.super ELSE NONE,
     interfaces |-> IF HasParents(r) THEN r.interfaces ELSE << >>,
     initiating |-> IF r.initiating # NONE THEN r.initiating ELSE r.defining,
     found |-> TRUE]

NotFoundLine(r) ==
    [name |-> r.name, id |-> r.id, super |-> NONE, interfaces |-> << >>,
     initiating |-> r.initiating, found |-> FALSE]

WriteClass ==
    /\ pc = "write" /\ cursor <= Len(all)
    /\ out' = IF all[cursor].invalid THEN out ELSE Append(out, ClassLine(all[cursor]))
    /\ cursor' = cursor + 1
    /\ UNCHANGED <<pc, parseVars, decodeVars, klassID, fingerprints, notFoundNames>>

EndWrite ==
    /\ pc = "write" /\ cursor > Len(all)
    /\ pc' = "writeNotFound" /\ cursor' = 1
    /\ UNCHANGED <<parseVars, decodeVars, klassID, fileVars>>

WriteNotFound ==
    /\ pc = "writeNotFound" /\ cursor <= Len(allNotFound)
    /\ out' = IF allNotFound[cursor].invalid THEN out
              ELSE Append(out, NotFoundLine(allNotFound[cursor]))
    /\ cursor' = cursor + 1
    /\ UNCHANGED <<pc, parseVars, decodeVars, klassID, fingerprints, notFoundNames>>

EndWriteNotFound ==
    /\ pc = "writeNotFound" /\ cursor > Len(allNotFound)
    /\ pc' = IF StaticDiff THEN "fingerprint" ELSE "done"
    /\ cursor' = 1
    /\ UNCHANGED <<parseVars, decodeVars, klassID, fileVars>>

-----------------------------------------------------------------------------
(* ParseOriginClassList.genFingerprintFile, FingerprintFile.addClassRecord *)

\* Mutant: only the parents that the final list prints.
ClassDescAsPrinted(r) ==
    [name |-> r.name, id |-> r.id, super |-> IF HasParents(r) THEN r.super ELSE NONE,
     interfaces |-> IF HasParents(r) THEN r.interfaces ELSE << >>]

ClassDesc(r) ==
    [name |-> r.name, id |-> r.id, super |-> r.super, interfaces |-> r.interfaces]

\* Every record is described, the invalid ones too, if its origin is a file;
\* accept dereferences an origin that is absent.
AddFingerprint ==
    /\ pc = "fingerprint" /\ cursor <= Len(all)
    /\ fingerprints' = IF all[cursor].origin = "file"
                       THEN Append(fingerprints, ClassDesc(all[cursor]))
                       ELSE fingerprints
    /\ pc' = IF all[cursor].origin = NONE THEN "failed" ELSE pc
    /\ cursor' = cursor + 1
    /\ UNCHANGED <<parseVars, decodeVars, klassID, out, notFoundNames>>

EndFingerprint ==
    /\ pc = "fingerprint" /\ cursor > Len(all)
    /\ notFoundNames' = [k \in DOMAIN allNotFound |-> allNotFound[k].name]
    /\ pc' = "done"
    /\ UNCHANGED <<cursor, parseVars, decodeVars, klassID, out, fingerprints>>

-----------------------------------------------------------------------------

Next ==
    \/ Parse \/ Decode
    \/ PrepareNotFound \/ EndNotFound
    \/ WriteClass \/ EndWrite \/ WriteNotFound \/ EndWriteNotFound
    \/ AddFingerprint \/ EndFingerprint

\* One thread runs the workers and nothing makes it wait.
Spec == Init /\ [][Next]_vars /\ WF_vars(Next)

-----------------------------------------------------------------------------
(* Properties *)

Workers == {"parse", "decode", "notFound", "write", "writeNotFound", "fingerprint"}

OutLine == [name : Names, id : Ids \cup {NONE}, super : Ids \cup {NONE},
            interfaces : Seq(Ids), initiating : Hashes \cup {NONE}, found : BOOLEAN]

Desc == [name : Names, id : Ids, super : Ids \cup {NONE}, interfaces : Seq(Ids)]

\* The type of every variable: what each Java collection may hold.
TypeOK ==
    /\ pc \in Workers \cup {"done", "failed"} /\ cursor \in Nat \ {0}
    /\ lines \in Seq(Lines) /\ Len(lines) <= MaxLines
    /\ all \in Seq(Record) /\ allNotFound \in Seq(NotFoundRecord)
    /\ notFoundSet \subseteq Names \X (Hashes \cup {NONE})
    /\ \A k \in DOMAIN nameid : nameid[k] \in 1..Len(all)
    /\ DOMAIN idIds \subseteq Ids
    /\ \A x \in DOMAIN idIds : idIds[x] \in 1..Len(all)
    /\ eagerSet \subseteq Names /\ appSet \subseteq Names
    /\ klassID \in Nat
    /\ fatJarCache \subseteq Paths
    /\ DOMAIN signCache \subseteq Paths
    /\ \A f \in DOMAIN signCache : signCache[f] \in BOOLEAN
    /\ out \in Seq(OutLine) /\ fingerprints \in Seq(Desc) /\ notFoundNames \in Seq(Names)

Parents(r) == ({r.super} \ {NONE}) \cup {r.interfaces[k] : k \in DOMAIN r.interfaces}

\* The JVM resolves "super:" and "interfaces:" against the ids it has already
\* read: every parent a line of the final list names is the id of an earlier
\* class of that list.
WrittenClosed ==
    \A k \in 1..Len(out) : \A x \in Parents(out[k]) :
        \E j \in 1..(k - 1) : out[j].found /\ out[j].id = x

\* Ids come from one counter, for records and for not-found classes: along
\* the final list they are numbers that increase, so no two lines share one.
WrittenIdsIncrease ==
    \A k \in 1..Len(out) :
        /\ out[k].id \in Nat
        /\ \A j \in 1..(k - 1) : out[j].id < out[k].id

\* What the final list should hold, from the lines read and the verdicts on
\* the jars alone.  Klass record i comes from the i-th klass line.
KlassLines == {p \in DOMAIN lines : IsKlass(lines[p])}

Count(p) == Cardinality({q \in KlassLines : q <= p})

Position(i) == CHOOSE p \in KlassLines : Count(p) = i

Klasses == [i \in 1..Cardinality(KlassLines) |-> lines[Position(i)]]

Latest(S) == IF S = {} THEN NoRecord ELSE CHOOSE k \in S : \A m \in S : m <= k

\* The class that had the raw id x when klass line i was written: addresses
\* are reused, so it is the latest one before i.
ParentOf(i, x) == Latest({k \in 1..(i - 1) : Klasses[k].id = x})

Rejected(i) == \E f \in DOMAIN signCache :
    signCache[f] /\ HasForm(all[i].source, {"path"}) /\ all[i].source.main = f

\* The largest set of classes that holds all the parents of its members and
\* none from a rejected jar; the first class is always in it.
Kept == UNION {V \in SUBSET DOMAIN Klasses : \A i \in V \ {1} :
                  /\ ~Rejected(i)
                  /\ \A x \in Parents(Klasses[i]) : ParentOf(i, x) \in V}

KeptParents(i) == IF i = 1 THEN {} ELSE {ParentOf(i, x) : x \in Parents(Klasses[i])}

\* A class is written if and only if neither it nor an ancestor of it is
\* missing or rejected, under its position as id, and its parents are the
\* classes its raw ids meant.  One verdict is applied to all of a jar.
WrittenExact ==
    pc = "writeNotFound" =>
        /\ {out[k].id : k \in {m \in DOMAIN out : out[m].found}} = Kept
        /\ \A k \in DOMAIN out : out[k].found =>
              /\ out[k].name = Klasses[out[k].id].name
              /\ Parents(out[k]) = IF HasParents(all[out[k].id]) THEN KeptParents(out[k].id) ELSE {}

\* With static diff on, every written class that came from a file is in the
\* fingerprint file under the id of the final list, with all of its parents,
\* also those the final list does not print.
FingerprintComplete ==
    pc = "done" /\ StaticDiff =>
        \A i \in Kept : Klasses[i].origin = "file" =>
            \E d \in DOMAIN fingerprints :
                /\ fingerprints[d].id = i
                /\ fingerprints[d].name = Klasses[i].name
                /\ Parents(fingerprints[d]) = KeptParents(i)

\* The lines that complete klass record i: those with its key before another
\* record takes the key over.
Completions(i) == {q \in DOMAIN lines :
    /\ q > Position(i) /\ IsInitiating(lines[q])
    /\ Key(lines[q]) = Key(Klasses[i])
    /\ \A m \in (Position(i) + 1)..q : IsKlass(lines[m]) => Key(lines[m]) # Key(Klasses[i])}

FirstCompletion(i) == CHOOSE q \in Completions(i) : \A m \in Completions(i) : q <= m

InitiatingOf(i) ==
    IF Completions(i) = {} THEN Klasses[i].defining ELSE lines[FirstCompletion(i)].initiating

\* A class is written with the initiating loader of the first line that
\* completes it, or its defining loader: later lines do not take it over.
InitiatingExact ==
    pc = "done" => \A k \in DOMAIN out :
        out[k].found => out[k].initiating = InitiatingOf(out[k].id)

\* The application loader has a class if, of the classes with a source under
\* that name, it defined the first (the first record of all does not count).
LoadedByApp(name) ==
    \E i \in 2..Len(Klasses) :
        /\ Klasses[i].name = name /\ Klasses[i].source # NONE /\ Klasses[i].defining = NONE
        /\ \A k \in 2..(i - 1) : Klasses[k].name # name \/ Klasses[k].source = NONE

\* The not-found classes written are those the profiled JVM reported, once
\* per initiating loader, less the names the application loader did load.
NotFoundExact ==
    pc = "done" =>
        LET missed == {m \in DOMAIN out : ~out[m].found}
            asked  == {p \in DOMAIN lines : IsNotFound(lines[p]) /\ ~LoadedByApp(lines[p].name)}
        IN  /\ {<<out[m].name, out[m].initiating>> : m \in missed}
                  = {<<lines[p].name, lines[p].initiating>> : p \in asked}
            /\ \A m, n \in missed : <<out[m].name, out[m].initiating>>
                                    = <<out[n].name, out[n].initiating>> => m = n

\* The pipeline comes to an end, whatever the class list holds.
Termination == <>(pc \in {"done", "failed"})

-----------------------------------------------------------------------------
(* The inductive invariant behind WrittenClosed and WrittenIdsIncrease.    *)

\* The records SourceDecoder is done with.
Processed == CASE pc = "parse" -> 0
               [] pc = "decode" -> cursor - 1
               [] OTHER -> Len(all)

\* The not-found records PrepareClassNotFoundList is done with.
Prepared == CASE pc \in {"parse", "decode"} -> 0
              [] pc = "notFound" -> cursor - 1
              [] OTHER -> Len(allNotFound)

\* Records in their raw form; nothing refers to itself.
RawInv ==
    \A i \in (Processed + 1)..Len(all) :
        /\ ~all[i].invalid
        /\ all[i].id \notin Parents(all[i])
        /\ all[i].name = Object => all[i].interfaces = << >>

\* The id of a record is its position, and the counter is ahead of all ids.
NumberInv ==
    /\ pc = "parse" => cursor = 1 /\ klassID = 1 /\ DOMAIN idIds = {}
    /\ pc = "decode" => /\ klassID = cursor /\ cursor <= Len(all) + 1
                        /\ \A x \in DOMAIN idIds : idIds[x] < cursor
    /\ Processed < klassID
    /\ \A i \in 1..Processed : all[i].id = i

\* The parents of a valid record are valid records before it.
ParentInv ==
    \A i \in 1..Processed : ~all[i].invalid =>
        \A x \in Parents(all[i]) : x \in 1..(i - 1) /\ ~all[x].invalid

\* Not-found records are numbered after the records and in their own order.
NotFoundInv ==
    \A m \in 1..Prepared : ~allNotFound[m].invalid =>
        /\ allNotFound[m].id \in (Len(all) + 1)..(klassID - 1)
        /\ \A n \in 1..(m - 1) : ~allNotFound[n].invalid => allNotFound[n].id < allNotFound[m].id

\* What has been written at each point of WriteFinalClassList.
WriteInv ==
    /\ pc \in {"parse", "decode", "notFound"} => out = << >>
    /\ pc = "write" =>
          /\ \A k \in 1..Len(out) : out[k].found /\ out[k].id \in Nat /\ out[k].id < cursor
          /\ \A i \in 1..Len(all) : i < cursor /\ ~all[i].invalid =>
                \E k \in 1..Len(out) : out[k].id = i
          /\ cursor <= Len(all) + 1
    /\ pc = "writeNotFound" =>
          \A k \in 1..Len(out) :
              \/ out[k].found /\ out[k].id \in Nat /\ out[k].id <= Len(all)
              \/ \E m \in 1..Len(allNotFound) :
                    /\ m < cursor /\ ~allNotFound[m].invalid /\ out[k].id = allNotFound[m].id

IndInv ==
    /\ pc \notin {"done", "failed"} => RawInv /\ NumberInv /\ ParentInv /\ NotFoundInv /\ WriteInv
    /\ WrittenClosed /\ WrittenIdsIncrease

-----------------------------------------------------------------------------
(* The inductive invariant behind WrittenExact, FingerprintComplete,       *)
(* InitiatingExact and NotFoundExact: what each collection holds of the    *)
(* lines that have been read.                                              *)

\* Klass lines can be numbered.
PositionInv == \A i \in 1..Cardinality(KlassLines) : \E p \in KlassLines : Count(p) = i

\* There is one record for each klass line, and it is raw until SourceDecoder
\* gets to it.
RecordInv ==
    /\ Len(all) = Cardinality(KlassLines)
    /\ \A i \in 1..Len(all) :
          /\ Klasses[i].id # NONE
          /\ all[i].name = Klasses[i].name /\ all[i].origin = Klasses[i].origin
          /\ all[i].defining = Klasses[i].defining
          /\ i > Processed => /\ all[i].id = Klasses[i].id /\ all[i].super = Klasses[i].super
                              /\ all[i].interfaces = Klasses[i].interfaces
                              /\ all[i].source = Klasses[i].source

\* nameid has the latest record under each key.
KeyInv ==
    /\ \A key \in DOMAIN nameid : Key(Klasses[nameid[key]]) = key
    /\ \A i \in 1..Len(all) :
          Key(Klasses[i]) \in DOMAIN nameid /\ i <= nameid[Key(Klasses[i])]

\* A record has the initiating loader of the first line that completes it.
CompletionInv ==
    \A i \in 1..Len(all) :
        \/ Completions(i) = {} /\ all[i].initiating = NONE
        \/ \E q \in Completions(i) :
              /\ \A m \in Completions(i) : q <= m
              /\ all[i].initiating = lines[q].initiating

\* idIds has the latest decoded record under each address.
AddressInv ==
    /\ \A x \in DOMAIN idIds : idIds[x] \in 1..Processed /\ Klasses[idIds[x]].id = x
    /\ \A i \in 1..Processed : Klasses[i].id \in DOMAIN idIds /\ i <= idIds[Klasses[i].id]

\* A parent of class i is missing or has been rejected.
Orphan(i) == \E x \in Parents(Klasses[i]) :
    ParentOf(i, x) = NoRecord \/ all[ParentOf(i, x)].invalid

\* A decoded record is invalid for a reason, and a valid one has its parents
\* and a jar that has been looked at.
ValidInv ==
    \A i \in 1..Processed :
        /\ all[i].invalid <=> i # 1 /\ (Rejected(i) \/ Orphan(i))
        /\ ~all[i].invalid => Parents(all[i]) = KeptParents(i)
        /\ i # 1 /\ ~all[i].invalid /\ HasForm(all[i].source, {"path"}) =>
              all[i].source.main \in DOMAIN signCache

\* Class i is the first of its name with a source, the first record aside.
FirstOfName(i) ==
    /\ Klasses[i].source # NONE
    /\ \A k \in 2..(i - 1) : Klasses[k].name # Klasses[i].name \/ Klasses[k].source = NONE

\* The two sets have each name under the loader that came first.
LoaderInv ==
    /\ appSet = {Klasses[i].name : i \in {k \in 2..Processed : FirstOfName(k) /\ Klasses[k].defining = NONE}}
    /\ eagerSet = {Klasses[i].name : i \in {k \in 2..Processed : FirstOfName(k) /\ Klasses[k].defining # NONE}}
    /\ \A k \in 2..Processed : Klasses[k].source # NONE => Klasses[k].name \in appSet \cup eagerSet

Pair(x) == <<x.name, x.initiating>>

\* The not-found records are the not-found lines, once, and invalid if their
\* name is one of the application loader.
MissedInv ==
    /\ notFoundSet = {Pair(lines[p]) : p \in {q \in DOMAIN lines : IsNotFound(lines[q])}}
    /\ notFoundSet = {Pair(allNotFound[m]) : m \in DOMAIN allNotFound}
    /\ \A m, n \in DOMAIN allNotFound : Pair(allNotFound[m]) = Pair(allNotFound[n]) => m = n
    /\ \A m \in DOMAIN allNotFound :
          allNotFound[m].invalid <=> m <= Prepared /\ allNotFound[m].name \in appSet

\* The records and the not-found records whose lines have been written.
Written == CASE pc = "write" -> cursor - 1
             [] pc \in {"writeNotFound", "fingerprint", "done"} -> Len(all)
             [] OTHER -> 0

WrittenNotFound == CASE pc = "writeNotFound" -> cursor - 1
                     [] pc \in {"fingerprint", "done"} -> Len(allNotFound)
                     [] OTHER -> 0

\* The final list has the lines of the valid ones among them.
OutInv ==
    /\ \A k \in 1..Len(out) :
          IF out[k].found
          THEN out[k].id \in 1..Len(all) /\ ~all[out[k].id].invalid /\ out[k] = ClassLine(all[out[k].id])
          ELSE \E m \in 1..Len(allNotFound) :
                  ~allNotFound[m].invalid /\ out[k] = NotFoundLine(allNotFound[m])
    /\ \A i \in 1..Written : ~all[i].invalid =>
          \E k \in 1..Len(out) : out[k] = ClassLine(all[i])
    /\ \A m \in 1..WrittenNotFound : ~allNotFound[m].invalid =>
          \E k \in 1..Len(out) : out[k] = NotFoundLine(allNotFound[m])

\* The records that have been looked at for the fingerprint file.
Looked == CASE pc = "fingerprint" -> cursor - 1
            [] pc = "done" /\ StaticDiff -> Len(all)
            [] OTHER -> 0

\* The file describes those that come from files.
FileInv ==
    /\ \A d \in 1..Len(fingerprints) :
          /\ fingerprints[d].id \in 1..Len(all)
          /\ all[fingerprints[d].id].origin = "file"
          /\ fingerprints[d] = ClassDesc(all[fingerprints[d].id])
    /\ pc \notin {"fingerprint", "done"} => fingerprints = << >>
    /\ \A i \in 1..Looked : all[i].origin = "file" =>
          \E d \in 1..Len(fingerprints) : fingerprints[d].id = i

ExactInv ==
    /\ PositionInv
    /\ pc # "failed" =>
          /\ RecordInv /\ KeyInv /\ CompletionInv /\ AddressInv /\ ValidInv
          /\ LoaderInv /\ MissedInv /\ OutInv /\ FileInv

=============================================================================
