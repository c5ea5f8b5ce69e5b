---------------------- MODULE ClassListTransform_proofs ----------------------
(***************************************************************************)
(* Theorems about ClassListTransform for every set of lines, every bound   *)
(* on the class list and every outcome of extraction and signature check.  *)
(***************************************************************************)
EXTENDS ClassListTransform, FiniteSetTheorems, WellFoundedInduction, TLAPS

LEMMA PutFacts ==
    ASSUME NEW map, NEW key, NEW value
    PROVE  /\ DOMAIN Put(map, key, value) = DOMAIN map \cup {key}
           /\ \A k \in DOMAIN map \cup {key} :
                 Put(map, key, value)[k] = IF k = key THEN value ELSE map[k]
BY DEF Put

\* Replacing elements of a sequence one by one keeps its length.
LEMMA SeqMap ==
    ASSUME NEW S, NEW T, NEW s \in Seq(S), NEW f \in [DOMAIN s -> T]
    PROVE  f \in Seq(T) /\ Len(f) = Len(s)
<1>1. DOMAIN s = 1..Len(s) /\ Len(s) \in Nat
  OBVIOUS
<1>2. f \in [1..Len(s) -> T]
  BY <1>1
<1>. QED
  BY <1>1, <1>2

LEMMA SeqUpdate ==
    ASSUME NEW S, NEW s \in Seq(S), NEW i \in 1..Len(s), NEW e \in S
    PROVE  /\ [s EXCEPT ![i] = e] \in Seq(S)
           /\ Len([s EXCEPT ![i] = e]) = Len(s)
           /\ \A k \in 1..Len(s) : [s EXCEPT ![i] = e][k] = IF k = i THEN e ELSE s[k]
OBVIOUS

\* A line of the file yields a well-formed record.
LEMMA NewRecordType ==
    ASSUME NEW l \in Lines, l.id # NONE
    PROVE  NewRecord(l) \in Record
BY LinesAssumption DEF NewRecord, Record, Line, Ids

LEMMA NewNotFoundType ==
    ASSUME NEW l \in Lines
    PROVE  NewNotFound(l) \in NotFoundRecord
BY LinesAssumption DEF NewNotFound, NotFoundRecord, Line

LEMMA DecodedType ==
    ASSUME NEW s \in Source \cup {NONE}, NEW t \in DecodedSources(s)
    PROVE  t \in Source \cup {NONE}
<1>1. CASE s = NONE
  BY <1>1 DEF DecodedSources
<1>2. CASE s # NONE
  <2>1. s \in Source
    BY <1>2
  <2>2. CASE s.form \in {"file", "jarFile"}
    BY <1>2, <2>1, <2>2 DEF DecodedSources, Source, Forms
  <2>3. CASE s.form = "fatJar"
    BY <1>2, <2>1, <2>3 DEF DecodedSources, Source, Forms
  <2>4. CASE s.form = "fileDir"
    BY <1>2, <2>1, <2>4 DEF DecodedSources, Source, Forms
  <2>5. CASE s.form \notin {"file", "jarFile", "fatJar", "fileDir"}
    BY <1>2, <2>1, <2>5 DEF DecodedSources
  <2>. QED
    BY <2>2, <2>3, <2>4, <2>5
<1>. QED
  BY <1>1, <1>2

LEMMA CacheExtractedType ==
    ASSUME NEW s \in Source \cup {NONE}, NEW t, fatJarCache \subseteq Paths
    PROVE  CacheExtracted(s, t) \subseteq Paths
BY ConstantsAssumption DEF CacheExtracted, Source, HasForm

LEMMA CacheVerdictType ==
    ASSUME NEW s \in Source \cup {NONE}, NEW rejected \in BOOLEAN,
           DOMAIN signCache \subseteq Paths,
           \A f \in DOMAIN signCache : signCache[f] \in BOOLEAN
    PROVE  /\ DOMAIN CacheVerdict(s, rejected) \subseteq Paths
           /\ \A f \in DOMAIN CacheVerdict(s, rejected) : CacheVerdict(s, rejected)[f] \in BOOLEAN
<1>1. CASE HasForm(s, {"path"})
  <2>1. s.main \in Paths
    BY <1>1, ConstantsAssumption DEF HasForm, Source
  <2>. QED
    BY <1>1, <2>1 DEF CacheVerdict, Put
<1>2. CASE ~HasForm(s, {"path"})
  BY <1>2 DEF CacheVerdict
<1>. QED
  BY <1>1, <1>2

LEMMA VerdictsType ==
    ASSUME NEW s, NEW rejected \in Verdicts(s),
           \A f \in DOMAIN signCache : signCache[f] \in BOOLEAN
    PROVE  rejected \in BOOLEAN
BY DEF Verdicts

-----------------------------------------------------------------------------
(* What one iteration of SourceDecoder computes. *)

LEMMA AllFacts ==
    ASSUME TypeOK
    PROVE  /\ all \in Seq(Record) /\ Len(all) \in Nat /\ klassID \in Nat
           /\ \A i \in 1..Len(all) : all[i] \in Record /\ all[i].id \in Ids
<1>1. all \in Seq(Record) /\ klassID \in Nat
  BY DEF TypeOK
<1>2. \A i \in 1..Len(all) : all[i] \in Record
  BY <1>1
<1>3. \A r \in Record : r.id \in Ids
  BY DEF Record
<1>. QED
  BY <1>1, <1>2, <1>3

LEMMA RegisteredFacts ==
    ASSUME TypeOK, NEW i \in 1..Len(all)
    PROVE  /\ DOMAIN Registered(i) = DOMAIN idIds \cup {all[i].id}
           /\ DOMAIN Registered(i) \subseteq Ids
           /\ \A x \in DOMAIN Registered(i) :
                 /\ Registered(i)[x] = IF x = all[i].id THEN i ELSE idIds[x]
                 /\ Registered(i)[x] \in 1..Len(all)
<1>1. all[i].id \in Ids
  BY AllFacts
<1>2. /\ DOMAIN idIds \subseteq Ids
      /\ \A x \in DOMAIN idIds : idIds[x] \in 1..Len(all)
  BY DEF TypeOK
<1>. QED
  BY <1>1, <1>2 DEF Registered, Put

LEMMA NumberedFacts ==
    ASSUME TypeOK, NEW i \in 1..Len(all)
    PROVE  /\ Numbered(i) \in Seq(Record) /\ Len(Numbered(i)) = Len(all)
           /\ \A k \in 1..Len(all) :
                 Numbered(i)[k].id = IF k = i THEN klassID ELSE all[k].id
<1>1. [all[i] EXCEPT !.id = klassID] \in Record
      /\ [all[i] EXCEPT !.id = klassID].id = klassID
  BY AllFacts DEF Record, Ids
<1>2. Numbered(i) = [all EXCEPT ![i] = [all[i] EXCEPT !.id = klassID]]
  BY DEF Numbered
<1>. QED
  BY <1>1, <1>2, AllFacts, SeqUpdate

\* An id that is looked up with success belongs to a record at most the current.
LEMMA KnownFacts ==
    ASSUME TypeOK, NEW i \in 1..Len(all), NEW x, Known(i, x)
    PROVE  /\ x \in DOMAIN Registered(i)
           /\ Registered(i)[x] \in 1..Len(all)
           /\ ~all[Registered(i)[x]].invalid
           /\ Resolve(i, x) = Numbered(i)[Registered(i)[x]].id
BY RegisteredFacts DEF Known, Lookup, Resolve, NoRecord

LEMMA ResolveType ==
    ASSUME TypeOK, NEW i \in 1..Len(all), NEW x \in Ids
    PROVE  Resolve(i, x) \in Ids
<1>1. CASE Known(i, x)
  BY <1>1, KnownFacts, NumberedFacts, AllFacts DEF Ids
<1>2. CASE ~Known(i, x)
  BY <1>2 DEF Resolve
<1>. QED
  BY <1>1, <1>2

LEMMA ResolvedFacts ==
    ASSUME TypeOK, NEW i \in 1..Len(all)
    PROVE  /\ Resolved(i) \in Record
           /\ Resolved(i).id = klassID
           /\ Resolved(i).super = IF all[i].super = NONE THEN NONE ELSE Resolve(i, all[i].super)
           /\ Resolved(i).interfaces
                 = [k \in DOMAIN all[i].interfaces |-> Resolve(i, all[i].interfaces[k])]
           /\ Resolved(i).invalid = all[i].invalid
<1> DEFINE r == all[i]
           itf == [k \in DOMAIN r.interfaces |-> Resolve(i, r.interfaces[k])]
<1>1. r \in Record
  BY DEF TypeOK
<1>2. itf \in Seq(Ids)
  <2>1. r.interfaces \in Seq(Ids)
    BY <1>1 DEF Record
  <2>2. \A k \in DOMAIN r.interfaces : Resolve(i, r.interfaces[k]) \in Ids
    BY <2>1, ResolveType
  <2>3. itf \in [DOMAIN r.interfaces -> Ids]
    BY <2>2
  <2>. QED
    BY <2>1, <2>3, SeqMap
<1>3. r.super # NONE => Resolve(i, r.super) \in Ids
  BY <1>1, ResolveType DEF Record
<1>4. klassID \in Ids
  BY DEF TypeOK, Ids
<1>5. Resolved(i) = [r EXCEPT !.id = klassID,
                              !.super = IF r.super = NONE THEN NONE ELSE Resolve(i, r.super),
                              !.interfaces = itf]
  BY <1>1 DEF Resolved, Record
<1>. HIDE DEF itf
<1>6. Resolved(i) \in Record /\ Resolved(i).id = klassID /\ Resolved(i).interfaces = itf
      /\ Resolved(i).invalid = r.invalid
      /\ Resolved(i).super = IF r.super = NONE THEN NONE ELSE Resolve(i, r.super)
  BY <1>1, <1>2, <1>3, <1>4, <1>5 DEF Record
<1>. QED
  BY <1>6 DEF itf

-----------------------------------------------------------------------------
(* Type correctness, action by action. *)

LEMMA ReadType ==
    ASSUME TypeOK, NEW l \in Lines, Read(l)
    PROVE  /\ lines' \in Seq(Lines) /\ Len(lines') <= MaxLines
           /\ l.name \in Names /\ l.initiating \in Hashes \cup {NONE}
<1>1. lines \in Seq(Lines) /\ Len(lines) < MaxLines /\ lines' = Append(lines, l)
  BY DEF TypeOK, Read
<1>2. l.name \in Names /\ l.initiating \in Hashes \cup {NONE}
  BY LinesAssumption DEF Line
<1>. QED
  BY <1>1, <1>2, ConstantsAssumption

LEMMA ParseType == TypeOK /\ Parse => TypeOK'
<1> SUFFICES ASSUME TypeOK, Parse PROVE TypeOK'
  OBVIOUS
<1>1. ASSUME NEW l \in Lines, SkipLine(l) PROVE TypeOK'
  BY <1>1, ReadType DEF SkipLine, Read, TypeOK, decodeVars, fileVars
<1>2. ASSUME NEW l \in Lines, CompleteRecord(l) PROVE TypeOK'
  <2> DEFINE i == Lookup(nameid, Key(l))
  <2>1. l.initiating \in Hashes
    BY <1>2, LinesAssumption DEF CompleteRecord, IsInitiating, Line
  <2>2. all' \in Seq(Record) /\ Len(all') = Len(all)
    <3>1. CASE i # NoRecord /\ all[i].initiating = NONE
      <4>1. i \in 1..Len(all)
        BY <3>1 DEF Lookup, TypeOK
      <4>2. [all[i] EXCEPT !.initiating = l.initiating] \in Record
        BY <2>1, <4>1, AllFacts DEF Record
      <4>3. all' = [all EXCEPT ![i] = [all[i] EXCEPT !.initiating = l.initiating]]
        BY <1>2, <3>1 DEF CompleteRecord
      <4>. QED
        BY <4>1, <4>2, <4>3, AllFacts, SeqUpdate
    <3>2. CASE ~(i # NoRecord /\ all[i].initiating = NONE)
      BY <1>2, <3>2, AllFacts DEF CompleteRecord
    <3>. QED
      BY <3>1, <3>2
  <2>. QED
    BY <1>2, <2>2, ReadType DEF CompleteRecord, Read, TypeOK, decodeVars, fileVars
<1>3. ASSUME NEW l \in Lines, AddNotFound(l) PROVE TypeOK'
  <2>1. allNotFound' \in Seq(NotFoundRecord)
    <3>1. allNotFound \in Seq(NotFoundRecord) /\ NewNotFound(l) \in NotFoundRecord
      BY NewNotFoundType DEF TypeOK
    <3>2. allNotFound' \in {allNotFound, Append(allNotFound, NewNotFound(l))}
      BY <1>3 DEF AddNotFound
    <3>. QED
      BY <3>1, <3>2
  <2>2. notFoundSet' \subseteq Names \X (Hashes \cup {NONE})
    BY <1>3, ReadType DEF AddNotFound, TypeOK
  <2>. QED
    BY <1>3, <2>1, <2>2, ReadType DEF AddNotFound, Read, TypeOK, decodeVars, fileVars
<1>4. ASSUME NEW l \in Lines, AddRecord(l) PROVE TypeOK'
  <2>1. NewRecord(l) \in Record /\ all \in Seq(Record) /\ all' = Append(all, NewRecord(l))
    BY <1>4, NewRecordType, AllFacts DEF AddRecord
  <2>2. all' \in Seq(Record) /\ Len(all') = Len(all) + 1 /\ Len(all) \in Nat
    BY <2>1
  <2>3. \A k \in DOMAIN nameid' : nameid'[k] \in 1..Len(all')
    BY <1>4, <2>2 DEF AddRecord, TypeOK, Put
  <2>. QED
    BY <1>4, <2>2, <2>3, ReadType DEF AddRecord, Read, TypeOK, decodeVars, fileVars
<1>5. ASSUME NEW l \in Lines, MissingId(l) PROVE TypeOK'
  BY <1>5, ReadType DEF MissingId, Read, TypeOK, decodeVars, fileVars
<1>6. ASSUME NEW l \in Lines, BlankLine(l) PROVE TypeOK'
  BY <1>6, ReadType DEF BlankLine, Read, TypeOK, Workers, decodeVars, fileVars
<1>7. CASE EndOfFile
  BY <1>7 DEF EndOfFile, TypeOK, Workers, parseVars, decodeVars, fileVars
<1>. QED
  BY <1>1, <1>2, <1>3, <1>4, <1>5, <1>6, <1>7 DEF Parse

\* What every iteration of SourceDecoder assigns apart from the record, the
\* two caches and the two sets.
LEMMA NumberRecordType ==
    ASSUME TypeOK, NEW i, NumberRecord(i)
    PROVE  /\ i \in 1..Len(all) /\ cursor' = i + 1 /\ klassID' = klassID + 1
           /\ DOMAIN idIds' \subseteq Ids
           /\ \A x \in DOMAIN idIds' : idIds'[x] \in 1..Len(all)
BY RegisteredFacts DEF NumberRecord

LEMMA ClassifyType ==
    ASSUME TypeOK, NEW r \in Record, Classify(r)
    PROVE  eagerSet' \subseteq Names /\ appSet' \subseteq Names
BY DEF TypeOK, Classify, Record

LEMMA RecordUpdateType ==
    ASSUME TypeOK, NEW i \in 1..Len(all), NEW r \in Record,
           NEW s \in Source \cup {NONE}, NEW b \in BOOLEAN
    PROVE  /\ [r EXCEPT !.source = s] \in Record
           /\ [r EXCEPT !.invalid = b] \in Record
           /\ [r EXCEPT !.source = s, !.invalid = b] \in Record
BY DEF Record

LEMMA ObjectRecordFacts ==
    ASSUME TypeOK, 1 \in 1..Len(all)
    PROVE  /\ ObjectRecord \in Record /\ ObjectRecord.id = klassID
           /\ ObjectRecord.super = NONE /\ ObjectRecord.interfaces = all[1].interfaces
           /\ ObjectRecord.invalid = all[1].invalid
<1>1. all[1] \in Record /\ klassID \in Ids
  BY AllFacts DEF Ids
<1>2. ObjectRecord = [[all[1] EXCEPT !.id = klassID] EXCEPT !.super = NONE]
  BY DEF ObjectRecord
<1>3. [all[1] EXCEPT !.id = klassID] \in Record
  BY <1>1 DEF Record
<1>4. ObjectRecord \in Record
  BY <1>2, <1>3 DEF Record
<1>5. /\ ObjectRecord.id = klassID /\ ObjectRecord.super = NONE
      /\ ObjectRecord.interfaces = all[1].interfaces
      /\ ObjectRecord.invalid = all[1].invalid
  BY <1>1 DEF ObjectRecord, Record
<1>. QED
  BY <1>4, <1>5

\* The types that do not depend on the record an iteration leaves.
LEMMA DecodeStepType ==
    ASSUME TypeOK, NEW i, NumberRecord(i), NEW r \in Record, all' = [all EXCEPT ![i] = r],
           eagerSet' \subseteq Names, appSet' \subseteq Names, fatJarCache' \subseteq Paths,
           DOMAIN signCache' \subseteq Paths,
           \A f \in DOMAIN signCache' : signCache'[f] \in BOOLEAN,
           pc' \in {pc, "failed"}
    PROVE  TypeOK'
<1>1. all' \in Seq(Record) /\ Len(all') = Len(all) /\ i \in Nat
  BY NumberRecordType, AllFacts, SeqUpdate
<1>. QED
  BY <1>1, NumberRecordType DEF TypeOK, NumberRecord, fileVars

LEMMA DecodeType == TypeOK /\ Decode => TypeOK'
<1> SUFFICES ASSUME TypeOK, Decode PROVE TypeOK'
  OBVIOUS
<1>. DEFINE i == cursor
<1>0. /\ fatJarCache \subseteq Paths /\ DOMAIN signCache \subseteq Paths
      /\ \A f \in DOMAIN signCache : signCache[f] \in BOOLEAN
      /\ eagerSet \subseteq Names /\ appSet \subseteq Names
  BY DEF TypeOK
<1>r. ASSUME i \in 1..Len(all)
      PROVE  all[i] \in Record /\ all[i].source \in Source \cup {NONE}
             /\ all[i].invalid \in BOOLEAN /\ Resolved(i) \in Record
  BY <1>r, AllFacts, ResolvedFacts DEF Record
<1>1. CASE NoObject
  BY <1>1 DEF NoObject, TypeOK, parseVars, decodeVars, fileVars
<1>2. CASE DecodeObject
  <2>1. 1 \in 1..Len(all) /\ NumberRecord(1)
    BY <1>2, NumberRecordType DEF DecodeObject
  <2>2. PICK s \in DecodedSources(all[1].source) :
           /\ all' = [all EXCEPT ![1] = [ObjectRecord EXCEPT !.source = s]]
           /\ fatJarCache' = CacheExtracted(all[1].source, s)
    BY <1>2 DEF DecodeObject
  <2>3. all[1].source \in Source \cup {NONE}
    BY <2>1, AllFacts DEF Record
  <2>4. s \in Source \cup {NONE}
    BY <2>3, DecodedType
  <2>5. [ObjectRecord EXCEPT !.source = s] \in Record
    BY <2>1, <2>4, ObjectRecordFacts, RecordUpdateType
  <2>6. fatJarCache' \subseteq Paths
    BY <1>0, <2>2, <2>3, CacheExtractedType
  <2>7. UNCHANGED <<pc, eagerSet, appSet, signCache>>
    BY <1>2 DEF DecodeObject
  <2>. QED
    BY <1>0, <2>1, <2>2, <2>5, <2>6, <2>7, DecodeStepType
<1>3. CASE EndDecode
  BY <1>3 DEF EndDecode, TypeOK, Workers, parseVars, decodeVars, fileVars
<1>4. CASE JudgeRecord(i)
  <2>1. i \in 1..Len(all) /\ NumberRecord(i) /\ Classify(all[i]) /\ UNCHANGED pc
    BY <1>4, NumberRecordType DEF JudgeRecord
  <2>2. PICK s, rejected :
           /\ s \in DecodedSources(all[i].source) /\ rejected \in Verdicts(s)
           /\ all' = [all EXCEPT ![i] = [Resolved(i) EXCEPT !.source = s, !.invalid = rejected]]
           /\ fatJarCache' = CacheExtracted(all[i].source, s)
           /\ signCache' = CacheVerdict(s, rejected)
    BY <1>4 DEF JudgeRecord
  <2>3. s \in Source \cup {NONE} /\ rejected \in BOOLEAN
    BY <1>0, <1>r, <2>1, <2>2, DecodedType, VerdictsType
  <2>4. [Resolved(i) EXCEPT !.source = s, !.invalid = rejected] \in Record
    BY <1>r, <2>1, <2>3, RecordUpdateType
  <2>5. fatJarCache' \subseteq Paths
    BY <1>0, <1>r, <2>1, <2>2, CacheExtractedType
  <2>6. /\ DOMAIN signCache' \subseteq Paths
        /\ \A f \in DOMAIN signCache' : signCache'[f] \in BOOLEAN
    BY <1>0, <2>2, <2>3, CacheVerdictType
  <2>7. eagerSet' \subseteq Names /\ appSet' \subseteq Names
    BY <1>r, <2>1, ClassifyType
  <2>. QED
    BY <2>1, <2>2, <2>4, <2>5, <2>6, <2>7, DecodeStepType
<1>5. CASE OrphanRecord(i)
  <2>1. i \in 1..Len(all) /\ NumberRecord(i) /\ Classify(all[i])
        /\ UNCHANGED <<pc, fatJarCache, signCache>>
        /\ all' = [all EXCEPT ![i] = [Resolved(i) EXCEPT !.invalid = TRUE]]
    BY <1>5, NumberRecordType DEF OrphanRecord
  <2>2. [Resolved(i) EXCEPT !.invalid = TRUE] \in Record
    BY <1>r, <2>1 DEF Record
  <2>3. eagerSet' \subseteq Names /\ appSet' \subseteq Names
    BY <1>r, <2>1, ClassifyType
  <2>. QED
    BY <1>0, <2>1, <2>2, <2>3, DecodeStepType
<1>6. CASE DecodeThrows(i)
  <2>1. i \in 1..Len(all) /\ NumberRecord(i) /\ pc' = "failed"
        /\ UNCHANGED <<fatJarCache, signCache>>
    BY <1>6, NumberRecordType DEF DecodeThrows
  <2>2. CASE i = 1
    <3>1. all' = [all EXCEPT ![i] = ObjectRecord] /\ UNCHANGED <<eagerSet, appSet>>
      BY <1>6, <2>2 DEF DecodeThrows
    <3>2. ObjectRecord \in Record
      BY <2>1, <2>2, ObjectRecordFacts
    <3>. QED
      BY <1>0, <2>1, <3>1, <3>2, DecodeStepType
  <2>3. CASE i # 1
    <3>1. all' = [all EXCEPT ![i] = Resolved(i)] /\ Classify(all[i])
      BY <1>6, <2>3 DEF DecodeThrows
    <3>2. eagerSet' \subseteq Names /\ appSet' \subseteq Names
      BY <1>r, <2>1, <3>1, ClassifyType
    <3>. QED
      BY <1>0, <1>r, <2>1, <3>1, <3>2, DecodeStepType
  <2>. QED
    BY <2>2, <2>3
<1>. QED
  BY <1>1, <1>2, <1>3, <1>4, <1>5, <1>6 DEF Decode

LEMMA NotFoundFacts ==
    ASSUME TypeOK
    PROVE  /\ allNotFound \in Seq(NotFoundRecord) /\ Len(allNotFound) \in Nat
           /\ cursor \in Nat \ {0} /\ klassID \in Nat
           /\ \A i \in 1..Len(allNotFound) : allNotFound[i] \in NotFoundRecord
<1>1. allNotFound \in Seq(NotFoundRecord) /\ cursor \in Nat \ {0} /\ klassID \in Nat
  BY DEF TypeOK
<1>. QED
  BY <1>1

LEMMA PrepareNotFoundType == TypeOK /\ PrepareNotFound => TypeOK'
<1> SUFFICES ASSUME TypeOK, PrepareNotFound PROVE TypeOK'
  OBVIOUS
<1>1. cursor \in 1..Len(allNotFound)
  BY NotFoundFacts DEF PrepareNotFound
<1>2. /\ [allNotFound[cursor] EXCEPT !.invalid = TRUE] \in NotFoundRecord
      /\ [allNotFound[cursor] EXCEPT !.id = klassID] \in NotFoundRecord
  BY <1>1, NotFoundFacts DEF NotFoundRecord
<1>3. allNotFound' \in Seq(NotFoundRecord) /\ klassID' \in Nat
  <2>1. \/ /\ allNotFound' = [allNotFound EXCEPT ![cursor] =
                                  [allNotFound[cursor] EXCEPT !.invalid = TRUE]]
           /\ klassID' = klassID
        \/ /\ allNotFound' = [allNotFound EXCEPT ![cursor] =
                                  [allNotFound[cursor] EXCEPT !.id = klassID]]
           /\ klassID' = klassID + 1
    BY DEF PrepareNotFound
  <2>2. \E r \in NotFoundRecord : allNotFound' = [allNotFound EXCEPT ![cursor] = r]
    BY <1>2, <2>1
  <2>3. klassID' \in Nat
    BY <2>1, NotFoundFacts
  <2>. QED
    BY <1>1, <2>2, <2>3, NotFoundFacts, SeqUpdate
<1>4. cursor' \in Nat \ {0}
  BY NotFoundFacts DEF PrepareNotFound
<1>5. UNCHANGED <<pc, lines, all, notFoundSet, nameid, idIds, eagerSet, appSet, fatJarCache,
                  signCache, out, fingerprints, notFoundNames>>
  BY DEF PrepareNotFound, decodeVars, fileVars
<1>. QED
  BY <1>3, <1>4, <1>5 DEF TypeOK

LEMMA ClassLineType ==
    ASSUME NEW r \in Record
    PROVE  /\ ClassLine(r) \in OutLine /\ ClassDesc(r) \in Desc
           /\ ClassLine(r).id = r.id /\ ClassLine(r).found
           /\ Parents(ClassLine(r)) \subseteq Parents(r)
<1>1. << >> \in Seq(Ids)
  OBVIOUS
<1>2. ClassLine(r) \in OutLine
  BY <1>1 DEF ClassLine, OutLine, Record
<1>3. ClassDesc(r) \in Desc
  BY DEF ClassDesc, Desc, Record
<1>4. ClassLine(r).id = r.id /\ ClassLine(r).found
  BY DEF ClassLine
<1>5. Parents(ClassLine(r)) \subseteq Parents(r)
  <2>1. CASE HasParents(r)
    BY <2>1 DEF ClassLine, Parents
  <2>2. CASE ~HasParents(r)
    BY <2>2 DEF ClassLine, Parents
  <2>. QED
    BY <2>1, <2>2
<1>. QED
  BY <1>2, <1>3, <1>4, <1>5

LEMMA NotFoundLineType ==
    ASSUME NEW r \in NotFoundRecord
    PROVE  /\ NotFoundLine(r) \in OutLine /\ NotFoundLine(r).id = r.id
           /\ ~NotFoundLine(r).found /\ Parents(NotFoundLine(r)) = {}
<1>1. << >> \in Seq(Ids) /\ DOMAIN << >> = {}
  OBVIOUS
<1>. QED
  BY <1>1 DEF NotFoundLine, NotFoundRecord, OutLine, Parents, Ids

LEMMA OutType ==
    ASSUME TypeOK
    PROVE  /\ out \in Seq(OutLine) /\ fingerprints \in Seq(Desc) /\ Len(out) \in Nat
           /\ cursor \in Nat \ {0}
BY DEF TypeOK

LEMMA WriteType ==
    TypeOK /\ (WriteClass \/ WriteNotFound \/ AddFingerprint \/ EndFingerprint) => TypeOK'
<1> SUFFICES ASSUME TypeOK, WriteClass \/ WriteNotFound \/ AddFingerprint \/ EndFingerprint
             PROVE  TypeOK'
  OBVIOUS
<1>1. CASE WriteClass
  <2>1. cursor \in 1..Len(all) /\ all[cursor] \in Record
    BY <1>1, OutType, AllFacts DEF WriteClass
  <2>2. out' \in {out, Append(out, ClassLine(all[cursor]))} /\ cursor' = cursor + 1
    BY <1>1 DEF WriteClass
  <2>3. out' \in Seq(OutLine) /\ cursor' \in Nat \ {0}
    <3>1. out \in Seq(OutLine) /\ cursor \in Nat \ {0} /\ ClassLine(all[cursor]) \in OutLine
      BY <2>1, ClassLineType, OutType
    <3>. QED
      BY <2>2, <3>1
  <2>. QED
    BY <1>1, <2>3 DEF WriteClass, TypeOK, parseVars, decodeVars
<1>2. CASE WriteNotFound
  <2>1. cursor \in 1..Len(allNotFound) /\ allNotFound[cursor] \in NotFoundRecord
    BY <1>2, OutType, NotFoundFacts DEF WriteNotFound
  <2>2. out' \in {out, Append(out, NotFoundLine(allNotFound[cursor]))} /\ cursor' = cursor + 1
    BY <1>2 DEF WriteNotFound
  <2>3. out' \in Seq(OutLine) /\ cursor' \in Nat \ {0}
    <3>1. out \in Seq(OutLine) /\ cursor \in Nat \ {0} /\ NotFoundLine(allNotFound[cursor]) \in OutLine
      BY <2>1, NotFoundLineType, OutType
    <3>. QED
      BY <2>2, <3>1
  <2>. QED
    BY <1>2, <2>3 DEF WriteNotFound, TypeOK, parseVars, decodeVars
<1>3. CASE AddFingerprint
  <2>1. cursor \in 1..Len(all) /\ all[cursor] \in Record
    BY <1>3, OutType, AllFacts DEF AddFingerprint
  <2>2. fingerprints' \in {fingerprints, Append(fingerprints, ClassDesc(all[cursor]))}
        /\ cursor' = cursor + 1 /\ pc' \in {"failed", pc}
    BY <1>3 DEF AddFingerprint
  <2>3. fingerprints' \in Seq(Desc) /\ cursor' \in Nat \ {0}
    BY <2>1, <2>2, ClassLineType, OutType
  <2>. QED
    BY <1>3, <2>2, <2>3 DEF AddFingerprint, TypeOK, parseVars, decodeVars
<1>4. CASE EndFingerprint
  <2>1. notFoundNames' = [k \in DOMAIN allNotFound |-> allNotFound[k].name]
        /\ UNCHANGED <<cursor, parseVars, decodeVars, klassID, out, fingerprints>> /\ pc' = "done"
    BY <1>4 DEF EndFingerprint
  <2>2. \A k \in DOMAIN allNotFound : allNotFound[k].name \in Names
    BY NotFoundFacts DEF NotFoundRecord
  <2>3. notFoundNames' \in [DOMAIN allNotFound -> Names]
    BY <2>1, <2>2
  <2>4. notFoundNames' \in Seq(Names)
    BY <2>3, NotFoundFacts, SeqMap
  <2>. QED
    BY <2>1, <2>4 DEF TypeOK, parseVars, decodeVars
<1>. QED
  BY <1>1, <1>2, <1>3, <1>4

LEMMA EndType ==
    TypeOK /\ (EndNotFound \/ EndWrite \/ EndWriteNotFound) => TypeOK'
BY DEF EndNotFound, EndWrite, EndWriteNotFound, TypeOK, Workers,
       parseVars, decodeVars, fileVars

LEMMA InitType == Init => TypeOK
BY ConstantsAssumption DEF Init, TypeOK, Workers

LEMMA TypeStep == TypeOK /\ [Next]_vars => TypeOK'
<1> SUFFICES ASSUME TypeOK, [Next]_vars PROVE TypeOK'
  OBVIOUS
<1>1. CASE UNCHANGED vars
  BY <1>1 DEF vars, TypeOK, parseVars, decodeVars, fileVars
<1>. QED
  BY <1>1, ParseType, DecodeType, PrepareNotFoundType, WriteType, EndType DEF Next

\* The types of all variables are invariant: no worker leaves a malformed
\* record, a dangling index or a line without its fields to the next one.
THEOREM TypeCorrect == Spec => []TypeOK
BY InitType, TypeStep, PTL DEF Spec

-----------------------------------------------------------------------------
(* The inductive invariant: reading the file. *)

\* The final list is not touched: what was written stays as it was.
LEMMA OutUnchanged ==
    ASSUME WrittenClosed, WrittenIdsIncrease, out' = out
    PROVE  WrittenClosed' /\ WrittenIdsIncrease'
<1>1. WrittenClosed'
  BY DEF WrittenClosed
<1>2. WrittenIdsIncrease'
  BY DEF WrittenIdsIncrease
<1>. QED
  BY <1>1, <1>2

LEMMA RawLine ==
    ASSUME NEW l \in Lines, l.id # NONE
    PROVE  /\ ~NewRecord(l).invalid
           /\ NewRecord(l).id \notin Parents(NewRecord(l))
           /\ NewRecord(l).name = Object => NewRecord(l).interfaces = << >>
<1>1. l.interfaces \in Seq(RawIds) /\ DOMAIN l.interfaces = 1..Len(l.interfaces)
  BY LinesAssumption DEF Line
<1>2. Parents(NewRecord(l))
        = ({l.super} \ {NONE}) \cup {l.interfaces[k] : k \in 1..Len(l.interfaces)}
  BY <1>1 DEF Parents, NewRecord
<1>. QED
  BY <1>2, LinesAssumption DEF NewRecord

\* As long as the records are raw the invariant says little else.
LEMMA ParseStep ==
    ASSUME TypeOK, TypeOK', IndInv, pc = "parse", pc' \in {"parse", "decode", "failed"},
           UNCHANGED <<cursor, idIds, klassID, out>>,
           \A i \in 1..Len(all') :
               /\ ~all'[i].invalid
               /\ all'[i].id \notin Parents(all'[i])
               /\ all'[i].name = Object => all'[i].interfaces = << >>
    PROVE  IndInv'
<1>1. cursor = 1 /\ klassID = 1 /\ DOMAIN idIds = {} /\ out = << >>
      /\ WrittenClosed /\ WrittenIdsIncrease
  BY DEF IndInv, NumberInv, WriteInv
<1>2. WrittenClosed' /\ WrittenIdsIncrease'
  BY <1>1, OutUnchanged
<1>3. CASE pc' \in {"parse", "decode"}
  <2>1. Processed' = 0 /\ Prepared' = 0
    BY <1>1, <1>3 DEF Processed, Prepared
  <2>2. RawInv' /\ ParentInv' /\ NotFoundInv'
    BY <2>1 DEF RawInv, ParentInv, NotFoundInv
  <2>3. NumberInv' /\ WriteInv'
    BY <1>1, <1>3, <2>1 DEF NumberInv, WriteInv
  <2>. QED
    BY <1>2, <2>2, <2>3 DEF IndInv
<1>4. CASE pc' = "failed"
  BY <1>2, <1>4 DEF IndInv
<1>. QED
  BY <1>3, <1>4

LEMMA ParseInv == TypeOK /\ TypeOK' /\ IndInv /\ Parse => IndInv'
<1> SUFFICES ASSUME TypeOK, TypeOK', IndInv, Parse PROVE IndInv'
  OBVIOUS
<1>0. pc = "parse"
  BY DEF Parse, SkipLine, CompleteRecord, AddNotFound, AddRecord, MissingId, BlankLine,
         EndOfFile, Read
<1>1. \A i \in 1..Len(all) :
          /\ ~all[i].invalid
          /\ all[i].id \notin Parents(all[i])
          /\ all[i].name = Object => all[i].interfaces = << >>
  BY <1>0 DEF IndInv, RawInv, Processed
<1>2. ASSUME NEW l \in Lines, CompleteRecord(l) PROVE IndInv'
  <2> DEFINE k == Lookup(nameid, Key(l))
  <2>1. ASSUME NEW i \in 1..Len(all')
        PROVE  /\ ~all'[i].invalid
               /\ all'[i].id \notin Parents(all'[i])
               /\ all'[i].name = Object => all'[i].interfaces = << >>
    <3>1. CASE k # NoRecord /\ all[k].initiating = NONE
      <4>1. k \in 1..Len(all)
        BY <3>1 DEF Lookup, TypeOK
      <4>2. all' = [all EXCEPT ![k] = [all[k] EXCEPT !.initiating = l.initiating]]
        BY <1>2, <3>1 DEF CompleteRecord
      <4>3. i \in 1..Len(all)
            /\ all'[i] = IF i = k THEN [all[k] EXCEPT !.initiating = l.initiating] ELSE all[i]
        BY <4>1, <4>2, AllFacts
      <4>4. all'[i].invalid = all[i].invalid /\ all'[i].id = all[i].id
            /\ all'[i].super = all[i].super /\ all'[i].interfaces = all[i].interfaces
            /\ all'[i].name = all[i].name
        BY <4>1, <4>3, AllFacts DEF Record
      <4>. QED
        BY <1>1, <4>3, <4>4 DEF Parents
    <3>2. CASE ~(k # NoRecord /\ all[k].initiating = NONE)
      BY <1>1, <1>2, <3>2 DEF CompleteRecord
    <3>. QED
      BY <3>1, <3>2
  <2>. QED
    BY <1>0, <1>2, <2>1, ParseStep DEF CompleteRecord, Read, decodeVars, fileVars
<1>3. ASSUME NEW l \in Lines, AddRecord(l) PROVE IndInv'
  <2>1. all' = Append(all, NewRecord(l)) /\ l.id # NONE
    BY <1>3 DEF AddRecord
  <2>2. \A i \in 1..Len(all') :
          /\ ~all'[i].invalid
          /\ all'[i].id \notin Parents(all'[i])
          /\ all'[i].name = Object => all'[i].interfaces = << >>
    <3>1. \A i \in 1..Len(all') : \/ i \in 1..Len(all) /\ all'[i] = all[i]
                                  \/ all'[i] = NewRecord(l)
      BY <2>1, AllFacts, NewRecordType
    <3>. QED
      BY <1>1, <2>1, <3>1, RawLine
  <2>. QED
    BY <1>0, <1>3, <2>2, ParseStep DEF AddRecord, Read, decodeVars, fileVars
<1>4. CASE all' = all
  <2>1. pc' \in {"parse", "decode", "failed"} /\ UNCHANGED <<cursor, idIds, klassID, out>>
    BY <1>0 DEF Parse, SkipLine, CompleteRecord, AddNotFound, AddRecord, MissingId,
                BlankLine, EndOfFile, Read, decodeVars, fileVars
  <2>. QED
    BY <1>0, <1>1, <1>4, <2>1, ParseStep
<1>5. ASSUME NEW l \in Lines,
             SkipLine(l) \/ AddNotFound(l) \/ MissingId(l) \/ BlankLine(l)
      PROVE  all' = all
  BY <1>5 DEF SkipLine, AddNotFound, MissingId, BlankLine
<1>6. EndOfFile => all' = all
  BY DEF EndOfFile, parseVars
<1>. QED
  BY <1>2, <1>3, <1>4, <1>5, <1>6 DEF Parse

-----------------------------------------------------------------------------
(* The inductive invariant: renumbering the records. *)

LEMMA DecodeFacts ==
    ASSUME TypeOK, IndInv, pc = "decode"
    PROVE  /\ Processed = cursor - 1 /\ Prepared = 0 /\ out = << >>
           /\ klassID = cursor /\ cursor \in 1..(Len(all) + 1)
           /\ RawInv /\ ParentInv /\ WrittenClosed /\ WrittenIdsIncrease
           /\ \A x \in DOMAIN idIds : idIds[x] \in 1..(cursor - 1)
           /\ \A j \in 1..(cursor - 1) : all[j].id = j
<1>1. RawInv /\ NumberInv /\ ParentInv /\ WriteInv /\ WrittenClosed /\ WrittenIdsIncrease
  BY DEF IndInv
<1>2. Processed = cursor - 1 /\ Prepared = 0
  BY DEF Processed, Prepared
<1>3. cursor \in Nat \ {0} /\ Len(all) \in Nat /\ \A x \in DOMAIN idIds : idIds[x] \in 1..Len(all)
  BY AllFacts DEF TypeOK
<1>. QED
  BY <1>1, <1>2, <1>3 DEF NumberInv, WriteInv

\* A raw parent that is known becomes the position of a valid earlier record.
LEMMA ResolveKnown ==
    ASSUME TypeOK, IndInv, pc = "decode", cursor \in 1..Len(all),
           NEW y \in Parents(all[cursor]), Known(cursor, y)
    PROVE  /\ Resolve(cursor, y) \in 1..(cursor - 1)
           /\ ~all[Resolve(cursor, y)].invalid
<1>1. y # all[cursor].id
  BY DecodeFacts, AllFacts DEF RawInv
<1>2. y \in DOMAIN idIds /\ Registered(cursor)[y] = idIds[y]
  <2>1. y \in DOMAIN Registered(cursor)
    BY KnownFacts
  <2>2. /\ DOMAIN Registered(cursor) = DOMAIN idIds \cup {all[cursor].id}
        /\ Registered(cursor)[y] = IF y = all[cursor].id THEN cursor ELSE idIds[y]
    BY <2>1, RegisteredFacts
  <2>. QED
    BY <1>1, <2>1, <2>2
<1>3. idIds[y] \in 1..(cursor - 1) /\ all[idIds[y]].id = idIds[y] /\ idIds[y] \in 1..Len(all)
      /\ cursor \in Nat
  BY <1>2, DecodeFacts, AllFacts
<1>4. Resolve(cursor, y) = idIds[y] /\ ~all[idIds[y]].invalid
  BY <1>2, <1>3, KnownFacts, NumberedFacts
<1>. QED
  BY <1>3, <1>4

LEMMA ResolvedParents ==
    ASSUME TypeOK, IndInv, pc = "decode", cursor \in 1..Len(all), ParentsKnown(cursor)
    PROVE  \A x \in Parents(Resolved(cursor)) : x \in 1..(cursor - 1) /\ ~all[x].invalid
<1> DEFINE r == all[cursor]
<1>1. r \in Record
  BY AllFacts
<1>2. r.super # NONE => Known(cursor, r.super) /\ r.super \in Parents(r)
  BY DEF ParentsKnown, Parents
<1>3. \A k \in DOMAIN r.interfaces :
          Known(cursor, r.interfaces[k]) /\ r.interfaces[k] \in Parents(r)
  BY DEF ParentsKnown, Parents
<1>4. r.super # NONE => /\ Resolve(cursor, r.super) \in 1..(cursor - 1)
                        /\ ~all[Resolve(cursor, r.super)].invalid
  BY <1>2, ResolveKnown
<1>5. \A k \in DOMAIN r.interfaces : /\ Resolve(cursor, r.interfaces[k]) \in 1..(cursor - 1)
                                     /\ ~all[Resolve(cursor, r.interfaces[k])].invalid
  BY <1>3, ResolveKnown
<1>6. Parents(Resolved(cursor)) \subseteq
         {x \in {Resolve(cursor, r.super)} : r.super # NONE}
         \cup {Resolve(cursor, r.interfaces[k]) : k \in DOMAIN r.interfaces}
  <2>1. /\ Resolved(cursor).super = IF r.super = NONE THEN NONE ELSE Resolve(cursor, r.super)
        /\ Resolved(cursor).interfaces
              = [k \in DOMAIN r.interfaces |-> Resolve(cursor, r.interfaces[k])]
    BY ResolvedFacts
  <2>2. DOMAIN Resolved(cursor).interfaces = DOMAIN r.interfaces
        /\ \A k \in DOMAIN r.interfaces :
              Resolved(cursor).interfaces[k] = Resolve(cursor, r.interfaces[k])
    BY <2>1
  <2>3. Resolved(cursor).super # NONE =>
           r.super # NONE /\ Resolved(cursor).super = Resolve(cursor, r.super)
    BY <2>1
  <2>. QED
    BY <2>2, <2>3 DEF Parents
<1>. QED
  BY <1>4, <1>5, <1>6

\* Whatever the outcome of an iteration, it keeps the invariant if the record
\* it leaves has the current id and, when valid, only valid parents before it.
LEMMA DecodeStep ==
    ASSUME TypeOK, TypeOK', IndInv, pc = "decode", NumberRecord(cursor),
           NEW r \in Record, all' = [all EXCEPT ![cursor] = r], r.id = klassID,
           ~r.invalid => \A x \in Parents(r) : x \in 1..(cursor - 1) /\ ~all[x].invalid,
           pc' \in {pc, "failed"}
    PROVE  IndInv'
<1> DEFINE i == cursor
<1>1. i \in 1..Len(all) /\ cursor' = i + 1 /\ klassID' = klassID + 1 /\ out' = out
      /\ idIds' = Registered(i)
  BY DEF NumberRecord, fileVars
<1>2. /\ Len(all') = Len(all)
      /\ \A k \in 1..Len(all) : all'[k] = IF k = i THEN r ELSE all[k]
  BY <1>1, AllFacts, SeqUpdate
<1>3. WrittenClosed' /\ WrittenIdsIncrease'
  BY <1>1, DecodeFacts, OutUnchanged
<1>4. CASE pc' = "failed"
  BY <1>3, <1>4 DEF IndInv
<1>5. CASE pc' = "decode"
  <2>0. i \in Nat /\ klassID = i /\ Len(all) \in Nat
    BY DecodeFacts, AllFacts
  <2>1. Processed' = i /\ Prepared' = 0
    BY <1>1, <1>5, <2>0 DEF Processed, Prepared
  <2>2. RawInv'
    <3>1. \A k \in (i + 1)..Len(all) : all'[k] = all[k] /\ k \in ((i - 1) + 1)..Len(all)
      BY <1>1, <1>2, <2>0
    <3>. QED
      BY <1>2, <2>1, <3>1, DecodeFacts DEF RawInv, Parents
  <2>3. NumberInv'
    <3>1. \A x \in DOMAIN idIds' : idIds'[x] < i + 1
      <4>1. \A x \in DOMAIN Registered(i) :
               \/ Registered(i)[x] = i
               \/ x \in DOMAIN idIds /\ Registered(i)[x] = idIds[x]
        <5>1. /\ DOMAIN Registered(i) = DOMAIN idIds \cup {all[i].id}
              /\ \A x \in DOMAIN Registered(i) :
                    Registered(i)[x] = IF x = all[i].id THEN i ELSE idIds[x]
          BY <1>1, RegisteredFacts
        <5>2. ASSUME NEW x \in DOMAIN Registered(i), x # all[i].id
              PROVE  x \in DOMAIN idIds /\ Registered(i)[x] = idIds[x]
          BY <5>1, <5>2
        <5>3. ASSUME NEW x \in DOMAIN Registered(i), x = all[i].id
              PROVE  Registered(i)[x] = i
          BY <5>1, <5>3
        <5>. QED
          BY <5>2, <5>3
      <4>2. \A x \in DOMAIN idIds : idIds[x] < i + 1
        BY <2>0, DecodeFacts
      <4>. QED
        BY <1>1, <2>0, <4>1, <4>2
    <3>2. \A k \in 1..i : all'[k].id = k
      BY <1>1, <1>2, <2>0, DecodeFacts
    <3>. QED
      BY <1>1, <1>2, <1>5, <2>0, <2>1, <3>1, <3>2 DEF NumberInv
  <2>4. ParentInv'
    <3> SUFFICES ASSUME NEW k \in 1..i, ~all'[k].invalid, NEW x \in Parents(all'[k])
                 PROVE  x \in 1..(k - 1) /\ ~all'[x].invalid
      BY <2>1 DEF ParentInv, Parents
    <3>1. x \in 1..(k - 1) /\ ~all[x].invalid
      <4>1. CASE k = i
        BY <1>1, <1>2, <4>1
      <4>2. CASE k # i
        <5>1. k \in 1..(i - 1) /\ all'[k] = all[k]
          BY <1>1, <1>2, <2>0, <4>2
        <5>. QED
          BY <5>1, DecodeFacts DEF ParentInv
      <4>. QED
        BY <4>1, <4>2
    <3>2. x # i /\ x \in 1..Len(all)
      BY <1>1, <2>0, <3>1
    <3>. QED
      BY <1>2, <3>1, <3>2
  <2>5. NotFoundInv'
    BY <2>1 DEF NotFoundInv
  <2>6. WriteInv'
    BY <1>1, <1>5, DecodeFacts DEF WriteInv
  <2>. QED
    BY <1>3, <2>2, <2>3, <2>4, <2>5, <2>6 DEF IndInv
<1>. QED
  BY <1>4, <1>5

LEMMA DecodeInv == TypeOK /\ TypeOK' /\ IndInv /\ Decode => IndInv'
<1> SUFFICES ASSUME TypeOK, TypeOK', IndInv, Decode PROVE IndInv'
  OBVIOUS
<1>0. pc = "decode"
  BY DEF Decode, NoObject, DecodeObject, EndDecode, JudgeRecord, OrphanRecord, DecodeThrows,
         NumberRecord
<1>. DEFINE i == cursor
<1>1. CASE NoObject
  BY <1>0, <1>1, DecodeFacts, OutUnchanged DEF NoObject, fileVars, IndInv
<1>o. ASSUME NumberRecord(1), all[1].name = Object
      PROVE  i = 1 /\ 1 \in 1..Len(all) /\ ObjectRecord \in Record /\ ObjectRecord.id = klassID
             /\ Parents(ObjectRecord) = {}
  <2>1. i = 1 /\ 1 \in 1..Len(all)
    BY <1>o DEF NumberRecord
  <2>2. all[1].interfaces = << >>
    BY <1>0, <1>o, <2>1, DecodeFacts, AllFacts DEF RawInv
  <2>. QED
    BY <2>1, <2>2, ObjectRecordFacts DEF Parents
<1>r. ASSUME i \in 1..Len(all)
      PROVE  /\ Resolved(i) \in Record /\ Resolved(i).id = klassID
             /\ all[i].source \in Source \cup {NONE}
  BY <1>r, AllFacts, ResolvedFacts DEF Record
<1>2. CASE DecodeObject
  <2>1. NumberRecord(1) /\ all[1].name = Object /\ pc' = pc
    BY <1>2 DEF DecodeObject
  <2>2. PICK s \in DecodedSources(all[1].source) :
           all' = [all EXCEPT ![1] = [ObjectRecord EXCEPT !.source = s]]
    BY <1>2 DEF DecodeObject
  <2>3. s \in Source \cup {NONE}
    BY <1>o, <1>r, <2>1, DecodedType
  <2> DEFINE r == [ObjectRecord EXCEPT !.source = s]
  <2>4. r \in Record /\ r.id = klassID /\ Parents(r) = {}
    <3>1. ObjectRecord \in Record /\ ObjectRecord.id = klassID /\ Parents(ObjectRecord) = {}
      BY <1>o, <2>1
    <3>2. r \in Record /\ r.id = ObjectRecord.id /\ r.super = ObjectRecord.super
          /\ r.interfaces = ObjectRecord.interfaces
      BY <2>3, <3>1 DEF Record
    <3>. QED
      BY <3>1, <3>2 DEF Parents
  <2>. QED
    BY <1>0, <1>o, <2>1, <2>2, <2>4, DecodeStep
<1>3. CASE EndDecode
  <2>1. /\ cursor = Len(all) + 1 /\ UNCHANGED <<all, out, allNotFound, klassID, idIds>>
        /\ pc' = "notFound" /\ cursor' = 1 /\ Len(all) \in Nat
    BY <1>0, <1>3, DecodeFacts, AllFacts DEF EndDecode, parseVars, decodeVars, fileVars
  <2>2. Processed' = Len(all) /\ Prepared' = 0 /\ Processed = Len(all)
    BY <1>0, <2>1 DEF Processed, Prepared
  <2>3. RawInv' /\ NotFoundInv'
    BY <2>1, <2>2 DEF RawInv, NotFoundInv
  <2>4. NumberInv'
    BY <2>1, <2>2, <1>0, DecodeFacts DEF NumberInv
  <2>5. ParentInv'
    BY <2>1, <2>2, <1>0, DecodeFacts DEF ParentInv, Parents
  <2>6. WriteInv' /\ WrittenClosed' /\ WrittenIdsIncrease'
    BY <2>1, <1>0, DecodeFacts, OutUnchanged DEF WriteInv
  <2>. QED
    BY <2>3, <2>4, <2>5, <2>6 DEF IndInv
<1>4. CASE JudgeRecord(i)
  <2>1. NumberRecord(i) /\ ParentsKnown(i) /\ pc' = pc /\ i \in 1..Len(all)
    BY <1>4 DEF JudgeRecord, NumberRecord
  <2>2. PICK s, rejected :
           /\ s \in DecodedSources(all[i].source) /\ rejected \in Verdicts(s)
           /\ all' = [all EXCEPT ![i] = [Resolved(i) EXCEPT !.source = s, !.invalid = rejected]]
    BY <1>4 DEF JudgeRecord
  <2>3. s \in Source \cup {NONE} /\ rejected \in BOOLEAN
    BY <1>r, <2>1, <2>2, DecodedType, VerdictsType DEF TypeOK
  <2> DEFINE r == [Resolved(i) EXCEPT !.source = s, !.invalid = rejected]
  <2>4. r \in Record /\ r.id = klassID /\ Parents(r) = Parents(Resolved(i))
    BY <1>r, <2>1, <2>3 DEF Record, Parents
  <2>5. \A x \in Parents(r) : x \in 1..(i - 1) /\ ~all[x].invalid
    BY <1>0, <2>1, <2>4, ResolvedParents
  <2>. QED
    BY <1>0, <2>1, <2>2, <2>4, <2>5, DecodeStep
<1>5. CASE OrphanRecord(i)
  <2> DEFINE r == [Resolved(i) EXCEPT !.invalid = TRUE]
  <2>1. NumberRecord(i) /\ pc' = pc /\ i \in 1..Len(all) /\ all' = [all EXCEPT ![i] = r]
    BY <1>5 DEF OrphanRecord, NumberRecord
  <2>2. r \in Record /\ r.id = klassID /\ r.invalid
    BY <1>r, <2>1 DEF Record
  <2>. QED
    BY <1>0, <2>1, <2>2, DecodeStep
<1>6. CASE DecodeThrows(i)
  <2>1. pc' = "failed" /\ out' = out
    BY <1>6 DEF DecodeThrows, NumberRecord, fileVars
  <2>. QED
    BY <1>0, <2>1, DecodeFacts, OutUnchanged DEF IndInv
<1>. QED
  BY <1>1, <1>2, <1>3, <1>4, <1>5, <1>6 DEF Decode

-----------------------------------------------------------------------------
(* The inductive invariant: the not-found classes and the final list. *)

Writing == {"write", "writeNotFound", "fingerprint"}

LEMMA LaterFacts ==
    ASSUME TypeOK, IndInv, pc \in Writing \cup {"notFound"}
    PROVE  /\ RawInv /\ NumberInv /\ ParentInv /\ NotFoundInv /\ WriteInv
           /\ WrittenClosed /\ WrittenIdsIncrease
           /\ Processed = Len(all) /\ Len(all) < klassID
           /\ \A i \in 1..Len(all) : all[i].id = i
           /\ pc \in Writing => Prepared = Len(allNotFound)
           /\ pc = "notFound" => Prepared = cursor - 1 /\ out = << >>
<1>1. /\ Processed = Len(all)
      /\ pc \in Writing => Prepared = Len(allNotFound)
      /\ pc = "notFound" => Prepared = cursor - 1
  BY DEF Processed, Prepared, Writing
<1>. QED
  BY <1>1 DEF IndInv, NumberInv, WriteInv, Writing

\* Once the records are numbered, nothing but their order in the final list
\* is left to say: the steps below keep the first three parts.
LEMMA LaterStep ==
    ASSUME TypeOK, IndInv, pc \in Writing \cup {"notFound"}, pc' \in Writing \cup {"notFound"},
           all' = all, klassID' \in Nat, klassID' >= klassID
    PROVE  /\ RawInv' /\ NumberInv' /\ ParentInv' /\ Processed' = Len(all)
           /\ pc' \in Writing => Prepared' = Len(allNotFound')
           /\ pc' = "notFound" => Prepared' = cursor' - 1
<1>1. /\ Processed' = Len(all)
      /\ pc' \in Writing => Prepared' = Len(allNotFound')
      /\ pc' = "notFound" => Prepared' = cursor' - 1
  BY DEF Processed, Prepared, Writing
<1>2. RawInv' /\ ParentInv'
  BY <1>1, LaterFacts DEF RawInv, ParentInv, Parents
<1>3. NumberInv'
  <2>1. Len(all) < klassID'
    BY LaterFacts, AllFacts
  <2>. QED
    BY <1>1, <2>1, LaterFacts DEF NumberInv, Writing
<1>. QED
  BY <1>1, <1>2, <1>3

\* Not-found records that stay as they are keep their order.
LEMMA NotFoundUnchanged ==
    ASSUME TypeOK, IndInv, pc \in Writing \cup {"notFound"}, pc' \in Writing,
           pc = "notFound" => cursor > Len(allNotFound),
           UNCHANGED <<all, allNotFound, klassID>>
    PROVE  NotFoundInv'
<1>1. klassID \in Nat /\ klassID' = klassID
  BY AllFacts
<1>2. Prepared' = Len(allNotFound)
  BY <1>1, LaterStep
<1>3. \A m \in 1..Len(allNotFound) : m \in 1..Prepared
  BY LaterFacts, NotFoundFacts
<1>. QED
  BY <1>2, <1>3, LaterFacts DEF NotFoundInv

LEMMA PrepareNotFoundInv == TypeOK /\ IndInv /\ PrepareNotFound => IndInv'
<1> SUFFICES ASSUME TypeOK, IndInv, PrepareNotFound PROVE IndInv'
  OBVIOUS
<1>0. pc = "notFound" /\ pc' = "notFound" /\ all' = all /\ cursor' = cursor + 1 /\ out' = out
      /\ cursor \in 1..Len(allNotFound)
  BY NotFoundFacts DEF PrepareNotFound, fileVars
<1>t. /\ klassID \in Nat /\ Len(all) \in Nat /\ cursor \in Nat
      /\ allNotFound \in Seq(NotFoundRecord) /\ allNotFound[cursor] \in NotFoundRecord
  BY <1>0, AllFacts, NotFoundFacts
<1>1. PICK r \in NotFoundRecord :
         /\ allNotFound' = [allNotFound EXCEPT ![cursor] = r]
         /\ \/ r.invalid /\ klassID' = klassID
            \/ r.id = klassID /\ klassID' = klassID + 1
  <2>1. \/ /\ allNotFound' = [allNotFound EXCEPT ![cursor] =
                                  [allNotFound[cursor] EXCEPT !.invalid = TRUE]]
           /\ klassID' = klassID
        \/ /\ allNotFound' = [allNotFound EXCEPT ![cursor] =
                                  [allNotFound[cursor] EXCEPT !.id = klassID]]
           /\ klassID' = klassID + 1
    BY DEF PrepareNotFound
  <2>2. /\ [allNotFound[cursor] EXCEPT !.invalid = TRUE] \in NotFoundRecord
        /\ [allNotFound[cursor] EXCEPT !.invalid = TRUE].invalid
        /\ [allNotFound[cursor] EXCEPT !.id = klassID] \in NotFoundRecord
        /\ [allNotFound[cursor] EXCEPT !.id = klassID].id = klassID
    BY <1>t DEF NotFoundRecord
  <2>. QED
    BY <2>1, <2>2
<1>2. \A m \in 1..cursor : allNotFound'[m] = IF m = cursor THEN r ELSE allNotFound[m]
  BY <1>0, <1>t, <1>1, SeqUpdate
<1>3. klassID' \in Nat /\ klassID' >= klassID
  BY <1>t, <1>1
<1>4. RawInv' /\ NumberInv' /\ ParentInv' /\ Prepared' = cursor
  BY <1>0, <1>3, <1>t, LaterStep
<1>5. \A m \in 1..(cursor - 1) : ~allNotFound[m].invalid =>
        /\ allNotFound[m].id \in (Len(all) + 1)..(klassID - 1)
        /\ \A n \in 1..(m - 1) : ~allNotFound[n].invalid => allNotFound[n].id < allNotFound[m].id
  BY <1>0, LaterFacts DEF NotFoundInv
<1>6. NotFoundInv'
  <2> SUFFICES ASSUME NEW m \in 1..cursor, ~allNotFound'[m].invalid
               PROVE  /\ allNotFound'[m].id \in (Len(all) + 1)..(klassID' - 1)
                      /\ \A n \in 1..(m - 1) : ~allNotFound'[n].invalid =>
                            allNotFound'[n].id < allNotFound'[m].id
    BY <1>0, <1>4 DEF NotFoundInv
  <2>1. CASE m = cursor
    <3>1. r.id = klassID /\ klassID' = klassID + 1 /\ allNotFound'[m] = r
      BY <1>1, <1>2, <2>1
    <3>2. Len(all) < klassID
      BY <1>0, LaterFacts
    <3>3. \A n \in 1..(cursor - 1) : allNotFound'[n] = allNotFound[n]
      BY <1>2, <1>t
    <3>. QED
      BY <1>5, <1>t, <2>1, <3>1, <3>2, <3>3
  <2>2. CASE m # cursor
    <3>1. m \in 1..(cursor - 1) /\ \A n \in 1..m : allNotFound'[n] = allNotFound[n]
      BY <1>2, <1>t, <2>2
    <3>2. allNotFound[m].id \in (Len(all) + 1)..(klassID - 1)
      BY <1>5, <3>1
    <3>3. allNotFound[m].id \in (Len(all) + 1)..(klassID' - 1)
      BY <1>3, <1>t, <3>2
    <3>. QED
      BY <1>5, <3>1, <3>3
  <2>. QED
    BY <2>1, <2>2
<1>7. WriteInv' /\ WrittenClosed' /\ WrittenIdsIncrease'
  BY <1>0, LaterFacts, OutUnchanged DEF WriteInv
<1>. QED
  BY <1>4, <1>6, <1>7 DEF IndInv

\* Appending one line that is closed and numbered after all the others.
LEMMA AppendLine ==
    ASSUME TypeOK, WrittenClosed, WrittenIdsIncrease,
           NEW l \in OutLine, out' = Append(out, l), l.id \in Nat,
           \A k \in 1..Len(out) : out[k].id < l.id,
           \A x \in Parents(l) : \E k \in 1..Len(out) : out[k].found /\ out[k].id = x
    PROVE  WrittenClosed' /\ WrittenIdsIncrease'
<1>1. out \in Seq(OutLine) /\ Len(out) \in Nat
  BY OutType
<1>2. /\ Len(out') = Len(out) + 1 /\ out'[Len(out) + 1] = l
      /\ \A k \in 1..Len(out) : out'[k] = out[k]
  BY <1>1
<1>3. WrittenClosed'
  <2> SUFFICES ASSUME NEW k \in 1..Len(out'), NEW x \in Parents(out'[k])
               PROVE  \E j \in 1..(k - 1) : out'[j].found /\ out'[j].id = x
    BY DEF WrittenClosed, Parents
  <2>1. CASE k = Len(out) + 1
    BY <1>1, <1>2, <2>1
  <2>2. CASE k \in 1..Len(out)
    <3>0. x \in Parents(out[k])
      BY <1>2, <2>2
    <3>1. PICK j \in 1..(k - 1) : out[j].found /\ out[j].id = x
      BY <2>2, <3>0 DEF WrittenClosed
    <3>2. j \in 1..Len(out)
      BY <1>1, <2>2, <3>1
    <3>. QED
      BY <1>2, <3>1, <3>2
  <2>. QED
    BY <1>1, <1>2, <2>1, <2>2
<1>4. WrittenIdsIncrease'
  <2> SUFFICES ASSUME NEW k \in 1..Len(out')
               PROVE  out'[k].id \in Nat /\ \A j \in 1..(k - 1) : out'[j].id < out'[k].id
    BY DEF WrittenIdsIncrease
  <2>1. CASE k = Len(out) + 1
    BY <1>1, <1>2, <2>1
  <2>2. CASE k \in 1..Len(out)
    <3>1. \A j \in 1..(k - 1) : j \in 1..Len(out)
      BY <1>1, <2>2
    <3>. QED
      BY <1>2, <2>2, <3>1 DEF WrittenIdsIncrease
  <2>. QED
    BY <1>1, <1>2, <2>1, <2>2
<1>. QED
  BY <1>3, <1>4

LEMMA WriteClassInv == TypeOK /\ IndInv /\ WriteClass => IndInv'
<1> SUFFICES ASSUME TypeOK, IndInv, WriteClass PROVE IndInv'
  OBVIOUS
<1> DEFINE i == cursor
           r == all[cursor]
<1>0. /\ pc = "write" /\ pc' = "write" /\ all' = all /\ cursor' = i + 1
      /\ UNCHANGED <<allNotFound, klassID>> /\ i \in 1..Len(all)
  BY OutType DEF WriteClass, parseVars
<1>1. /\ Len(all) \in Nat /\ i \in Nat /\ klassID \in Nat /\ r \in Record /\ r.id = i
      /\ Len(out) \in Nat /\ out \in Seq(OutLine)
  BY <1>0, AllFacts, OutType, LaterFacts DEF Writing
<1>2. /\ \A k \in 1..Len(out) : out[k].found /\ out[k].id \in Nat /\ out[k].id < i
      /\ \A j \in 1..Len(all) : j < i /\ ~all[j].invalid => \E k \in 1..Len(out) : out[k].id = j
      /\ WrittenClosed /\ WrittenIdsIncrease
  BY <1>0, LaterFacts DEF WriteInv, Writing
<1>3. RawInv' /\ NumberInv' /\ ParentInv' /\ NotFoundInv'
  BY <1>0, <1>1, LaterStep, NotFoundUnchanged DEF Writing
<1>4. CASE r.invalid
  <2>1. out' = out
    BY <1>4 DEF WriteClass
  <2>2. WriteInv'
    BY <1>0, <1>1, <1>2, <1>4, <2>1 DEF WriteInv
  <2>. QED
    BY <1>2, <1>3, <2>1, <2>2, OutUnchanged DEF IndInv
<1>5. CASE ~r.invalid
  <2> DEFINE l == ClassLine(r)
  <2>1. out' = Append(out, l) /\ l \in OutLine /\ l.id = i /\ l.found
        /\ Parents(l) \subseteq Parents(r)
    BY <1>1, <1>5, ClassLineType DEF WriteClass
  <2>2. \A x \in Parents(r) : x \in 1..Len(all) /\ x < i /\ ~all[x].invalid
    <3>1. i \in 1..Processed
      BY <1>0, LaterFacts DEF Writing
    <3>2. \A x \in Parents(r) : x \in 1..(i - 1) /\ ~all[x].invalid
      BY <1>0, <1>5, <3>1, LaterFacts DEF ParentInv, Writing
    <3>. QED
      BY <1>0, <1>1, <3>2
  <2>3. \A x \in Parents(l) : \E k \in 1..Len(out) : out[k].found /\ out[k].id = x
    BY <1>2, <2>1, <2>2
  <2>4. WrittenClosed' /\ WrittenIdsIncrease'
    BY <1>1, <1>2, <2>1, <2>3, AppendLine
  <2>5. /\ Len(out') = Len(out) + 1 /\ out'[Len(out) + 1] = l
        /\ \A k \in 1..Len(out) : out'[k] = out[k]
    BY <1>1, <2>1
  <2>6. \A k \in 1..Len(out') : out'[k].found /\ out'[k].id \in Nat /\ out'[k].id < i + 1
    BY <1>1, <1>2, <2>1, <2>5
  <2>7. \A j \in 1..Len(all) : j < i + 1 /\ ~all[j].invalid => \E k \in 1..Len(out') : out'[k].id = j
    <3> SUFFICES ASSUME NEW j \in 1..Len(all), j < i + 1, ~all[j].invalid
                 PROVE  \E k \in 1..Len(out') : out'[k].id = j
      OBVIOUS
    <3>1. CASE j = i
      BY <1>1, <2>1, <2>5, <3>1
    <3>2. CASE j < i
      <4>1. PICK k \in 1..Len(out) : out[k].id = j
        BY <1>2, <3>2
      <4>2. k \in 1..Len(out') /\ out'[k].id = j
        BY <1>1, <2>5, <4>1
      <4>. QED
        BY <4>2
    <3>. QED
      BY <1>1, <3>1, <3>2
  <2>8. WriteInv'
    BY <1>0, <1>1, <2>6, <2>7 DEF WriteInv
  <2>. QED
    BY <1>3, <2>4, <2>8 DEF IndInv
<1>. QED
  BY <1>4, <1>5

LEMMA WriteNotFoundInv == TypeOK /\ IndInv /\ WriteNotFound => IndInv'
<1> SUFFICES ASSUME TypeOK, IndInv, WriteNotFound PROVE IndInv'
  OBVIOUS
<1> DEFINE i == cursor
           r == allNotFound[cursor]
<1>0. /\ pc = "writeNotFound" /\ pc' = "writeNotFound" /\ all' = all /\ cursor' = i + 1
      /\ UNCHANGED <<allNotFound, klassID>> /\ i \in 1..Len(allNotFound)
  BY OutType DEF WriteNotFound, parseVars
<1>1. /\ Len(all) \in Nat /\ i \in Nat /\ klassID \in Nat /\ r \in NotFoundRecord
      /\ Len(out) \in Nat /\ out \in Seq(OutLine)
  BY <1>0, AllFacts, OutType, NotFoundFacts
<1>2. /\ \A k \in 1..Len(out) :
              \/ out[k].found /\ out[k].id \in Nat /\ out[k].id <= Len(all)
              \/ \E m \in 1..Len(allNotFound) :
                    /\ m < i /\ ~allNotFound[m].invalid /\ out[k].id = allNotFound[m].id
      /\ WrittenClosed /\ WrittenIdsIncrease
  BY <1>0, LaterFacts DEF WriteInv, Writing
<1>3. RawInv' /\ NumberInv' /\ ParentInv' /\ NotFoundInv'
  BY <1>0, <1>1, LaterStep, NotFoundUnchanged DEF Writing
<1>4. CASE r.invalid
  <2>1. out' = out
    BY <1>4 DEF WriteNotFound
  <2>2. WriteInv'
    BY <1>0, <1>1, <1>2, <2>1 DEF WriteInv
  <2>. QED
    BY <1>2, <1>3, <2>1, <2>2, OutUnchanged DEF IndInv
<1>5. CASE ~r.invalid
  <2> DEFINE l == NotFoundLine(r)
  <2>1. out' = Append(out, l) /\ l \in OutLine /\ l.id = r.id /\ Parents(l) = {}
    BY <1>1, <1>5, NotFoundLineType DEF WriteNotFound
  <2>2. /\ r.id \in (Len(all) + 1)..(klassID - 1)
        /\ \A n \in 1..(i - 1) : ~allNotFound[n].invalid => allNotFound[n].id < r.id
    <3>1. i \in 1..Prepared
      BY <1>0, LaterFacts DEF Writing
    <3>. QED
      BY <1>0, <1>5, <3>1, LaterFacts DEF NotFoundInv, Writing
  <2>3. \A k \in 1..Len(out) : out[k].id < r.id
    <3> SUFFICES ASSUME NEW k \in 1..Len(out) PROVE out[k].id < r.id
      OBVIOUS
    <3>1. CASE out[k].id \in Nat /\ out[k].id <= Len(all)
      BY <1>1, <2>2, <3>1
    <3>2. ASSUME NEW m \in 1..Len(allNotFound), m < i, ~allNotFound[m].invalid,
                 out[k].id = allNotFound[m].id
          PROVE  out[k].id < r.id
      <4>1. m \in 1..(i - 1)
        BY <1>1, <3>2
      <4>. QED
        BY <2>2, <3>2, <4>1
    <3>. QED
      BY <1>2, <3>1, <3>2
  <2>4. WrittenClosed' /\ WrittenIdsIncrease'
    BY <1>1, <1>2, <2>1, <2>2, <2>3, AppendLine
  <2>5. /\ Len(out') = Len(out) + 1 /\ out'[Len(out) + 1] = l
        /\ \A k \in 1..Len(out) : out'[k] = out[k]
    BY <1>1, <2>1
  <2>6. ASSUME NEW k \in 1..Len(out')
        PROVE  \/ out'[k].found /\ out'[k].id \in Nat /\ out'[k].id <= Len(all)
               \/ \E m \in 1..Len(allNotFound) :
                     /\ m < i + 1 /\ ~allNotFound[m].invalid /\ out'[k].id = allNotFound[m].id
    <3>1. CASE k = Len(out) + 1
      BY <1>0, <1>1, <1>5, <2>1, <2>5, <3>1
    <3>2. CASE k \in 1..Len(out)
      BY <1>1, <1>2, <2>5, <3>2
    <3>. QED
      BY <1>1, <2>5, <3>1, <3>2
  <2>7. WriteInv'
    BY <1>0, <2>6 DEF WriteInv
  <2>. QED
    BY <1>3, <2>4, <2>7 DEF IndInv
<1>. QED
  BY <1>4, <1>5

LEMMA EndInv ==
    TypeOK /\ IndInv /\ (EndNotFound \/ EndWrite \/ EndWriteNotFound) => IndInv'
<1> SUFFICES ASSUME TypeOK, IndInv, EndNotFound \/ EndWrite \/ EndWriteNotFound PROVE IndInv'
  OBVIOUS
<1>0. /\ UNCHANGED <<all, allNotFound, klassID, out>> /\ cursor' = 1
      /\ pc \in Writing \cup {"notFound"}
      /\ pc = "notFound" => cursor > Len(allNotFound)
  BY DEF EndNotFound, EndWrite, EndWriteNotFound, Writing, parseVars, fileVars
<1>1. WrittenClosed' /\ WrittenIdsIncrease'
  BY <1>0, LaterFacts, OutUnchanged
<1>2. CASE pc' = "done"
  BY <1>1, <1>2 DEF IndInv
<1>3. CASE pc' # "done"
  <2>1. pc' \in Writing
    BY <1>3 DEF EndNotFound, EndWrite, EndWriteNotFound, Writing
  <2>2. RawInv' /\ NumberInv' /\ ParentInv' /\ NotFoundInv'
    BY <1>0, <2>1, AllFacts, LaterStep, NotFoundUnchanged
  <2>3. WriteInv'
    <3>1. CASE EndNotFound
      BY <1>0, <3>1, LaterFacts, AllFacts DEF EndNotFound, WriteInv
    <3>2. CASE EndWrite
      <4>1. pc = "write" /\ pc' = "writeNotFound" /\ cursor <= Len(all) + 1
        BY <3>2, LaterFacts DEF EndWrite, WriteInv, Writing
      <4>2. \A k \in 1..Len(out) : out[k].found /\ out[k].id \in Nat /\ out[k].id < cursor
        BY <4>1, LaterFacts DEF WriteInv, Writing
      <4>3. \A k \in 1..Len(out) : out[k].found /\ out[k].id \in Nat /\ out[k].id <= Len(all)
        BY <4>1, <4>2, AllFacts, OutType
      <4>. QED
        BY <1>0, <4>1, <4>3 DEF WriteInv
    <3>3. CASE EndWriteNotFound
      BY <1>3, <3>3 DEF EndWriteNotFound, WriteInv
    <3>. QED
      BY <3>1, <3>2, <3>3
  <2>. QED
    BY <1>1, <2>2, <2>3 DEF IndInv
<1>. QED
  BY <1>2, <1>3

LEMMA FingerprintInv == TypeOK /\ IndInv /\ (AddFingerprint \/ EndFingerprint) => IndInv'
<1> SUFFICES ASSUME TypeOK, IndInv, AddFingerprint \/ EndFingerprint PROVE IndInv'
  OBVIOUS
<1>0. /\ UNCHANGED <<all, allNotFound, klassID, out>> /\ pc = "fingerprint"
      /\ pc' \in {"fingerprint", "done", "failed"}
  BY DEF AddFingerprint, EndFingerprint, parseVars
<1>1. WrittenClosed' /\ WrittenIdsIncrease'
  BY <1>0, LaterFacts, OutUnchanged DEF Writing
<1>2. CASE pc' \in {"done", "failed"}
  BY <1>1, <1>2 DEF IndInv
<1>3. CASE pc' = "fingerprint"
  <2>1. RawInv' /\ NumberInv' /\ ParentInv' /\ NotFoundInv'
    BY <1>0, <1>3, AllFacts, LaterStep, NotFoundUnchanged DEF Writing
  <2>2. WriteInv'
    BY <1>3 DEF WriteInv
  <2>. QED
    BY <1>1, <2>1, <2>2 DEF IndInv
<1>. QED
  BY <1>0, <1>2, <1>3

LEMMA InitInv == Init => IndInv
<1> SUFFICES ASSUME Init PROVE IndInv
  OBVIOUS
<1>1. /\ Processed = 0 /\ Prepared = 0 /\ Len(all) = 0 /\ Len(out) = 0 /\ DOMAIN idIds = {}
      /\ pc = "parse" /\ cursor = 1 /\ klassID = 1 /\ out = << >>
  BY DEF Init, Processed, Prepared
<1>. QED
  BY <1>1 DEF IndInv, RawInv, NumberInv, ParentInv, NotFoundInv, WriteInv, WrittenClosed,
              WrittenIdsIncrease

LEMMA StutterInv == IndInv /\ UNCHANGED vars => IndInv'
BY DEF IndInv, RawInv, NumberInv, ParentInv, NotFoundInv, WriteInv, WrittenClosed,
       WrittenIdsIncrease, Processed, Prepared, Parents, vars, parseVars, decodeVars, fileVars

LEMMA IndStep == TypeOK /\ TypeOK' /\ IndInv /\ [Next]_vars => IndInv'
BY ParseInv, DecodeInv, PrepareNotFoundInv, WriteClassInv, WriteNotFoundInv, EndInv,
   FingerprintInv, StutterInv DEF Next

\* The inductive invariant: positions are ids, valid records have valid
\* parents before them, and the final list holds them in that order.
THEOREM Inductive == Spec => []IndInv
BY InitInv, IndStep, TypeCorrect, PTL DEF Spec

\* The final list is closed under super and interfaces, parents first: the
\* JVM that dumps the archive never meets an id it has not read yet.
THEOREM Closed == Spec => []WrittenClosed
<1>1. IndInv => WrittenClosed
  BY DEF IndInv
<1>. QED
  BY <1>1, Inductive, PTL

\* No two lines of the final list, of classes or of not-found classes, share
\* an id, and ids increase along the list.
THEOREM IdsIncrease == Spec => []WrittenIdsIncrease
<1>1. IndInv => WrittenIdsIncrease
  BY DEF IndInv
<1>. QED
  BY <1>1, Inductive, PTL

-----------------------------------------------------------------------------
(* Numbering the klass lines. *)

LEMMA KlassLineFacts ==
    ASSUME TypeOK
    PROVE  /\ lines \in Seq(Lines) /\ Len(lines) \in Nat /\ DOMAIN lines = 1..Len(lines)
           /\ KlassLines \subseteq 1..Len(lines)
           /\ IsFiniteSet(KlassLines) /\ Cardinality(KlassLines) \in Nat
           /\ \A p \in KlassLines : p \in Nat /\ lines[p] \in Lines /\ IsKlass(lines[p])
           /\ \A p \in Nat : Count(p) \in Nat /\ Count(p) <= Cardinality(KlassLines)
<1>1. lines \in Seq(Lines) /\ Len(lines) \in Nat /\ DOMAIN lines = 1..Len(lines)
  BY DEF TypeOK
<1>2. KlassLines \subseteq 1..Len(lines) /\ IsFiniteSet(1..Len(lines))
  BY <1>1, FS_Interval DEF KlassLines
<1>3. IsFiniteSet(KlassLines) /\ Cardinality(KlassLines) \in Nat
  BY <1>2, FS_Subset, FS_CardinalityType
<1>4. ASSUME NEW p \in Nat
      PROVE  Count(p) \in Nat /\ Count(p) <= Cardinality(KlassLines)
  <2> DEFINE T == {q \in KlassLines : q <= p}
  <2>1. T \in SUBSET KlassLines
    OBVIOUS
  <2> HIDE DEF T
  <2>2. Cardinality(T) \in Nat /\ Cardinality(T) <= Cardinality(KlassLines)
    BY <1>3, <2>1, FS_Subset, FS_CardinalityType
  <2>. QED
    BY <2>2 DEF Count, T
<1>. QED
  BY <1>1, <1>2, <1>3, <1>4 DEF KlassLines

LEMMA CountIncreases ==
    ASSUME TypeOK, NEW p \in KlassLines, NEW q \in KlassLines, p < q
    PROVE  Count(p) < Count(q)
<1> DEFINE S == {r \in KlassLines : r <= p}
           T == {r \in KlassLines : r <= q}
<1>0. p \in Nat /\ q \in Nat /\ KlassLines \subseteq Nat
  BY KlassLineFacts
<1>1. S \in SUBSET T /\ T \in SUBSET KlassLines /\ q \in T /\ q \notin S
  <2>1. \A r \in KlassLines : r <= p => r <= q
    BY <1>0
  <2>2. q <= q /\ ~(q <= p)
    BY <1>0
  <2>. QED
    BY <2>1, <2>2
<1>2. Count(p) = Cardinality(S) /\ Count(q) = Cardinality(T) /\ Count(p) \in Nat /\ Count(q) \in Nat
  BY <1>0, KlassLineFacts DEF Count
<1> HIDE DEF S, T
<1>3. IsFiniteSet(T)
  BY <1>1, KlassLineFacts, FS_Subset
<1>4. Cardinality(S) <= Cardinality(T) /\ Cardinality(S) # Cardinality(T)
  BY <1>1, <1>3, FS_Subset
<1>. QED
  BY <1>2, <1>4

\* Two klass lines with the same number are one.
LEMMA CountInjective ==
    ASSUME TypeOK, NEW p \in KlassLines, NEW q \in KlassLines, Count(p) = Count(q)
    PROVE  p = q
<1>1. p \in Nat /\ q \in Nat /\ Count(p) \in Nat
  BY KlassLineFacts
<1>2. ~(p < q) /\ ~(q < p)
  BY <1>1, CountIncreases
<1>. QED
  BY <1>1, <1>2

LEMMA PositionFacts ==
    ASSUME TypeOK, PositionInv
    PROVE  /\ DOMAIN Klasses = 1..Cardinality(KlassLines)
           /\ \A i \in 1..Cardinality(KlassLines) :
                 /\ Position(i) \in KlassLines /\ Position(i) \in 1..Len(lines)
                 /\ Count(Position(i)) = i
                 /\ Klasses[i] = lines[Position(i)] /\ Klasses[i] \in Lines
                 /\ IsKlass(Klasses[i])
           /\ \A p \in KlassLines : /\ Count(p) \in 1..Cardinality(KlassLines)
                                    /\ Position(Count(p)) = p
           /\ \A i, j \in 1..Cardinality(KlassLines) : i < j => Position(i) < Position(j)
<1>1. ASSUME NEW i \in 1..Cardinality(KlassLines)
      PROVE  Position(i) \in KlassLines /\ Count(Position(i)) = i
  <2>1. \E p \in KlassLines : Count(p) = i
    BY DEF PositionInv
  <2>. QED
    BY <2>1, Zenon DEF Position
<1>2. /\ DOMAIN Klasses = 1..Cardinality(KlassLines)
      /\ \A i \in 1..Cardinality(KlassLines) : Klasses[i] = lines[Position(i)]
  BY DEF Klasses
<1>3. ASSUME NEW p \in KlassLines
      PROVE  Count(p) \in 1..Cardinality(KlassLines) /\ Position(Count(p)) = p
  <2>1. p \in Nat /\ Count(p) \in Nat /\ Count(p) <= Cardinality(KlassLines)
        /\ Cardinality(KlassLines) \in Nat
    BY KlassLineFacts
  <2>2. Count(p) # 0
    <3> DEFINE T == {q \in KlassLines : q <= p}
    <3>1. T \in SUBSET KlassLines /\ p \in T
      BY <2>1
    <3> HIDE DEF T
    <3>2. Cardinality(T) # 0
      BY <3>1, KlassLineFacts, FS_Subset, FS_EmptySet
    <3>. QED
      BY <3>2 DEF T, Count
  <2>3. Count(p) \in 1..Cardinality(KlassLines)
    BY <2>1, <2>2
  <2>. QED
    BY <1>1, <2>3, CountInjective
<1>4. ASSUME NEW i \in 1..Cardinality(KlassLines), NEW j \in 1..Cardinality(KlassLines), i < j
      PROVE  Position(i) < Position(j)
  <2>1. Position(i) \in Nat /\ Position(j) \in Nat
    BY <1>1, KlassLineFacts
  <2>2. Position(j) < Position(i) => Count(Position(j)) < Count(Position(i))
    BY <1>1, CountIncreases
  <2>3. Count(Position(i)) = i /\ Count(Position(j)) = j /\ i \in Nat /\ j \in Nat
    BY <1>1, KlassLineFacts
  <2>4. ~(Position(j) < Position(i)) /\ Position(i) # Position(j)
    BY <1>4, <2>2, <2>3
  <2>. QED
    BY <2>1, <2>4
<1>. QED
  BY <1>1, <1>2, <1>3, <1>4, KlassLineFacts

\* A line that is no klass line leaves the numbers as they are.
LEMMA AddOtherLine ==
    ASSUME TypeOK, PositionInv, NEW l \in Lines, lines' = Append(lines, l), ~IsKlass(l)
    PROVE  /\ PositionInv' /\ KlassLines' = KlassLines /\ Klasses' = Klasses
           /\ \A i : Position(i)' = Position(i)
<1>1. KlassLines' = KlassLines
  <2>0. lines \in Seq(Lines) /\ Len(lines) \in Nat /\ DOMAIN lines = 1..Len(lines)
    BY KlassLineFacts
  <2>1. DOMAIN lines' = DOMAIN lines \cup {Len(lines) + 1}
        /\ lines'[Len(lines) + 1] = l /\ \A p \in DOMAIN lines : lines'[p] = lines[p]
    BY <2>0
  <2>. QED
    BY <2>1 DEF KlassLines
<1>2. \A p : Count(p)' = Count(p)
  BY <1>1 DEF Count
<1>3. \A i : Position(i)' = Position(i)
  BY <1>1, <1>2 DEF Position
<1>4. Klasses' = Klasses
  <2>1. \A i \in 1..Cardinality(KlassLines) : lines'[Position(i)] = lines[Position(i)]
    BY PositionFacts, KlassLineFacts
  <2>. QED
    BY <1>1, <1>3, <2>1 DEF Klasses
<1>5. PositionInv'
  BY <1>1, <1>2 DEF PositionInv
<1>. QED
  BY <1>1, <1>3, <1>4, <1>5

\* A klass line gets the next number.
LEMMA AddKlassLine ==
    ASSUME TypeOK, PositionInv, NEW l \in Lines, lines' = Append(lines, l), IsKlass(l),
           NEW n, n = Cardinality(KlassLines), NEW m, m = Len(lines) + 1
    PROVE  /\ PositionInv' /\ KlassLines' = KlassLines \cup {m}
           /\ Cardinality(KlassLines)' = n + 1 /\ DOMAIN Klasses' = 1..(n + 1)
           /\ \A i \in 1..n : Position(i)' = Position(i) /\ Klasses'[i] = Klasses[i]
           /\ Position(n + 1)' = m /\ Klasses'[n + 1] = l
<1>0. /\ n \in Nat /\ m \in Nat /\ m \notin KlassLines /\ \A p \in KlassLines : p \in Nat /\ p < m
      /\ DOMAIN lines' = DOMAIN lines \cup {m}
      /\ lines'[m] = l /\ \A p \in DOMAIN lines : lines'[p] = lines[p]
  <2>1. lines \in Seq(Lines) /\ Len(lines) \in Nat /\ DOMAIN lines = 1..Len(lines) /\ n \in Nat
    BY KlassLineFacts
  <2>2. \A p \in KlassLines : p \in 1..Len(lines)
    BY KlassLineFacts
  <2>3. m \in Nat /\ m \notin KlassLines /\ \A p \in KlassLines : p \in Nat /\ p < m
    BY <2>1, <2>2
  <2>. QED
    BY <2>1, <2>3
<1>1. KlassLines' = KlassLines \cup {m}
  BY <1>0 DEF KlassLines
<1>2. Cardinality(KlassLines') = n + 1
  BY <1>0, <1>1, KlassLineFacts, FS_AddElement
<1>3. ASSUME NEW p \in KlassLines PROVE Count(p)' = Count(p)
  <2>1. {q \in KlassLines' : q <= p} = {q \in KlassLines : q <= p}
    BY <1>0, <1>1
  <2>. QED
    BY <2>1 DEF Count
<1>4. Count(m)' = n + 1
  <2>1. {q \in KlassLines' : q <= m} = KlassLines'
    BY <1>0, <1>1
  <2>. QED
    BY <1>2, <2>1 DEF Count
<1>5. ASSUME NEW i \in 1..n PROVE Position(i)' = Position(i)
  <2>1. Position(i) \in KlassLines /\ Count(Position(i)) = i /\ i # n + 1
    BY <1>0, PositionFacts
  <2>2. \A p \in KlassLines' : Count(p)' = i => p = Position(i)
    BY <1>1, <1>3, <1>4, <2>1, CountInjective
  <2>3. \E p \in KlassLines' : Count(p)' = i
    BY <1>1, <1>3, <2>1
  <2>4. Position(i)' = CHOOSE p \in KlassLines' : Count(p)' = i
    BY DEF Position
  <2>. QED
    BY <2>2, <2>3, <2>4
<1>6. Position(n + 1)' = m
  <2>1. \A p \in KlassLines : Count(p)' # n + 1
    BY <1>0, <1>3, KlassLineFacts
  <2>2. Position(n + 1)' = CHOOSE p \in KlassLines' : Count(p)' = n + 1
    BY DEF Position
  <2>. QED
    BY <1>1, <1>4, <2>1, <2>2
<1>7. PositionInv'
  <2> SUFFICES ASSUME NEW i \in 1..(n + 1) PROVE \E p \in KlassLines' : Count(p)' = i
    BY <1>2 DEF PositionInv
  <2>1. CASE i = n + 1
    BY <1>1, <1>4, <2>1
  <2>2. CASE i \in 1..n
    BY <1>1, <1>3, <2>2, PositionFacts
  <2>. QED
    BY <1>0, <2>1, <2>2
<1>8. /\ DOMAIN Klasses' = 1..(n + 1)
      /\ \A i \in 1..(n + 1) : Klasses'[i] = lines'[Position(i)']
  BY <1>2 DEF Klasses
<1>9. \A i \in 1..n : Klasses'[i] = Klasses[i]
  BY <1>0, <1>5, <1>8, PositionFacts, KlassLineFacts
<1>10. Klasses'[n + 1] = l
  BY <1>0, <1>6, <1>8
<1>. QED
  BY <1>1, <1>2, <1>5, <1>6, <1>7, <1>8, <1>9, <1>10

-----------------------------------------------------------------------------
(* What each collection holds of the lines: reading the file. *)

\* A line that is read comes after the others.
LEMMA ReadFacts ==
    ASSUME TypeOK, PositionInv, NEW l \in Lines, Read(l), NEW m, m = Len(lines) + 1
    PROVE  /\ lines' = Append(lines, l) /\ m \in Nat \ {0}
           /\ DOMAIN lines = 1..(m - 1) /\ DOMAIN lines' = 1..m
           /\ lines'[m] = l /\ \A p \in 1..(m - 1) : lines'[p] = lines[p]
           /\ PositionInv' /\ KlassLines \subseteq 1..(m - 1)
           /\ \A i \in 1..Cardinality(KlassLines) :
                 Position(i)' = Position(i) /\ Klasses'[i] = Klasses[i]
           /\ UNCHANGED <<cursor, idIds, eagerSet, appSet, signCache, klassID, out, fingerprints>>
<1>1. lines' = Append(lines, l) /\ lines \in Seq(Lines) /\ Len(lines) \in Nat
  BY KlassLineFacts DEF Read
<1>2. /\ m \in Nat \ {0} /\ DOMAIN lines = 1..(m - 1) /\ DOMAIN lines' = 1..m
      /\ lines'[m] = l /\ \A p \in 1..(m - 1) : lines'[p] = lines[p]
  BY <1>1
<1>3. KlassLines \subseteq 1..(m - 1)
  BY <1>2 DEF KlassLines
<1>4. UNCHANGED <<cursor, idIds, eagerSet, appSet, signCache, klassID, out, fingerprints>>
  BY DEF Read, decodeVars, fileVars
<1>5. CASE IsKlass(l)
  <2>1. PICK n : n = Cardinality(KlassLines)
    OBVIOUS
  <2>. QED
    BY <1>1, <1>2, <1>3, <1>4, <1>5, <2>1, AddKlassLine
<1>6. CASE ~IsKlass(l)
  BY <1>1, <1>2, <1>3, <1>4, <1>6, AddOtherLine
<1>. QED
  BY <1>5, <1>6

\* The line completes the last class that has its key.
LEMMA CompletionsGrow ==
    ASSUME TypeOK, PositionInv, NEW l \in Lines, Read(l), NEW m, m = Len(lines) + 1,
           NEW i \in 1..Cardinality(KlassLines)
    PROVE  /\ Completions(i) \subseteq 1..(m - 1)
           /\ \A q : q \in Completions(i)' <=>
                 \/ q \in Completions(i)
                 \/ /\ q = m /\ IsInitiating(l) /\ Key(l) = Key(Klasses[i])
                    /\ \A k \in KlassLines : k > Position(i) => Key(lines[k]) # Key(Klasses[i])
<1> DEFINE p == Position(i)
           key == Key(Klasses[i])
<1>1. /\ m \in Nat \ {0} /\ DOMAIN lines = 1..(m - 1) /\ DOMAIN lines' = 1..m
      /\ lines'[m] = l /\ \A k \in 1..(m - 1) : lines'[k] = lines[k]
      /\ p' = p /\ Klasses'[i] = Klasses[i] /\ KlassLines \subseteq 1..(m - 1)
  BY ReadFacts
<1>2. p \in 1..(m - 1)
  BY <1>1, PositionFacts
<1>3. Completions(i) \subseteq 1..(m - 1)
  BY <1>1 DEF Completions
<1>4. key' = key
  BY <1>1 DEF Key
<1>5. \A q : q \in Completions(i)' <=>
         /\ q \in 1..m /\ q > p /\ IsInitiating(lines'[q]) /\ Key(lines'[q]) = key
         /\ \A k \in (p + 1)..q : IsKlass(lines'[k]) => Key(lines'[k]) # key
  <2>1. \A q : q \in Completions(i)' <=>
         /\ q \in DOMAIN lines' /\ q > p' /\ IsInitiating(lines'[q]) /\ Key(lines'[q]) = key'
         /\ \A k \in (p' + 1)..q : IsKlass(lines'[k]) => Key(lines'[k]) # key'
    BY DEF Completions
  <2> HIDE DEF p, key
  <2>. QED
    BY <1>1, <1>4, <2>1
<1>6. \A q : q \in Completions(i) <=>
         /\ q \in 1..(m - 1) /\ q > p /\ IsInitiating(lines[q]) /\ Key(lines[q]) = key
         /\ \A k \in (p + 1)..q : IsKlass(lines[k]) => Key(lines[k]) # key
  BY <1>1 DEF Completions
<1>7. ASSUME NEW q \in 1..(m - 1) PROVE q \in Completions(i)' <=> q \in Completions(i)
  <2>1. \A k \in (p + 1)..q : lines'[k] = lines[k]
    BY <1>1, <1>2
  <2>2. q \in 1..m /\ lines'[q] = lines[q]
    BY <1>1
  <2> HIDE DEF p, key
  <2>. QED
    BY <1>5, <1>6, <2>1, <2>2
<1>8. IsInitiating(l) => ~IsKlass(l)
  BY DEF IsKlass
<1>9. (/\ IsInitiating(l) /\ Key(l) = key
       /\ \A k \in (p + 1)..m : IsKlass(lines'[k]) => Key(lines'[k]) # key)
      <=> (/\ IsInitiating(l) /\ Key(l) = key
           /\ \A k \in KlassLines : k > p => Key(lines[k]) # key)
  <2>1. \A k \in KlassLines : k \in 1..(m - 1) /\ IsKlass(lines[k])
    BY <1>1 DEF KlassLines
  <2>2. \A k \in 1..(m - 1) : IsKlass(lines[k]) => k \in KlassLines
    BY <1>1 DEF KlassLines
  <2> HIDE DEF p, key
  <2>3. ASSUME IsInitiating(l), \A k \in (p + 1)..m : IsKlass(lines'[k]) => Key(lines'[k]) # key
        PROVE  \A k \in KlassLines : k > p => Key(lines[k]) # key
    BY <1>1, <1>2, <2>1, <2>3
  <2>4. ASSUME IsInitiating(l), \A k \in KlassLines : k > p => Key(lines[k]) # key,
               NEW k \in (p + 1)..m, IsKlass(lines'[k])
        PROVE  Key(lines'[k]) # key
    <3>1. k # m
      BY <1>1, <1>8, <2>4
    <3>2. k \in 1..(m - 1) /\ k > p
      BY <1>1, <1>2, <3>1
    <3>. QED
      BY <1>1, <2>2, <2>4, <3>2
  <2>. QED
    BY <2>3, <2>4
<1>10. m \in Completions(i)' <=> /\ IsInitiating(l) /\ Key(l) = key
                                /\ \A k \in KlassLines : k > p => Key(lines[k]) # key
  <2> HIDE DEF p, key
  <2>1. m \in 1..m /\ m > p /\ lines'[m] = l
    BY <1>1, <1>2
  <2>. QED
    BY <1>5, <1>9, <2>1
<1>11. \A q : q \in Completions(i)' => q \in 1..(m - 1) \/ q = m
  <2> HIDE DEF p, key
  <2>1. \A q \in 1..m : q \in 1..(m - 1) \/ q = m
    BY <1>1
  <2>. QED
    BY <1>5, <2>1
<1>. QED
  BY <1>3, <1>7, <1>10, <1>11

LEMMA ParseFrame ==
    ASSUME TypeOK, IndInv, ExactInv, pc = "parse", pc' \in {"parse", "decode"},
           UNCHANGED <<cursor, idIds, eagerSet, appSet, out, fingerprints>>
    PROVE  /\ Processed = 0 /\ Processed' = 0 /\ Prepared' = 0 /\ appSet = {}
           /\ PositionInv /\ RecordInv /\ KeyInv /\ CompletionInv /\ MissedInv
           /\ AddressInv' /\ ValidInv' /\ LoaderInv' /\ OutInv' /\ FileInv'
<1>1. /\ PositionInv /\ RecordInv /\ KeyInv /\ CompletionInv /\ LoaderInv /\ MissedInv /\ FileInv
      /\ NumberInv /\ WriteInv
  BY DEF ExactInv, IndInv
<1>2. cursor = 1 /\ DOMAIN idIds = {} /\ out = << >> /\ fingerprints = << >>
  BY <1>1 DEF NumberInv, WriteInv, FileInv
<1>3. Processed = 0 /\ Processed' = 0 /\ Prepared' = 0
  BY <1>2 DEF Processed, Prepared
<1>4. Written' = 0 /\ WrittenNotFound' = 0 /\ Looked' = 0
  BY DEF Written, WrittenNotFound, Looked
<1>5. appSet = {} /\ eagerSet = {}
  BY <1>1, <1>3 DEF LoaderInv
<1>6. AddressInv' /\ ValidInv'
  BY <1>2, <1>3 DEF AddressInv, ValidInv
<1>7. LoaderInv'
  BY <1>3, <1>5 DEF LoaderInv
<1>8. OutInv' /\ FileInv'
  BY <1>2, <1>4 DEF OutInv, FileInv
<1>. QED
  BY <1>1, <1>3, <1>5, <1>6, <1>7, <1>8

\* A line that is no klass line leaves the records in their places.
LEMMA OtherLine ==
    ASSUME TypeOK, IndInv, ExactInv, pc = "parse", pc' \in {"parse", "decode"},
           NEW l \in Lines, Read(l), ~IsKlass(l), nameid' = nameid, Len(all') = Len(all),
           \A i \in 1..Len(all) :
               /\ all'[i].name = all[i].name /\ all'[i].origin = all[i].origin
               /\ all'[i].defining = all[i].defining /\ all'[i].id = all[i].id
               /\ all'[i].super = all[i].super /\ all'[i].interfaces = all[i].interfaces
               /\ all'[i].source = all[i].source
    PROVE  RecordInv' /\ KeyInv'
<1>1. PositionInv /\ RecordInv /\ KeyInv /\ Processed = 0 /\ Processed' = 0
  BY ParseFrame DEF Read, decodeVars, fileVars
<1>2. lines' = Append(lines, l)
  BY DEF Read
<1>3. KlassLines' = KlassLines /\ Klasses' = Klasses
  BY <1>1, <1>2, AddOtherLine
<1>4. RecordInv'
  BY <1>1, <1>3 DEF RecordInv
<1>5. KeyInv'
  <2>1. \A i : Key(Klasses[i])' = Key(Klasses[i])
    BY <1>3 DEF Key
  <2>2. \A i : Key(Klasses'[i]) = Key(Klasses[i])
    BY <1>3
  <2>. QED
    BY <1>1, <1>3, <2>2 DEF KeyInv
<1>. QED
  BY <1>4, <1>5

\* A line that is no not-found line leaves those as they are.
LEMMA OtherMissed ==
    ASSUME TypeOK, IndInv, ExactInv, pc = "parse", pc' \in {"parse", "decode"},
           NEW l \in Lines, Read(l), ~IsNotFound(l), UNCHANGED <<allNotFound, notFoundSet>>
    PROVE  MissedInv'
<1>1. PICK m : m = Len(lines) + 1
  OBVIOUS
<1>2. /\ PositionInv /\ MissedInv /\ Prepared' = 0 /\ appSet' = {} /\ appSet = {}
  BY ParseFrame DEF Read, decodeVars, fileVars
<1>3. /\ m \in Nat \ {0} /\ DOMAIN lines = 1..(m - 1) /\ DOMAIN lines' = 1..m
      /\ lines'[m] = l /\ \A p \in 1..(m - 1) : lines'[p] = lines[p]
  BY <1>1, <1>2, ReadFacts
<1>4. {q \in DOMAIN lines' : IsNotFound(lines'[q])} = {q \in DOMAIN lines : IsNotFound(lines[q])}
  <2>1. 1..m = (1..(m - 1)) \cup {m}
    BY <1>3
  <2>. QED
    BY <1>3, <2>1
<1>5. {Pair(lines'[p]) : p \in {q \in DOMAIN lines' : IsNotFound(lines'[q])}}
        = {Pair(lines[p]) : p \in {q \in DOMAIN lines : IsNotFound(lines[q])}}
  BY <1>3, <1>4
<1>6. \A k \in DOMAIN allNotFound : Pair(allNotFound[k])' = Pair(allNotFound[k])
  BY DEF Pair
<1>7. \A k \in DOMAIN allNotFound : ~allNotFound[k].invalid
  BY <1>2 DEF MissedInv
<1>. QED
  BY <1>2, <1>5, <1>6, <1>7 DEF MissedInv

LEMMA CompletionKept ==
    ASSUME TypeOK, PositionInv, RecordInv, CompletionInv, NEW l \in Lines, Read(l),
           NEW i \in 1..Len(all), Completions(i)' = Completions(i),
           all'[i].initiating = all[i].initiating
    PROVE  \/ Completions(i)' = {} /\ all'[i].initiating = NONE
           \/ \E q \in Completions(i)' :
                /\ \A k \in Completions(i)' : q <= k
                /\ all'[i].initiating = lines'[q].initiating
<1>1. PICK m : m = Len(lines) + 1
  OBVIOUS
<1>2. Completions(i) \subseteq 1..(m - 1) /\ \A p \in 1..(m - 1) : lines'[p] = lines[p]
  BY <1>1, ReadFacts, CompletionsGrow DEF RecordInv
<1>3. CASE Completions(i) = {} /\ all[i].initiating = NONE
  BY <1>3
<1>4. ASSUME NEW q \in Completions(i), \A k \in Completions(i) : q <= k,
             all[i].initiating = lines[q].initiating
      PROVE  \E r \in Completions(i)' : /\ \A k \in Completions(i)' : r <= k
                                        /\ all'[i].initiating = lines'[r].initiating
  <2>1. lines'[q] = lines[q]
    BY <1>2, <1>4
  <2>. QED
    BY <1>4, <2>1
<1>. QED
  BY <1>3, <1>4 DEF CompletionInv

\* A line that completes nothing leaves the initiating loaders as they are.
LEMMA OtherCompletions ==
    ASSUME TypeOK, PositionInv, RecordInv, CompletionInv, NEW l \in Lines, Read(l),
           ~IsInitiating(l), NEW i \in 1..Len(all), all'[i].initiating = all[i].initiating
    PROVE  \/ Completions(i)' = {} /\ all'[i].initiating = NONE
           \/ \E q \in Completions(i)' :
                /\ \A k \in Completions(i)' : q <= k
                /\ all'[i].initiating = lines'[q].initiating
<1>1. PICK m : m = Len(lines) + 1
  OBVIOUS
<1>2. i \in 1..Cardinality(KlassLines)
  BY DEF RecordInv
<1>3. \A q : q \in Completions(i)' <=> q \in Completions(i)
  BY <1>1, <1>2, CompletionsGrow
<1>4. Completions(i)' = Completions(i)
  <2>1. \A q \in DOMAIN lines' \cup DOMAIN lines : q \in Completions(i)' <=> q \in Completions(i)
    BY <1>3
  <2>2. Completions(i)' \subseteq DOMAIN lines' /\ Completions(i) \subseteq DOMAIN lines
    BY DEF Completions
  <2>. QED
    BY <2>1, <2>2
<1>. QED
  BY <1>4, CompletionKept

\* Comments, blank lines and not-found lines are about no record.
LEMMA NoRecordLine ==
    ASSUME TypeOK, IndInv, ExactInv, pc = "parse", pc' \in {"parse", "decode"},
           NEW l \in Lines, Read(l), ~IsKlass(l), ~IsInitiating(l), UNCHANGED <<all, nameid>>,
           MissedInv'
    PROVE  ExactInv'
<1>1. /\ PositionInv /\ RecordInv /\ CompletionInv
      /\ AddressInv' /\ ValidInv' /\ LoaderInv' /\ OutInv' /\ FileInv'
  BY ParseFrame DEF Read, decodeVars, fileVars
<1>2. RecordInv' /\ KeyInv'
  BY OtherLine
<1>3. CompletionInv'
  BY <1>1, OtherCompletions DEF CompletionInv
<1>4. PositionInv'
  BY <1>1, AddOtherLine DEF Read
<1>. QED
  BY <1>1, <1>2, <1>3, <1>4 DEF ExactInv

LEMMA AddNotFoundExact ==
    ASSUME TypeOK, IndInv, ExactInv, pc = "parse", NEW l \in Lines, AddNotFound(l)
    PROVE  ExactInv'
<1>0. Read(l) /\ pc' = "parse" /\ all' = all /\ nameid' = nameid /\ IsNotFound(l)
      /\ ~IsKlass(l) /\ ~IsInitiating(l)
  BY DEF AddNotFound, IsKlass, IsNotFound, HasForm
<1>1. PICK m : m = Len(lines) + 1
  OBVIOUS
<1>2. PositionInv /\ MissedInv /\ Prepared' = 0 /\ appSet = {} /\ appSet' = {}
  BY <1>0, ParseFrame DEF Read, decodeVars, fileVars
<1>3. /\ m \in Nat \ {0} /\ DOMAIN lines = 1..(m - 1) /\ DOMAIN lines' = 1..m
      /\ lines'[m] = l /\ \A p \in 1..(m - 1) : lines'[p] = lines[p]
  BY <1>0, <1>1, <1>2, ReadFacts
<1>4. {Pair(lines'[p]) : p \in {q \in DOMAIN lines' : IsNotFound(lines'[q])}}
        = {Pair(lines[p]) : p \in {q \in DOMAIN lines : IsNotFound(lines[q])}} \cup {Pair(l)}
  <2>1. 1..m = (1..(m - 1)) \cup {m}
    BY <1>3
  <2>2. {q \in DOMAIN lines' : IsNotFound(lines'[q])}
          = {q \in DOMAIN lines : IsNotFound(lines[q])} \cup {m}
    BY <1>0, <1>3, <2>1
  <2>. QED
    BY <1>3, <2>2
<1>5. Pair(l) = <<l.name, l.initiating>>
  BY DEF Pair
<1>6. MissedInv'
  <2>0. allNotFound \in Seq(NotFoundRecord) /\ Len(allNotFound) \in Nat
        /\ DOMAIN allNotFound = 1..Len(allNotFound)
    BY NotFoundFacts
  <2>1. CASE Pair(l) \in notFoundSet
    <3>1. UNCHANGED <<allNotFound, notFoundSet>>
      BY <1>5, <2>1 DEF AddNotFound
    <3>2. \A k \in DOMAIN allNotFound : Pair(allNotFound[k])' = Pair(allNotFound[k])
      BY <3>1 DEF Pair
    <3>3. \A k \in DOMAIN allNotFound : ~allNotFound[k].invalid
      BY <1>2 DEF MissedInv
    <3>. QED
      BY <1>2, <1>4, <2>1, <3>1, <3>2, <3>3 DEF MissedInv
  <2>2. CASE Pair(l) \notin notFoundSet
    <3> DEFINE r == NewNotFound(l)
               n == Len(allNotFound) + 1
    <3>1. allNotFound' = Append(allNotFound, r) /\ notFoundSet' = notFoundSet \cup {Pair(l)}
      BY <1>5, <2>2 DEF AddNotFound
    <3>2. r \in NotFoundRecord /\ ~r.invalid /\ Pair(r) = Pair(l)
      BY NewNotFoundType DEF NewNotFound, Pair
    <3> HIDE DEF r
    <3>3. DOMAIN allNotFound' = (DOMAIN allNotFound) \cup {n} /\ allNotFound'[n] = r
          /\ \A k \in DOMAIN allNotFound : allNotFound'[k] = allNotFound[k] /\ k # n
      BY <2>0, <3>1
    <3>4. {Pair(allNotFound'[k]) : k \in DOMAIN allNotFound'} = notFoundSet'
      <4>1. notFoundSet = {Pair(allNotFound[k]) : k \in DOMAIN allNotFound}
        BY <1>2 DEF MissedInv
      <4>. QED
        BY <3>1, <3>2, <3>3, <4>1
    <3>5. \A j, k \in DOMAIN allNotFound' : Pair(allNotFound'[j]) = Pair(allNotFound'[k]) => j = k
      <4>1. \A j, k \in DOMAIN allNotFound : Pair(allNotFound[j]) = Pair(allNotFound[k]) => j = k
        BY <1>2 DEF MissedInv
      <4>2. \A k \in DOMAIN allNotFound : Pair(allNotFound[k]) # Pair(l)
        BY <1>2, <2>2 DEF MissedInv
      <4>. QED
        BY <3>2, <3>3, <4>1, <4>2
    <3>6. \A k \in DOMAIN allNotFound' : ~allNotFound'[k].invalid
      BY <1>2, <3>2, <3>3 DEF MissedInv
    <3>7. notFoundSet' = {Pair(lines'[p]) : p \in {q \in DOMAIN lines' : IsNotFound(lines'[q])}}
      BY <1>2, <1>4, <3>1 DEF MissedInv
    <3>. QED
      BY <1>2, <3>4, <3>5, <3>6, <3>7 DEF MissedInv
  <2>. QED
    BY <2>1, <2>2
<1>. QED
  BY <1>0, <1>6, NoRecordLine

LEMMA AddRecordExact ==
    ASSUME TypeOK, IndInv, ExactInv, pc = "parse", NEW l \in Lines, AddRecord(l)
    PROVE  ExactInv'
<1>0. Read(l) /\ pc' = "parse" /\ IsKlass(l) /\ ~IsInitiating(l) /\ ~IsNotFound(l)
      /\ l.id # NONE /\ UNCHANGED <<allNotFound, notFoundSet>>
      /\ all' = Append(all, NewRecord(l)) /\ nameid' = Put(nameid, Key(l), Len(all) + 1)
  BY DEF AddRecord, IsKlass, IsNotFound, HasForm
<1>1. PICK m : m = Len(lines) + 1
  OBVIOUS
<1>2. /\ PositionInv /\ RecordInv /\ KeyInv /\ CompletionInv
      /\ Processed = 0 /\ Processed' = 0
      /\ AddressInv' /\ ValidInv' /\ LoaderInv' /\ OutInv' /\ FileInv'
  BY <1>0, ParseFrame DEF Read, decodeVars, fileVars
<1>3. MissedInv'
  BY <1>0, OtherMissed
<1>4. PICK n : n = Cardinality(KlassLines)
  OBVIOUS
<1>5. n \in Nat /\ Len(all) = n
  BY <1>2, <1>4, KlassLineFacts DEF RecordInv
<1>6. /\ PositionInv' /\ Cardinality(KlassLines)' = n + 1
      /\ \A i \in 1..n : Klasses'[i] = Klasses[i]
      /\ Klasses'[n + 1] = l /\ Position(n + 1)' = m
  BY <1>0, <1>1, <1>2, <1>4, AddKlassLine DEF Read
<1>7. NewRecord(l) \in Record /\ all \in Seq(Record)
  BY <1>0, AllFacts, NewRecordType
<1>8. /\ Len(all') = n + 1 /\ all'[n + 1] = NewRecord(l)
      /\ \A i \in 1..n : all'[i] = all[i]
  BY <1>0, <1>5, <1>7
<1>s. \A i \in 1..(n + 1) : i \in 1..n \/ i = n + 1
  BY <1>5
<1>9. RecordInv'
  <2>1. ASSUME NEW i \in 1..n
        PROVE  /\ Klasses[i].id # NONE
               /\ all[i].name = Klasses[i].name /\ all[i].origin = Klasses[i].origin
               /\ all[i].defining = Klasses[i].defining
               /\ all[i].id = Klasses[i].id /\ all[i].super = Klasses[i].super
               /\ all[i].interfaces = Klasses[i].interfaces
               /\ all[i].source = Klasses[i].source
    BY <1>2, <1>5 DEF RecordInv
  <2>2. LET r == NewRecord(l)
        IN  /\ r.name = l.name /\ r.origin = l.origin /\ r.defining = l.defining
            /\ r.id = l.id /\ r.super = l.super /\ r.interfaces = l.interfaces
            /\ r.source = l.source
    BY DEF NewRecord
  <2>3. ASSUME NEW i \in 1..(n + 1)
        PROVE  /\ Klasses'[i].id # NONE
               /\ all'[i].name = Klasses'[i].name /\ all'[i].origin = Klasses'[i].origin
               /\ all'[i].defining = Klasses'[i].defining
               /\ all'[i].id = Klasses'[i].id /\ all'[i].super = Klasses'[i].super
               /\ all'[i].interfaces = Klasses'[i].interfaces
               /\ all'[i].source = Klasses'[i].source
    <3>1. CASE i \in 1..n
      <4>1. all'[i] = all[i] /\ Klasses'[i] = Klasses[i]
        BY <1>6, <1>8, <3>1
      <4>. QED
        BY <2>1, <3>1, <4>1
    <3>2. CASE i = n + 1
      BY <1>0, <1>6, <1>8, <2>2, <3>2
    <3>. QED
      BY <1>s, <3>1, <3>2
  <2>. QED
    BY <1>6, <1>8, <2>3 DEF RecordInv
<1>10. KeyInv'
  <2>1. /\ DOMAIN nameid' = DOMAIN nameid \cup {Key(l)}
        /\ nameid'[Key(l)] = n + 1
        /\ \A key \in DOMAIN nameid : key # Key(l) => nameid'[key] = nameid[key]
    <3> DEFINE c == Key(l)
    <3>1. nameid' = Put(nameid, c, n + 1)
      BY <1>0, <1>5
    <3> HIDE DEF c
    <3>2. nameid' = [k \in DOMAIN nameid \cup {c} |-> IF k = c THEN n + 1 ELSE nameid[k]]
      BY <3>1 DEF Put
    <3>3. /\ DOMAIN nameid' = DOMAIN nameid \cup {c}
          /\ nameid'[c] = n + 1
          /\ \A key \in DOMAIN nameid : key # c => nameid'[key] = nameid[key]
      BY <3>2
    <3>. QED
      BY <3>3 DEF c
  <2>2. \A key \in DOMAIN nameid : nameid[key] \in 1..n
    BY <1>5 DEF TypeOK
  <2>3. \A i \in 1..n : Key(Klasses'[i]) = Key(Klasses[i])
    BY <1>6
  <2>4. Key(Klasses'[n + 1]) = Key(l)
    BY <1>6
  <2>5. ASSUME NEW key \in DOMAIN nameid' PROVE Key(Klasses'[nameid'[key]]) = key
    <3>1. CASE key = Key(l)
      BY <2>1, <2>4, <3>1
    <3>2. CASE key # Key(l)
      <4>1. key \in DOMAIN nameid /\ nameid'[key] = nameid[key] /\ nameid[key] \in 1..n
        BY <2>1, <2>2, <3>2
      <4>2. Key(Klasses[nameid[key]]) = key
        BY <1>2, <4>1 DEF KeyInv
      <4>. QED
        BY <2>3, <4>1, <4>2
    <3>. QED
      BY <3>1, <3>2
  <2>6. ASSUME NEW i \in 1..(n + 1)
        PROVE  Key(Klasses'[i]) \in DOMAIN nameid' /\ i <= nameid'[Key(Klasses'[i])]
    <3>1. CASE i = n + 1
      BY <1>5, <2>1, <2>4, <3>1
    <3>2. CASE i \in 1..n
      <4>1. Key(Klasses[i]) \in DOMAIN nameid /\ i <= nameid[Key(Klasses[i])]
        BY <1>2, <1>5, <3>2 DEF KeyInv
      <4>2. i <= n + 1
        BY <1>5
      <4>. QED
        BY <2>1, <2>3, <3>2, <4>1, <4>2
    <3>. QED
      BY <1>s, <3>1, <3>2
  <2>. QED
    BY <1>8, <2>5, <2>6 DEF KeyInv, Key
<1>11. CompletionInv'
  <2>1. ASSUME NEW i \in 1..(n + 1)
        PROVE  \/ Completions(i)' = {} /\ all'[i].initiating = NONE
               \/ \E q \in Completions(i)' :
                    /\ \A k \in Completions(i)' : q <= k
                    /\ all'[i].initiating = lines'[q].initiating
    <3>1. CASE i \in 1..n
      BY <1>0, <1>2, <1>5, <1>8, <3>1, OtherCompletions
    <3>2. CASE i = n + 1
      <4>1. all'[i].initiating = NONE
        BY <1>8, <3>2 DEF NewRecord
      <4>2. DOMAIN lines' = 1..m /\ m \in Nat
        BY <1>0, <1>1, <1>2, ReadFacts
      <4>3. Position(i)' = m
        BY <1>6, <3>2
      <4>4. Completions(i)' = {}
        BY <4>2, <4>3 DEF Completions
      <4>. QED
        BY <4>1, <4>4
    <3>. QED
      BY <1>s, <3>1, <3>2
  <2>. QED
    BY <1>8, <2>1 DEF CompletionInv
<1>. QED
  BY <1>0, <1>2, <1>3, <1>6, <1>9, <1>10, <1>11 DEF ExactInv

LEMMA CompleteRecordExact ==
    ASSUME TypeOK, IndInv, ExactInv, pc = "parse", NEW l \in Lines, CompleteRecord(l)
    PROVE  ExactInv'
<1> DEFINE k == Lookup(nameid, Key(l))
<1>0. Read(l) /\ pc' = "parse" /\ IsInitiating(l) /\ ~IsKlass(l) /\ ~IsNotFound(l)
      /\ UNCHANGED <<allNotFound, notFoundSet, nameid>>
      /\ l.initiating # NONE
  BY DEF CompleteRecord, IsKlass, IsNotFound, IsInitiating
<1>1. PICK m : m = Len(lines) + 1
  OBVIOUS
<1>2. /\ PositionInv /\ RecordInv /\ KeyInv /\ CompletionInv
      /\ Processed = 0 /\ Processed' = 0
      /\ AddressInv' /\ ValidInv' /\ LoaderInv' /\ OutInv' /\ FileInv'
  BY <1>0, ParseFrame DEF Read, decodeVars, fileVars
<1>3. MissedInv'
  BY <1>0, OtherMissed
<1>4. PICK n : n = Cardinality(KlassLines)
  OBVIOUS
<1>5. n \in Nat /\ Len(all) = n /\ all \in Seq(Record) /\ \A i \in 1..n : all[i] \in Record
  BY <1>2, <1>4, KlassLineFacts, AllFacts DEF RecordInv
<1>6. PositionInv' /\ lines'[m] = l
  BY <1>0, <1>1, <1>2, ReadFacts
<1>k. k # NoRecord => k \in 1..n /\ Key(Klasses[k]) = Key(l)
  <2>1. k # NoRecord => Key(l) \in DOMAIN nameid /\ k = nameid[Key(l)]
    BY DEF Lookup
  <2>. QED
    BY <1>2, <1>5, <2>1 DEF KeyInv, TypeOK
<1>l. \A i \in 1..n : Key(Klasses[i]) = Key(l) => k # NoRecord /\ i <= k
  <2>1. ASSUME NEW i \in 1..n, Key(Klasses[i]) = Key(l)
        PROVE  k # NoRecord /\ i <= k
    <3>1. Key(l) \in DOMAIN nameid /\ i <= nameid[Key(l)] /\ nameid[Key(l)] \in 1..n
      BY <1>2, <1>5, <2>1 DEF KeyInv, TypeOK
    <3>2. k = nameid[Key(l)]
      BY <3>1 DEF Lookup
    <3>. QED
      BY <1>5, <3>1, <3>2 DEF NoRecord
  <2>. QED
    BY <2>1
<1>u. \/ k # NoRecord /\ all[k].initiating = NONE
         /\ all' = [all EXCEPT ![k] = [all[k] EXCEPT !.initiating = l.initiating]]
      \/ ~(k # NoRecord /\ all[k].initiating = NONE) /\ all' = all
  BY DEF CompleteRecord
<1> HIDE DEF k
<1>7. /\ Len(all') = n
      /\ \A i \in 1..n : all'[i] = IF i = k /\ all[k].initiating = NONE
                                   THEN [all[k] EXCEPT !.initiating = l.initiating]
                                   ELSE all[i]
  <2>1. \A i \in 1..n : i # NoRecord
    BY <1>5 DEF NoRecord
  <2>2. CASE k # NoRecord /\ all[k].initiating = NONE
    <3>1. k \in 1..n /\ all' = [all EXCEPT ![k] = [all[k] EXCEPT !.initiating = l.initiating]]
      BY <1>k, <1>u, <2>2
    <3>. QED
      BY <1>5, <2>2, <3>1
  <2>3. CASE ~(k # NoRecord /\ all[k].initiating = NONE)
    BY <1>5, <1>u, <2>1, <2>3
  <2>. QED
    BY <2>2, <2>3
<1>8. \A i \in 1..n :
         /\ all'[i].name = all[i].name /\ all'[i].origin = all[i].origin
         /\ all'[i].defining = all[i].defining /\ all'[i].id = all[i].id
         /\ all'[i].super = all[i].super /\ all'[i].interfaces = all[i].interfaces
         /\ all'[i].source = all[i].source
         /\ all'[i].initiating = IF i = k /\ all[k].initiating = NONE
                                 THEN l.initiating ELSE all[i].initiating
  BY <1>5, <1>7 DEF Record
<1>9. RecordInv' /\ KeyInv'
  BY <1>0, <1>5, <1>7, <1>8, OtherLine
<1>10. CompletionInv'
  <2> SUFFICES ASSUME NEW i \in 1..n
               PROVE  \/ Completions(i)' = {} /\ all'[i].initiating = NONE
                      \/ \E q \in Completions(i)' :
                           /\ \A j \in Completions(i)' : q <= j
                           /\ all'[i].initiating = lines'[q].initiating
    BY <1>7 DEF CompletionInv
  <2>0. /\ Completions(i) \subseteq 1..(m - 1) /\ m \in Nat \ {0}
        /\ \A p \in 1..(m - 1) : lines'[p] = lines[p]
        /\ \A q : q \in Completions(i)' <=>
              \/ q \in Completions(i)
              \/ /\ q = m /\ Key(l) = Key(Klasses[i])
                 /\ \A j \in KlassLines : j > Position(i) => Key(lines[j]) # Key(Klasses[i])
    BY <1>0, <1>1, <1>2, <1>4, ReadFacts, CompletionsGrow
  <2>1. CASE i # k
    <3>1. m \notin Completions(i)' \/ m \in Completions(i)
      <4>1. CASE Key(l) = Key(Klasses[i])
        <5>1. k \in 1..n /\ i < k /\ Key(Klasses[k]) = Key(l)
          BY <1>5, <1>k, <1>l, <2>1, <4>1
        <5>2. Position(k) \in KlassLines /\ Position(k) > Position(i)
              /\ Klasses[k] = lines[Position(k)] /\ Position(k) \in Nat /\ Position(i) \in Nat
          BY <1>2, <1>4, <5>1, PositionFacts, KlassLineFacts
        <5>. QED
          BY <2>0, <4>1, <5>1, <5>2
      <4>2. CASE Key(l) # Key(Klasses[i])
        BY <2>0, <4>2
      <4>. QED
        BY <4>1, <4>2
    <3>2. Completions(i)' = Completions(i)
      <4>1. \A q \in Completions(i)' \cup Completions(i) :
               q \in Completions(i)' <=> q \in Completions(i)
        BY <2>0, <3>1
      <4>. QED
        BY <4>1
    <3>3. all'[i].initiating = all[i].initiating /\ i \in 1..Len(all)
      BY <1>5, <1>8, <2>1
    <3>. QED
      BY <1>0, <1>2, <3>2, <3>3, CompletionKept
  <2>2. CASE i = k
    <3>1. m \in Completions(i)'
      <4>1. Key(l) = Key(Klasses[i]) /\ i # NoRecord
        BY <1>5, <1>k, <2>2 DEF NoRecord
      <4>2. ASSUME NEW p \in KlassLines, p > Position(i) PROVE Key(lines[p]) # Key(Klasses[i])
        <5>1. PICK j \in 1..n : Position(j) = p /\ Klasses[j] = lines[p]
          BY <1>2, <1>4, PositionFacts
        <5>2. ~(j < i) /\ j # i
          <6>1. j < i => Position(j) < Position(i)
            BY <1>2, <1>4, PositionFacts
          <6>2. p \in Nat /\ Position(i) \in Nat
            BY <1>2, <1>4, PositionFacts, KlassLineFacts
          <6>. QED
            BY <4>2, <5>1, <6>1, <6>2
        <5>. QED
          BY <1>5, <1>l, <2>2, <4>1, <5>1, <5>2
      <4>. QED
        BY <2>0, <4>1, <4>2
    <3>2. CASE Completions(i) = {} /\ all[i].initiating = NONE
      <4>1. Completions(i)' = {m}
        <5>1. \A q \in Completions(i)' : q = m
          BY <2>0, <3>2
        <5>. QED
          BY <3>1, <5>1
      <4>2. all'[i].initiating = l.initiating
        BY <1>8, <2>2, <3>2
      <4>. QED
        BY <1>6, <2>0, <4>1, <4>2
    <3>3. ASSUME NEW q \in Completions(i), \A j \in Completions(i) : q <= j,
                 all[i].initiating = lines[q].initiating
          PROVE  \E r \in Completions(i)' :
                     /\ \A j \in Completions(i)' : r <= j
                     /\ all'[i].initiating = lines'[r].initiating
      <4>1. q \in 1..(m - 1) /\ lines'[q] = lines[q] /\ q <= m
        BY <2>0
      <4>2. lines[q].initiating # NONE
        BY DEF Completions, IsInitiating
      <4>3. all'[i].initiating = all[i].initiating
        BY <1>8, <2>2, <3>3, <4>2
      <4>4. \A j \in Completions(i)' : q <= j
        BY <2>0, <3>3, <4>1
      <4>. QED
        BY <2>0, <3>3, <4>1, <4>3, <4>4
    <3>. QED
      BY <1>2, <1>5, <3>2, <3>3 DEF CompletionInv
  <2>. QED
    BY <2>1, <2>2
<1>. QED
  BY <1>0, <1>2, <1>3, <1>6, <1>9, <1>10 DEF ExactInv

LEMMA MissingIdExact ==
    ASSUME TypeOK, IndInv, ExactInv, NEW l \in Lines, MissingId(l)
    PROVE  ExactInv'
<1>1. PICK m : m = Len(lines) + 1
  OBVIOUS
<1>2. PositionInv /\ Read(l) /\ pc' = "failed"
  BY DEF MissingId, ExactInv
<1>. QED
  BY <1>1, <1>2, ReadFacts DEF ExactInv

-----------------------------------------------------------------------------
(* What each collection holds of the lines: steps that read none. *)

\* Nothing the invariant says of klass lines changes without a line.
LEMMA SameLines ==
    ASSUME lines' = lines
    PROVE  /\ KlassLines' = KlassLines /\ Klasses' = Klasses
           /\ PositionInv => PositionInv'
           /\ \A i : Position(i)' = Position(i)
           /\ \A i : Completions(i)' = Completions(i)
           /\ \A i, x : ParentOf(i, x)' = ParentOf(i, x)
           /\ \A i : KeptParents(i)' = KeptParents(i)
           /\ \A i : FirstOfName(i)' = FirstOfName(i)
<1>1. KlassLines' = KlassLines
  BY DEF KlassLines
<1>2. \A p : Count(p)' = Count(p)
  BY <1>1 DEF Count
<1>3. \A i : Position(i)' = Position(i)
  BY <1>1, <1>2 DEF Position
<1>4. Klasses' = Klasses
  BY <1>1, <1>3 DEF Klasses
<1>5. PositionInv => PositionInv'
  BY <1>1, <1>2 DEF PositionInv
<1>6. ASSUME NEW i PROVE Completions(i)' = Completions(i)
  BY <1>3, <1>4 DEF Completions
<1>7. ASSUME NEW i, NEW x PROVE ParentOf(i, x)' = ParentOf(i, x)
  <2>1. {k \in 1..(i - 1) : Klasses'[k].id = x} = {k \in 1..(i - 1) : Klasses[k].id = x}
    BY <1>4
  <2>. QED
    BY <2>1 DEF ParentOf
<1>8. ASSUME NEW i PROVE KeptParents(i)' = KeptParents(i)
  BY <1>4, <1>7 DEF KeptParents
<1>9. ASSUME NEW i PROVE FirstOfName(i)' = FirstOfName(i)
  BY <1>4 DEF FirstOfName
<1>. QED
  BY <1>1, <1>3, <1>4, <1>5, <1>6, <1>7, <1>8, <1>9

\* The records stay as they are and so does what is said of them.
LEMMA RecordsKept ==
    ASSUME ExactInv, pc # "failed", Processed' = Processed,
           UNCHANGED <<lines, all, nameid, idIds, eagerSet, appSet, signCache>>
    PROVE  /\ PositionInv' /\ RecordInv' /\ KeyInv' /\ CompletionInv' /\ AddressInv'
           /\ ValidInv' /\ LoaderInv'
<1>1. /\ PositionInv /\ RecordInv /\ KeyInv /\ CompletionInv /\ AddressInv
      /\ ValidInv /\ LoaderInv
  BY DEF ExactInv
<1>2. PositionInv' /\ RecordInv'
  BY <1>1, SameLines DEF RecordInv
<1>3. KeyInv'
  BY <1>1, SameLines DEF KeyInv, Key
<1>4. CompletionInv'
  BY <1>1, SameLines DEF CompletionInv
<1>5. AddressInv'
  BY <1>1, SameLines DEF AddressInv
<1>6. ValidInv'
  <2>1. \A i : Orphan(i)' = Orphan(i)
    BY SameLines DEF Orphan, Parents
  <2>2. \A i : Rejected(i)' = Rejected(i)
    BY DEF Rejected
  <2>3. \A i : Parents(all[i])' = Parents(all[i])
    BY DEF Parents
  <2>. QED
    BY <1>1, <2>1, <2>2, <2>3, SameLines DEF ValidInv
<1>7. LoaderInv'
  BY <1>1, SameLines DEF LoaderInv
<1>. QED
  BY <1>2, <1>3, <1>4, <1>5, <1>6, <1>7

LEMMA MissedKept ==
    ASSUME MissedInv, UNCHANGED <<lines, allNotFound, notFoundSet, appSet>>,
           \A m \in DOMAIN allNotFound : m <= Prepared' <=> m <= Prepared
    PROVE  MissedInv'
<1>1. \A m \in DOMAIN allNotFound : Pair(allNotFound[m])' = Pair(allNotFound[m])
  BY DEF Pair
<1>. QED
  BY <1>1 DEF MissedInv, Pair

LEMMA OutKept ==
    ASSUME OutInv, UNCHANGED <<all, allNotFound, out>>,
           \A i \in 1..Written' : i \in 1..Written,
           \A m \in 1..WrittenNotFound' : m \in 1..WrittenNotFound
    PROVE  OutInv'
BY DEF OutInv

LEMMA FileKept ==
    ASSUME FileInv, UNCHANGED <<all, fingerprints>>,
           pc' \notin {"fingerprint", "done"} => pc \notin {"fingerprint", "done"},
           \A i \in 1..Looked' : i \in 1..Looked
    PROVE  FileInv'
BY DEF FileInv

\* A set of natural numbers has a least element.
LEMMA NatMin ==
    ASSUME NEW S \in SUBSET Nat, S # {}
    PROVE  \E m \in S : \A k \in S : m <= k
<1> DEFINE T == {0..k : k \in S}
<1>1. T \subseteq FiniteSubsetsOf(Nat) /\ T # {}
  <2>1. ASSUME NEW k \in S PROVE IsFiniteSet(0..k) /\ 0..k \subseteq Nat
    BY FS_Interval
  <2>. QED
    BY <2>1 DEF FiniteSubsetsOf
<1>2. PICK t \in T : \A u \in T : <<u, t>> \notin StrictSubsetOrdering(Nat)
  <2> HIDE DEF T
  <2>. QED
    BY <1>1, FS_StrictSubsetOrderingWellFounded, WFMin
<1>3. PICK m \in S : t = 0..m
  OBVIOUS
<1>4. ASSUME NEW k \in S, k < m PROVE FALSE
  <2>1. 0..k \subseteq 0..m /\ 0..k # 0..m /\ 0..m \subseteq Nat /\ 0..k \in T
    <3>1. m \in 0..m /\ m \notin 0..k
      BY <1>4
    <3>. QED
      BY <1>4, <3>1
  <2>. QED
    BY <1>2, <1>3, <2>1 DEF StrictSubsetOrdering
<1>. QED
  BY <1>4

\* A set of indices of a sequence has a last element.
LEMMA LastOf ==
    ASSUME NEW n \in Nat, NEW S \in SUBSET (1..n), S # {}
    PROVE  \E k \in S : \A j \in S : j <= k
<1> DEFINE Bounds == {m \in Nat : \A j \in S : j <= m}
<1>1. n \in Bounds
  OBVIOUS
<1>2. PICK b \in Bounds : \A m \in Bounds : b <= m
  <2> HIDE DEF Bounds
  <2>1. Bounds \subseteq Nat
    BY DEF Bounds
  <2>. QED
    BY <1>1, <2>1, NatMin
<1>3. b \in S
  <2> SUFFICES ASSUME b \notin S PROVE FALSE
    OBVIOUS
  <2>1. PICK k \in S : TRUE
    OBVIOUS
  <2>2. k \in Nat /\ k >= 1 /\ b \in Nat /\ k <= b
    BY <2>1
  <2>3. \A j \in S : j <= b - 1
    <3>1. \A j \in S : j \in Nat /\ j <= b /\ j # b
      OBVIOUS
    <3>. QED
      BY <2>2, <3>1
  <2>4. b - 1 \in Bounds
    BY <2>2, <2>3
  <2>. QED
    BY <1>2, <2>2, <2>4
<1>. QED
  BY <1>2, <1>3

\* The last of a set of positions.
LEMMA LatestFacts ==
    ASSUME NEW n \in Nat, NEW S \in SUBSET (1..n)
    PROVE  /\ S = {} => Latest(S) = NoRecord
           /\ S # {} => Latest(S) \in S /\ \A m \in S : m <= Latest(S)
<1>1. S # {} => \E k \in S : \A m \in S : m <= k
  BY LastOf
<1>2. S # {} => Latest(S) = CHOOSE k \in S : \A m \in S : m <= k
  BY DEF Latest
<1>. QED
  BY <1>1, <1>2 DEF Latest

LEMMA LatestUnique ==
    ASSUME NEW n \in Nat, NEW S \in SUBSET (1..n), NEW k \in S, \A m \in S : m <= k
    PROVE  Latest(S) = k
<1>1. Latest(S) \in S /\ k <= Latest(S) /\ Latest(S) <= k
  BY LatestFacts
<1>2. Latest(S) \in 1..n /\ k \in 1..n
  BY <1>1, Zenon
<1>. QED
  BY <1>1, <1>2

\* A parent comes before its child.
LEMMA ParentOfFacts ==
    ASSUME NEW i \in Nat \ {0}, NEW x
    PROVE  ParentOf(i, x) = NoRecord \/ ParentOf(i, x) \in 1..(i - 1)
<1> DEFINE S == {k \in 1..(i - 1) : Klasses[k].id = x}
<1>1. S \in SUBSET (1..(i - 1)) /\ i - 1 \in Nat
  OBVIOUS
<1>2. ParentOf(i, x) = Latest(S)
  BY DEF ParentOf
<1> HIDE DEF S
<1>. QED
  BY <1>1, <1>2, LatestFacts

-----------------------------------------------------------------------------
(* What each collection holds of the lines: SourceDecoder. *)

LEMMA DecodeNow ==
    ASSUME TypeOK, IndInv, ExactInv, pc = "decode"
    PROVE  /\ Processed = cursor - 1 /\ cursor \in 1..(Len(all) + 1) /\ klassID = cursor
           /\ Prepared = 0 /\ out = << >> /\ fingerprints = << >>
           /\ \A j \in 1..(cursor - 1) : all[j].id = j
           /\ PositionInv /\ RecordInv /\ KeyInv /\ CompletionInv /\ AddressInv
           /\ ValidInv /\ LoaderInv /\ MissedInv
<1>1. fingerprints = << >>
  BY DEF ExactInv, FileInv
<1>. QED
  BY <1>1, DecodeFacts DEF ExactInv

\* What the map of addresses has is the parent that was meant.
LEMMA LookupParent ==
    ASSUME TypeOK, IndInv, ExactInv, pc = "decode", cursor \in 1..Len(all),
           NEW x \in Parents(all[cursor])
    PROVE  Lookup(Registered(cursor), x) = ParentOf(cursor, x)
<1> DEFINE S == {k \in 1..(cursor - 1) : Klasses[k].id = x}
<1>0. cursor \in Nat \ {0} /\ S \in SUBSET (1..(cursor - 1)) /\ cursor - 1 \in Nat
  BY AllFacts
<1>1. x # all[cursor].id
  BY DecodeFacts, AllFacts DEF RawInv
<1>2. /\ DOMAIN Registered(cursor) = DOMAIN idIds \cup {all[cursor].id}
      /\ x \in DOMAIN Registered(cursor) => Registered(cursor)[x] = idIds[x]
  BY <1>1, RegisteredFacts
<1>3. Lookup(Registered(cursor), x) = IF x \in DOMAIN idIds THEN idIds[x] ELSE NoRecord
  BY <1>1, <1>2 DEF Lookup
<1>4. ParentOf(cursor, x) = Latest(S)
  BY DEF ParentOf
<1>5. /\ x \in DOMAIN idIds => idIds[x] \in 1..(cursor - 1) /\ Klasses[idIds[x]].id = x
      /\ \A k \in 1..(cursor - 1) : Klasses[k].id \in DOMAIN idIds /\ k <= idIds[Klasses[k].id]
  BY DecodeNow DEF AddressInv
<1>6. CASE x \in DOMAIN idIds
  <2>1. idIds[x] \in S /\ \A m \in S : m <= idIds[x]
    BY <1>5, <1>6
  <2> HIDE DEF S
  <2>. QED
    BY <1>0, <1>3, <1>4, <1>6, <2>1, LatestUnique
<1>7. CASE x \notin DOMAIN idIds
  <2>1. S = {}
    BY <1>5, <1>7
  <2> HIDE DEF S
  <2>. QED
    BY <1>0, <1>3, <1>4, <1>7, <2>1, LatestFacts
<1>. QED
  BY <1>6, <1>7

\* The record at the cursor is raw.
LEMMA RawRecord ==
    ASSUME TypeOK, IndInv, ExactInv, pc = "decode", cursor \in 1..Len(all)
    PROVE  /\ all[cursor].id = Klasses[cursor].id /\ all[cursor].super = Klasses[cursor].super
           /\ all[cursor].interfaces = Klasses[cursor].interfaces
           /\ all[cursor].source = Klasses[cursor].source
           /\ all[cursor].name = Klasses[cursor].name
           /\ all[cursor].defining = Klasses[cursor].defining
           /\ ~all[cursor].invalid
           /\ Parents(all[cursor]) = Parents(Klasses[cursor])
<1>1. cursor > Processed /\ cursor \in (Processed + 1)..Len(all)
  BY DecodeNow, AllFacts
<1>2. /\ all[cursor].id = Klasses[cursor].id /\ all[cursor].super = Klasses[cursor].super
      /\ all[cursor].interfaces = Klasses[cursor].interfaces
      /\ all[cursor].source = Klasses[cursor].source
      /\ all[cursor].name = Klasses[cursor].name
      /\ all[cursor].defining = Klasses[cursor].defining
  BY <1>1, DecodeNow DEF RecordInv
<1>3. ~all[cursor].invalid
  BY <1>1, DecodeFacts DEF RawInv
<1>. QED
  BY <1>2, <1>3 DEF Parents

\* A record is an orphan when SourceDecoder finds it to be one.
LEMMA KnownIsNoOrphan ==
    ASSUME TypeOK, IndInv, ExactInv, pc = "decode", cursor \in 1..Len(all)
    PROVE  ParentsKnown(cursor) <=> ~Orphan(cursor)
<1>1. \A x \in Parents(all[cursor]) : Known(cursor, x) <=>
         ParentOf(cursor, x) # NoRecord /\ ~all[ParentOf(cursor, x)].invalid
  BY LookupParent DEF Known
<1>2. ParentsKnown(cursor) <=> \A x \in Parents(all[cursor]) : Known(cursor, x)
  BY DEF ParentsKnown, Parents
<1>. QED
  BY <1>1, <1>2, RawRecord DEF Orphan

\* A raw parent that is known becomes the number of the class that was meant.
LEMMA ResolveIsParent ==
    ASSUME TypeOK, IndInv, ExactInv, pc = "decode", cursor \in 1..Len(all),
           NEW x \in Parents(all[cursor]), Known(cursor, x)
    PROVE  Resolve(cursor, x) = ParentOf(cursor, x) /\ Resolve(cursor, x) \in 1..(cursor - 1)
<1>1. Registered(cursor)[x] = ParentOf(cursor, x) /\ Registered(cursor)[x] \in 1..Len(all)
      /\ Resolve(cursor, x) = Numbered(cursor)[Registered(cursor)[x]].id
  <2>1. x \in DOMAIN Registered(cursor) /\ Registered(cursor)[x] \in 1..Len(all)
        /\ Resolve(cursor, x) = Numbered(cursor)[Registered(cursor)[x]].id
    BY KnownFacts
  <2>2. Registered(cursor)[x] = Lookup(Registered(cursor), x)
    BY <2>1 DEF Lookup
  <2>. QED
    BY <2>1, <2>2, LookupParent
<1>2. ParentOf(cursor, x) \in 1..(cursor - 1)
  <2>1. ParentOf(cursor, x) # NoRecord
    BY <1>1 DEF NoRecord
  <2>2. cursor \in Nat \ {0}
    BY AllFacts
  <2>. QED
    BY <2>1, <2>2, ParentOfFacts
<1>3. Numbered(cursor)[ParentOf(cursor, x)].id = ParentOf(cursor, x)
  <2>1. PICK p : p = ParentOf(cursor, x)
    OBVIOUS
  <2>2. p # cursor /\ p \in 1..Len(all) /\ all[p].id = p
    BY <1>1, <1>2, <2>1, DecodeNow, AllFacts
  <2>3. Numbered(cursor)[p].id = all[p].id
    BY <2>2, NumberedFacts
  <2>. QED
    BY <2>1, <2>2, <2>3
<1>. QED
  BY <1>1, <1>2, <1>3

LEMMA ResolvedExact ==
    ASSUME TypeOK, IndInv, ExactInv, pc = "decode", cursor \in 1..Len(all),
           cursor > 1, ParentsKnown(cursor)
    PROVE  Parents(Resolved(cursor)) = KeptParents(cursor)
<1> DEFINE r == all[cursor]
           s == Resolved(cursor)
<1>1. /\ s.super = IF r.super = NONE THEN NONE ELSE Resolve(cursor, r.super)
      /\ s.interfaces = [k \in DOMAIN r.interfaces |-> Resolve(cursor, r.interfaces[k])]
  BY ResolvedFacts
<1>2. \A x \in Parents(r) : Known(cursor, x)
  BY DEF ParentsKnown, Parents
<1>3. \A x \in Parents(r) : Resolve(cursor, x) = ParentOf(cursor, x) /\ Resolve(cursor, x) # NONE
  <2>1. \A x \in Parents(r) : Resolve(cursor, x) = ParentOf(cursor, x)
                              /\ Resolve(cursor, x) \in 1..(cursor - 1)
    BY <1>2, ResolveIsParent
  <2>2. cursor \in Nat /\ \A k \in Nat : k # NONE
    BY ConstantsAssumption, AllFacts
  <2>. QED
    BY <2>1, <2>2
<1>4. Parents(s) = {Resolve(cursor, x) : x \in Parents(r)}
  <2>1. CASE r.super = NONE
    BY <1>1, <2>1 DEF Parents
  <2>2. CASE r.super # NONE
    <3>1. r.super \in Parents(r)
      BY <2>2 DEF Parents
    <3>2. s.super = Resolve(cursor, r.super) /\ s.super # NONE
      BY <1>1, <1>3, <2>2, <3>1
    <3>. QED
      BY <1>1, <2>2, <3>2 DEF Parents
  <2>. QED
    BY <2>1, <2>2
<1>5. KeptParents(cursor) = {ParentOf(cursor, x) : x \in Parents(r)}
  BY RawRecord DEF KeptParents
<1>. QED
  BY <1>3, <1>4, <1>5

\* A record is the first of its name if neither set has the name.
LEMMA ClassifyExact ==
    ASSUME TypeOK, IndInv, ExactInv, pc = "decode", cursor \in 1..Len(all), cursor > 1,
           Classify(all[cursor]), lines' = lines, Processed' = cursor
    PROVE  LoaderInv'
<1> DEFINE c == Klasses[cursor]
           App(n) == {k \in 2..n : FirstOfName(k) /\ Klasses[k].defining = NONE}
           Eager(n) == {k \in 2..n : FirstOfName(k) /\ Klasses[k].defining # NONE}
<1>0. cursor \in Nat /\ Processed = cursor - 1 /\ LoaderInv
  BY DecodeNow, AllFacts
<1>1. /\ appSet = {Klasses[k].name : k \in App(cursor - 1)}
      /\ eagerSet = {Klasses[k].name : k \in Eager(cursor - 1)}
      /\ \A k \in 2..(cursor - 1) : Klasses[k].source # NONE => Klasses[k].name \in appSet \cup eagerSet
  BY <1>0 DEF LoaderInv
<1>2. /\ appSet' = IF c.source # NONE /\ c.defining = NONE /\ c.name \notin eagerSet
                   THEN appSet \cup {c.name} ELSE appSet
      /\ eagerSet' = IF c.source # NONE /\ c.defining # NONE /\ c.name \notin appSet
                     THEN eagerSet \cup {c.name} ELSE eagerSet
  BY RawRecord DEF Classify
<1>3. FirstOfName(cursor) <=> c.source # NONE /\ c.name \notin appSet \cup eagerSet
  <2>1. ASSUME FirstOfName(cursor), c.name \in appSet \cup eagerSet PROVE FALSE
    <3>1. PICK k \in 2..(cursor - 1) : FirstOfName(k) /\ Klasses[k].name = c.name
      BY <1>1, <2>1
    <3>. QED
      BY <2>1, <3>1 DEF FirstOfName
  <2>2. ASSUME c.source # NONE, c.name \notin appSet \cup eagerSet PROVE FirstOfName(cursor)
    BY <1>1, <2>2 DEF FirstOfName
  <2>. QED
    BY <2>1, <2>2 DEF FirstOfName
<1>4. \A k \in 2..cursor : k \in 2..(cursor - 1) \/ k = cursor
  BY <1>0
<1>5. /\ App(cursor) = App(cursor - 1) \cup {k \in {cursor} : FirstOfName(k) /\ Klasses[k].defining = NONE}
      /\ Eager(cursor) = Eager(cursor - 1) \cup {k \in {cursor} : FirstOfName(k) /\ Klasses[k].defining # NONE}
  BY <1>0, <1>4
<1>6. appSet' = {Klasses[k].name : k \in App(cursor)}
  <2>1. CASE FirstOfName(cursor) /\ c.defining = NONE
    <3>1. appSet' = appSet \cup {c.name}
      BY <1>2, <1>3, <2>1
    <3>2. App(cursor) = App(cursor - 1) \cup {cursor}
      BY <1>5, <2>1
    <3> HIDE DEF App, Eager
    <3>. QED
      BY <1>1, <3>1, <3>2
  <2>2. CASE ~(FirstOfName(cursor) /\ c.defining = NONE)
    <3>1. appSet' = appSet
      BY <1>2, <1>3, <2>2
    <3>2. App(cursor) = App(cursor - 1)
      BY <1>5, <2>2
    <3> HIDE DEF App, Eager
    <3>. QED
      BY <1>1, <3>1, <3>2
  <2>. QED
    BY <2>1, <2>2
<1>7. eagerSet' = {Klasses[k].name : k \in Eager(cursor)}
  <2>1. CASE FirstOfName(cursor) /\ c.defining # NONE
    <3>1. eagerSet' = eagerSet \cup {c.name}
      BY <1>2, <1>3, <2>1
    <3>2. Eager(cursor) = Eager(cursor - 1) \cup {cursor}
      BY <1>5, <2>1
    <3> HIDE DEF App, Eager
    <3>. QED
      BY <1>1, <3>1, <3>2
  <2>2. CASE ~(FirstOfName(cursor) /\ c.defining # NONE)
    <3>1. eagerSet' = eagerSet
      BY <1>2, <1>3, <2>2
    <3>2. Eager(cursor) = Eager(cursor - 1)
      BY <1>5, <2>2
    <3> HIDE DEF App, Eager
    <3>. QED
      BY <1>1, <3>1, <3>2
  <2>. QED
    BY <2>1, <2>2
<1>8. \A k \in 2..cursor : Klasses[k].source # NONE => Klasses[k].name \in appSet' \cup eagerSet'
  <2>1. appSet \subseteq appSet' /\ eagerSet \subseteq eagerSet'
    BY <1>2
  <2>2. c.source # NONE => c.name \in appSet' \cup eagerSet'
    BY <1>2
  <2>. QED
    BY <1>1, <1>4, <2>1, <2>2
<1>9. Klasses' = Klasses /\ \A k : FirstOfName(k)' = FirstOfName(k)
  BY SameLines
<1>. QED
  BY <1>6, <1>7, <1>8, <1>9 DEF LoaderInv

\* What an iteration of SourceDecoder has to leave for the invariant.
LEMMA DecodeExact ==
    ASSUME TypeOK, IndInv, ExactInv, pc = "decode", pc' = "decode", NumberRecord(cursor),
           NEW r \in Record, all' = [all EXCEPT ![cursor] = r],
           r.name = all[cursor].name, r.origin = all[cursor].origin,
           r.defining = all[cursor].defining, r.initiating = all[cursor].initiating,
           DOMAIN signCache \subseteq DOMAIN signCache',
           \A f \in DOMAIN signCache : signCache'[f] = signCache[f],
           r.invalid <=> /\ cursor # 1
                         /\ \/ \E f \in DOMAIN signCache' : /\ signCache'[f]
                                                            /\ HasForm(r.source, {"path"})
                                                            /\ r.source.main = f
                            \/ Orphan(cursor),
           ~r.invalid => Parents(r) = KeptParents(cursor),
           cursor # 1 /\ ~r.invalid /\ HasForm(r.source, {"path"}) =>
               r.source.main \in DOMAIN signCache',
           LoaderInv'
    PROVE  ExactInv'
<1> DEFINE i == cursor
<1>0. /\ i \in 1..Len(all) /\ i \in Nat \ {0} /\ Len(all) \in Nat /\ cursor' = i + 1
      /\ idIds' = Registered(i) /\ UNCHANGED <<lines, nameid, allNotFound, notFoundSet, out, fingerprints>>
      /\ \A k \in 1..Len(all) : all[k] \in Record
  BY AllFacts DEF NumberRecord, fileVars
<1>1. /\ Len(all') = Len(all)
      /\ \A k \in 1..Len(all) : all'[k] = IF k = i THEN r ELSE all[k]
  BY <1>0, AllFacts, SeqUpdate
<1>2. Processed = i - 1 /\ Processed' = i /\ Prepared' = 0
  BY <1>0, DecodeNow DEF Processed, Prepared
<1>3. PositionInv /\ RecordInv /\ KeyInv /\ CompletionInv /\ AddressInv /\ ValidInv /\ MissedInv
  BY DecodeNow
<1>4. PositionInv'
  BY <1>0, <1>3, SameLines
<1>5. RecordInv'
  <2>1. \A k \in 1..Len(all) :
           /\ all'[k].name = all[k].name /\ all'[k].origin = all[k].origin
           /\ all'[k].defining = all[k].defining
           /\ k > i => all'[k] = all[k] /\ k > i - 1
    BY <1>0, <1>1
  <2>2. KlassLines' = KlassLines /\ Klasses' = Klasses
    BY <1>0, SameLines
  <2>. QED
    BY <1>1, <1>2, <1>3, <2>1, <2>2 DEF RecordInv
<1>6. KeyInv'
  BY <1>0, <1>1, <1>3, SameLines DEF KeyInv, Key
<1>7. CompletionInv'
  <2>1. \A k \in 1..Len(all) : all'[k].initiating = all[k].initiating
    BY <1>1
  <2>. QED
    BY <1>0, <1>1, <1>3, <2>1, SameLines DEF CompletionInv
<1>8. AddressInv'
  <2>1. /\ DOMAIN idIds' = DOMAIN idIds \cup {Klasses[i].id}
        /\ \A x \in DOMAIN idIds' : idIds'[x] = IF x = Klasses[i].id THEN i ELSE idIds[x]
    <3>1. all[i].id = Klasses[i].id
      BY <1>0, RawRecord
    <3>2. idIds' = [x \in DOMAIN idIds \cup {Klasses[i].id} |->
                       IF x = Klasses[i].id THEN i ELSE idIds[x]]
      BY <1>0, <3>1 DEF Registered, Put
    <3>. QED
      BY <3>2
  <2>2. /\ \A x \in DOMAIN idIds : idIds[x] \in 1..(i - 1) /\ Klasses[idIds[x]].id = x
        /\ \A k \in 1..(i - 1) : Klasses[k].id \in DOMAIN idIds /\ k <= idIds[Klasses[k].id]
    BY <1>2, <1>3 DEF AddressInv
  <2>3. ASSUME NEW x \in DOMAIN idIds' PROVE idIds'[x] \in 1..i /\ Klasses[idIds'[x]].id = x
    <3>1. CASE x = Klasses[i].id
      BY <1>0, <2>1, <3>1
    <3>2. CASE x # Klasses[i].id
      <4>1. x \in DOMAIN idIds /\ idIds'[x] = idIds[x]
        BY <2>1, <3>2
      <4>. QED
        BY <1>0, <2>2, <4>1
    <3>. QED
      BY <3>1, <3>2
  <2>4. ASSUME NEW k \in 1..i
        PROVE  Klasses[k].id \in DOMAIN idIds' /\ k <= idIds'[Klasses[k].id]
    <3>1. CASE Klasses[k].id = Klasses[i].id
      BY <1>0, <2>1, <3>1
    <3>2. CASE Klasses[k].id # Klasses[i].id
      <4>1. k \in 1..(i - 1)
        BY <1>0, <3>2
      <4>. QED
        BY <2>1, <2>2, <3>2, <4>1
    <3>. QED
      BY <3>1, <3>2
  <2>5. Klasses' = Klasses
    BY <1>0, SameLines
  <2>. QED
    BY <1>2, <2>3, <2>4, <2>5 DEF AddressInv
<1>9. ValidInv'
  <2>s. /\ \A k : KeptParents(k)' = KeptParents(k)
        /\ \A k, x : ParentOf(k, x)' = ParentOf(k, x)
        /\ Klasses' = Klasses
    BY <1>0, SameLines
  <2>o. ASSUME NEW k \in 1..i PROVE Orphan(k)' = Orphan(k)
    <3>1. ASSUME NEW x, ParentOf(k, x) # NoRecord
          PROVE  all'[ParentOf(k, x)] = all[ParentOf(k, x)]
      <4>1. ParentOf(k, x) \in 1..(k - 1) /\ k \in Nat
        BY <1>0, <3>1, ParentOfFacts
      <4>2. PICK p : p = ParentOf(k, x)
        OBVIOUS
      <4>3. p \in 1..Len(all) /\ p # i
        BY <1>0, <4>1, <4>2
      <4>. QED
        BY <1>1, <4>2, <4>3
    <3>. QED
      BY <2>s, <3>1 DEF Orphan, Parents
  <2> SUFFICES ASSUME NEW k \in 1..i
               PROVE  /\ all'[k].invalid <=> k # 1 /\ (Rejected(k)' \/ Orphan(k))
                      /\ ~all'[k].invalid => Parents(all'[k]) = KeptParents(k)
                      /\ k # 1 /\ ~all'[k].invalid /\ HasForm(all'[k].source, {"path"}) =>
                            all'[k].source.main \in DOMAIN signCache'
    BY <1>2, <2>s, <2>o DEF ValidInv, Parents
  <2>1. CASE k = i
    <3>1. all'[k] = r
      BY <1>0, <1>1, <2>1
    <3>2. Rejected(k)' <=> \E f \in DOMAIN signCache' :
             signCache'[f] /\ HasForm(r.source, {"path"}) /\ r.source.main = f
      BY <3>1 DEF Rejected
    <3>. QED
      BY <2>1, <3>1, <3>2
  <2>2. CASE k # i
    <3>1. k \in 1..(i - 1) /\ all'[k] = all[k]
      BY <1>0, <1>1, <2>2
    <3>2. /\ all[k].invalid <=> k # 1 /\ (Rejected(k) \/ Orphan(k))
          /\ ~all[k].invalid => Parents(all[k]) = KeptParents(k)
          /\ k # 1 /\ ~all[k].invalid /\ HasForm(all[k].source, {"path"}) =>
                all[k].source.main \in DOMAIN signCache
      BY <1>2, <1>3, <3>1 DEF ValidInv
    <3>3. Rejected(k) => Rejected(k)'
      BY <3>1 DEF Rejected
    <3>4. k # 1 /\ ~all[k].invalid /\ Rejected(k)' => Rejected(k)
      BY <3>1, <3>2 DEF Rejected
    <3>. QED
      BY <3>1, <3>2, <3>3, <3>4
  <2>. QED
    BY <2>1, <2>2
<1>10. MissedInv'
  <2>1. \A m \in DOMAIN allNotFound : ~allNotFound[m].invalid /\ ~(m <= Prepared')
    <3>1. Prepared = 0 /\ allNotFound \in Seq(NotFoundRecord)
      BY DecodeNow, NotFoundFacts
    <3>2. \A m \in DOMAIN allNotFound : ~(m <= 0)
      BY <3>1
    <3>. QED
      BY <1>2, <1>3, <3>1, <3>2 DEF MissedInv
  <2>2. \A m : Pair(allNotFound[m])' = Pair(allNotFound[m])
    BY <1>0 DEF Pair
  <2>. QED
    BY <1>0, <1>3, <2>1, <2>2 DEF MissedInv, Pair
<1>11. OutInv' /\ FileInv'
  <2>1. Written' = 0 /\ WrittenNotFound' = 0 /\ Looked' = 0
    BY DEF Written, WrittenNotFound, Looked
  <2>2. out' = << >> /\ fingerprints' = << >>
    BY <1>0, DecodeNow
  <2>. QED
    BY <2>1, <2>2 DEF OutInv, FileInv
<1>. QED
  BY <1>4, <1>5, <1>6, <1>7, <1>8, <1>9, <1>10, <1>11 DEF ExactInv

\* A jar is judged once: the verdict goes to the cache or comes from it.
LEMMA VerdictExact ==
    ASSUME NEW s, NEW rejected \in Verdicts(s), signCache' = CacheVerdict(s, rejected)
    PROVE  /\ DOMAIN signCache \subseteq DOMAIN signCache'
           /\ \A f \in DOMAIN signCache : signCache'[f] = signCache[f]
           /\ HasForm(s, {"path"}) => s.main \in DOMAIN signCache'
           /\ rejected <=> \E f \in DOMAIN signCache' :
                               signCache'[f] /\ HasForm(s, {"path"}) /\ s.main = f
<1>1. CASE HasForm(s, {"path"})
  <2>1. /\ DOMAIN signCache' = DOMAIN signCache \cup {s.main}
        /\ \A f \in DOMAIN signCache' : signCache'[f] = IF f = s.main THEN rejected ELSE signCache[f]
    BY <1>1 DEF CacheVerdict, Put
  <2>2. s.main \in DOMAIN signCache => rejected = signCache[s.main]
    BY <1>1 DEF Verdicts
  <2>3. signCache'[s.main] = rejected /\ s.main \in DOMAIN signCache'
    BY <2>1
  <2>4. \A f \in DOMAIN signCache : signCache'[f] = signCache[f]
    BY <2>1, <2>2
  <2>. QED
    BY <1>1, <2>1, <2>3, <2>4, Zenon
<1>2. CASE ~HasForm(s, {"path"})
  BY <1>2 DEF CacheVerdict, Verdicts
<1>. QED
  BY <1>1, <1>2

LEMMA DecodeObjectExact ==
    ASSUME TypeOK, IndInv, ExactInv, pc = "decode", DecodeObject
    PROVE  ExactInv'
<1>1. /\ NumberRecord(1) /\ cursor = 1 /\ 1 \in 1..Len(all) /\ all[1].name = Object
      /\ pc' = "decode" /\ UNCHANGED <<lines, appSet, eagerSet, signCache>>
  BY DEF DecodeObject, NumberRecord
<1>2. PICK s \in DecodedSources(all[1].source) :
         all' = [all EXCEPT ![1] = [ObjectRecord EXCEPT !.source = s]]
  BY DEF DecodeObject
<1>3. s \in Source \cup {NONE}
  <2>1. all[1].source \in Source \cup {NONE}
    BY <1>1, AllFacts DEF Record
  <2>. QED
    BY <1>2, <2>1, DecodedType
<1> DEFINE r == [ObjectRecord EXCEPT !.source = s]
<1>4. ObjectRecord \in Record /\ ObjectRecord.name = all[1].name
      /\ ObjectRecord.origin = all[1].origin /\ ObjectRecord.defining = all[1].defining
      /\ ObjectRecord.initiating = all[1].initiating /\ ObjectRecord.super = NONE
      /\ ObjectRecord.interfaces = << >> /\ ObjectRecord.invalid = all[1].invalid
  <2>1. all[1].interfaces = << >>
    BY <1>1, DecodeFacts, AllFacts DEF RawInv
  <2>2. all[1] \in Record
    BY <1>1, AllFacts
  <2>3. ObjectRecord.name = all[1].name /\ ObjectRecord.origin = all[1].origin
        /\ ObjectRecord.defining = all[1].defining /\ ObjectRecord.initiating = all[1].initiating
    BY <2>2 DEF ObjectRecord, Record
  <2>. QED
    BY <1>1, <2>1, <2>3, ObjectRecordFacts
<1>5. /\ r \in Record /\ r.name = all[1].name /\ r.origin = all[1].origin
      /\ r.defining = all[1].defining /\ r.initiating = all[1].initiating
      /\ r.super = NONE /\ r.interfaces = << >> /\ r.invalid = all[1].invalid
  BY <1>3, <1>4 DEF Record
<1>6. ~r.invalid /\ Parents(r) = {} /\ KeptParents(1) = {}
  <2>1. ~all[1].invalid
    BY <1>1, RawRecord
  <2>. QED
    BY <1>5, <2>1 DEF Parents, KeptParents
<1>7. LoaderInv'
  <2>1. Processed = 0 /\ Processed' = 1 /\ LoaderInv
    BY <1>1, DecodeNow DEF Processed, NumberRecord
  <2>2. appSet = {} /\ eagerSet = {}
    BY <2>1 DEF LoaderInv
  <2>. QED
    BY <1>1, <2>1, <2>2 DEF LoaderInv
<1> HIDE DEF r
<1>8. all' = [all EXCEPT ![cursor] = r]
  BY <1>1, <1>2 DEF r
<1>. QED
  BY <1>1, <1>5, <1>6, <1>7, <1>8, DecodeExact

LEMMA JudgeRecordExact ==
    ASSUME TypeOK, IndInv, ExactInv, pc = "decode", JudgeRecord(cursor)
    PROVE  ExactInv'
<1> DEFINE i == cursor
<1>1. /\ NumberRecord(i) /\ i > 1 /\ ParentsKnown(i) /\ Classify(all[i]) /\ pc' = "decode"
      /\ i \in 1..Len(all) /\ lines' = lines /\ cursor' = i + 1
  BY DEF JudgeRecord, NumberRecord
<1>2. PICK s, rejected :
         /\ s \in DecodedSources(all[i].source) /\ rejected \in Verdicts(s)
         /\ all' = [all EXCEPT ![i] = [Resolved(i) EXCEPT !.source = s, !.invalid = rejected]]
         /\ signCache' = CacheVerdict(s, rejected)
  BY DEF JudgeRecord
<1>3. s \in Source \cup {NONE} /\ rejected \in BOOLEAN
  <2>1. all[i].source \in Source \cup {NONE}
    BY <1>1, AllFacts DEF Record
  <2>. QED
    BY <1>2, <2>1, DecodedType, VerdictsType DEF TypeOK
<1>4. /\ Resolved(i) \in Record /\ Resolved(i).name = all[i].name
      /\ Resolved(i).origin = all[i].origin /\ Resolved(i).defining = all[i].defining
      /\ Resolved(i).initiating = all[i].initiating
  <2>1. all[i] \in Record /\ Resolved(i) \in Record
    BY <1>1, AllFacts, ResolvedFacts
  <2>. QED
    BY <2>1 DEF Resolved, Record
<1> DEFINE r == [Resolved(i) EXCEPT !.source = s, !.invalid = rejected]
<1>5. /\ r \in Record /\ r.name = all[i].name /\ r.origin = all[i].origin
      /\ r.defining = all[i].defining /\ r.initiating = all[i].initiating
      /\ r.source = s /\ r.invalid = rejected /\ Parents(r) = Parents(Resolved(i))
  BY <1>3, <1>4 DEF Record, Parents
<1>6. Parents(r) = KeptParents(i) /\ ~Orphan(i)
  BY <1>1, <1>5, ResolvedExact, KnownIsNoOrphan
<1>7. LoaderInv'
  <2>1. Processed' = i
    BY <1>1, DecodeNow, AllFacts DEF Processed
  <2>. QED
    BY <1>1, <2>1, ClassifyExact
<1>8. /\ DOMAIN signCache \subseteq DOMAIN signCache'
      /\ \A f \in DOMAIN signCache : signCache'[f] = signCache[f]
      /\ HasForm(s, {"path"}) => s.main \in DOMAIN signCache'
      /\ rejected <=> \E f \in DOMAIN signCache' :
                          signCache'[f] /\ HasForm(s, {"path"}) /\ s.main = f
  BY <1>2, VerdictExact
<1>9. i # 1
  BY <1>1
<1> HIDE DEF r
<1>10. all' = [all EXCEPT ![cursor] = r]
  BY <1>2 DEF r
<1>11. /\ r.invalid <=> /\ cursor # 1
                        /\ \/ \E f \in DOMAIN signCache' : /\ signCache'[f]
                                                           /\ HasForm(r.source, {"path"})
                                                           /\ r.source.main = f
                           \/ Orphan(cursor)
       /\ cursor # 1 /\ ~r.invalid /\ HasForm(r.source, {"path"}) =>
              r.source.main \in DOMAIN signCache'
  BY <1>5, <1>6, <1>8, <1>9
<1>. QED
  BY <1>1, <1>5, <1>6, <1>7, <1>8, <1>10, <1>11, DecodeExact

LEMMA OrphanRecordExact ==
    ASSUME TypeOK, IndInv, ExactInv, pc = "decode", OrphanRecord(cursor)
    PROVE  ExactInv'
<1> DEFINE i == cursor
           r == [Resolved(i) EXCEPT !.invalid = TRUE]
<1>1. /\ NumberRecord(i) /\ i > 1 /\ ~ParentsKnown(i) /\ Classify(all[i]) /\ pc' = "decode"
      /\ i \in 1..Len(all) /\ lines' = lines /\ cursor' = i + 1
      /\ all' = [all EXCEPT ![i] = r] /\ signCache' = signCache
  BY DEF OrphanRecord, NumberRecord
<1>2. /\ Resolved(i) \in Record /\ Resolved(i).name = all[i].name
      /\ Resolved(i).origin = all[i].origin /\ Resolved(i).defining = all[i].defining
      /\ Resolved(i).initiating = all[i].initiating
  <2>1. all[i] \in Record /\ Resolved(i) \in Record
    BY <1>1, AllFacts, ResolvedFacts
  <2>. QED
    BY <2>1 DEF Resolved, Record
<1>3. /\ r \in Record /\ r.name = all[i].name /\ r.origin = all[i].origin
      /\ r.defining = all[i].defining /\ r.initiating = all[i].initiating /\ r.invalid
  BY <1>2 DEF Record
<1>4. Orphan(i) /\ i # 1
  BY <1>1, KnownIsNoOrphan
<1>5. LoaderInv'
  <2>1. Processed' = i
    BY <1>1, DecodeNow, AllFacts DEF Processed
  <2>. QED
    BY <1>1, <2>1, ClassifyExact
<1> HIDE DEF r
<1>. QED
  BY <1>1, <1>3, <1>4, <1>5, DecodeExact

LEMMA EndDecodeExact ==
    ASSUME TypeOK, IndInv, ExactInv, pc = "decode", EndDecode
    PROVE  ExactInv'
<1>1. /\ cursor = Len(all) + 1 /\ pc' = "notFound" /\ cursor' = 1 /\ Len(all) \in Nat
      /\ UNCHANGED <<lines, all, allNotFound, notFoundSet, nameid, idIds, eagerSet, appSet,
                     signCache, out, fingerprints>>
  BY DecodeNow, AllFacts DEF EndDecode, parseVars, decodeVars, fileVars
<1>2. /\ Processed' = Processed /\ Prepared' = Prepared
      /\ Written' = 0 /\ WrittenNotFound' = 0 /\ Looked' = 0
  BY <1>1, DecodeNow DEF Processed, Prepared, Written, WrittenNotFound, Looked
<1>3. MissedInv /\ OutInv /\ FileInv
  BY DEF ExactInv
<1>4. OutInv' /\ FileInv'
  BY <1>1, <1>2, <1>3, OutKept, FileKept
<1>. QED
  BY <1>1, <1>2, <1>3, <1>4, RecordsKept, MissedKept DEF ExactInv

LEMMA DecodeAllExact == TypeOK /\ IndInv /\ ExactInv /\ Decode => ExactInv'
<1> SUFFICES ASSUME TypeOK, IndInv, ExactInv, Decode PROVE ExactInv'
  OBVIOUS
<1>0. pc = "decode"
  BY DEF Decode, NoObject, DecodeObject, EndDecode, JudgeRecord, OrphanRecord, DecodeThrows,
         NumberRecord
<1>1. CASE NoObject \/ DecodeThrows(cursor)
  <2>1. pc' = "failed" /\ lines' = lines /\ PositionInv
    BY <1>1 DEF NoObject, DecodeThrows, NumberRecord, parseVars, ExactInv
  <2>. QED
    BY <2>1, SameLines DEF ExactInv
<1>. QED
  BY <1>0, <1>1, DecodeObjectExact, JudgeRecordExact, OrphanRecordExact, EndDecodeExact DEF Decode

-----------------------------------------------------------------------------
(* What each collection holds of the lines: the not-found classes, the     *)
(* final list and the fingerprint file.                                    *)

Later == Writing \cup {"notFound"}

LEMMA LaterNow ==
    ASSUME TypeOK, IndInv, ExactInv, pc \in Later
    PROVE  /\ Processed = Len(all) /\ pc # "failed"
           /\ MissedInv /\ OutInv /\ FileInv /\ RecordInv
           /\ Prepared = IF pc = "notFound" THEN cursor - 1 ELSE Len(allNotFound)
           /\ cursor \in Nat \ {0} /\ Len(all) \in Nat /\ Len(allNotFound) \in Nat
           /\ DOMAIN allNotFound = 1..Len(allNotFound)
           /\ pc = "notFound" => out = << >>
<1>1. Processed = Len(all) /\ Prepared = IF pc = "notFound" THEN cursor - 1 ELSE Len(allNotFound)
  BY DEF Processed, Prepared, Later, Writing
<1>2. MissedInv /\ OutInv /\ FileInv /\ RecordInv /\ pc # "failed"
  BY DEF ExactInv, Later, Writing
<1>3. /\ cursor \in Nat \ {0} /\ Len(all) \in Nat /\ Len(allNotFound) \in Nat
      /\ DOMAIN allNotFound = 1..Len(allNotFound)
  BY AllFacts, NotFoundFacts
<1>4. pc = "notFound" => out = << >>
  BY LaterFacts DEF Later
<1>. QED
  BY <1>1, <1>2, <1>3, <1>4

\* From here on the records stay as they are.
LEMMA LaterRecords ==
    ASSUME TypeOK, IndInv, ExactInv, pc \in Later, pc' \in Later \cup {"done"},
           UNCHANGED <<lines, all, nameid, idIds, eagerSet, appSet, signCache>>
    PROVE  /\ PositionInv' /\ RecordInv' /\ KeyInv' /\ CompletionInv' /\ AddressInv'
           /\ ValidInv' /\ LoaderInv'
<1>1. Processed' = Processed
  BY LaterNow DEF Processed, Later, Writing
<1>. QED
  BY <1>1, LaterNow, RecordsKept

LEMMA PrepareNotFoundExact ==
    ASSUME TypeOK, IndInv, ExactInv, PrepareNotFound
    PROVE  ExactInv'
<1> DEFINE c == cursor
<1>1. /\ pc = "notFound" /\ pc' = "notFound" /\ c <= Len(allNotFound) /\ cursor' = c + 1
      /\ pc \in Later /\ pc' \in Later
      /\ UNCHANGED <<lines, all, notFoundSet, nameid, idIds, eagerSet, appSet, signCache,
                     out, fingerprints>>
  BY DEF PrepareNotFound, decodeVars, fileVars, Later
<1>2. /\ c \in 1..Len(allNotFound) /\ DOMAIN allNotFound = 1..Len(allNotFound)
      /\ Prepared = c - 1 /\ Prepared' = c /\ c \in Nat
      /\ MissedInv /\ FileInv /\ out = << >>
  BY <1>1, LaterNow DEF Prepared
<1>3. allNotFound[c] \in NotFoundRecord /\ allNotFound \in Seq(NotFoundRecord)
  BY <1>2, NotFoundFacts
<1> DEFINE lost == allNotFound[c].name \in appSet
           r == IF lost THEN [allNotFound[c] EXCEPT !.invalid = TRUE]
                        ELSE [allNotFound[c] EXCEPT !.id = klassID]
<1>4. /\ r.name = allNotFound[c].name /\ r.initiating = allNotFound[c].initiating
      /\ r.invalid <=> lost \/ allNotFound[c].invalid
  BY <1>3 DEF NotFoundRecord
<1>5. allNotFound' = [allNotFound EXCEPT ![c] = r]
  BY DEF PrepareNotFound
<1> HIDE DEF r
<1>6. /\ DOMAIN allNotFound' = DOMAIN allNotFound
      /\ \A m \in DOMAIN allNotFound : allNotFound'[m] = IF m = c THEN r ELSE allNotFound[m]
  BY <1>3, <1>5
<1>7. MissedInv'
  <2>1. \A m \in DOMAIN allNotFound : /\ allNotFound'[m].name = allNotFound[m].name
                                      /\ allNotFound'[m].initiating = allNotFound[m].initiating
    BY <1>4, <1>6
  <2>2. \A m \in DOMAIN allNotFound : Pair(allNotFound'[m]) = Pair(allNotFound[m])
    BY <2>1 DEF Pair
  <2>3. notFoundSet' = {Pair(allNotFound'[m]) : m \in DOMAIN allNotFound'}
    <3>1. notFoundSet = {Pair(allNotFound[m]) : m \in DOMAIN allNotFound}
      BY <1>2 DEF MissedInv
    <3>. QED
      BY <1>1, <1>6, <2>2, <3>1
  <2>4. notFoundSet' = {Pair(lines'[p]) : p \in {q \in DOMAIN lines' : IsNotFound(lines'[q])}}
    BY <1>1, <1>2 DEF MissedInv
  <2>5. \A m, n \in DOMAIN allNotFound' : Pair(allNotFound'[m]) = Pair(allNotFound'[n]) => m = n
    <3>1. \A m, n \in DOMAIN allNotFound : Pair(allNotFound[m]) = Pair(allNotFound[n]) => m = n
      BY <1>2 DEF MissedInv
    <3>. QED
      BY <1>6, <2>2, <3>1
  <2>6. ASSUME NEW m \in DOMAIN allNotFound
        PROVE  allNotFound'[m].invalid <=> m <= c /\ allNotFound'[m].name \in appSet
    <3>1. allNotFound[m].invalid <=> m <= c - 1 /\ allNotFound[m].name \in appSet
      BY <1>2 DEF MissedInv
    <3>2. CASE m = c
      <4>1. ~allNotFound[m].invalid /\ m <= c
        BY <1>2, <3>1, <3>2
      <4>. QED
        BY <1>4, <1>6, <3>2, <4>1
    <3>3. CASE m # c
      <4>1. m <= c <=> m <= c - 1
        BY <1>2, <3>3
      <4>. QED
        BY <1>6, <3>1, <3>3, <4>1
    <3>. QED
      BY <3>2, <3>3
  <2>. QED
    BY <1>1, <1>2, <1>6, <2>3, <2>4, <2>5, <2>6 DEF MissedInv
<1>8. OutInv' /\ FileInv'
  <2>1. Written' = 0 /\ WrittenNotFound' = 0 /\ Looked' = 0
    BY <1>1 DEF Written, WrittenNotFound, Looked
  <2>2. out' = << >>
    BY <1>1, <1>2
  <2>. QED
    BY <1>1, <1>2, <2>1, <2>2, FileKept DEF OutInv
<1>. QED
  BY <1>1, <1>7, <1>8, LaterRecords DEF ExactInv

\* The ends of the workers' loops.
LEMMA EndExact ==
    ASSUME TypeOK, IndInv, ExactInv,
           EndNotFound \/ EndWrite \/ EndWriteNotFound \/ EndFingerprint
    PROVE  ExactInv'
<1>1. /\ pc \in Later /\ pc' \in Later \cup {"done"}
      /\ UNCHANGED <<lines, all, allNotFound, notFoundSet, nameid, idIds, eagerSet, appSet,
                     signCache, out, fingerprints>>
  BY DEF EndNotFound, EndWrite, EndWriteNotFound, EndFingerprint, Later, Writing, parseVars,
         decodeVars, fileVars
<1>2. /\ MissedInv /\ OutInv /\ FileInv /\ cursor \in Nat /\ Len(all) \in Nat
      /\ Len(allNotFound) \in Nat /\ DOMAIN allNotFound = 1..Len(allNotFound)
  BY <1>1, LaterNow
<1>3. \A m \in DOMAIN allNotFound : m <= Prepared' <=> m <= Prepared
  <2>1. Prepared' = Len(allNotFound)
    <3>1. pc' \in {"write", "writeNotFound", "fingerprint", "done"}
      BY DEF EndNotFound, EndWrite, EndWriteNotFound, EndFingerprint
    <3>. QED
      BY <1>1, <3>1 DEF Prepared
  <2>2. Prepared = Len(allNotFound) \/ (Prepared = cursor - 1 /\ cursor > Len(allNotFound))
    <3>1. pc = "notFound" => cursor > Len(allNotFound)
      BY DEF EndNotFound, EndWrite, EndWriteNotFound, EndFingerprint
    <3>. QED
      BY <1>1, <3>1, LaterNow
  <2>. QED
    BY <1>2, <2>1, <2>2
<1>4. \A i \in 1..Written' : i \in 1..Written
  <2>1. CASE EndNotFound
    <3>1. Written' = 0
      BY <1>1, <2>1 DEF EndNotFound, Written
    <3>. QED
      BY <3>1
  <2>2. CASE EndWrite
    <3>1. Written' = Len(all) /\ Written = cursor - 1 /\ cursor > Len(all)
      BY <1>1, <2>2 DEF EndWrite, Written
    <3>. QED
      BY <1>2, <3>1
  <2>3. CASE EndWriteNotFound \/ EndFingerprint
    <3>1. Written' = Len(all) /\ Written = Len(all)
      BY <1>1, <2>3 DEF EndWriteNotFound, EndFingerprint, Written
    <3>. QED
      BY <3>1
  <2>. QED
    BY <2>1, <2>2, <2>3
<1>5. \A m \in 1..WrittenNotFound' : m \in 1..WrittenNotFound
  <2>1. \/ WrittenNotFound' = 0
        \/ /\ WrittenNotFound' = Len(allNotFound)
           /\ \/ WrittenNotFound = Len(allNotFound)
              \/ WrittenNotFound = cursor - 1 /\ cursor > Len(allNotFound)
    BY <1>1 DEF EndNotFound, EndWrite, EndWriteNotFound, EndFingerprint, WrittenNotFound
  <2>. QED
    BY <1>2, <2>1
<1>6. \A i \in 1..Looked' : i \in 1..Looked
  <2>1. \/ Looked' = 0
        \/ Looked' = Len(all) /\ Looked = cursor - 1 /\ cursor > Len(all)
    BY <1>1, ConstantsAssumption
       DEF EndNotFound, EndWrite, EndWriteNotFound, EndFingerprint, Looked
  <2>. QED
    BY <1>2, <2>1
<1>7. pc' \notin {"fingerprint", "done"} => pc \notin {"fingerprint", "done"}
  BY DEF EndNotFound, EndWrite, EndWriteNotFound, EndFingerprint
<1>. QED
  BY <1>1, <1>2, <1>3, <1>4, <1>5, <1>6, <1>7, LaterRecords, MissedKept, OutKept, FileKept
     DEF ExactInv

\* A line for a valid record may be added to the final list.
LEMMA AppendExact ==
    ASSUME TypeOK, OutInv, NEW l, out' = Append(out, l), UNCHANGED <<all, allNotFound>>,
           IF l.found
           THEN l.id \in 1..Len(all) /\ ~all[l.id].invalid /\ l = ClassLine(all[l.id])
           ELSE \E m \in 1..Len(allNotFound) :
                   ~allNotFound[m].invalid /\ l = NotFoundLine(allNotFound[m])
    PROVE  /\ \A k \in 1..Len(out') :
                 IF out'[k].found
                 THEN /\ out'[k].id \in 1..Len(all) /\ ~all[out'[k].id].invalid
                      /\ out'[k] = ClassLine(all[out'[k].id])
                 ELSE \E m \in 1..Len(allNotFound) :
                         ~allNotFound[m].invalid /\ out'[k] = NotFoundLine(allNotFound[m])
           /\ \E k \in 1..Len(out') : out'[k] = l
           /\ \A k \in 1..Len(out) : k \in 1..Len(out') /\ out'[k] = out[k]
<1>1. /\ Len(out) \in Nat /\ Len(out') = Len(out) + 1 /\ out'[Len(out) + 1] = l
      /\ \A k \in 1..Len(out) : out'[k] = out[k]
  <2>1. out \in Seq(OutLine)
    BY OutType
  <2>. QED
    BY <2>1
<1>2. \A k \in 1..Len(out') : k \in 1..Len(out) \/ k = Len(out) + 1
  BY <1>1
<1>3. ASSUME NEW k \in 1..Len(out')
      PROVE  IF out'[k].found
             THEN /\ out'[k].id \in 1..Len(all) /\ ~all[out'[k].id].invalid
                  /\ out'[k] = ClassLine(all[out'[k].id])
             ELSE \E m \in 1..Len(allNotFound) :
                     ~allNotFound[m].invalid /\ out'[k] = NotFoundLine(allNotFound[m])
  <2>1. CASE k \in 1..Len(out)
    <3>1. out'[k] = out[k]
      BY <1>1, <2>1
    <3>. QED
      BY <2>1, <3>1 DEF OutInv
  <2>2. CASE k = Len(out) + 1
    BY <1>1, <2>2
  <2>. QED
    BY <1>2, <2>1, <2>2
<1>4. Len(out) + 1 \in 1..Len(out') /\ \A k \in 1..Len(out) : k \in 1..Len(out')
  BY <1>1
<1>. QED
  BY <1>1, <1>3, <1>4

LEMMA WriteClassExact ==
    ASSUME TypeOK, IndInv, ExactInv, WriteClass
    PROVE  ExactInv'
<1> DEFINE c == cursor
<1>1. /\ pc = "write" /\ pc' = "write" /\ c <= Len(all) /\ cursor' = c + 1
      /\ pc \in Later /\ pc' \in Later
      /\ UNCHANGED <<lines, all, allNotFound, notFoundSet, nameid, idIds, eagerSet, appSet,
                     signCache, fingerprints>>
      /\ out' = IF all[c].invalid THEN out ELSE Append(out, ClassLine(all[c]))
  BY DEF WriteClass, parseVars, decodeVars, Later, Writing
<1>2. c \in 1..Len(all) /\ c \in Nat /\ MissedInv /\ OutInv /\ FileInv /\ all[c].id = c
  BY <1>1, LaterNow, LaterFacts DEF Later
<1>3. MissedInv' /\ FileInv'
  <2>1. Prepared' = Prepared /\ Looked' = 0
    BY <1>1 DEF Prepared, Looked
  <2>. QED
    BY <1>1, <1>2, <2>1, MissedKept, FileKept
<1>4. Written = c - 1 /\ Written' = c /\ WrittenNotFound' = 0
  BY <1>1, <1>2 DEF Written, WrittenNotFound
<1>5. \A i \in 1..c : i \in 1..(c - 1) \/ i = c
  BY <1>2
<1>6. OutInv'
  <2>0. \A i \in 1..(c - 1) : ~all[i].invalid => \E k \in 1..Len(out) : out[k] = ClassLine(all[i])
    BY <1>2, <1>4 DEF OutInv
  <2>c. \A r : ClassLine(r)' = ClassLine(r)
    BY DEF ClassLine, HasParents, HasForm
  <2>1. CASE all[c].invalid
    <3>1. out' = out
      BY <1>1, <2>1
    <3>2. \A i \in 1..c : ~all[i].invalid => \E k \in 1..Len(out) : out[k] = ClassLine(all[i])
      BY <1>5, <2>0, <2>1
    <3>. QED
      BY <1>1, <1>2, <1>4, <3>1, <3>2 DEF OutInv
  <2>2. CASE ~all[c].invalid
    <3> DEFINE l == ClassLine(all[c])
    <3>1. l.found /\ l.id = c
      BY <1>2 DEF ClassLine
    <3>2. out' = Append(out, l) /\ l = ClassLine(all[l.id])
      BY <1>1, <2>2, <3>1
    <3> HIDE DEF l
    <3>3. /\ \A k \in 1..Len(out') :
                 IF out'[k].found
                 THEN /\ out'[k].id \in 1..Len(all) /\ ~all[out'[k].id].invalid
                      /\ out'[k] = ClassLine(all[out'[k].id])
                 ELSE \E m \in 1..Len(allNotFound) :
                         ~allNotFound[m].invalid /\ out'[k] = NotFoundLine(allNotFound[m])
          /\ \E k \in 1..Len(out') : out'[k] = l
          /\ \A k \in 1..Len(out) : k \in 1..Len(out') /\ out'[k] = out[k]
      BY <1>1, <1>2, <2>2, <3>1, <3>2, AppendExact
    <3>4. \A i \in 1..c : ~all[i].invalid => \E k \in 1..Len(out') : out'[k] = ClassLine(all[i])
      <4>1. ASSUME NEW i \in 1..c, ~all[i].invalid
            PROVE  \E k \in 1..Len(out') : out'[k] = ClassLine(all[i])
        <5>1. CASE i = c
          BY <3>3, <5>1 DEF l
        <5>2. CASE i \in 1..(c - 1)
          <6>1. PICK k \in 1..Len(out) : out[k] = ClassLine(all[i])
            BY <2>0, <4>1, <5>2
          <6>. QED
            BY <3>3, <6>1
        <5>. QED
          BY <1>5, <5>1, <5>2
      <4>. QED
        BY <4>1
    <3>. QED
      BY <1>1, <1>4, <3>3, <3>4 DEF OutInv
  <2>. QED
    BY <2>1, <2>2
<1>. QED
  BY <1>1, <1>3, <1>6, LaterRecords DEF ExactInv

LEMMA WriteNotFoundExact ==
    ASSUME TypeOK, IndInv, ExactInv, WriteNotFound
    PROVE  ExactInv'
<1> DEFINE c == cursor
<1>1. /\ pc = "writeNotFound" /\ pc' = "writeNotFound" /\ c <= Len(allNotFound) /\ cursor' = c + 1
      /\ pc \in Later /\ pc' \in Later
      /\ UNCHANGED <<lines, all, allNotFound, notFoundSet, nameid, idIds, eagerSet, appSet,
                     signCache, fingerprints>>
      /\ out' = IF allNotFound[c].invalid THEN out ELSE Append(out, NotFoundLine(allNotFound[c]))
  BY DEF WriteNotFound, parseVars, decodeVars, Later, Writing
<1>2. c \in 1..Len(allNotFound) /\ c \in Nat /\ MissedInv /\ OutInv /\ FileInv
  BY <1>1, LaterNow
<1>3. MissedInv' /\ FileInv'
  <2>1. Prepared' = Prepared /\ Looked' = 0
    BY <1>1 DEF Prepared, Looked
  <2>. QED
    BY <1>1, <1>2, <2>1, MissedKept, FileKept
<1>4. Written = Len(all) /\ Written' = Len(all) /\ WrittenNotFound = c - 1 /\ WrittenNotFound' = c
  BY <1>1, <1>2 DEF Written, WrittenNotFound
<1>5. \A i \in 1..c : i \in 1..(c - 1) \/ i = c
  BY <1>2
<1>6. OutInv'
  <2>0. /\ \A m \in 1..(c - 1) : ~allNotFound[m].invalid =>
               \E k \in 1..Len(out) : out[k] = NotFoundLine(allNotFound[m])
        /\ \A i \in 1..Len(all) : ~all[i].invalid =>
               \E k \in 1..Len(out) : out[k] = ClassLine(all[i])
    BY <1>2, <1>4 DEF OutInv
  <2>1. CASE allNotFound[c].invalid
    <3>1. out' = out
      BY <1>1, <2>1
    <3>2. \A m \in 1..c : ~allNotFound[m].invalid =>
               \E k \in 1..Len(out) : out[k] = NotFoundLine(allNotFound[m])
      BY <1>5, <2>0, <2>1
    <3>. QED
      BY <1>1, <1>2, <1>4, <3>1, <3>2 DEF OutInv
  <2>2. CASE ~allNotFound[c].invalid
    <3> DEFINE l == NotFoundLine(allNotFound[c])
    <3>1. ~l.found
      BY DEF NotFoundLine
    <3>2. out' = Append(out, l)
          /\ \E m \in 1..Len(allNotFound) :
                ~allNotFound[m].invalid /\ l = NotFoundLine(allNotFound[m])
      BY <1>1, <1>2, <2>2
    <3>l. l = NotFoundLine(allNotFound[c])
      OBVIOUS
    <3> HIDE DEF l
    <3>3. /\ \A k \in 1..Len(out') :
                 IF out'[k].found
                 THEN /\ out'[k].id \in 1..Len(all) /\ ~all[out'[k].id].invalid
                      /\ out'[k] = ClassLine(all[out'[k].id])
                 ELSE \E m \in 1..Len(allNotFound) :
                         ~allNotFound[m].invalid /\ out'[k] = NotFoundLine(allNotFound[m])
          /\ \E k \in 1..Len(out') : out'[k] = l
          /\ \A k \in 1..Len(out) : k \in 1..Len(out') /\ out'[k] = out[k]
      BY <1>1, <1>2, <3>1, <3>2, AppendExact
    <3>4. \A m \in 1..c : ~allNotFound[m].invalid =>
              \E k \in 1..Len(out') : out'[k] = NotFoundLine(allNotFound[m])
      <4>1. ASSUME NEW m \in 1..c, ~allNotFound[m].invalid
            PROVE  \E k \in 1..Len(out') : out'[k] = NotFoundLine(allNotFound[m])
        <5>1. CASE m = c
          BY <3>3, <3>l, <5>1
        <5>2. CASE m \in 1..(c - 1)
          <6>1. PICK k \in 1..Len(out) : out[k] = NotFoundLine(allNotFound[m])
            BY <2>0, <4>1, <5>2
          <6>. QED
            BY <3>3, <6>1
        <5>. QED
          BY <1>5, <5>1, <5>2
      <4>. QED
        BY <4>1
    <3>5. \A i \in 1..Len(all) : ~all[i].invalid =>
              \E k \in 1..Len(out') : out'[k] = ClassLine(all[i])
      <4>1. ASSUME NEW i \in 1..Len(all), ~all[i].invalid
            PROVE  \E k \in 1..Len(out') : out'[k] = ClassLine(all[i])
        <5>1. PICK k \in 1..Len(out) : out[k] = ClassLine(all[i])
          BY <2>0, <4>1
        <5>. QED
          BY <3>3, <5>1
      <4>. QED
        BY <4>1
    <3>. QED
      BY <1>1, <1>4, <3>3, <3>4, <3>5 DEF OutInv
  <2>. QED
    BY <2>1, <2>2
<1>. QED
  BY <1>1, <1>3, <1>6, LaterRecords DEF ExactInv

LEMMA AddFingerprintExact ==
    ASSUME TypeOK, IndInv, ExactInv, AddFingerprint
    PROVE  ExactInv'
<1> DEFINE c == cursor
<1>1. /\ pc = "fingerprint" /\ pc' \in {"fingerprint", "failed"} /\ c <= Len(all) /\ cursor' = c + 1
      /\ pc \in Later
      /\ UNCHANGED <<lines, all, allNotFound, notFoundSet, nameid, idIds, eagerSet, appSet,
                     signCache, out>>
      /\ fingerprints' = IF all[c].origin = "file" THEN Append(fingerprints, ClassDesc(all[c]))
                         ELSE fingerprints
  BY DEF AddFingerprint, parseVars, decodeVars, Later, Writing
<1>2. CASE pc' = "failed"
  BY <1>1, <1>2, SameLines DEF ExactInv
<1>3. CASE pc' = "fingerprint"
  <2>1. c \in 1..Len(all) /\ c \in Nat /\ MissedInv /\ OutInv /\ FileInv /\ all[c].id = c
    BY <1>1, LaterNow, LaterFacts DEF Later
  <2>2. /\ Written' = Written /\ WrittenNotFound' = WrittenNotFound /\ Prepared' = Prepared
        /\ Looked = c - 1 /\ Looked' = c
    BY <1>1, <1>3, <2>1 DEF Written, WrittenNotFound, Prepared, Looked
  <2>3. MissedInv' /\ OutInv'
    BY <1>1, <2>1, <2>2, MissedKept, OutKept
  <2>4. FileInv'
    <3>0. fingerprints \in Seq(Desc) /\ Len(fingerprints) \in Nat
      BY DEF TypeOK
    <3>1. /\ \A d \in 1..Len(fingerprints) :
                /\ fingerprints[d].id \in 1..Len(all)
                /\ all[fingerprints[d].id].origin = "file"
                /\ fingerprints[d] = ClassDesc(all[fingerprints[d].id])
          /\ \A i \in 1..(c - 1) : all[i].origin = "file" =>
                \E d \in 1..Len(fingerprints) : fingerprints[d].id = i
      BY <2>1, <2>2 DEF FileInv
    <3>2. \A i \in 1..c : i \in 1..(c - 1) \/ i = c
      BY <2>1
    <3>3. CASE all[c].origin = "file"
      <4> DEFINE f == ClassDesc(all[c])
                 n == Len(fingerprints) + 1
      <4>1. fingerprints' = Append(fingerprints, f) /\ f.id = c /\ f = ClassDesc(all[f.id])
        BY <1>1, <2>1, <3>3 DEF ClassDesc
      <4> HIDE DEF f
      <4>2. /\ Len(fingerprints') = n /\ n \in 1..n /\ fingerprints'[n] = f
            /\ \A d \in 1..Len(fingerprints) : d \in 1..n /\ fingerprints'[d] = fingerprints[d]
            /\ \A d \in 1..n : d \in 1..Len(fingerprints) \/ d = n
        BY <3>0, <4>1
      <4> HIDE DEF n
      <4>3. ASSUME NEW d \in 1..n
            PROVE  /\ fingerprints'[d].id \in 1..Len(all)
                   /\ all[fingerprints'[d].id].origin = "file"
                   /\ fingerprints'[d] = ClassDesc(all[fingerprints'[d].id])
        BY <2>1, <3>1, <3>3, <4>1, <4>2
      <4>4. ASSUME NEW i \in 1..c, all[i].origin = "file"
            PROVE  \E d \in 1..n : fingerprints'[d].id = i
        BY <3>1, <3>2, <4>1, <4>2, <4>4
      <4>. QED
        BY <1>1, <1>3, <2>2, <4>2, <4>3, <4>4 DEF FileInv
    <3>4. CASE all[c].origin # "file"
      <4>1. fingerprints' = fingerprints
        BY <1>1, <3>4
      <4>. QED
        BY <1>1, <1>3, <2>2, <3>1, <3>2, <3>4, <4>1 DEF FileInv
    <3>. QED
      BY <3>3, <3>4
  <2>5. pc' \in Later \cup {"done"}
    BY <1>3 DEF Later, Writing
  <2>. QED
    BY <1>1, <2>3, <2>4, <2>5, LaterRecords DEF ExactInv
<1>. QED
  BY <1>1, <1>2, <1>3

-----------------------------------------------------------------------------
(* What each collection holds of the lines: every step. *)

LEMMA EndOfFileExact ==
    ASSUME TypeOK, IndInv, ExactInv, EndOfFile
    PROVE  ExactInv'
<1>1. /\ pc = "parse" /\ pc' \in {"decode", "failed"}
      /\ UNCHANGED <<cursor, lines, all, allNotFound, notFoundSet, nameid, idIds, eagerSet, appSet,
                     signCache, out, fingerprints>>
  BY DEF EndOfFile, parseVars, decodeVars, fileVars
<1>2. CASE pc' = "failed"
  BY <1>1, <1>2, SameLines DEF ExactInv
<1>3. CASE pc' = "decode"
  <2>1. Processed' = Processed /\ MissedInv /\ OutInv' /\ FileInv'
    BY <1>1, <1>3, ParseFrame
  <2>2. Prepared' = Prepared
    BY <1>1, <1>3 DEF Prepared
  <2>. QED
    BY <1>1, <2>1, <2>2, RecordsKept, MissedKept DEF ExactInv
<1>. QED
  BY <1>1, <1>2, <1>3

LEMMA ParseAllExact == TypeOK /\ IndInv /\ ExactInv /\ Parse => ExactInv'
<1> SUFFICES ASSUME TypeOK, IndInv, ExactInv, Parse PROVE ExactInv'
  OBVIOUS
<1>1. ASSUME NEW l \in Lines, SkipLine(l) \/ BlankLine(l) PROVE ExactInv'
  <2>1. /\ Read(l) /\ pc = "parse" /\ pc' \in {"parse", "decode"}
        /\ ~IsKlass(l) /\ ~IsInitiating(l) /\ ~IsNotFound(l)
        /\ UNCHANGED <<all, allNotFound, notFoundSet, nameid>>
    BY <1>1 DEF SkipLine, BlankLine, IsSkipped, IsKlass, IsInitiating, IsNotFound, Read
  <2>2. MissedInv'
    BY <2>1, OtherMissed
  <2>. QED
    BY <2>1, <2>2, NoRecordLine
<1>2. ASSUME NEW l \in Lines, CompleteRecord(l) \/ AddNotFound(l) \/ AddRecord(l) \/ MissingId(l)
      PROVE  ExactInv'
  <2>1. pc = "parse"
    BY <1>2 DEF CompleteRecord, AddNotFound, AddRecord, MissingId, Read
  <2>. QED
    BY <1>2, <2>1, CompleteRecordExact, AddNotFoundExact, AddRecordExact, MissingIdExact
<1>. QED
  BY <1>1, <1>2, EndOfFileExact DEF Parse

LEMMA InitExact == Init => ExactInv
<1> SUFFICES ASSUME Init PROVE ExactInv
  OBVIOUS
<1>1. pc = "parse" /\ cursor = 1 /\ lines = << >> /\ all = << >> /\ allNotFound = << >>
      /\ notFoundSet = {} /\ nameid = << >> /\ idIds = << >> /\ eagerSet = {} /\ appSet = {}
      /\ out = << >> /\ fingerprints = << >>
  BY DEF Init
<1>2. KlassLines = {} /\ Cardinality(KlassLines) = 0
  <2>1. KlassLines = {}
    BY <1>1 DEF KlassLines
  <2>. QED
    BY <2>1, FS_EmptySet
<1>3. Processed = 0 /\ Prepared = 0 /\ Written = 0 /\ WrittenNotFound = 0 /\ Looked = 0
  BY <1>1 DEF Processed, Prepared, Written, WrittenNotFound, Looked
<1>4. PositionInv /\ RecordInv /\ KeyInv /\ CompletionInv
  BY <1>1, <1>2 DEF PositionInv, RecordInv, KeyInv, CompletionInv
<1>5. AddressInv /\ ValidInv /\ LoaderInv
  BY <1>1, <1>3 DEF AddressInv, ValidInv, LoaderInv
<1>6. MissedInv
  BY <1>1 DEF MissedInv
<1>7. OutInv /\ FileInv
  BY <1>1, <1>3 DEF OutInv, FileInv
<1>. QED
  BY <1>4, <1>5, <1>6, <1>7 DEF ExactInv

LEMMA StutterExact == ExactInv /\ UNCHANGED vars => ExactInv'
<1> SUFFICES ASSUME ExactInv, UNCHANGED vars PROVE ExactInv'
  OBVIOUS
<1>1. UNCHANGED <<pc, cursor, lines, all, allNotFound, notFoundSet, nameid, idIds, eagerSet, appSet,
                  signCache, out, fingerprints>>
  BY DEF vars, parseVars, decodeVars, fileVars
<1>2. Processed' = Processed /\ Prepared' = Prepared /\ Written' = Written
      /\ WrittenNotFound' = WrittenNotFound /\ Looked' = Looked
  BY <1>1 DEF Processed, Prepared, Written, WrittenNotFound, Looked
<1>3. PositionInv'
  BY <1>1, SameLines DEF ExactInv
<1>4. CASE pc # "failed"
  <2>1. MissedInv /\ OutInv /\ FileInv
    BY <1>4 DEF ExactInv
  <2>2. MissedInv' /\ OutInv' /\ FileInv'
    BY <1>1, <1>2, <2>1, MissedKept, OutKept, FileKept
  <2>. QED
    BY <1>1, <1>2, <1>4, <2>2, RecordsKept DEF ExactInv
<1>. QED
  BY <1>1, <1>3, <1>4 DEF ExactInv

LEMMA ExactStep == TypeOK /\ IndInv /\ ExactInv /\ [Next]_vars => ExactInv'
BY ParseAllExact, DecodeAllExact, PrepareNotFoundExact, EndExact, WriteClassExact,
   WriteNotFoundExact, AddFingerprintExact, StutterExact DEF Next

\* At every point of the pipeline each collection of the program holds exactly
\* what the lines read so far and the verdicts on the jars make it hold.
THEOREM Exact == Spec => []ExactInv
BY InitExact, ExactStep, TypeCorrect, Inductive, PTL DEF Spec

-----------------------------------------------------------------------------
(* What the pipeline promises. *)

LEMMA ExactFacts ==
    ASSUME TypeOK, ExactInv, pc \in {"writeNotFound", "fingerprint", "done"}
    PROVE  /\ PositionInv /\ RecordInv /\ CompletionInv /\ ValidInv /\ LoaderInv /\ MissedInv
           /\ OutInv /\ FileInv
           /\ Processed = Len(all) /\ Written = Len(all) /\ Prepared = Len(allNotFound)
           /\ Len(all) \in Nat /\ Len(all) = Cardinality(KlassLines)
           /\ DOMAIN Klasses = 1..Len(all)
           /\ DOMAIN out = 1..Len(out) /\ Len(out) \in Nat
<1>1. /\ PositionInv /\ RecordInv /\ CompletionInv /\ ValidInv /\ LoaderInv /\ MissedInv
      /\ OutInv /\ FileInv
  BY DEF ExactInv
<1>2. Processed = Len(all) /\ Written = Len(all) /\ Prepared = Len(allNotFound)
  BY DEF Processed, Written, Prepared
<1>3. Len(all) \in Nat /\ Len(all) = Cardinality(KlassLines) /\ DOMAIN Klasses = 1..Len(all)
  BY <1>1, AllFacts, PositionFacts DEF RecordInv
<1>4. DOMAIN out = 1..Len(out) /\ Len(out) \in Nat
  BY OutType
<1>. QED
  BY <1>1, <1>2, <1>3, <1>4

Valid == {i \in 1..Len(all) : ~all[i].invalid}

\* The records that are valid one by one are the largest set that holds the
\* parents of its members.
LEMMA KeptIsValid ==
    ASSUME TypeOK, ExactInv, pc \in {"writeNotFound", "fingerprint", "done"}
    PROVE  Kept = Valid
<1>0. DOMAIN Klasses = 1..Len(all) /\ Len(all) \in Nat
  BY ExactFacts
<1>1. \A i \in 1..Len(all) : all[i].invalid <=> i # 1 /\ (Rejected(i) \/ Orphan(i))
  BY ExactFacts DEF ValidInv
<1>2. ASSUME NEW i \in 1..Len(all), NEW x
      PROVE  ParentOf(i, x) = NoRecord \/ (ParentOf(i, x) \in 1..Len(all) /\ ParentOf(i, x) < i)
  <2>1. ParentOf(i, x) = NoRecord \/ ParentOf(i, x) \in 1..(i - 1)
    BY <1>0, ParentOfFacts
  <2>. QED
    BY <1>0, <2>1
<1>3. Valid \subseteq Kept
  <2>1. ASSUME NEW i \in Valid \ {1}
        PROVE  ~Rejected(i) /\ \A x \in Parents(Klasses[i]) : ParentOf(i, x) \in Valid
    <3>1. i \in 1..Len(all) /\ ~Rejected(i) /\ ~Orphan(i)
      BY <1>1 DEF Valid
    <3>2. ASSUME NEW x \in Parents(Klasses[i]) PROVE ParentOf(i, x) \in Valid
      <4>1. ParentOf(i, x) # NoRecord /\ ~all[ParentOf(i, x)].invalid
        BY <3>1 DEF Orphan
      <4>2. ParentOf(i, x) \in 1..Len(all)
        BY <1>2, <3>1, <4>1
      <4>. QED
        BY <4>1, <4>2 DEF Valid
    <3>. QED
      BY <3>1, <3>2
  <2>2. Valid \in SUBSET DOMAIN Klasses
    BY <1>0 DEF Valid
  <2>. QED
    BY <2>1, <2>2 DEF Kept
<1>4. ASSUME NEW V \in SUBSET DOMAIN Klasses,
             \A i \in V \ {1} : /\ ~Rejected(i)
                                /\ \A x \in Parents(Klasses[i]) : ParentOf(i, x) \in V
      PROVE  V \subseteq Valid
  <2> DEFINE Bad == {i \in V : all[i].invalid}
  <2>1. \A i \in V : i \in 1..Len(all)
    BY <1>0
  <2>2. SUFFICES ASSUME Bad # {} PROVE FALSE
    BY <2>1 DEF Valid
  <2>3. Bad \in SUBSET Nat
    BY <1>0, <2>1
  <2>4. PICK m \in Bad : \A k \in Bad : m <= k
    <3> HIDE DEF Bad
    <3>. QED
      BY <2>2, <2>3, NatMin
  <2>5. m \in V /\ m \in 1..Len(all) /\ all[m].invalid
    BY <2>1
  <2>6. m # 1 /\ ~Rejected(m) /\ Orphan(m)
    BY <1>1, <1>4, <2>5
  <2>7. PICK x \in Parents(Klasses[m]) : ParentOf(m, x) = NoRecord \/ all[ParentOf(m, x)].invalid
    BY <2>6 DEF Orphan
  <2>8. ParentOf(m, x) \in V
    BY <1>4, <2>5, <2>6
  <2>9. ParentOf(m, x) # NoRecord
    BY <1>0, <2>1, <2>8 DEF NoRecord
  <2>10. ParentOf(m, x) \in 1..Len(all) /\ ParentOf(m, x) < m /\ ParentOf(m, x) \in Bad
    BY <1>2, <2>5, <2>7, <2>8, <2>9
  <2>11. PICK p : p = ParentOf(m, x)
    OBVIOUS
  <2>12. p \in Nat /\ m \in Nat /\ p < m /\ m <= p
    BY <1>0, <2>4, <2>5, <2>10, <2>11
  <2>. QED
    BY <2>12
<1>. QED
  BY <1>3, <1>4, Zenon DEF Kept

\* A class is written if and only if neither it nor an ancestor of it is
\* missing or rejected, with its position as id and the classes its raw ids
\* meant as parents, for any list, reused addresses and verdicts.
THEOREM WrittenAreKept == Spec => []WrittenExact
<1>1. TypeOK /\ IndInv /\ ExactInv => WrittenExact
  <2> SUFFICES ASSUME TypeOK, IndInv, ExactInv, pc = "writeNotFound"
               PROVE  /\ {out[k].id : k \in {m \in DOMAIN out : out[m].found}} = Kept
                      /\ \A k \in DOMAIN out : out[k].found =>
                            /\ out[k].name = Klasses[out[k].id].name
                            /\ Parents(out[k]) = IF HasParents(all[out[k].id])
                                                 THEN KeptParents(out[k].id) ELSE {}
    BY DEF WrittenExact
  <2>0. /\ RecordInv /\ ValidInv /\ OutInv /\ Kept = Valid /\ DOMAIN out = 1..Len(out)
        /\ Processed = Len(all) /\ Written = Len(all)
        /\ \A i \in 1..Len(all) : all[i].id = i
    BY ExactFacts, KeptIsValid, LaterFacts DEF Writing
  <2>1. \A k \in 1..Len(out) : out[k].found =>
            out[k].id \in Valid /\ out[k] = ClassLine(all[out[k].id])
    BY <2>0 DEF OutInv, Valid
  <2>2. ASSUME NEW i \in Valid
        PROVE  \E k \in 1..Len(out) : out[k].found /\ out[k].id = i
    <3>1. i \in 1..Len(all) /\ ~all[i].invalid
      BY DEF Valid
    <3>2. PICK k \in 1..Len(out) : out[k] = ClassLine(all[i])
      BY <2>0, <3>1 DEF OutInv
    <3>. QED
      BY <2>0, <3>1, <3>2 DEF ClassLine
  <2>3. {out[k].id : k \in {m \in DOMAIN out : out[m].found}} = Valid
    BY <2>0, <2>1, <2>2
  <2>4. ASSUME NEW k \in DOMAIN out, out[k].found
        PROVE  /\ out[k].name = Klasses[out[k].id].name
               /\ Parents(out[k]) = IF HasParents(all[out[k].id])
                                    THEN KeptParents(out[k].id) ELSE {}
    <3>1. PICK i : i = out[k].id
      OBVIOUS
    <3>2. i \in 1..Len(all) /\ ~all[i].invalid /\ out[k] = ClassLine(all[i])
      BY <2>0, <2>1, <2>4, <3>1 DEF Valid
    <3>3. all[i].name = Klasses[i].name /\ Parents(all[i]) = KeptParents(i)
      BY <2>0, <3>2 DEF RecordInv, ValidInv
    <3>4. out[k].name = all[i].name
      BY <3>2 DEF ClassLine
    <3>5. Parents(ClassLine(all[i])) = IF HasParents(all[i]) THEN Parents(all[i]) ELSE {}
      BY DEF ClassLine, Parents
    <3>. QED
      BY <3>1, <3>2, <3>3, <3>4, <3>5
  <2>. QED
    BY <2>0, <2>3, <2>4
<1>. QED
  BY <1>1, TypeCorrect, Inductive, Exact, PTL

LEMMA FileComplete == TypeOK /\ ExactInv => FingerprintComplete
<1> SUFFICES ASSUME TypeOK, ExactInv, pc = "done", StaticDiff,
                    NEW i \in Kept, Klasses[i].origin = "file"
             PROVE  \E d \in DOMAIN fingerprints :
                        /\ fingerprints[d].id = i
                        /\ fingerprints[d].name = Klasses[i].name
                        /\ Parents(fingerprints[d]) = KeptParents(i)
  BY DEF FingerprintComplete
<1>0. /\ RecordInv /\ ValidInv /\ FileInv /\ Processed = Len(all) /\ Kept = Valid
  BY ExactFacts, KeptIsValid
<1>1. i \in 1..Len(all) /\ ~all[i].invalid
  BY <1>0 DEF Valid
<1>2. /\ all[i].origin = "file" /\ all[i].name = Klasses[i].name
      /\ Parents(all[i]) = KeptParents(i)
  BY <1>0, <1>1 DEF RecordInv, ValidInv
<1>3. Looked = Len(all)
  BY DEF Looked
<1>4. PICK d \in 1..Len(fingerprints) : fingerprints[d].id = i
  BY <1>0, <1>1, <1>2, <1>3 DEF FileInv
<1>5. fingerprints[d] = ClassDesc(all[i]) /\ d \in DOMAIN fingerprints
  BY <1>0, <1>4 DEF FileInv, TypeOK
<1>6. Parents(ClassDesc(all[i])) = Parents(all[i])
  BY DEF ClassDesc, Parents
<1>. QED
  BY <1>2, <1>4, <1>5, <1>6 DEF ClassDesc

\* A description in the fingerprint file is that of a class from a file.
LEMMA DescribedClasses ==
    ASSUME TypeOK, ExactInv, pc = "done", NEW d \in 1..Len(fingerprints)
    PROVE  LET i == fingerprints[d].id
           IN  /\ i \in DOMAIN Klasses /\ Klasses[i] \in Lines /\ Klasses[i].origin = "file"
               /\ fingerprints[d].name = Klasses[i].name
<1>1. /\ RecordInv /\ FileInv /\ DOMAIN Klasses = 1..Len(all)
      /\ \A i \in 1..Len(all) : Klasses[i] \in Lines
  BY ExactFacts, PositionFacts
<1>2. /\ fingerprints[d].id \in 1..Len(all) /\ all[fingerprints[d].id].origin = "file"
      /\ fingerprints[d] = ClassDesc(all[fingerprints[d].id])
  BY <1>1 DEF FileInv
<1>3. fingerprints[d].name = all[fingerprints[d].id].name
  BY <1>2 DEF ClassDesc
<1>. QED
  BY <1>1, <1>2, <1>3 DEF RecordInv

\* The not-found classes of the final list are among the records of such.
LEMMA MissedRecords ==
    ASSUME TypeOK, ExactInv, pc = "done", NEW k \in DOMAIN out, ~out[k].found
    PROVE  \E m \in DOMAIN allNotFound : out[k].name = allNotFound[m].name
<1>1. OutInv /\ k \in 1..Len(out) /\ DOMAIN allNotFound = 1..Len(allNotFound)
  BY ExactFacts, NotFoundFacts
<1>2. PICK m \in 1..Len(allNotFound) : out[k] = NotFoundLine(allNotFound[m])
  BY <1>1 DEF OutInv
<1>. QED
  BY <1>1, <1>2 DEF NotFoundLine

\* With static diff on, the last step writes the names of those records.
LEMMA DoneNames ==
    ASSUME Next, StaticDiff, pc # "done", pc' = "done"
    PROVE  /\ notFoundNames' = [k \in DOMAIN allNotFound |-> allNotFound[k].name]
           /\ allNotFound' = allNotFound
<1>1. ~Parse
  BY DEF Parse, SkipLine, CompleteRecord, AddNotFound, AddRecord, MissingId, BlankLine, Read, EndOfFile
<1>2. ~Decode
  BY DEF Decode, NoObject, DecodeObject, EndDecode, JudgeRecord, OrphanRecord, DecodeThrows,
         NumberRecord
<1>. QED
  BY <1>1, <1>2 DEF Next, PrepareNotFound, EndNotFound, WriteClass, EndWrite, WriteNotFound,
     EndWriteNotFound, AddFingerprint, EndFingerprint, parseVars

\* The pipeline has come to its end.
LEMMA DoneStops == ASSUME pc = "done" PROVE ~Next
BY DEF Next, Parse, SkipLine, CompleteRecord, AddNotFound, AddRecord, MissingId, BlankLine, Read,
       EndOfFile, Decode, NoObject, DecodeObject, EndDecode, JudgeRecord, OrphanRecord,
       DecodeThrows, NumberRecord, PrepareNotFound, EndNotFound, WriteClass, EndWrite,
       WriteNotFound, EndWriteNotFound, AddFingerprint, EndFingerprint

\* Every written class that came from a file is in the fingerprint file, with
\* its id in the final list and all of its parents.
THEOREM FingerprintsComplete == Spec => []FingerprintComplete
BY FileComplete, TypeCorrect, Exact, PTL

\* A class is written with the initiating loader of the first line that
\* completes its record, or with its defining loader.
THEOREM InitiatingFirst == Spec => []InitiatingExact
<1>1. TypeOK /\ ExactInv => InitiatingExact
  <2> SUFFICES ASSUME TypeOK, ExactInv, pc = "done", NEW k \in DOMAIN out, out[k].found
               PROVE  out[k].initiating = InitiatingOf(out[k].id)
    BY DEF InitiatingExact
  <2>0. RecordInv /\ CompletionInv /\ OutInv /\ DOMAIN out = 1..Len(out)
        /\ lines \in Seq(Lines) /\ DOMAIN lines = 1..Len(lines) /\ Len(lines) \in Nat
    BY ExactFacts, KlassLineFacts
  <2>1. PICK i : i = out[k].id
    OBVIOUS
  <2>2. i \in 1..Len(all) /\ out[k] = ClassLine(all[i])
    BY <2>0, <2>1 DEF OutInv
  <2>3. out[k].initiating = IF all[i].initiating # NONE THEN all[i].initiating
                            ELSE Klasses[i].defining
    BY <2>0, <2>2 DEF ClassLine, RecordInv
  <2>4. CASE Completions(i) = {} /\ all[i].initiating = NONE
    BY <2>1, <2>3, <2>4 DEF InitiatingOf
  <2>5. ASSUME NEW q \in Completions(i), \A m \in Completions(i) : q <= m,
               all[i].initiating = lines[q].initiating
        PROVE  out[k].initiating = InitiatingOf(i)
    <3>1. \A m \in Completions(i) : m \in 1..Len(lines)
      BY <2>0 DEF Completions
    <3>2. FirstCompletion(i) = q
      <4>1. \A m \in Completions(i) : (\A j \in Completions(i) : m <= j) => m = q
        <5> SUFFICES ASSUME NEW m \in Completions(i), \A j \in Completions(i) : m <= j
                     PROVE  m = q
          OBVIOUS
        <5>1. m \in Nat /\ q \in Nat /\ m <= q /\ q <= m
          BY <2>0, <2>5, <3>1
        <5>. QED
          BY <5>1
      <4>2. \E m \in Completions(i) : \A j \in Completions(i) : m <= j
        BY <2>5
      <4>3. FirstCompletion(i) = CHOOSE m \in Completions(i) : \A j \in Completions(i) : m <= j
        BY DEF FirstCompletion
      <4>. QED
        BY <4>1, <4>2, <4>3
    <3>3. lines[q].initiating # NONE
      BY DEF Completions, IsInitiating
    <3>. QED
      BY <2>3, <2>5, <3>2, <3>3 DEF InitiatingOf
  <2>. QED
    BY <2>0, <2>1, <2>2, <2>4, <2>5 DEF CompletionInv
<1>. QED
  BY <1>1, TypeCorrect, Exact, PTL

\* The not-found classes of the final list are those that were reported, once
\* per initiating loader, less the ones the application loader did load.
THEOREM NotFoundAreMissed == Spec => []NotFoundExact
<1>1. TypeOK /\ IndInv /\ ExactInv => NotFoundExact
  <2> DEFINE missed == {m \in DOMAIN out : ~out[m].found}
             asked == {p \in DOMAIN lines : IsNotFound(lines[p]) /\ ~LoadedByApp(lines[p].name)}
  <2> SUFFICES ASSUME TypeOK, IndInv, ExactInv, pc = "done"
               PROVE  /\ {<<out[m].name, out[m].initiating>> : m \in missed}
                            = {<<lines[p].name, lines[p].initiating>> : p \in asked}
                      /\ \A m, n \in missed : <<out[m].name, out[m].initiating>>
                                              = <<out[n].name, out[n].initiating>> => m = n
    BY DEF NotFoundExact
  <2>0. /\ PositionInv /\ LoaderInv /\ MissedInv /\ OutInv
        /\ Processed = Len(all) /\ Prepared = Len(allNotFound) /\ WrittenNotFound = Len(allNotFound)
        /\ Len(all) = Cardinality(KlassLines) /\ DOMAIN Klasses = 1..Len(all) /\ Len(all) \in Nat
        /\ DOMAIN out = 1..Len(out) /\ Len(out) \in Nat
        /\ DOMAIN allNotFound = 1..Len(allNotFound) /\ Len(allNotFound) \in Nat
    BY ExactFacts, NotFoundFacts DEF WrittenNotFound
  <2>1. Len(Klasses) = Len(all)
    <3>1. \A i \in 1..Len(all) : Klasses[i] \in Lines
      BY <2>0, PositionFacts
    <3>2. Klasses = [i \in 1..Len(all) |-> Klasses[i]]
      BY <2>0 DEF Klasses
    <3>. QED
      BY <2>0, <3>2
  <2>2. \A name : LoadedByApp(name) <=> name \in appSet
    <3>1. appSet = {Klasses[i].name : i \in {k \in 2..Len(all) :
                                                FirstOfName(k) /\ Klasses[k].defining = NONE}}
      BY <2>0 DEF LoaderInv
    <3>2. ASSUME NEW name
          PROVE  LoadedByApp(name) <=> \E i \in 2..Len(all) :
                    Klasses[i].name = name /\ FirstOfName(i) /\ Klasses[i].defining = NONE
      BY <2>1 DEF LoadedByApp, FirstOfName
    <3>. QED
      BY <3>1, <3>2
  <2>3. ASSUME NEW m \in missed
        PROVE  \E j \in 1..Len(allNotFound) :
                   /\ ~allNotFound[j].invalid /\ out[m] = NotFoundLine(allNotFound[j])
                   /\ Pair(out[m]) = Pair(allNotFound[j])
    <3>1. PICK j \in 1..Len(allNotFound) :
             ~allNotFound[j].invalid /\ out[m] = NotFoundLine(allNotFound[j])
      BY <2>0 DEF OutInv
    <3>2. \A r : Pair(NotFoundLine(r)) = Pair(r)
      BY DEF NotFoundLine, Pair
    <3>. QED
      BY <3>1, <3>2
  <2>4. \A j \in 1..Len(allNotFound) : allNotFound[j].invalid <=> allNotFound[j].name \in appSet
    <3>1. \A j \in 1..Len(allNotFound) : j <= Len(allNotFound)
      BY <2>0
    <3>. QED
      BY <2>0, <3>1 DEF MissedInv
  <2>5. {Pair(out[m]) : m \in missed} = {Pair(lines[p]) : p \in asked}
    <3>1. ASSUME NEW m \in missed PROVE \E p \in asked : Pair(lines[p]) = Pair(out[m])
      <4>1. PICK j \in 1..Len(allNotFound) :
               ~allNotFound[j].invalid /\ Pair(out[m]) = Pair(allNotFound[j])
        BY <2>3
      <4>2. Pair(allNotFound[j]) \in notFoundSet
        BY <2>0 DEF MissedInv
      <4>3. PICK p \in DOMAIN lines : IsNotFound(lines[p]) /\ Pair(lines[p]) = Pair(allNotFound[j])
        BY <2>0, <4>2 DEF MissedInv
      <4>4. lines[p].name = allNotFound[j].name
        BY <4>3 DEF Pair
      <4>. QED
        BY <2>2, <2>4, <4>1, <4>3, <4>4
    <3>2. ASSUME NEW p \in asked PROVE \E m \in missed : Pair(lines[p]) = Pair(out[m])
      <4>1. Pair(lines[p]) \in notFoundSet
        BY <2>0 DEF MissedInv
      <4>2. PICK j \in 1..Len(allNotFound) : Pair(allNotFound[j]) = Pair(lines[p])
        BY <2>0, <4>1 DEF MissedInv
      <4>3. ~allNotFound[j].invalid
        <5>1. allNotFound[j].name = lines[p].name
          BY <4>2 DEF Pair
        <5>. QED
          BY <2>2, <2>4, <5>1
      <4>4. PICK m \in 1..Len(out) : out[m] = NotFoundLine(allNotFound[j])
        BY <2>0, <4>3 DEF OutInv
      <4>5. ~out[m].found /\ Pair(out[m]) = Pair(allNotFound[j])
        BY <4>4 DEF NotFoundLine, Pair
      <4>. QED
        BY <2>0, <4>2, <4>5
    <3> HIDE DEF missed, asked
    <3>. QED
      BY <3>1, <3>2
  <2>6. ASSUME NEW m \in missed, NEW n \in missed, Pair(out[m]) = Pair(out[n])
        PROVE  m = n
    <3>1. PICK i \in 1..Len(allNotFound) :
             out[m] = NotFoundLine(allNotFound[i]) /\ Pair(out[m]) = Pair(allNotFound[i])
      BY <2>3
    <3>2. PICK j \in 1..Len(allNotFound) :
             out[n] = NotFoundLine(allNotFound[j]) /\ Pair(out[n]) = Pair(allNotFound[j])
      BY <2>3
    <3>3. i = j
      BY <2>0, <2>6, <3>1, <3>2 DEF MissedInv
    <3>4. out[m].id = out[n].id
      BY <3>1, <3>2, <3>3
    <3>5. WrittenIdsIncrease /\ m \in 1..Len(out) /\ n \in 1..Len(out)
      BY <2>0 DEF IndInv
    <3>6. out[m].id \in Nat /\ m \in Nat /\ n \in Nat
      BY <2>0, <3>5 DEF WrittenIdsIncrease
    <3>7. ~(m < n)
      <4>1. m < n => out[m].id < out[n].id
        BY <3>5, <3>6 DEF WrittenIdsIncrease
      <4>. QED
        BY <3>4, <3>6, <4>1
    <3>8. ~(n < m)
      <4>1. n < m => out[n].id < out[m].id
        BY <3>5, <3>6 DEF WrittenIdsIncrease
      <4>. QED
        BY <3>4, <3>6, <4>1
    <3>. QED
      BY <3>6, <3>7, <3>8
  <2> HIDE DEF missed, asked
  <2>. QED
    BY <2>5, <2>6 DEF Pair
<1>. QED
  BY <1>1, TypeCorrect, Inductive, Exact, PTL

=============================================================================
