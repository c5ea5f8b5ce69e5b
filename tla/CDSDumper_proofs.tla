-------------------------- MODULE CDSDumper_proofs --------------------------
(***************************************************************************)
(* Theorems about CDSDumper for any main jars, directories, requests and   *)
(* arguments, any number of dumps and redeployments, and any width of a    *)
(* long.                                                                   *)
(***************************************************************************)
EXTENDS CDSDumper, TLAPS, FiniteSetTheorems, WellFoundedInduction

(* Types *)

LEMMA RequestType ==
    ASSUME ExtractTypeOK, cursor <= Len(requests)
    PROVE  /\ cursor \in DOMAIN requests
           /\ requests[cursor] \in Request
           /\ request.file \in Files /\ request.main \in Mains /\ request.dir \in Dirs
<1>1. cursor \in DOMAIN requests /\ requests[cursor] \in Request
  BY DEF ExtractTypeOK
<1>. QED
  BY <1>1 DEF request, Request

LEMMA CopiedType ==
    ASSUME ExtractTypeOK, cursor <= Len(requests), NEW whole \in BOOLEAN
    PROVE  Copied(whole) \in Content
BY RequestType DEF ExtractTypeOK, Copied, Content

LEMMA ChainType ==
    ASSUME NEW f \in Files, NEW k \in DOMAIN Chain[f]
    PROVE  Chain[f][k] \in Dirs
BY ExtractionAssumption

LEMMA ChainPrefix ==
    ASSUME NEW f \in Files, NEW k \in 0..Len(Chain[f])
    PROVE  {Chain[f][j] : j \in 1..k} \subseteq {Chain[f][j] : j \in DOMAIN Chain[f]}
BY ExtractionAssumption

\* An extraction changes no request, and no generation of a jar.
LEMMA ExtractFrame ==
    ASSUME Extract
    PROVE  UNCHANGED <<generation, requests, before>>
BY DEF Extract, CacheHit, Open, OpenFails, MakeDirs, Create, WriteFails, Copy,
       GiveUp, diskVars, memoryVars

LEMMA GiveUpType ==
    ASSUME ExtractTypeOK, cursor <= Len(requests), GiveUp, UNCHANGED <<diskVars, tempFiles>>
    PROVE  ExtractTypeOK' /\ pc' \in {"decode", "failed"}
BY DEF ExtractTypeOK, GiveUp, diskVars

LEMMA ExtractType ==
    ASSUME ExtractTypeOK, Extract
    PROVE  ExtractTypeOK' /\ pc' \in {"decode", "mkdir", "create", "copy", "failed"}
<1> USE DEF Decoding
<1>1. CASE CacheHit
  <2>1. request.file \in Files /\ cursor \in DOMAIN requests
    BY <1>1, RequestType DEF CacheHit
  <2>. QED
    BY <1>1, <2>1 DEF CacheHit, ExtractTypeOK, diskVars
<1>2. CASE Open
  BY <1>2 DEF Open, ExtractTypeOK, diskVars, memoryVars
<1>3. CASE OpenFails \/ WriteFails
  BY <1>3, GiveUpType DEF OpenFails, WriteFails
<1>4. CASE MakeDirs
  <2>1. request.file \in Files
    BY <1>4, RequestType DEF MakeDirs
  <2>2. dirs \subseteq dirs' /\ dirs' \subseteq Dirs
    <3>1. PICK k \in 0..Len(Chain[request.file]) :
              dirs' = dirs \cup {Chain[request.file][j] : j \in 1..k}
      BY <1>4 DEF MakeDirs
    <3>2. {Chain[request.file][j] : j \in 1..k} \subseteq Dirs
      BY <2>1, ChainType, ChainPrefix
    <3>. QED
      BY <3>1, <3>2 DEF ExtractTypeOK
  <2>3. tempFiles' \subseteq Dirs
    BY <1>4, <2>1, ChainType DEF MakeDirs, Missing, ExtractTypeOK
  <2>. QED
    BY <1>4, <2>2, <2>3 DEF MakeDirs, ExtractTypeOK
<1>5. CASE Create
  <2>1. request.file \in Files /\ Copied(FALSE) \in Content
    BY <1>5, RequestType, CopiedType DEF Create
  <2>. QED
    BY <1>5, <2>1 DEF Create, ExtractTypeOK, memoryVars
<1>6. CASE Copy
  <2>1. request.file \in Files /\ request.dir \in Dirs /\ cursor \in DOMAIN requests
        /\ Copied(TRUE) \in Content
    BY <1>6, RequestType, CopiedType DEF Copy
  <2>2. files' \in [Files -> Content \cup {NONE}]
    BY <1>6, <2>1 DEF Copy, ExtractTypeOK
  <2>3. sources' \in [DOMAIN requests -> Files \cup Dirs \cup {NONE}]
        /\ fatJarCache' \subseteq Files
    BY <1>6, <2>1 DEF Copy, ExtractTypeOK
  <2>4. cursor' \in 1..(Len(requests) + 1)
    BY <1>6, <2>1 DEF Copy, ExtractTypeOK
  <2>. QED
    BY <1>6, <2>2, <2>3, <2>4 DEF Copy, ExtractTypeOK
<1>. QED
  BY <1>1, <1>2, <1>3, <1>4, <1>5, <1>6 DEF Extract

\* What a process that ended leaves in memory.
LEMMA EmptyFacts ==
    /\ << >> \in Seq(Request) /\ << >> \in Seq(Argument)
    /\ Len(<< >>) = 0 /\ DOMAIN << >> = {}
    /\ \A S : << >> \in [DOMAIN << >> -> S]
OBVIOUS

LEMMA ExitType ==
    ASSUME TypeOK, NEW how \in {"ok", "failed", "killed"}, Exit(how)
    PROVE  TypeOK'
<1>1. ExtractTypeOK'
  <2>1. requests' \in Seq(Request) /\ cursor' \in 1..(Len(requests') + 1)
    BY EmptyFacts DEF Exit
  <2>2. sources' \in [DOMAIN requests' -> Files \cup Dirs \cup {NONE}]
    BY EmptyFacts DEF Exit
  <2>. QED
    BY <2>1, <2>2 DEF TypeOK, ExtractTypeOK, Exit, diskVars
<1>2. arguments' \in Seq(Argument) /\ position' \in 0..Len(arguments')
  BY EmptyFacts DEF Exit
<1>. QED
  BY <1>1, <1>2 DEF TypeOK, Exit

LEMMA StartType == TypeOK /\ Start => TypeOK'
<1> SUFFICES ASSUME TypeOK, Start PROVE TypeOK'
  OBVIOUS
<1>1. PICK i \in Inputs :
          /\ requests' = i.requests /\ arguments' = i.arguments
          /\ sources' = [k \in DOMAIN i.requests |-> NONE]
          /\ position' = Len(i.arguments)
  BY DEF Start
<1>2. i.requests \in Seq(Request) /\ i.arguments \in Seq(Argument)
  BY DumperAssumption
<1>3. runs' \in 0..MaxRuns
  BY DumperAssumption DEF TypeOK, Start
<1>4. ExtractTypeOK'
  <2>1. sources' \in [DOMAIN requests' -> Files \cup Dirs \cup {NONE}]
    BY <1>1
  <2>2. cursor' \in 1..(Len(requests') + 1)
    BY <1>1, <1>2 DEF Start
  <2>. QED
    BY <1>1, <1>2, <2>1, <2>2 DEF TypeOK, ExtractTypeOK, Start, diskVars
<1>5. position' \in 0..Len(arguments')
  BY <1>1, <1>2
<1>. QED
  BY <1>1, <1>2, <1>3, <1>4, <1>5 DEF TypeOK, Start

\* The steps between extracting and exiting.
LEMMA LaterType ==
    TypeOK /\ (EndPipeline \/ Scan \/ EndScan \/ DumpSucceeds) => TypeOK'
<1> SUFFICES ASSUME TypeOK, EndPipeline \/ Scan \/ EndScan \/ DumpSucceeds PROVE TypeOK'
  OBVIOUS
<1>1. ExtractTypeOK'
  BY DEF EndPipeline, Scan, EndScan, DumpSucceeds, TypeOK, ExtractTypeOK,
         extractVars, diskVars, memoryVars
<1>2. CASE Scan
  <2>1. noOops' \in BOOLEAN
    BY <1>2 DEF Scan, Large
  <2>2. position' \in 0..Len(arguments)
    BY <1>2 DEF Scan, TypeOK
  <2>. QED
    BY <1>1, <1>2, <2>1, <2>2 DEF Scan, TypeOK, extractVars, runVars
<1>3. CASE EndPipeline \/ EndScan \/ DumpSucceeds
  BY <1>1, <1>3 DEF EndPipeline, EndScan, DumpSucceeds, TypeOK, dumpVars, runVars
<1>. QED
  BY <1>2, <1>3

LEMMA TypeStep == TypeOK /\ [Next]_vars => TypeOK'
<1> SUFFICES ASSUME TypeOK, [Next]_vars PROVE TypeOK'
  OBVIOUS
<1>1. CASE ExtractStep
  BY <1>1, ExtractType DEF ExtractStep, TypeOK, dumpVars, runVars
<1>2. CASE PipelineFails \/ Kill \/ ScanFails \/ DumpFails \/ Close
  BY <1>2, ExitType DEF PipelineFails, Kill, ScanFails, DumpFails, Close
<1>3. ASSUME NEW m \in Mains, Redeploy(m) PROVE TypeOK'
  <2>1. generation' \in [Mains -> 0..MaxGeneration]
    BY <1>3, ExtractionAssumption DEF Redeploy, TypeOK, ExtractTypeOK
  <2>. QED
    BY <1>3, <2>1 DEF Redeploy, TypeOK, ExtractTypeOK, memoryVars, dumpVars, runVars
<1>4. CASE UNCHANGED vars
  BY <1>4 DEF vars, TypeOK, ExtractTypeOK, extractVars, diskVars, memoryVars, dumpVars, runVars
<1>. QED
  BY <1>1, <1>2, <1>3, <1>4, StartType, LaterType DEF Next

\* The types of all variables are invariant: nothing a process leaves on disk
\* or in memory when it ends is malformed for the next one.
THEOREM TypeCorrect == Spec => []TypeOK
<1>1. Init => TypeOK
  <2> SUFFICES ASSUME Init PROVE TypeOK
    OBVIOUS
  <2>1. ExtractTypeOK
    <3>1. requests \in Seq(Request) /\ cursor \in 1..(Len(requests) + 1)
      BY EmptyFacts DEF Init, ExtractInit
    <3>2. sources \in [DOMAIN requests -> Files \cup Dirs \cup {NONE}]
      BY EmptyFacts DEF Init, ExtractInit
    <3>. QED
      BY <3>1, <3>2, ExtractionAssumption DEF Init, ExtractInit, ExtractTypeOK
  <2>2. arguments \in Seq(Argument) /\ position \in 0..Len(arguments)
    BY EmptyFacts DEF Init
  <2>3. runs \in 0..MaxRuns
    BY DumperAssumption DEF Init
  <2>. QED
    BY <2>1, <2>2, <2>3 DEF Init, ExtractInit, TypeOK
<1>. QED
  BY <1>1, TypeStep, PTL DEF Spec

-----------------------------------------------------------------------------
(* The inductive invariant *)

\* What a process holds when it has ended.
LEMMA ExitInv ==
    ASSUME TypeOK, NEW how, Exit(how)
    PROVE  IndInv'
<1>1. /\ pc' = "idle" /\ requests' = << >> /\ sources' = << >> /\ arguments' = << >>
      /\ fatJarCache' = {} /\ position' = 0 /\ noOops' = FALSE
  BY DEF Exit
<1>2. DOMAIN requests' = {} /\ DOMAIN arguments' = {} /\ Len(arguments') = 0
  BY <1>1, EmptyFacts
<1>3. \A f \in Files : Done(f)' = {}
  BY <1>2 DEF Done
<1>. QED
  BY <1>1, <1>2, <1>3 DEF IndInv, RequestInv, ExtractInv, TempExact, ScanInv

\* Who has which file does not depend on anything but the requests and what
\* became of them.
LEMMA SameDone ==
    ASSUME requests' = requests, sources' = sources, NEW f
    PROVE  Done(f)' = Done(f)
BY DEF Done

LEMMA SameWriter ==
    ASSUME UNCHANGED <<requests, sources, generation>>, NEW f, NEW j, files'[f] = files[f]
    PROVE  WrittenBy(f, j)' = WrittenBy(f, j)
BY SameDone DEF WrittenBy

\* As long as no request is answered and no file written, only the place
\* matters.
LEMMA ExtractSame ==
    ASSUME ExtractInv, UNCHANGED <<generation, files, requests, sources, fatJarCache>>,
           pc' \in {"mkdir", "create", "copy"} => cursor' <= Len(requests) /\ ~Cached',
           \A i \in DOMAIN requests : i >= cursor' => sources[i] = NONE,
           pc' # "failed" => pc # "failed",
           \A f \in Files : Done(f) # {} /\ pc' # "failed" /\ BeingWritten(f) => BeingWritten(f)'
    PROVE  ExtractInv'
<1>1. \A f : Done(f)' = Done(f)
  BY SameDone
<1>2. \A f, j : WrittenBy(f, j)' = WrittenBy(f, j)
  BY SameWriter
<1>3. fatJarCache' = {f \in Files : \E j \in Done(f)' : requests'[j].form = "fatJar"}
  BY <1>1 DEF ExtractInv
<1>4. pc' # "failed" => \A f \in Files : Done(f)' # {} /\ ~BeingWritten(f)' =>
          \E j \in Done(f)' : WrittenBy(f, j)'
  BY <1>1, <1>2 DEF ExtractInv
<1>. QED
  BY <1>3, <1>4 DEF ExtractInv

\* A nested jar that is not in the cache has been extracted for no request.
LEMMA UncachedJar ==
    ASSUME TypeOK, RequestInv, ExtractInv, cursor <= Len(requests), ~Cached,
           request.form = "fatJar"
    PROVE  Done(request.file) = {}
<1>1. cursor \in DOMAIN requests /\ request.file \in Files
  BY RequestType DEF TypeOK
<1>2. \A j \in Done(request.file) : requests[j].form = "fatJar"
  BY <1>1 DEF Done, request, RequestInv
<1>3. request.file \notin fatJarCache
  BY DEF Cached
<1>. QED
  BY <1>1, <1>2, <1>3 DEF ExtractInv

LEMMA CursorFacts ==
    ASSUME TypeOK, ExtractInv, cursor <= Len(requests)
    PROVE  /\ Len(requests) \in Nat /\ DOMAIN requests = 1..Len(requests)
           /\ DOMAIN sources = DOMAIN requests /\ DOMAIN files = Files
           /\ cursor \in Nat /\ cursor \in DOMAIN requests /\ sources[cursor] = NONE
           /\ request.file \in Files /\ request.file # NONE
           /\ request.dir \in Dirs /\ request.dir # NONE
<1>1. cursor \in DOMAIN requests /\ request.file \in Files /\ request.dir \in Dirs
  BY RequestType DEF TypeOK
<1>2. Len(requests) \in Nat /\ DOMAIN requests = 1..Len(requests)
  BY DEF TypeOK, ExtractTypeOK
<1>3. DOMAIN sources = DOMAIN requests /\ DOMAIN files = Files
  BY DEF TypeOK, ExtractTypeOK
<1>4. cursor \in Nat /\ sources[cursor] = NONE
  BY <1>1, <1>2 DEF ExtractInv
<1>. QED
  BY <1>1, <1>2, <1>3, <1>4, ExtractionAssumption

\* A request that is given up has no file, and no file of another request was
\* touched.
LEMMA GiveUpInv ==
    ASSUME TypeOK, RequestInv, ExtractInv, pc \in {"decode", "create", "copy"},
           cursor <= Len(requests), ~Cached, GiveUp, UNCHANGED <<diskVars, tempFiles>>
    PROVE  ExtractInv'
<1>1. cursor \in Nat /\ cursor \in DOMAIN requests /\ sources[cursor] = NONE
      /\ DOMAIN requests = 1..Len(requests) /\ Len(requests) \in Nat
  BY CursorFacts
<1>2. UNCHANGED <<generation, files, requests, sources, fatJarCache>>
  BY DEF GiveUp, diskVars
<1>3. CASE request.form = "fatJar"
  <2>1. pc' = "decode" /\ cursor' = cursor + 1
    BY <1>3 DEF GiveUp
  <2>2. Done(request.file) = {}
    BY <1>3, UncachedJar
  <2>3. \A f \in Files : Done(f) # {} => ~BeingWritten(f)
    BY <2>2 DEF BeingWritten, request
  <2>4. \A i \in DOMAIN requests : i >= cursor' => sources[i] = NONE
    BY <1>1, <2>1 DEF ExtractInv
  <2>. QED
    BY <1>2, <2>1, <2>3, <2>4, ExtractSame
<1>4. CASE request.form # "fatJar"
  BY <1>2, <1>4, ExtractSame DEF GiveUp, ExtractInv
<1>. QED
  BY <1>3, <1>4

\* The file of the request at the cursor is complete, or found in the cache:
\* every other file is as it was.
LEMMA AnswerInv ==
    ASSUME TypeOK, RequestInv, ExtractInv, cursor <= Len(requests),
           pc \in {"decode", "copy"}, pc' = "decode", cursor' = cursor + 1,
           UNCHANGED <<generation, requests>>,
           NEW source, source # NONE, sources' = [sources EXCEPT ![cursor] = source],
           fatJarCache' = IF request.form = "fatJar" THEN fatJarCache \cup {request.file}
                          ELSE fatJarCache,
           NEW r, r = request.file,
           \A f \in Files \ {r} : files'[f] = files[f],
           \E j \in Done(r)' : WrittenBy(r, j)'
    PROVE  ExtractInv'
<1>1. /\ cursor \in Nat /\ cursor \in DOMAIN requests /\ sources[cursor] = NONE /\ r \in Files
      /\ DOMAIN requests = 1..Len(requests) /\ Len(requests) \in Nat
      /\ DOMAIN sources = DOMAIN requests
  BY CursorFacts
<1>2. \A f : Done(f)' = IF f = r THEN Done(f) \cup {cursor} ELSE Done(f)
  BY <1>1 DEF Done, request
<1>3. \A i \in DOMAIN requests : i >= cursor' => sources'[i] = NONE
  BY <1>1 DEF ExtractInv
<1>4. fatJarCache' = {f \in Files : \E j \in Done(f)' : requests'[j].form = "fatJar"}
  <2>1. fatJarCache = {f \in Files : \E j \in Done(f) : requests[j].form = "fatJar"}
    BY DEF ExtractInv
  <2>2. requests[cursor].form = request.form
    BY DEF request
  <2>. QED
    BY <1>1, <1>2, <2>1, <2>2
<1>5. ASSUME NEW f \in Files, Done(f)' # {}
      PROVE  \E j \in Done(f)' : WrittenBy(f, j)'
  <2>1. CASE f = r
    BY <2>1
  <2>2. CASE f # r
    <3>1. Done(f)' = Done(f) /\ ~BeingWritten(f) /\ files'[f] = files[f]
      BY <1>2, <2>2 DEF BeingWritten, request
    <3>2. PICK j \in Done(f) : WrittenBy(f, j)
      BY <1>5, <3>1 DEF ExtractInv
    <3>3. WrittenBy(f, j)'
      BY <3>1, <3>2 DEF WrittenBy
    <3>. QED
      BY <3>1, <3>2, <3>3
  <2>. QED
    BY <2>1, <2>2
<1>. QED
  BY <1>3, <1>4, <1>5 DEF ExtractInv

LEMMA CacheHitInv == TypeOK /\ RequestInv /\ ExtractInv /\ CacheHit => ExtractInv'
<1> SUFFICES ASSUME TypeOK, RequestInv, ExtractInv, CacheHit PROVE ExtractInv'
  OBVIOUS
<1> PICK r : r = request.file
  OBVIOUS
<1>1. /\ cursor \in Nat /\ cursor \in DOMAIN requests /\ cursor <= Len(requests)
      /\ sources[cursor] = NONE /\ r \in Files /\ r # NONE
      /\ DOMAIN sources = DOMAIN requests /\ DOMAIN requests = 1..Len(requests)
      /\ Len(requests) \in Nat
  BY CursorFacts DEF CacheHit, Decoding
<1>2. request.form = "fatJar" /\ r \in fatJarCache /\ pc = "decode" /\ pc' = "decode"
      /\ UNCHANGED <<generation, files, requests, fatJarCache>>
      /\ cursor' = cursor + 1 /\ sources' = [sources EXCEPT ![cursor] = r]
  BY DEF CacheHit, Cached, Decoding, diskVars
<1>3. Done(r)' = Done(r) \cup {cursor}
  BY <1>1, <1>2 DEF Done, request
<1>4. PICK j \in Done(r) : WrittenBy(r, j)
  BY <1>1, <1>2 DEF ExtractInv, BeingWritten
<1>5. requests[j].form = "fatJar" /\ j \in DOMAIN requests /\ j < cursor
  BY <1>1, <1>2, <1>4 DEF Done, RequestInv, request, ExtractInv
<1>6. WrittenBy(r, j)'
  BY <1>1, <1>2, <1>3, <1>4, <1>5 DEF WrittenBy
<1>. QED
  BY <1>1, <1>2, <1>3, <1>4, <1>6, AnswerInv

LEMMA CopyInv == TypeOK /\ RequestInv /\ ExtractInv /\ Copy => ExtractInv'
<1> SUFFICES ASSUME TypeOK, RequestInv, ExtractInv, Copy PROVE ExtractInv'
  OBVIOUS
<1> PICK r : r = request.file
  OBVIOUS
<1>1. /\ cursor \in Nat /\ cursor \in DOMAIN requests /\ cursor <= Len(requests)
      /\ sources[cursor] = NONE /\ r \in Files /\ r # NONE
      /\ request.dir \in Dirs /\ request.dir # NONE
      /\ DOMAIN sources = DOMAIN requests /\ DOMAIN requests = 1..Len(requests)
      /\ DOMAIN files = Files /\ Len(requests) \in Nat
  BY CursorFacts DEF Copy, Decoding
<1>2. /\ pc = "copy" /\ ~Cached /\ pc' = "decode" /\ cursor' = cursor + 1
      /\ UNCHANGED <<generation, requests>>
      /\ files' = [files EXCEPT ![r] = Copied(TRUE)]
  BY DEF Copy, Decoding, ExtractInv
<1> PICK source : source = IF request.form = "fatJar" THEN r ELSE request.dir
  OBVIOUS
<1>3. /\ source # NONE /\ sources' = [sources EXCEPT ![cursor] = source]
      /\ fatJarCache' = IF request.form = "fatJar" THEN fatJarCache \cup {r} ELSE fatJarCache
  BY <1>1 DEF Copy
<1>4. Done(r)' = Done(r) \cup {cursor}
  BY <1>1, <1>2, <1>3 DEF Done, request
<1>5. \A k \in Done(r) : k < cursor
  BY <1>1 DEF Done, ExtractInv
<1>6. request.form = "fatJar" => Done(r) = {}
  BY <1>1, <1>2, UncachedJar
<1>7. files'[r] = [main |-> requests'[cursor].main,
                   generation |-> generation'[requests'[cursor].main], whole |-> TRUE]
  BY <1>1, <1>2 DEF Copied, request
<1>8. \E j \in Done(r)' : WrittenBy(r, j)'
  <2> PICK c : c = cursor
    OBVIOUS
  <2>1. \A k \in Done(r)' : IF requests'[c].form = "fatJar" THEN c <= k ELSE k <= c
    <3>1. requests'[c].form = request.form /\ c \in Nat
      BY <1>1, <1>2 DEF request
    <3>2. CASE request.form = "fatJar"
      BY <1>4, <1>6, <3>1, <3>2
    <3>3. CASE request.form # "fatJar"
      <4>1. \A k \in Done(r) : k \in Nat
        BY <1>1 DEF Done
      <4>. QED
        BY <1>4, <1>5, <3>1, <3>3, <4>1
    <3>. QED
      BY <3>2, <3>3
  <2>2. files'[r] = [main |-> requests'[c].main,
                     generation |-> generation'[requests'[c].main], whole |-> TRUE]
    BY <1>7
  <2>3. WrittenBy(r, c)'
    BY <2>1, <2>2 DEF WrittenBy
  <2>. QED
    BY <1>4, <2>3
<1>9. \A f \in Files \ {r} : files'[f] = files[f]
  BY <1>1, <1>2
<1>. QED
  BY <1>1, <1>2, <1>3, <1>4, <1>8, <1>9, AnswerInv

LEMMA ExtractStepInv ==
    TypeOK /\ RequestInv /\ ExtractInv /\ Extract => RequestInv' /\ ExtractInv'
<1> SUFFICES ASSUME TypeOK, RequestInv, ExtractInv, Extract PROVE ExtractInv'
  BY ExtractFrame, ExtractType DEF RequestInv, TypeOK
<1> USE DEF Decoding
<1>1. CASE Open
  <2>1. /\ UNCHANGED <<generation, files, requests, sources, fatJarCache, cursor>>
        /\ pc = "decode" /\ pc' = "mkdir" /\ cursor <= Len(requests) /\ ~Cached
    BY <1>1 DEF Open, diskVars, memoryVars
  <2>2. ~Cached'
    BY <2>1 DEF Cached, request
  <2>. QED
    BY <2>1, <2>2, ExtractSame DEF ExtractInv, BeingWritten
<1>2. CASE MakeDirs
  <2>1. /\ UNCHANGED <<generation, files, requests, sources, fatJarCache, cursor>>
        /\ pc = "mkdir" /\ pc' = "create" /\ cursor <= Len(requests) /\ ~Cached
    BY <1>2 DEF MakeDirs, ExtractInv
  <2>2. ~Cached'
    BY <2>1 DEF Cached, request
  <2>. QED
    BY <2>1, <2>2, ExtractSame DEF ExtractInv, BeingWritten
<1>3. CASE OpenFails
  BY <1>3, GiveUpInv DEF OpenFails
<1>4. CASE WriteFails
  BY <1>4, GiveUpInv DEF WriteFails, ExtractInv
<1>5. CASE Create
  <2> PICK r : r = request.file
    OBVIOUS
  <2>1. /\ UNCHANGED <<generation, requests, sources, fatJarCache, cursor>>
        /\ pc = "create" /\ pc' = "copy" /\ cursor <= Len(requests) /\ ~Cached
        /\ files' = [files EXCEPT ![r] = Copied(FALSE)]
    BY <1>5 DEF Create, ExtractInv, memoryVars
  <2>2. ~Cached'
    BY <2>1 DEF Cached, request
  <2>3. \A f \in Files : ~BeingWritten(f)' => files'[f] = files[f] /\ ~BeingWritten(f)
    BY <2>1, CursorFacts DEF BeingWritten, request
  <2>4. \A f : Done(f)' = Done(f)
    BY <2>1, SameDone
  <2>5. \A f \in Files : Done(f)' # {} /\ ~BeingWritten(f)' =>
            \E j \in Done(f)' : WrittenBy(f, j)'
    BY <2>1, <2>3, <2>4, SameWriter DEF ExtractInv
  <2>6. fatJarCache' = {f \in Files : \E j \in Done(f)' : requests'[j].form = "fatJar"}
    BY <2>1, <2>4 DEF ExtractInv
  <2>. QED
    BY <2>1, <2>2, <2>5, <2>6 DEF ExtractInv
<1>. QED
  BY <1>1, <1>2, <1>3, <1>4, <1>5, CacheHitInv, CopyInv DEF Extract

\* The directories made are remembered before they are there.
LEMMA TempStep == TypeOK /\ TempExact /\ Extract => TempExact'
<1> SUFFICES ASSUME TypeOK, TempExact, Extract PROVE TempExact'
  OBVIOUS
<1>1. pc # "idle" /\ before' = before
  BY ExtractFrame DEF Extract, CacheHit, Open, OpenFails, MakeDirs, Create, WriteFails, Copy, Decoding
<1>2. CASE MakeDirs
  <2>1. PICK k \in 0..Len(Chain[request.file]) :
            dirs' = dirs \cup {Chain[request.file][j] : j \in 1..k}
    BY <1>2 DEF MakeDirs
  <2>2. request.file \in Files
    BY <1>2, RequestType DEF TypeOK, MakeDirs, Decoding
  <2>3. dirs' \ dirs \subseteq Missing
    BY <2>1, <2>2, ChainPrefix DEF Missing
  <2>4. Missing \cap before = {}
    BY DEF Missing, TypeOK, ExtractTypeOK
  <2>. QED
    BY <1>1, <1>2, <2>3, <2>4 DEF MakeDirs, TempExact
<1>3. CASE ~MakeDirs
  <2>1. dirs' = dirs /\ tempFiles' = tempFiles
    BY <1>3 DEF Extract, CacheHit, Open, OpenFails, Create, WriteFails, Copy,
                diskVars, memoryVars
  <2>. QED
    BY <1>1, <2>1 DEF TempExact
<1>. QED
  BY <1>2, <1>3

LEMMA StartInv == TypeOK /\ Start => IndInv'
<1> SUFFICES ASSUME TypeOK, Start PROVE IndInv'
  OBVIOUS
<1>1. PICK i \in Inputs :
          /\ requests' = i.requests /\ arguments' = i.arguments
          /\ sources' = [k \in DOMAIN i.requests |-> NONE]
          /\ position' = Len(i.arguments)
  BY DEF Start
<1>2. i.requests \in Seq(Request) /\ i.arguments \in Seq(Argument)
  BY DumperAssumption
<1>3. \A f : Done(f)' = {}
  BY <1>1 DEF Done
<1>4. RequestInv'
  BY <1>1, DumperAssumption DEF Start, RequestInv
<1>5. ExtractInv'
  BY <1>1, <1>3 DEF Start, ExtractInv
<1>6. TempExact'
  BY DEF Start, TempExact, diskVars
<1>7. ScanInv'
  BY <1>1, <1>2 DEF Start, ScanInv
<1>. QED
  BY <1>4, <1>5, <1>6, <1>7 DEF IndInv

\* Redeploying happens when no process has anything to lose.
LEMMA RedeployInv ==
    ASSUME TypeOK, IndInv, NEW m \in Mains, Redeploy(m)
    PROVE  IndInv'
<1>1. pc = "idle" /\ pc' = "idle" /\ requests = << >>
      /\ UNCHANGED <<files, dirs, requests, cursor, memoryVars, dumpVars>>
  BY DEF Redeploy, IndInv, RequestInv
<1>2. \A f : Done(f)' = Done(f)
  BY <1>1, SameDone DEF memoryVars
<1>3. \A f : Done(f) = {}
  BY <1>1, EmptyFacts DEF Done
<1>4. RequestInv'
  BY <1>1 DEF IndInv, RequestInv
<1>5. ExtractInv'
  BY <1>1, <1>2, <1>3 DEF IndInv, ExtractInv, memoryVars
<1>6. TempExact' /\ ScanInv'
  BY <1>1 DEF IndInv, TempExact, ScanInv, memoryVars, dumpVars, Large, Value
<1>. QED
  BY <1>4, <1>5, <1>6 DEF IndInv

\* The steps after the extractions, which no longer touch them.
LEMMA AfterExtract ==
    ASSUME IndInv, UNCHANGED <<diskVars, requests, cursor, memoryVars>>,
           pc \in {"decode", "scan", "dump"}, pc' \in {"scan", "dump", "close"}
    PROVE  RequestInv' /\ ExtractInv' /\ TempExact'
<1>1. UNCHANGED <<generation, files, dirs, requests, cursor, fatJarCache, tempFiles,
                  sources, before>>
  BY DEF diskVars, memoryVars
<1>2. RequestInv' /\ TempExact'
  BY <1>1 DEF IndInv, RequestInv, TempExact
<1>3. ExtractInv'
  BY <1>1, ExtractSame DEF IndInv, ExtractInv, BeingWritten
<1>. QED
  BY <1>2, <1>3

LEMMA ScanStepInv == TypeOK /\ IndInv /\ Scan => IndInv'
<1> SUFFICES ASSUME TypeOK, IndInv, Scan PROVE IndInv'
  OBVIOUS
<1>1. /\ pc = "scan" /\ pc' = "scan" /\ arguments' = arguments
      /\ position \in 1..Len(arguments)
      /\ UNCHANGED <<diskVars, requests, cursor, memoryVars>>
  BY DEF Scan, extractVars, TypeOK
<1>2. RequestInv' /\ ExtractInv' /\ TempExact'
  BY <1>1, AfterExtract
<1>3. \A k : Large(arguments[k])' = Large(arguments[k])
  BY <1>1 DEF Large, Value
<1>4. CASE Large(arguments[position])
  <2>1. noOops' = TRUE /\ position' = 0
    BY <1>4 DEF Scan
  <2>. QED
    BY <1>1, <1>2, <2>1 DEF IndInv, ScanInv
<1>5. CASE ~Large(arguments[position])
  <2>1. noOops' = FALSE /\ position' = position - 1
        /\ (arguments[position].heap => arguments[position].unit # "bad")
    BY <1>5 DEF Scan
  <2>2. ~noOops
    BY <1>1 DEF IndInv, ScanInv
  <2>3. \A k \in DOMAIN arguments : k > position' => k = position \/ k > position
    BY <1>1, <2>1 DEF TypeOK
  <2>. QED
    BY <1>1, <1>2, <1>3, <1>5, <2>1, <2>2, <2>3 DEF IndInv, ScanInv
<1>. QED
  BY <1>4, <1>5

LEMMA ScanEndInv ==
    TypeOK /\ IndInv /\ (EndPipeline \/ EndScan \/ DumpSucceeds) => IndInv'
<1> SUFFICES ASSUME TypeOK, IndInv, EndPipeline \/ EndScan \/ DumpSucceeds PROVE IndInv'
  OBVIOUS
<1>1. /\ UNCHANGED <<diskVars, requests, cursor, memoryVars, arguments, position, noOops>>
      /\ pc \in {"decode", "scan", "dump"} /\ pc' \in {"scan", "dump", "close"}
      /\ pc' \in {"dump", "close"} => position = 0
  BY DEF EndPipeline, EndScan, DumpSucceeds, dumpVars, IndInv, ScanInv
<1>2. \A k : Large(arguments[k])' = Large(arguments[k])
  BY <1>1 DEF Large, Value
<1>3. ScanInv'
  BY <1>1, <1>2 DEF IndInv, ScanInv
<1>. QED
  BY <1>1, <1>3, AfterExtract DEF IndInv

LEMMA InvStep == TypeOK /\ IndInv /\ [Next]_vars => IndInv'
<1> SUFFICES ASSUME TypeOK, IndInv, [Next]_vars PROVE IndInv'
  OBVIOUS
<1>1. CASE ExtractStep
  <2>1. \A k : Large(arguments[k])' = Large(arguments[k])
    BY <1>1 DEF Large, Value, ExtractStep, dumpVars
  <2>2. pc \notin {"scan", "dump", "close"} /\ pc' \notin {"scan", "dump", "close"}
    BY <1>1, ExtractType DEF TypeOK, ExtractStep, Extract, CacheHit, Open, OpenFails,
                             MakeDirs, Create, WriteFails, Copy, Decoding
  <2>3. ScanInv'
    BY <1>1, <2>1, <2>2 DEF ExtractStep, dumpVars, IndInv, ScanInv
  <2>. QED
    BY <1>1, <2>3, ExtractStepInv, TempStep DEF ExtractStep, IndInv
<1>2. CASE PipelineFails \/ Kill \/ ScanFails \/ DumpFails \/ Close
  BY <1>2, ExitInv DEF PipelineFails, Kill, ScanFails, DumpFails, Close
<1>3. CASE UNCHANGED vars
  <2>1. UNCHANGED <<generation, files, dirs, pc, requests, cursor, fatJarCache, tempFiles,
                    sources, before, arguments, position, noOops>>
    BY <1>3 DEF vars, extractVars, diskVars, memoryVars, dumpVars
  <2>2. \A k : Large(arguments[k])' = Large(arguments[k])
    BY <2>1 DEF Large, Value
  <2>3. RequestInv' /\ TempExact' /\ ScanInv'
    BY <2>1, <2>2 DEF IndInv, RequestInv, TempExact, ScanInv
  <2>4. Cached' = Cached /\ \A f : BeingWritten(f)' = BeingWritten(f)
    BY <2>1 DEF Cached, request, BeingWritten
  <2>5. ExtractInv'
    BY <2>1, <2>4, ExtractSame DEF IndInv, ExtractInv
  <2>. QED
    BY <2>3, <2>5 DEF IndInv
<1>. QED
  BY <1>1, <1>2, <1>3, StartInv, RedeployInv, ScanStepInv, ScanEndInv DEF Next

\* What a source names, who wrote it, which directories are the process's own
\* and which arguments have been passed over is invariant, whatever an earlier
\* process left behind.
THEOREM Inductive == Spec => []IndInv
<1>1. Init => IndInv
  <2> SUFFICES ASSUME Init PROVE IndInv
    OBVIOUS
  <2>1. \A f : Done(f) = {}
    BY EmptyFacts DEF Init, ExtractInit, Done
  <2>2. RequestInv /\ ExtractInv
    BY <2>1, EmptyFacts DEF Init, ExtractInit, RequestInv, ExtractInv
  <2>3. TempExact /\ ScanInv
    BY EmptyFacts DEF Init, ExtractInit, TempExact, ScanInv
  <2>. QED
    BY <2>2, <2>3 DEF IndInv
<1>. QED
  BY <1>1, TypeCorrect, InvStep, PTL DEF Spec

-----------------------------------------------------------------------------
(* What it is for *)

\* A process knows every directory it made, and takes no other for its own.
THEOREM TempFilesExact == Spec => []TempExact
BY Inductive, PTL DEF IndInv

\* A source that was replaced names a whole file of the main jar as it is
\* now, in spite of killed processes, failed writes and redeployed jars.
THEOREM Sources == Spec => []SourcesExact
<1>1. TypeOK /\ IndInv => SourcesExact
  <2> SUFFICES ASSUME TypeOK, IndInv, pc \in {"scan", "dump", "close"},
                      NEW i \in DOMAIN requests, sources[i] # NONE,
                      NEW f, f = requests[i].file
               PROVE  files[f] = [main |-> requests[WriterOf(f)].main,
                                  generation |-> generation[requests[WriterOf(f)].main],
                                  whole |-> TRUE]
    BY DEF SourcesExact
  <2>1. f \in Files /\ i \in Done(f)
    <3>1. requests[i] \in Request
      BY DEF TypeOK, ExtractTypeOK
    <3>. QED
      BY <3>1 DEF Request, Done
  <2>2. PICK j \in Done(f) : WrittenBy(f, j)
    BY <2>1 DEF IndInv, ExtractInv, BeingWritten
  <2>3. \A k \in Done(f) : requests[k].form = requests[j].form
    BY <2>2 DEF IndInv, RequestInv, Done
  <2>4. \A k \in Done(f) : k \in Nat
    BY DEF Done, TypeOK, ExtractTypeOK
  <2>5. WriterOf(f) = j
    BY <2>2, <2>3, <2>4 DEF WriterOf, WrittenBy
  <2>. QED
    BY <2>2, <2>5 DEF WrittenBy
<1>. QED
  BY <1>1, TypeCorrect, Inductive, PTL

\* A set of natural numbers has a least element.
LEMMA NatMin ==
    ASSUME NEW S \in SUBSET Nat, S # {}
    PROVE  \E m \in S : \A k \in S : m <= k
<1> DEFINE T == {0..k : k \in S}
<1>1. T \subseteq FiniteSubsetsOf(Nat) /\ T # {}
  <2>1. ASSUME NEW k \in S PROVE IsFiniteSet(0..k) /\ 0..k \subseteq Nat
    BY FS_Interval
  <2>. QED
    BY <2>1 DEF FiniteSubsetsOf
<1>2. PICK t \in T : \A u \in T : <<u, t>> \notin StrictSubsetOrdering(Nat)
  <2> HIDE DEF T
  <2>. QED
    BY <1>1, FS_StrictSubsetOrderingWellFounded, WFMin
<1>3. PICK m \in S : t = 0..m
  OBVIOUS
<1>4. ASSUME NEW k \in S, k < m PROVE FALSE
  <2>1. 0..k \subseteq 0..m /\ 0..k # 0..m /\ 0..m \subseteq Nat /\ 0..k \in T
    <3>1. m \in 0..m /\ m \notin 0..k
      BY <1>4
    <3>. QED
      BY <1>4, <3>1
  <2>. QED
    BY <1>2, <1>3, <2>1 DEF StrictSubsetOrdering
<1>. QED
  BY <1>4

\* A set of indices of a sequence has a last element.
LEMMA LastOf ==
    ASSUME NEW n \in Nat, NEW S \in SUBSET (1..n), S # {}
    PROVE  \E k \in S : \A j \in S : j <= k
<1> DEFINE Bounds == {m \in Nat : \A j \in S : j <= m}
<1>1. n \in Bounds
  OBVIOUS
<1>2. PICK b \in Bounds : \A m \in Bounds : b <= m
  <2> HIDE DEF Bounds
  <2>1. Bounds \subseteq Nat
    BY DEF Bounds
  <2>. QED
    BY <1>1, <2>1, NatMin
<1>3. b \in S
  <2> SUFFICES ASSUME b \notin S PROVE FALSE
    OBVIOUS
  <2>1. PICK k \in S : TRUE
    OBVIOUS
  <2>2. k \in Nat /\ k >= 1 /\ b \in Nat /\ k <= b
    BY <2>1
  <2>3. \A j \in S : j <= b - 1
    <3>1. \A j \in S : j \in Nat /\ j <= b /\ j # b
      OBVIOUS
    <3>. QED
      BY <2>2, <3>1
  <2>4. b - 1 \in Bounds
    BY <2>2, <2>3
  <2>. QED
    BY <1>2, <2>2, <2>4
<1>. QED
  BY <1>2, <1>3

LEMMA ProductNat ==
    ASSUME NEW m \in Nat, NEW n \in Nat
    PROVE  m * n \in Nat
OBVIOUS

LEMMA SizeFacts ==
    /\ 32 * GB \in Nat
    /\ \A u \in Units \ {"bad"} : UnitSize[u] \in Nat
<1>1. KB \in Nat
  BY DumperAssumption
<1>2. MB \in Nat
  BY <1>1, ProductNat DEF MB
<1>3. GB \in Nat
  BY <1>1, <1>2, ProductNat DEF GB
<1>4. TB \in Nat
  BY <1>1, <1>3, ProductNat DEF TB
<1>. QED
  BY <1>1, <1>2, <1>3, <1>4, ProductNat DEF Units, UnitSize

\* A size that long holds is read as it is.
LEMMA WrappedSmall ==
    ASSUME NEW n \in Nat, n < Modulus \div 2
    PROVE  Wrapped(n) = n
<1>1. Modulus \in Nat /\ Modulus \div 2 \in Nat /\ Modulus \div 2 <= Modulus
  BY DumperAssumption
<1>2. n < Modulus
  BY <1>1
<1>3. n % Modulus = n
  BY <1>1, <1>2
<1>. QED
  BY <1>1, <1>3 DEF Wrapped

\* The child JVM runs without compressed pointers if the application did,
\* whatever smaller heaps and other units its arguments name before.
THEOREM NoOops == Spec => []NoOopsForLargeHeap
<1>1. TypeOK /\ IndInv => NoOopsForLargeHeap
  <2> SUFFICES ASSUME TypeOK, IndInv, pc = "dump", HeapArguments # {}
               PROVE  LET a == arguments[CHOOSE k \in HeapArguments :
                                             \A j \in HeapArguments : j <= k]
                          size == a.number * UnitSize[a.unit]
                      IN  size >= 32 * GB /\ size < Modulus \div 2 => noOops
    BY DEF NoOopsForLargeHeap
  <2>1. PICK last \in HeapArguments : \A j \in HeapArguments : j <= last
    <3>1. HeapArguments \subseteq 1..Len(arguments) /\ Len(arguments) \in Nat
      BY DEF HeapArguments, TypeOK
    <3>. QED
      BY <3>1, LastOf
  <2>2. (CHOOSE k \in HeapArguments : \A j \in HeapArguments : j <= k) = last
    <3>1. HeapArguments \subseteq Nat
      BY DEF HeapArguments, TypeOK
    <3>2. \A k \in HeapArguments : (\A j \in HeapArguments : j <= k) => k = last
      BY <2>1, <3>1
    <3>. QED
      BY <2>1, <3>2
  <2> DEFINE a == arguments[last]
             size == a.number * UnitSize[a.unit]
  <2> SUFFICES ASSUME size >= 32 * GB, size < Modulus \div 2, ~noOops PROVE FALSE
    BY <2>2
  <2>3. last \in DOMAIN arguments /\ last > position /\ a \in Argument /\ a.heap
    BY <2>1 DEF IndInv, ScanInv, HeapArguments, TypeOK
  <2>4. a.unit # "bad" /\ ~Large(a)
    BY <2>3 DEF IndInv, ScanInv
  <2>5. size \in Nat
    BY <2>3, <2>4, SizeFacts, ProductNat DEF Argument
  <2>6. Value(a) = size
    <3> HIDE DEF size
    <3>. QED
      BY <2>3, <2>5, WrappedSmall DEF Value, size
  <2>. QED
    <3> HIDE DEF size, a
    <3>. QED
      BY <2>4, <2>5, <2>6, SizeFacts DEF Large
<1>. QED
  BY <1>1, TypeCorrect, Inductive, PTL

-----------------------------------------------------------------------------
(* The pipeline sees an extraction as one step. *)

LEMMA SourceIsSource ==
    ASSUME NEW r \in Request
    PROVE  SourceOf(r) \in Pipeline!Source /\ SourceOf(r) # NONE
<1>1. SourceOf(r) \in Pipeline!Source
  BY DEF SourceOf, Request, Pipeline!Source, Pipeline!Forms
<1>. QED
  BY <1>1, SourceAssumption

\* A request that is given up looks as it did, or ends the process.
LEMMA GiveUpDecodes ==
    ASSUME TypeOK, IndInv, cursor <= Len(requests), ~Cached, GiveUp,
           NEW i \in DOMAIN requests, i = cursor
    PROVE  DecodesRequest(i)
<1>1. requests[i] \in Request /\ requests[i] = request /\ i \in Nat /\ sources[i] = NONE
  BY CursorFacts, RequestType DEF IndInv, TypeOK, request
<1>2. UNCHANGED <<requests, fatJarCache, sources>>
  BY DEF GiveUp
<1>3. SourceNow(i)' = SourceOf(requests[i])
  BY <1>1, <1>2 DEF SourceNow, SourceOf
<1>4. CASE requests[i].form = "fatJar"
  <2>1. cursor' = i + 1 /\ requests[i].file \notin fatJarCache
    BY <1>1, <1>4 DEF GiveUp, Cached
  <2>2. SourceOf(requests[i]) \in Pipeline!DecodedSources(SourceOf(requests[i]))
    BY <1>4, <2>1 DEF SourceOf, Pipeline!DecodedSources
  <2>3. fatJarCache = Pipeline!CacheExtracted(SourceOf(requests[i]), SourceOf(requests[i]))
    BY <1>4 DEF SourceOf, Pipeline!CacheExtracted, Pipeline!HasForm
  <2>. QED
    BY <1>2, <1>3, <2>1, <2>2, <2>3 DEF DecodesRequest
<1>5. CASE requests[i].form = "fileDir"
  <2>1. cursor' # i + 1 /\ UNCHANGED <<fatJarCache, sources>>
    BY <1>1, <1>5 DEF GiveUp
  <2>2. Pipeline!DecodeMayThrow(SourceOf(requests[i]))
    BY <1>1, <1>5, SourceIsSource DEF SourceOf, Pipeline!DecodeMayThrow, Pipeline!HasForm
  <2>. QED
    BY <2>1, <2>2 DEF DecodesRequest
<1>. QED
  BY <1>1, <1>4, <1>5 DEF Request

LEMMA CacheHitDecodes ==
    ASSUME TypeOK, IndInv, CacheHit, NEW i \in DOMAIN requests, i = cursor
    PROVE  DecodesRequest(i)
<1>1. /\ requests[i] \in Request /\ requests[i] = request /\ i \in DOMAIN sources
      /\ request.file # NONE
  BY CursorFacts, RequestType DEF IndInv, TypeOK, request, CacheHit, Decoding
<1>2. /\ requests[i].form = "fatJar" /\ requests[i].file \in fatJarCache /\ cursor' = i + 1
      /\ UNCHANGED <<requests, fatJarCache>>
      /\ sources'[i] = requests[i].file
  BY <1>1 DEF CacheHit, Cached
<1>3. SourceNow(i)' = [form |-> "path", main |-> requests[i].file, inner |-> requests[i].file]
  BY <1>1, <1>2 DEF SourceNow
<1>4. SourceNow(i)' \in Pipeline!DecodedSources(SourceOf(requests[i]))
  BY <1>1, <1>2, <1>3, SourceIsSource DEF Pipeline!DecodedSources, SourceOf
<1>5. fatJarCache' = Pipeline!CacheExtracted(SourceOf(requests[i]), SourceNow(i)')
  BY <1>1, <1>2, <1>3 DEF SourceOf, Pipeline!CacheExtracted, Pipeline!HasForm
<1>. QED
  BY <1>2, <1>4, <1>5 DEF DecodesRequest

LEMMA CopyDecodes ==
    ASSUME TypeOK, IndInv, Copy, NEW i \in DOMAIN requests, i = cursor
    PROVE  DecodesRequest(i)
<1>1. /\ requests[i] \in Request /\ requests[i] = request /\ i \in DOMAIN sources
      /\ request.file # NONE /\ request.dir # NONE
  BY CursorFacts, RequestType DEF IndInv, TypeOK, request, Copy, Decoding
<1>2. cursor' = i + 1 /\ requests' = requests
  BY DEF Copy
<1> DEFINE s == SourceOf(requests[i])
           t(form, place) == [form |-> form, main |-> place, inner |-> place]
<1>3. s \in Pipeline!Source /\ s # NONE
  BY <1>1, SourceIsSource
<1>4. CASE requests[i].form = "fatJar"
  <2>1. sources'[i] = requests[i].file /\ fatJarCache' = fatJarCache \cup {requests[i].file}
    BY <1>1, <1>4 DEF Copy
  <2>2. SourceNow(i)' = t("path", requests[i].file)
    BY <1>1, <1>2, <1>4, <2>1 DEF SourceNow
  <2>3. s.form = "fatJar" /\ s.inner = requests[i].file
    BY <1>4 DEF SourceOf
  <2>4. t("path", requests[i].file) \in Pipeline!DecodedSources(s)
    <3> HIDE DEF s
    <3>. QED
      BY <1>3, <2>3 DEF Pipeline!DecodedSources
  <2>5. t("path", requests[i].file) # NONE
    BY <1>1, SourceAssumption DEF Request, Pipeline!Source, Pipeline!Forms
  <2>6. fatJarCache' = Pipeline!CacheExtracted(s, t("path", requests[i].file))
    <3> HIDE DEF s
    <3>. QED
      BY <1>3, <2>1, <2>3, <2>5 DEF Pipeline!CacheExtracted, Pipeline!HasForm
  <2>. QED
    BY <1>2, <2>2, <2>4, <2>6 DEF DecodesRequest
<1>5. CASE requests[i].form = "fileDir"
  <2>1. sources'[i] = requests[i].dir /\ fatJarCache' = fatJarCache
    BY <1>1, <1>5 DEF Copy
  <2>2. SourceNow(i)' = t("dir", requests[i].dir)
    BY <1>1, <1>2, <1>5, <2>1 DEF SourceNow
  <2>3. s.form = "fileDir" /\ s.inner = requests[i].dir
    BY <1>5 DEF SourceOf
  <2>4. t("dir", requests[i].dir) \in Pipeline!DecodedSources(s)
    <3> HIDE DEF s
    <3>. QED
      BY <1>3, <2>3 DEF Pipeline!DecodedSources
  <2>5. fatJarCache' = Pipeline!CacheExtracted(s, t("dir", requests[i].dir))
    <3> HIDE DEF s
    <3>. QED
      BY <2>1, <2>3 DEF Pipeline!CacheExtracted, Pipeline!HasForm
  <2>. QED
    BY <1>2, <2>2, <2>4, <2>5 DEF DecodesRequest
<1>. QED
  BY <1>1, <1>4, <1>5 DEF Request

\* However an extraction ends, the class list pipeline sees one of the results
\* and caches ClassListTransform gives it.
THEOREM DecodesAtomically == Spec => DecodesAsPipeline
<1>1. ASSUME TypeOK, IndInv, [Next]_vars,
             NEW i \in DOMAIN requests, i = cursor, pc \in {"decode", "mkdir", "create", "copy"},
             ~UNCHANGED vars
      PROVE  DecodesRequest(i)
  <2>1. i \in Nat /\ i >= 1 /\ cursor <= Len(requests)
    BY <1>1 DEF TypeOK, ExtractTypeOK
  <2>2. CASE CacheHit
    BY <1>1, <2>2, CacheHitDecodes
  <2>3. CASE Copy
    BY <1>1, <2>3, CopyDecodes
  <2>4. CASE OpenFails
    BY <1>1, <2>4, GiveUpDecodes DEF OpenFails, Decoding
  <2>5. CASE WriteFails
    BY <1>1, <2>5, GiveUpDecodes DEF WriteFails, Decoding, IndInv, ExtractInv
  <2>6. CASE Open \/ MakeDirs \/ Create
    <3>1. cursor' = i /\ UNCHANGED <<fatJarCache, sources>> /\ pc' # "failed"
      BY <1>1, <2>6 DEF Open, MakeDirs, Create, memoryVars
    <3>. QED
      BY <2>1, <3>1 DEF DecodesRequest
  <2>7. CASE \E how : Exit(how)
    <3>1. cursor' = 1 /\ pc' = "idle"
      BY <2>7 DEF Exit
    <3>. QED
      BY <2>1, <3>1 DEF DecodesRequest
  <2>8. ~Start /\ ~EndPipeline /\ ~Scan /\ ~EndScan /\ ~DumpSucceeds
        /\ \A m \in Mains : ~Redeploy(m)
    BY <1>1, <2>1 DEF Start, EndPipeline, Scan, EndScan, DumpSucceeds, Redeploy, TypeOK, ExtractTypeOK
  <2>. QED
    BY <1>1, <2>2, <2>3, <2>4, <2>5, <2>6, <2>7, <2>8
       DEF Next, ExtractStep, Extract, PipelineFails, Kill, ScanFails, DumpFails, Close
<1>2. TypeOK /\ IndInv /\ [Next]_vars =>
        [\A i \in DOMAIN requests :
            i = cursor /\ pc \in {"decode", "mkdir", "create", "copy"} => DecodesRequest(i)]_vars
  BY <1>1
<1>. QED
  BY <1>2, TypeCorrect, Inductive, PTL DEF Spec, DecodesAsPipeline

=============================================================================
