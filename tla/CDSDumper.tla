------------------------------ MODULE CDSDumper ------------------------------
(***************************************************************************)
(* com.alibaba.jvm.cds.CDSDumper: one dump is one process that runs the    *)
(* class list pipeline, derives the arguments of a child JVM from the      *)
(* application's, and lets it write the archive.                           *)
(*                                                                         *)
(* Of the pipeline only the extractions are looked at, SourceExtraction;   *)
(* of the arguments those that set the heap.  The child runs after         *)
(*   "scan"   handleCompressedOopsAndClassPointers, one argument per step  *)
(* as "dump", then "close" is first.close().                               *)
(***************************************************************************)
EXTENDS SourceExtraction, Integers

CONSTANTS
    Inputs,   \* the requests and the arguments a dump may have
    KB,       \* 1024
    Modulus,  \* 2^64: long wraps
    MaxRuns   \* bound: dumps

\* An argument: a number with a unit if it sets the heap.  "digit" is no
\* unit, "bad" any other last character and a number that does not parse.
Units == {"T", "G", "M", "K", "digit", "bad"}
Argument == [heap : BOOLEAN, number : Nat, unit : Units]

\* What is extracted as a nested jar has ".jar" in its name, what is extracted
\* for a directory is a class file.
ASSUME DumperAssumption ==
    /\ Inputs \subseteq [requests : Seq(Request), arguments : Seq(Argument)]
    /\ \A input \in Inputs : \A i, j \in DOMAIN input.requests :
          input.requests[i].file = input.requests[j].file
              => input.requests[i].form = input.requests[j].form
    /\ KB \in Nat \ {0, 1} /\ Modulus \in Nat /\ MaxRuns \in Nat

VARIABLES
    arguments,    \* of the application's JVM
    position,     \* the argument the scan is at
    noOops,       \* is -XX:-UseCompressedOops added?
    runs, exit    \* dumps begun, how the last one ended

dumpVars == <<arguments, position, noOops>>
runVars == <<runs, exit>>
vars == <<extractVars, dumpVars, runVars>>

Init ==
    /\ ExtractInit
    /\ arguments = << >> /\ position = 0 /\ noOops = FALSE
    /\ runs = 0 /\ exit = NONE

-----------------------------------------------------------------------------

\* A new process: its memory is empty.
Start ==
    /\ pc = "idle" /\ runs < MaxRuns
    /\ \E input \in Inputs :
          /\ requests' = input.requests /\ arguments' = input.arguments
          /\ sources' = [i \in DOMAIN input.requests |-> NONE]
          /\ position' = Len(input.arguments)
    /\ pc' = "decode" /\ cursor' = 1
    /\ fatJarCache' = {} /\ tempFiles' = {} /\ before' = dirs
    /\ noOops' = FALSE /\ runs' = runs + 1 /\ exit' = NONE
    /\ UNCHANGED diskVars

\* The process ends; tempFiles is what it knew of last.
Exit(how) ==
    /\ pc' = "idle" /\ exit' = how
    /\ requests' = << >> /\ cursor' = 1
    /\ fatJarCache' = {} /\ sources' = << >> /\ before' = {}
    /\ arguments' = << >> /\ position' = 0 /\ noOops' = FALSE
    /\ UNCHANGED <<diskVars, tempFiles, runs>>

\* prepareInfo, or the pipeline for another reason than an extraction.
PipelineFails == pc \in {"decode", "failed"} /\ Exit("failed")

\* The process is killed wherever it is.
Kill == pc # "idle" /\ Exit("killed")

\* Between dumps a main jar is replaced by a new release.
Redeploy(m) ==
    /\ pc = "idle" /\ generation[m] < MaxGeneration
    /\ generation' = [generation EXCEPT ![m] = @ + 1]
    /\ UNCHANGED <<files, dirs, pc, requests, cursor, memoryVars, dumpVars, runVars>>

ExtractStep == Extract /\ UNCHANGED <<dumpVars, runVars>>

EndPipeline ==
    /\ pc = "decode" /\ cursor > Len(requests)
    /\ pc' = "scan"
    /\ UNCHANGED <<diskVars, requests, cursor, memoryVars, dumpVars, runVars>>

-----------------------------------------------------------------------------
(* handleCompressedOopsAndClassPointers *)

MB == KB * KB
GB == MB * KB
TB == GB * KB

UnitSize == [T |-> TB, G |-> GB, M |-> MB, K |-> KB, digit |-> 1]

Wrapped(n) == LET r == n % Modulus IN IF r >= Modulus \div 2 THEN r - Modulus ELSE r

Value(a) == IF a.heap THEN Wrapped(a.number * UnitSize[a.unit]) ELSE 0

\* Mutant: exactly 32 G counts as small.
LargeStrictly(a) == Value(a) > 32 * GB

Large(a) == Value(a) >= 32 * GB

\* From the last argument to the first that is large, past the smaller ones
\* that override it.
Scan ==
    /\ pc = "scan" /\ position > 0
    /\ ~(arguments[position].heap /\ arguments[position].unit = "bad")
    /\ noOops' = Large(arguments[position])
    /\ position' = IF Large(arguments[position]) THEN 0 ELSE position - 1
    /\ UNCHANGED <<extractVars, arguments, runVars>>

\* "Parse error: ShouldNotReachHere", NumberFormatException.
ScanFails ==
    /\ pc = "scan" /\ position > 0
    /\ arguments[position].heap /\ arguments[position].unit = "bad"
    /\ Exit("failed")

EndScan ==
    /\ pc = "scan" /\ position = 0
    /\ pc' = "dump"
    /\ UNCHANGED <<diskVars, requests, cursor, memoryVars, dumpVars, runVars>>

\* runProcess: the child writes the archive, or System.exit(-1).
DumpSucceeds ==
    /\ pc = "dump"
    /\ pc' = "close"
    /\ UNCHANGED <<diskVars, requests, cursor, memoryVars, dumpVars, runVars>>

DumpFails == pc = "dump" /\ Exit("failed")

\* ParseOriginClassList.close does nothing, and does not close what follows.
Close == pc = "close" /\ Exit("ok")

Next ==
    \/ Start \/ PipelineFails \/ Kill \/ \E m \in Mains : Redeploy(m)
    \/ ExtractStep \/ EndPipeline
    \/ Scan \/ ScanFails \/ EndScan \/ DumpSucceeds \/ DumpFails \/ Close

Spec == Init /\ [][Next]_vars

-----------------------------------------------------------------------------
(* Properties *)

\* The type of every variable.
TypeOK ==
    /\ ExtractTypeOK
    /\ pc \in {"idle", "decode", "mkdir", "create", "copy", "failed", "scan", "dump", "close"}
    /\ arguments \in Seq(Argument) /\ position \in 0..Len(arguments)
    /\ noOops \in BOOLEAN
    /\ runs \in 0..MaxRuns /\ exit \in {NONE, "ok", "failed", "killed"}

\* The heap the application runs with is set by its last argument that sets
\* one.  If it has 32 G or more the JVM does not compress its pointers, so
\* the archive is dumped without.  A size that long does not hold starts no
\* JVM.
HeapArguments == {k \in DOMAIN arguments : arguments[k].heap}

NoOopsForLargeHeap ==
    pc = "dump" /\ HeapArguments # {} =>
        LET a == arguments[CHOOSE k \in HeapArguments : \A j \in HeapArguments : j <= k]
            size == a.number * UnitSize[a.unit]
        IN  size >= 32 * GB /\ size < Modulus \div 2 => noOops

\* A dump that succeeded has deleted what it extracted.
TempCleaned == exit = "ok" => tempFiles \cap dirs = {}

\* SourceDecoder as ClassListTransform has it: of the pipeline's state only
\* the cache matters to an extraction.
Pipeline == INSTANCE ClassListTransform WITH
    Names <- {}, Object <- NONE, RawIds <- {}, Paths <- Files \cup Mains \cup Dirs,
    Hashes <- {}, Lines <- {}, MaxLines <- 0, StaticDiff <- FALSE,
    lines <- << >>, all <- << >>, allNotFound <- << >>, notFoundSet <- {}, nameid <- << >>,
    idIds <- << >>, eagerSet <- {}, appSet <- {}, klassID <- 1, signCache <- << >>,
    out <- << >>, fingerprints <- << >>, notFoundNames <- << >>

ASSUME SourceAssumption == NONE \notin Pipeline!Source

\* The source of a request, before and after.
SourceOf(r) ==
    [form |-> r.form, main |-> r.main, inner |-> IF r.form = "fatJar" THEN r.file ELSE r.dir]

SourceNow(i) ==
    IF sources[i] = NONE THEN SourceOf(requests[i])
    ELSE [form |-> IF requests[i].form = "fatJar" THEN "path" ELSE "dir",
          main |-> sources[i], inner |-> sources[i]]

\* What the pipeline sees of a step of request i, which is at the cursor.
DecodesRequest(i) ==
    LET s == SourceOf(requests[i])
    IN  IF cursor' = i + 1
        THEN /\ SourceNow(i)' \in Pipeline!DecodedSources(s)
             /\ fatJarCache' = Pipeline!CacheExtracted(s, SourceNow(i)')
        ELSE /\ pc' # "idle" => UNCHANGED <<fatJarCache, sources>>
             /\ pc' = "failed" => Pipeline!DecodeMayThrow(s)

\* However many steps an extraction takes and wherever it fails, the pipeline
\* sees what ClassListTransform says: a source that it may end with, and the
\* cache that goes with it; a process that gives up was allowed to throw.
DecodesAsPipeline ==
    [][\A i \in DOMAIN requests :
        i = cursor /\ pc \in {"decode", "mkdir", "create", "copy"} => DecodesRequest(i)]_vars

-----------------------------------------------------------------------------
(* The inductive invariant behind SourcesExact, TempExact, NoOopsForLargeHeap *)
(* and DecodesAsPipeline.                                                  *)

\* The arguments the scan has passed do not set a large heap.
ScanInv ==
    /\ pc \notin {"scan", "dump", "close"} => position = Len(arguments) /\ ~noOops
    /\ pc \in {"dump", "close"} \/ noOops => position = 0
    /\ noOops \/ \A k \in DOMAIN arguments : k > position =>
          /\ ~Large(arguments[k])
          /\ arguments[k].heap => arguments[k].unit # "bad"

IndInv == RequestInv /\ ExtractInv /\ TempExact /\ ScanInv

=============================================================================
