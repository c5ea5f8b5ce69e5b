--------------------------- MODULE SourceExtraction ---------------------------
(***************************************************************************)
(* SourceDecoder on disk: decodeSource copies the nested jar or the class  *)
(* file a source names out of its main jar to a file below dirPath, and    *)
(* remembers in memory what it has extracted and which directories it has  *)
(* made.  ClassListTransform knows of an extraction only whether it        *)
(* succeeded.                                                              *)
(*                                                                         *)
(* A process may be killed between any two steps.  Its memory is gone, the *)
(* disk stays, and the next process works in the same directory.           *)
(*                                                                         *)
(*   "decode"  at requests[cursor]        "mkdir"   the entry is open      *)
(*   "create"  new FileOutputStream       "copy"    the loop that copies   *)
(***************************************************************************)
EXTENDS Naturals, Sequences, FiniteSets

CONSTANTS
    Mains,        \* main jars
    Files,        \* what is extracted, by its path below dirPath
    Dirs,         \* directories below dirPath
    Chain,        \* the directories down to a file, outermost first
    Entries,      \* the files a main jar has entries for
    MaxGeneration,\* bound: how often a main jar is replaced
    NONE

\* What decodeSource is asked for: a nested jar, or the class file of a class
\* whose source is a directory of the main jar.
Request == [form : {"fatJar", "fileDir"}, main : Mains, dir : Dirs, file : Files]

Content == [main : Mains, generation : 0..MaxGeneration, whole : BOOLEAN]

ASSUME ExtractionAssumption ==
    /\ Chain \in [Files -> Seq(Dirs)]
    /\ Entries \in [Mains -> SUBSET Files]
    /\ MaxGeneration \in Nat
    /\ NONE \notin Content \cup Files \cup Dirs

VARIABLES
    generation,  \* of each main jar
    files,       \* the files below dirPath
    dirs,        \* the directories below dirPath
    pc, requests, cursor,
    fatJarCache, \* the nested jars extracted
    tempFiles,   \* the directories made
    sources,     \* what became of each request; NONE: the source is as it was
    before       \* the directories there were when the process began

diskVars == <<generation, files, dirs>>
memoryVars == <<fatJarCache, tempFiles, sources, before>>
extractVars == <<diskVars, pc, requests, cursor, memoryVars>>

ExtractInit ==
    /\ generation = [m \in Mains |-> 0]
    /\ files = [f \in Files |-> NONE] /\ dirs = {}
    /\ pc = "idle" /\ requests = << >> /\ cursor = 1
    /\ fatJarCache = {} /\ tempFiles = {} /\ sources = << >> /\ before = {}

-----------------------------------------------------------------------------

request == requests[cursor]

Decoding(at) == pc = at /\ cursor <= Len(requests)

Cached == request.form = "fatJar" /\ request.file \in fatJarCache

\* A nested jar that cannot be extracted keeps its source and the pipeline
\* goes on; a directory that cannot be ends the process.
GiveUp ==
    /\ IF request.form = "fatJar"
       THEN pc' = "decode" /\ cursor' = cursor + 1
       ELSE pc' = "failed" /\ UNCHANGED cursor
    /\ UNCHANGED <<requests, fatJarCache, sources, before>>

\* Mutant: found in the cache, and that is all.
CacheHitKeepsSource ==
    /\ Decoding("decode") /\ Cached
    /\ cursor' = cursor + 1
    /\ UNCHANGED <<diskVars, pc, requests, memoryVars>>

\* Mutant: the cache answers with the main jar.
CacheHitMainJar ==
    /\ Decoding("decode") /\ Cached
    /\ sources' = [sources EXCEPT ![cursor] = request.main]
    /\ cursor' = cursor + 1
    /\ UNCHANGED <<diskVars, pc, requests, fatJarCache, tempFiles, before>>

\* The cache knows the nested name only, not the main jar.  The key under
\* which a directory is cached ends with a "/" that its lookup does not have.
CacheHit ==
    /\ Decoding("decode") /\ Cached
    /\ sources' = [sources EXCEPT ![cursor] = request.file]
    /\ cursor' = cursor + 1
    /\ UNCHANGED <<diskVars, pc, requests, fatJarCache, tempFiles, before>>

Open ==
    /\ Decoding("decode") /\ ~Cached
    /\ request.file \in Entries[request.main]
    /\ pc' = "mkdir"
    /\ UNCHANGED <<diskVars, requests, cursor, memoryVars>>

\* The main jar cannot be opened, or has no such entry.
OpenFails ==
    /\ Decoding("decode") /\ ~Cached
    /\ GiveUp
    /\ UNCHANGED <<diskVars, tempFiles>>

Missing == {Chain[request.file][k] : k \in DOMAIN Chain[request.file]} \ dirs

\* Mutant: only the directory asked for is remembered.
MakeDirsInnermost ==
    /\ Decoding("mkdir")
    /\ LET chain == Chain[request.file]
       IN  /\ \E k \in 0..Len(chain) : dirs' = dirs \cup {chain[j] : j \in 1..k}
           /\ tempFiles' = tempFiles \cup
                  (IF chain = << >> THEN {} ELSE {chain[Len(chain)]} \ dirs)
    /\ pc' = "create"
    /\ UNCHANGED <<generation, files, requests, cursor, fatJarCache, sources, before>>

\* From the outermost one that is missing; mkdir may fail, and what it
\* returns is not looked at.
MakeDirs ==
    /\ Decoding("mkdir")
    /\ LET chain == Chain[request.file]
       IN  \E k \in 0..Len(chain) : dirs' = dirs \cup {chain[j] : j \in 1..k}
    /\ tempFiles' = tempFiles \cup Missing
    /\ pc' = "create"
    /\ UNCHANGED <<generation, files, requests, cursor, fatJarCache, sources, before>>

Copied(whole) ==
    [main |-> request.main, generation |-> generation[request.main], whole |-> whole]

\* Mutant: the file is in the cache before its content is.
CreateAndCache ==
    /\ Decoding("create") /\ Missing = {}
    /\ files' = [files EXCEPT ![request.file] = Copied(FALSE)]
    /\ fatJarCache' = IF request.form = "fatJar" THEN fatJarCache \cup {request.file}
                      ELSE fatJarCache
    /\ pc' = "copy"
    /\ UNCHANGED <<generation, dirs, requests, cursor, tempFiles, sources, before>>

\* A file that is already there is truncated.
Create ==
    /\ Decoding("create") /\ Missing = {}
    /\ files' = [files EXCEPT ![request.file] = Copied(FALSE)]
    /\ pc' = "copy"
    /\ UNCHANGED <<generation, dirs, requests, cursor, memoryVars>>

\* An IOException: what was written stays.
WriteFails ==
    /\ Decoding("create") \/ Decoding("copy")
    /\ GiveUp
    /\ UNCHANGED <<diskVars, tempFiles>>

Copy ==
    /\ Decoding("copy")
    /\ files' = [files EXCEPT ![request.file] = Copied(TRUE)]
    /\ IF request.form = "fatJar"
       THEN /\ sources' = [sources EXCEPT ![cursor] = request.file]
            /\ fatJarCache' = fatJarCache \cup {request.file}
       ELSE /\ sources' = [sources EXCEPT ![cursor] = request.dir]
            /\ UNCHANGED fatJarCache
    /\ pc' = "decode" /\ cursor' = cursor + 1
    /\ UNCHANGED <<generation, dirs, requests, tempFiles, before>>

Extract ==
    \/ CacheHit \/ Open \/ OpenFails \/ MakeDirs \/ Create \/ WriteFails \/ Copy

-----------------------------------------------------------------------------
(* Properties *)

ExtractTypeOK ==
    /\ generation \in [Mains -> 0..MaxGeneration]
    /\ files \in [Files -> Content \cup {NONE}] /\ dirs \subseteq Dirs
    /\ requests \in Seq(Request) /\ cursor \in 1..(Len(requests) + 1)
    /\ fatJarCache \subseteq Files /\ tempFiles \subseteq Dirs /\ before \subseteq dirs
    /\ sources \in [DOMAIN requests -> Files \cup Dirs \cup {NONE}]

\* The requests that have got a file.
Done(f) == {j \in DOMAIN requests : requests[j].file = f /\ sources[j] # NONE}

\* The request whose extraction a file of this process comes from: the first
\* that succeeded for a nested jar, the last one for a class file.
WriterOf(f) ==
    CHOOSE j \in Done(f) : \A k \in Done(f) :
        IF requests[j].form = "fatJar" THEN j <= k ELSE k <= j

\* Whatever earlier processes left behind and whatever extractions failed, a
\* source that was replaced names a file that is whole and as the main jar is
\* now; of several main jars with the same nested name the first one's.
SourcesExact ==
    pc \in {"scan", "dump", "close"} =>
        \A i \in DOMAIN requests : sources[i] # NONE =>
            LET f == requests[i].file
                m == requests[WriterOf(f)].main
            IN  files[f] = [main |-> m, generation |-> generation[m], whole |-> TRUE]

\* The directories to delete are those the process made: none is forgotten,
\* and none that was there before is among them.
TempExact == pc # "idle" => tempFiles \cap before = {} /\ dirs \ before \subseteq tempFiles

-----------------------------------------------------------------------------
(* What is inductive about the extractions.                                *)

\* The file of a request whose extraction is under way is truncated.
BeingWritten(f) == pc = "copy" /\ requests[cursor].file = f

\* What request j has extracted is on disk, and no other request is to blame.
WrittenBy(f, j) ==
    /\ \A k \in Done(f) : IF requests[j].form = "fatJar" THEN j <= k ELSE k <= j
    /\ files[f] = [main |-> requests[j].main, generation |-> generation[requests[j].main],
                   whole |-> TRUE]

\* A file is a nested jar or a class file, whoever asks for it.
RequestInv ==
    /\ pc = "idle" => requests = << >>
    /\ \A i, j \in DOMAIN requests :
          requests[i].file = requests[j].file => requests[i].form = requests[j].form

ExtractInv ==
    /\ pc \in {"mkdir", "create", "copy"} => cursor <= Len(requests) /\ ~Cached
    /\ \A i \in DOMAIN requests : i >= cursor => sources[i] = NONE
    /\ fatJarCache = {f \in Files : \E j \in Done(f) : requests[j].form = "fatJar"}
    /\ pc # "failed" => \A f \in Files : Done(f) # {} /\ ~BeingWritten(f) =>
          \E j \in Done(f) : WrittenBy(f, j)

=============================================================================
