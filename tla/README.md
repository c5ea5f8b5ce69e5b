# Verification of serverless-adapter

`serverless-adapter` is the part of Alibaba Dragonwell 11 that prepares the
EagerAppCDS archive. While an application starts, the JVM writes a class list;
this program rewrites that list into the one the archive is dumped from, runs the
dump, and, when the application has changed since, works out which archived
classes can no longer be used. This directory holds TLA+ models of that code, TLC
configurations that check them on small instances, and TLAPS proofs.

Paths below are relative to `src/src/main/java/com/alibaba/jvm/`.

## Running it

    tlc -workers 2 -config ClassListHierarchy.cfg MCClassListTransform
    tlc -workers 2 -config ClassListLoaders.cfg   MCClassListTransform
    tlc -workers 2 -config ClassComparator.cfg    MCClassComparator
    tlc -workers 2 -config StartupProbe.cfg       MCStartupProbe
    tlc -workers 2 -config ProcessRunner.cfg      MCProcessRunner
    tlc -workers 2 -config ProcessRunnerLog.cfg   MCProcessRunner   # finds a violation
    tlc -workers 2 -config ExecStartupProbe.cfg   MCExecStartupProbe
    tlc -workers 2 -config LoadClassAgent.cfg     MCLoadClassAgent
    tlc -workers 2 -config LoadClassAgentRace.cfg MCLoadClassAgent  # finds a violation
    tlc -workers 2 -config CDSDumper.cfg          MCCDSDumper
    tlc -workers 2 -config CDSDumperCleanup.cfg   MCCDSDumper       # finds a violation
    tlc -workers 2 -config DiffPipeline.cfg       MCDiffPipeline
    tlapm ClassListTransform_proofs.tla
    tlapm ClassComparator_proofs.tla
    tlapm StartupProbe_proofs.tla
    tlapm ProcessRunner_proofs.tla
    tlapm ExecStartupProbe_proofs.tla
    tlapm CDSDumper_proofs.tla
    tlapm LoadClassAgent_proofs.tla
    tlapm DiffPipeline_proofs.tla

## The system

| component | code | state it keeps | operations |
|---|---|---|---|
| class list pipeline | `cds/classlist/`, `cds/model/` | the records (`all`, `allNotFound`), the maps that resolve ids, the id counter, two loader sets | parse, decode, prepare the not-found classes, write, describe |
| extraction | `SourceDecoder` | `fatJarCache`, `tempFiles`, files in the cache directory | extract a nested jar or class, close |
| validators | `CDSDataValidFactory`, `valid/` | a verdict per jar | isInvalid |
| fingerprint file | `cds/diff/FingerprintFile` | the described classes | add, write, read |
| class scanner | `cds/diff/ClassScanner` | class name to class files found; a temporary directory | doScan |
| comparator | `cds/diff/ClassComparator` | a result per class | compare, write |
| dump driver | `cds/CDSDumper` | the options, one pipeline | run the pipeline, run the dump, close |
| child processes | `util/Utils.runProcess` | a child, a reader thread, a log | run with or without time-out |
| start-up probe | `probe/` | two counters | probe until a threshold, then dump |
| class loader names | `util/classnames/` | `PARSED`, `configs`, the fields of one SAX handler | registerClassLoader |
| class load agent | `cpp/` | the JVMTI environment | calls registerClassLoader from a JVMTI event |

How they interact. The JVM writes the class list and later starts `CDSDumper` in a
process of its own. `CDSDumper.dumpJSA` calls the pipeline, whose workers call each
other in a chain, then starts a child JVM through `Utils.runProcess` that reads the
final list and writes the archive, then closes the first worker of the chain. With
static diff enabled the pipeline also writes the fingerprint file. `DiffClasses`,
another process, reads that file, scans the application and hands both to the
comparator, whose report the JVM reads. `StartupProbe` is a process beside the
application that decides when profiling ends. The agent and the class loader names
live inside the profiled JVM and run on its threads.

### What is hard here

* Identity. A class in the list is known by an address the JVM may reuse. The
  pipeline replaces addresses by numbers in the same pass that discovers them, in
  place, so a record may be raw, renumbered or half of each.
* Closure. Rejecting one class (a missing parent, a signed jar) must reject all that
  lies below, or the JVM finds an id it has not read. The comparator has the same
  problem in the other direction.
* Partial work. An exception in the middle leaves files on disk, and the first
  worker's `close` does nothing.
* Threads. Only the class loader names and the process runner are concurrent; the
  former without any lock.
* Restarts. Dumps are processes of their own that work in one directory and may be
  killed; what one leaves the next one finds.

`PROJECT.json` lists the hazards line by line.

## The models

### ClassListTransform: the class list pipeline

One variable for each Java collection, under its Java name; `pc` is the worker that
is running and `cursor` the index of its loop. One action is one iteration.

| code | actions |
|---|---|
| `ParseOriginClassList.run`, one line | `SkipLine`, `CompleteRecord`, `AddNotFound`, `AddRecord`, `MissingId`, `BlankLine`; `EndOfFile` |
| `SourceDecoder.run`, one record | `NoObject`, `DecodeObject`, `JudgeRecord`, `OrphanRecord`, `DecodeThrows`; `EndDecode` |
| `PrepareClassNotFoundList.run` | `PrepareNotFound`; `EndNotFound` |
| `WriteFinalClassList.run` | `WriteClass`, `WriteNotFound`; `EndWrite`, `EndWriteNotFound` |
| `genFingerprintFile`, `FingerprintFile.add...` | `AddFingerprint`; `EndFingerprint` |

A Java reference to a record is its index in `all`. The lines of the class list are
the input: `Lines` is the set of lines, as what the parser takes from them, and any
sequence of them may be read. What the code asks of the file system is a choice:
whether an extraction from a nested jar succeeds, whether an entry is there, whether
a jar is accepted. A verdict is chosen once per jar and then cached, as in
`SignedJarValidator`; signed and unknown have the same effect and are one value.

Properties. `WrittenClosed`: the JVM will find every parent it reads about.
`WrittenExact`: a class is written if and only if neither it nor an ancestor is
missing or rejected, with the parents its addresses meant. It is stated from the
lines and the verdicts alone, as the largest set of classes closed under parents,
so it does not share the code's algorithm. `WrittenIdsIncrease`: one id, one line.
`FingerprintComplete`: what is archived is described with all of its parents, also
those that `ClassCDSDesc.write` does not print. `InitiatingExact`: which of several
lines gives a class its initiating loader. `NotFoundExact`: the not-found classes
written are those reported, once, less the names the application loader defined
first. `Termination`: nothing in a class list makes the pipeline go on for ever.

Abstractions, and what they rest on:

* A line is a record of its fields; the scanning of characters in `getKlassPath` and
  its siblings is not modelled. A line those methods run past the end of (a `source:`
  that is last on its line) would throw; it has the effect of `MissingId`.
* Addresses ("0x...") never equal decimal ids. The addresses of a class and of its
  parents differ, since they are alive together: `LinesAssumption`.
* A source is the form of the URL, with the outer and the nested path. `badJar`
  stands for a URL that `decodeSource` refuses.
* A hash or fingerprint that nothing reads back is left out.

### ClassComparator: what has changed since the dump

`CompareClass` is one iteration of `compareClasses`. `StartRound` takes the two
collections at the head of the loop in `invalidByClassHierarchy`, `MarkClass` is one
candidate, `EndRound` the test for the fixed point and `NoRound` the two early exits.
`CompareNotFound` and `Prepare` follow the remaining loops. A class is a position of
the list, since two loaders may define one name.

`Inputs` is the set of what the constructor and `compare` may be given: the list as
`FingerprintFile` reads it and the map `ClassScanner` returns.

Properties. `HierarchyExact`: when the rounds are over the changed classes are
exactly `Affected`, the smallest set that holds those whose own files changed and is
closed downwards. `HierarchyClosed` and `BlameJustified` are its two halves as they
are seen in the report: nothing stale is kept, and no reason is given that does not
hold. `ReportExact`: every changed name, once. `ResultKept`: no step changes a reason
once found. `Termination`: the rounds come to an end.

### ProcessRunner: a child, its reader and its time-out

`calls` is the stack of `runProcess` frames together with what outlives them: one
entry for each call made, with the caller's position in it (`pc`), the child and the
thread that copies the log. `logs` is the content of the log files, a line being the
call that wrote it and a number; line 0 is the command that `printArgs` writes.

| code in `util/Utils.java` | actions |
|---|---|
| `runProcess` to the wait (111-143) | `RunProcess`, in `ClientCalls` or, for jstack, in `TimesOut` |
| the wait and what follows (156-168) | `WaitReturns` |
| the time-out (148-154) | `TimesOut`, `JstackReturns`, `JstackThrows` |
| the child | `ChildWrites`, `ChildExits` |
| `readProcessOutputWithThread` (80-96) | `ReaderReads`, `ReaderLooks` |

The caller, every child and every reader are interleaved. A child that was not killed
goes on beside the calls that follow, and writes to a log that they truncate.

Properties. `StrayExplained`: what `runProcess` leaves running is only what jstack
could not examine, since an exception from line 152 passes over `destroyForcibly`.
That is every command that hangs and is not a JVM. `ReportOwn`: the exception that
quotes the log of a failed command does not quote an earlier, finished one.
`ReadersEnd`: a reader ends once its child has, or the program never could.
`LogPrinted`, the claim of the comment on lines 137-139, does not hold: each turn of
the reader takes one line and then looks at the child, so what the child wrote last
stays unprinted when the look finds it dead.

Abstractions: a line is written at once; `BufferedReader` does not look ahead, which
would tell only when a later call truncates the log under a reader; opening and truncating the log and writing the
command is one step; `mkdirs`, `createNewFile` and the opening of the log succeed; a
time-out may strike at any moment while the child runs, whatever its length.

### StartupProbe: when to dump

`StartupProbe.main` with `getProbeConf`, the loop and `dump`. A probe is one step that
succeeds, or fails by a result or an exception, or throws an `Error`
(`Utils.readFile`), which the loop does not catch. `recent` is a history of outcomes,
`conf` is what is in the environment variable; `NoConf` is one that is missing or not
decoded.

| code in `probe/StartupProbe.java` | actions |
|---|---|
| `getProbeConf`, `getProbe` (67-105, 127-136) | `Configure`, `Reject` |
| the delay and the sleep (28-31, 37) | `Delay`, `Sleep` |
| a probe and the thresholds (38-59) | `Probe`, with `Judge`; `ProbeError` |
| `notifyFinishProfile`, `doDump` | `NotifyFinishProfile`, `DoDump` |

`ThresholdExact` is stated over the history: the loop stops at the first probe that
completes one of the two streaks, with that outcome. `LoopEnds`: it stops, for any
order of outcomes, which is due to line 82 alone: with two successes asked for,
outcomes that alternate would keep it going. The property excepts a time-out that
`timeoutSeconds * 1000` wraps to zero (`Untimed`), where a socket waits for ever; one
that wraps below zero fails each probe.

### ExecStartupProbe: the probe over child processes

Composes the two: `Loop == INSTANCE StartupProbe`, `Runner == INSTANCE ProcessRunner`
with one log. `Invoke` is the way into `runProcess` from `ExecProbe.isSuccess`,
`notifyFinishProfile` or `doDump`; `Return` the way back, with the step of the loop
that its outcome allows. `ImplementsLoop` is the refinement: the variables of the loop
are the same, and `Loop!Spec` with its fairness is the property. The part that is not
obvious is that a probe has an outcome although its command may never end.
`StraysBounded`: commands left running pile up, but each one has counted as a failure,
so there are never more than `failureThreshold`.

### SourceExtraction and CDSDumper: a dump on disk

`SourceExtraction` is `SourceDecoder.extractFatJar` and `extractFileDir` one file
operation at a time; `CDSDumper` is the process around it, from `main` to `close`.
Between any two steps the process may be killed (`Kill`): its memory is gone, the disk
is as it was, and the next dump works in the same directory. Between dumps a main jar
may be replaced (`Redeploy`). A file on disk is the main jar and the release it was
copied from, and whether the copy is whole.

| code | actions |
|---|---|
| `SourceDecoder.extractFatJar`, `extractFileDir` (215-306) | `CacheHit`, `Open`, `OpenFails`, `Create`, `Copy`, `WriteFails` |
| `SourceDecoder.mkdir` (308-318) | `MakeDirs` |
| `CDSDumper.main`, `dumpJSA` | `Start`, `PipelineFails`, `EndPipeline`, `Close` |
| `handleCompressedOopsAndClassPointers` (70-122) | `Scan`, one argument, `ScanFails`, `EndScan` |
| `runDumpJSA` (173-179) | `DumpSucceeds`, `DumpFails` |

`SourcesExact`: when the child is started, every source that was replaced names a file
that is whole and from the main jar as it is now, whatever earlier dumps left there; of
two main jars with the same nested name the first one asked for wins, since the cache
(216) does not know the main jar. `TempExact`: the directories on record are those this
process made, all of them, and none that was there before. `NoOopsForLargeHeap`: if the
application ran with 32 G or more, and so without compressed pointers, the archive is
dumped without. The code may say so for less, since any large size on the command line
counts and not the last one. `DecodesAsPipeline`: whatever the disk does, the pipeline's
model is right about an extraction; `DecodedSources`, `CacheExtracted` and `DecodeMayThrow`
of `ClassListTransform` are compared with the steps. `TempCleaned`, the claim of the
comment on line 208, does not hold: the `close` that is called is empty.

Not in it: `close` of the decoder (32-64), which nothing calls; the lookup of
`extractFileDir` in the cache, whose key never has the `/` that the entry's key ends with;
heap sizes the JVM derives by itself. A hexadecimal size that ends in A to F is one that
does not parse.

### ClassLoaderXMLParser, LoadClassAgent and LoaderRegistry: names for class loaders

`ClassLoaderXMLParser` is `registerClassLoader` with all that it calls. Every access to
`PARSED`, to `configs` and to the fields of the one SAX handler is a step of the call that
makes it, so calls interleave as threads do (in sequentially consistent order: the model
adds no reordering of the memory). A document is the sequence of events its parse reports
together with the elements it was written from; `configs` is a function over the class
names and null, since a class may be put as null when another call has cleared the field.

`LoadClassAgent` is the agent on top: `Agent_OnLoad` (`InitAgent`, `SetEventCallbacks`,
`SetEventNotificationMode`, `OnLoadFails`) and the callback (`Lookup` for one JVMTI or JNI
call, `LookupFails`, `CallStaticVoidMethod`, `Java`, `Return`). The VM posts the event of a
loader once, on any thread, and callbacks overlap as they like. `printed` are the callbacks
that printed an `AgentException`, `pending` those that leave an exception in their thread:
a `FindClass` or `GetStaticMethodID` that finds nothing does both, a Java method that throws
only the second.

| code | actions |
|---|---|
| `generateIdentifier` (188-191), `parse` | `CheckParsed`, `Read`, `ReadFails`, `EndParse`, `SetParsed` |
| `XMLParserHandler` (91-135) | `Characters`, `EndKlass`, `EndName`, `Validate`, `Put`, `Reset`, `EndClassLoaders`, `Malformed` |
| `generateIdentifier` (193-234) | `generateIdentifier` |
| `registerClassLoader` (237-251) | `registerClassLoader`, `Register`, `RegisterFails` |
| `HandleLoadClass` | `FirstClassLoadPrepare`, `Lookup`, `LookupFails`, `CallStaticVoidMethod`, `Java`, `Return` |

`RegisterFails` is a run-time without the two methods that `DragonwellUtils` looks up in its
static initializer (9-18): that throws an `Error`, the `catch (Exception e)` around the call
(247) lets it through, and the call fails although the rules are in force. A run-time that
has the methods (`supported`) and refuses a name ends in that `catch` (`Register`).

What first calls that overlap do to each other is one of two things, and the difference is
what the properties turn on. Several calls may have found `PARSED` false and still parse one
after the other, in time or late, when the rules are in force already; `Late` in the
invariant is such a parse. Or a parse begins within the events of another, and the two share
the fields of the one handler and fill one map: the history variable `mixed`, which no action
of the code reads, says that this has happened. Nothing in the code prevents either. The
properties are of every behaviour; what they say after mixed parses is less:

* `ParsedExact`: a document that is not well formed never comes into force. Unless parses were
  mixed, the rules in force are exactly those of a valid document, after any number of
  parses that failed half way or come late: the exception for the duplicates a retry finds
  in its own leftovers is what saves it, as an element that is met again replaces its entry
  before it throws.
* `ConfigsFrozen`: rules in force stay in force, and unless parses are mixed they stay what
  they are. This is not the test of `PARSED`: a late parse puts its first entry into the map that
  other calls read, and fails there because the entry was there, with the same value.
  Its mutant clears the map when a parse begins, as a retry might well do.
* `SilentMeansNamed`: a callback that returns without a message and without a pending exception
  has, unless parses were mixed, found its loader's name given, or taken by another, or none
  to give.
* `ImplementsRegistry`: the calls look as `LoaderRegistry` says, with its liveness. There, a call
  that finds no rules loads them as a whole or fails, several may load at once, and one that
  finds them gives its loader the name they give it, if the run-time can. `Mix`, which needs
  two calls that are loading, lets the rules be anything from then on; each call is still
  answered once, only after rules were loaded, with a name no other loader has.
* `CallbacksReturn`: the thread that loads the class goes on, whatever failed.

What mixed parses do is shown by `class_loader_race`: `RegisteredAsConfigured`, that a call
which ended has given its loader the name of a valid configuration, does not hold, and a
loader of the default configuration is left without its name. The failed call is not
repeated, since the VM posts its event once. One access to `configs` is one step; two `put`s into one
`HashMap` at the same moment could do worse than the model shows, and only after parses were mixed.

What the reader of a configuration should know, and the model has: the order of a name is
class, jar paths, field, unique name, where `classloader-config.xml:29` has the field before the
paths, and the paths bring the class name along again (180). The text of an element is the
last text the parser met (95-98), so that an empty element directly after another takes the
other's text; the documents of the run are printed with white space, as the default one is,
and have a leaf only inside an element.

### ClassScan and DiffPipeline: the static diff, end to end

`ClassScan` is `ClassScanner.doScan`: a line, a jar, a nested jar at a time, in any order
the directory lists them, with the temporary directory a fat jar is unpacked to. Any step
may fail and end the program. A class entry is found under the name of its entry less a
release prefix, a class file on disk under the name it has for itself, so that what is below
`BOOT-INF/classes` is found twice under two names.

`DiffPipeline` composes it with the two modules above, one after the other:
`Transform == INSTANCE ClassListTransform`, `Comparator == INSTANCE ClassComparator`. What
it adds is `FingerprintFile`: the owner file that `getOwnerFile` makes of an origin, and
what `format` spells and `parse` reads back (`-` for no super and for no interfaces, `null`
for no fingerprint). `Dump`, `Scan`, `StartCompare` and `Compare` are the phases.

`TypeOK` includes that what the comparator is handed is what `ClassComparator` assumes, and
so what its theorems are about. `ScanExact`: a scan that returns has found every class file
down to the jars in the jars, and nothing else, and has deleted what it unpacked.
`DiffSound`: every archived class that is gone from its place, or is below one that is along
classes from files, is reported, and so is a class archived as missing that there is now.
It is stated from the lines, the final list and the application; between these and the
report stand the renumbering, the rejected classes with their mixed ids, the file and the
scan. `DiffQuiet`: an unchanged application is not reported, if every class in the file can
be traced to a class file at the place it was loaded from.

Two limits of the diff that the properties exclude by name. Two jars of one file name are
taken for one multi-release jar (`ClassComparator.java:143`), so a change in one may be
hidden by the other. `DistinctFiles` says that among the jars the scan reads and the files
classes were loaded from no two share a name, and that none is called `class-dummy`. A class
from a directory in a fat jar is `class-dummy` to the scan and `classes` to the file, so it is
matched only while no other file holds a class of its name, and a class generated at run time
has no file at all. `Traceable` says that a class is in a jar that is read, or in a fat jar
that is unpacked and then the only class file found under its name. The names reported
as no longer missing are not part of `DiffQuiet`: the file lists every class that some loader
did not find, those another loader did find too.

Not in it: options and variables (`--var-`), the header and the total, fields that hold a
comma.

## The runs

| run | instance | what it shows |
|---|---|---|
| `classlist_hierarchy` | class lists of up to 5 of 9 lines, static diff on | `WrittenClosed`, `WrittenExact`, `FingerprintComplete`, types |
| `classlist_loaders` | class lists of up to 4 of 11 lines, static diff off | `WrittenIdsIncrease`, `InitiatingExact`, `NotFoundExact`, `Termination` |
| `class_comparator` | 4 classes in two orders; 2 classes under every scan | the comparator's properties |
| `startup_probe` | configurations on both sides of every test, ints of 16 bits | `ThresholdExact`, `LoopEnds` |
| `process_runner` | 2 calls, with their jstacks, on one log; 1 line for each child | `StrayExplained`, `ReportOwn` |
| `process_runner_log` | 1 call, 2 lines | `LogPrinted` is violated |
| `exec_startup_probe` | up to 2 failures, no output | `ImplementsLoop`, `StraysBounded`, `ReadersEnd` |
| `class_loader_config` | 2 loaders of one class, 27 documents of 6 rules, both kinds of run-time | `ImplementsRegistry`, `ParsedExact`, `ConfigsFrozen`, `SilentMeansNamed`, `CallbacksReturn` |
| `class_loader_race` | 2 loaders of two classes, the default document, no failures from outside | `RegisteredAsConfigured` is violated |
| `cds_dumper` | 2 dumps, 2 main jars, 4 files, heaps around 32 G | `SourcesExact`, `TempExact`, `NoOopsForLargeHeap`, `DecodesAsPipeline` |
| `cds_dumper_cleanup` | the same | `TempCleaned` is violated |
| `diff_pipeline` | class lists of up to 4 of 8 lines, 9 applications | `ScanExact`, `DiffSound`, `DiffQuiet` |

Bounds. `MaxLines` is the only bound on the pipeline. Five lines after which two
addresses have each been taken by several classes give `java/lang/Object`, a parent,
a class that reuses its address, a child of either, and a grandchild; the set of
lines holds every form of source the decoder tells apart, a reference forwards, and
two main jars with one nested name. Four lines of the second set give two loaders
for one name in both orders, two lines that complete one record, a record that takes
over a key, and every way to end. The comparator's deep inputs have chains of three
inheritance steps and diamonds, listed with parents first and last, so several
rounds are needed; its wide inputs have all sets of up to two files under a name. The
theorems below carry most of the properties to every size.

`MaxCalls` and `MaxLines` of `ProcessRunner` bound the client and the output. Two calls
are needed for a child of the first to write into the log of the second, and are enough
for a failure to quote it; one line tells whose it is. With one call and two lines the
tail of the log can be lost behind a line that was printed. `Window` is the length of
the longest streak; `IntBits` is 16 so that 33 seconds overflow into a negative number
and 8192 seconds into zero, as 2147484 and 536870912 seconds do with 32 bits. Two
failures give two commands left running beside jcmd or the dump.

The two loaders of `class_loader_config` are of one class, so that their names collide, and one
of them is a `URLClassLoader` without the field that the other has, so that each rule about
their class fits one at least. The documents are six rules alone, six pairs of them, and the default pair cut off
after each of its events. Among them are two rules for one class, one without a class, one
without a name, before and after a good one, and rules that do not fit one of the loaders. Two
callbacks give every pair the properties turn on: a parse that fails and one that meets its
leftovers, one that succeeds and one that comes late, two that are mixed, two names that
collide. The theorems below are for any number of loaders and documents.

`MaxRuns` is 2: what a dump finds on disk is
what the one before it left, and `MaxGeneration` 1 lets a jar be replaced between them. Of
the four files two are nested in both main jars; chains of two directories can be left half
made. `KB` is 2 and `Modulus` 2^12, so that 32 G is 256, and 256 T wraps to zero as 2^24 T
does in a long. In `diff_pipeline` four lines give `java/lang/Object` and a chain of three, with
a class in the middle that may be rejected, not be from a file, or take over an address;
`MaxLines` is the bound. The applications are that of the profile, one with each of its
class files changed, one without a jar, one with a class that was missing, one that is ill
formed and one with two jars of one name.

`CHECK_DEADLOCK FALSE`: all these programs end.

Every property has a mutant: a definition beside the one it replaces, marked
`Mutant:`, that changes it as a plausible slip would. `PROJECT.json` pairs them, and
TLC finds the property violated under each.

In `LoadClassAgent` each callback is fair, since a thread in it waits for nothing, and the
VM need not load any class. The dumper and the static diff have no fairness: no liveness is
claimed of them beyond that of their parts.

Fairness of the pipeline and the comparator is `WF_vars(Next)`: one thread runs the
code and nothing in it waits. In the process runner each thread is fair, a killed
process dies, and jstack ends, since it gives up on a process that does not answer; it
has no time-out of its own (line 152), so this is an assumption about jstack. Nothing
is assumed of any other child: a command may hang, as may jcmd or the dump, and no
property says that the program reaches its end. For a socket or HTTP probe, `Answer`
assumes that a time-out is one; a server that sends its answer a byte at a time is
outside of that.

## The proofs

All invariants of the passing runs, their action properties and the safety of both
refinements are theorems: they hold for all values of the constants, from the named
assumptions below and nothing else. TLC checked each invariant named here on a run before
it was proved.

### What is assumed

| module | assumptions |
|---|---|
| `ClassListTransform` | `ConstantsAssumption`: an address is no decimal number, and null is nothing else. `LinesAssumption`: the addresses a line names are those of classes that are alive together, so they differ; `java/lang/Object` has no interfaces |
| `ClassComparator` | `InputsAssumption`: inputs have their types; null is neither an id nor a result |
| `StartupProbe` | `ConfsAssumption`: configurations have their types |
| `ProcessRunner` | `LogsAssumption`: the log of jstack (`jstack.log`) is none of the logs in use; the bounds are numbers |
| `ExecStartupProbe` | `ExecAssumption`: the two above, and `Window` is at least every threshold, so that neither history is cut |
| `SourceExtraction`, `CDSDumper` | `SourceAssumption`: null is no source. `DumperAssumption`: the same file is always asked for in the same form (a `.jar` is a nested jar, anything else a class file); `KB` and `Modulus` are widths |
| `ClassLoaderXMLParser`, `LoadClassAgent` | `ConstantsAssumption`, `AgentAssumption`: types. `NamesAssumption`: null is no name. `DocumentsPrinted`: each leaf is in an element and on a line of its own, as in `classloader-config.xml`, and the text may end anywhere |
| `ClassScan` | `ScanAssumption`: types; what is on a disk is finite |
| `DiffPipeline` | `PipelineAssumption`: those of the pipeline; a jar's file name is the last component of its path; a line with a file for its origin has a source; a directory in a jar is not itself a jar; a fingerprint is neither null nor the text `null`, and `-` is no id |

`DocumentsPrinted` is more than types. `characters` is never reset between elements
(`ClassLoaderXMLParser.java:95`), so in a document without white space an element without
text has the text of the one before it; with white space, that text is blank. A leaf behind
the last element would be kept in the handler for a parse that comes late. What a
configuration without white space gives its loaders is outside of the theorems.

### The class list: `ClassListTransform_proofs`

`TypeCorrect`; `Inductive`, from which `Closed` (`WrittenClosed`) and `IdsIncrease`
(`WrittenIdsIncrease`) follow; and `Exact`, from which follow `WrittenAreKept`
(`WrittenExact`), `FingerprintsComplete`, `InitiatingFirst` and `NotFoundAreMissed`.

`WrittenClosed` speaks of lines, and nothing of what the decoder did is in them, so
`IndInv` says what each worker leaves to the next: undecoded records are raw and do
not refer to themselves (`RawInv`); a decoded record's id is its position and the
counter is ahead of all ids (`NumberInv`); the parents of a valid decoded record are
valid records before it (`ParentInv`); not-found ids follow, in order
(`NotFoundInv`); the lines written are those of the valid records so far
(`WriteInv`). `RawInv` is where `LinesAssumption` enters: a record is registered
under its address before its parents are looked up, so a class that named its own
address as a parent would resolve to itself.

`ExactInv` says what every collection holds, as a function of the lines read and the verdicts
alone: the record of each line that defines a class (`PositionInv`, `RecordInv`), the latest record
under each key and the first line that completes a record (`KeyInv`, `CompletionInv`),
the latest record under each address (`AddressInv`), which records
are rejected and why (`ValidInv`), the two loader sets (`LoaderInv`), the not-found classes
(`MissedInv`), the list and the file (`OutInv`, `FileInv`). TLC checks it on both instances,
the first with four lines. `WrittenExact` then asks that the
valid records are the largest closed set: they are closed, by `ValidInv`, and that a closed
set has no rejected record is shown for the first record of it that would be, whose
parents come before it. Such arguments take the least or the last element of a set of numbers
(`NatMin`, `LastOf`) instead of an induction, which the prover cannot instantiate.

### The comparator: `ClassComparator_proofs`

All safety properties. `CompareInv` says which classes have
a result, `OwnInv` that a result of its own is kept and SAME is one, `SoundInv` that
whatever is changed is in `Affected`, `RoundInv` what a round has left to do: if it
has updated nothing, the candidates visited have no parent among the changed ones,
which is what makes the last round the proof of `HierarchyClosed`. `HierarchyExact`
then needs no induction over the hierarchy: `Changed` is one of the closed sets that
`Affected` is the intersection of, and `SoundInv` gives the other inclusion.
`NotFoundReported` is for the pipeline below: `NotFoundInv` says which of the names archived
as not found have been reported.

### The probe: `StartupProbe_proofs`, `ProcessRunner_proofs`, `ExecStartupProbe_proofs`

`TypeCorrect` and `Thresholds` (`ThresholdExact`). The counters alone do not say what the
history is. The invariant
uses that one success ends the loop: while it runs, `recent` holds failures only, and
`consecutiveFail` is its length (`CountInv`).

`TypeCorrect`, `Strays` (`StrayExplained`) and `Reports`
(`ReportOwn`), for any number of calls, logs and lines. The type of a call says which calls have
a child and which a reader: a call whose `start()` threw has failed and has neither, and of the
others the verbose ones have a reader.
`PhaseInv` and `NestInv` say how frames nest: only the last call waits, and the others
not done have a jstack after them. `AliveInv` says that a child that may still write is
that of the last call or was timed out of, and `LogInv` follows it into the logs: the
lines of a log come from its last user or from a child whose end was not waited for.

For the composition, `TypeCorrect`, `FewStrays` (`StraysBounded`) and `ImplementsLoopSafely`.
The theorems of the two parts hold of it through INSTANCE. Added to them, `CallingInv` says
that the loop waits for the last call, and that it is a probe's if it has a time-out;
`StrayInv` that a command left running belongs to a call that failed, and is counted among the
failures of the loop as soon as that call has returned. `StraysBounded` compares with `failureThreshold` only if something was left
running, since a configuration that is rejected may have a negative one.
`ImplementsLoopSafely` is the initial states and the steps of `ImplementsLoop`.

### The dump: `CDSDumper_proofs`

`TypeCorrect`, `Sources` (`SourcesExact`), `TempFilesExact`, `NoOops`
(`NoOopsForLargeHeap`) and `DecodesAtomically` (`DecodesAsPipeline`), for any number of
dumps, kills and redeployments. The disk is where the difficulty is: a file may be half
written, by this process or by one that was killed, or be of a release that is gone.
`ExtractInv` says that a file some request has extracted is whole and current unless the
request at the cursor is writing it, and which request it is from: the first one if it is a
nested jar, which the cache holds, and the last one if it is a class file, which is written
again each time. That a file is always of one form is `RequestInv`. `TempExact` is inductive.
`ScanInv` says that as long as the flag is not set no argument passed was large.
`DecodesAtomically` is the third refinement: the steps on the disk up to an answer are
stutters of `DecodedSources`, the answer is its step.

### The agent: `LoadClassAgent_proofs`

`TypeCorrect`, `Parsed` (`ParsedExact`), `Frozen` (`ConfigsFrozen`), `Silent`
(`SilentMeansNamed`) and `ImplementsRegistrySafely`, for any number of loaders, any documents,
and callbacks that overlap in any way: the theorems are of `Spec`, with no assumption about
the order of calls. `mixed` is in the properties, where the section on the modules explains it.
The invariant has five parts. `CallInv` says where each callback is. `TextInv` holds of mixed
parses too: no parse passes an error of the text, so one that ends has read a well-formed
document. `ParseInv` speaks of parses that are not mixed: at most one is within its events, and
before any has ended it either began with an empty map, which holds the elements it has
passed (`Clean`), or an earlier one left its first element behind, and then it throws at that
element at the latest (`Leftover`, `Doomed`). So a parse that ends began clean, which is
`ParsedExact`. From then on (`Settled`) a parse is `Late`: the first element is in the map, the
handler holds nothing but that element's values, and so what it puts before it throws is the
entry that is there (`LatePut`), which is `ConfigsFrozen`. `NameInv` follows a call from the
rules to the name it registers. `ImplementsRegistrySafely` is the initial states and the steps of
`ImplementsRegistry`: what a parse does is a stutter up to its end, but for the begin of one
within another, which is `Mix`.

### The static diff: `DiffPipeline_proofs`

`ScansExactly` (`ScanExact`), from `ScanInv`: what is found so far is a function of the lines,
jars and nested jars that are no longer to do (`FoundInv`), and `PhaseInv` says which those
are in each loop. `TypeCorrect`, `Sound` (`DiffSound`) and `Quiet` (`DiffQuiet`), from
`PipelineInv`. It consists of the invariants of the three parts and `HandOverInv`, which says
what each hands to the next; the theorems of `ClassListTransform_proofs` and
`ClassComparator_proofs` are used through INSTANCE, not proved again.

Three facts join the parts. The file is read back as what was described: `Parse` undoes
`Format` for records of the pipeline, among them those of rejected classes, whose ids are
partly addresses, and this is also why `TypeOK` holds. `Exact` of the pipeline says which
class a described record is and where it was loaded from. `ScanExact` says what the scan
holds under its name. For `Sound`, the described classes with a result other than SAME are then one of the
closed sets that `Outdated` is the intersection of, so no induction along the hierarchy is
needed. For `Quiet`, each traceable class is found once with its fingerprint (which is where
finiteness is used, `found once` being a cardinality), so the empty set is one of the
closed sets that `Affected` is the intersection of.

### Only model-checked

`Termination` of the pipeline and of the comparator, `LoopEnds`, `ReadersEnd`,
`CallbacksReturn` and the fairness in `ImplementsLoop` and `ImplementsRegistry`: liveness is
beyond the prover's reach. The three runs that expect a violation have nothing to prove.

## What is not modelled, and the plan

All components with behaviour of their own have a module now. Within them:

* option parsing in `StartupProbe`, `DiffClasses` and `CDSDumper`; which arguments of the
  application `runDumpJSA` removes before it starts the child;
* the wording of console output and logs, the layout of the report (grouping, sorting,
  header), fields with separators in them;
* `SourceDecoder.close`, `ZipHelper.zipTo` and `ClassCDSDesc`'s old format, which nothing calls;
* the JNI and JVMTI headers under `cpp/include`, which are the JDK's and declare an interface
  that the agent uses (its uses are in `LoadClassAgent`), and the build files.

No safety property of a passing run is left to prove. What could be proved next:

* what holds without the two assumptions that an input could break: for a class list with a
  line that names its own address as a parent, and for a document without white space;
* about the comparator without `DistinctFiles`: which changes two jars of one file name hide
  (`ClassComparator.java:143`), as an exact condition in place of an exclusion.
