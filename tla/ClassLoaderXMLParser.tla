------------------------- MODULE ClassLoaderXMLParser -------------------------
(***************************************************************************)
(* com.alibaba.jvm.util.classnames.ClassLoaderXMLParser: registerClassLoader *)
(* gives a class loader the name the configuration gives its class.  The   *)
(* first call parses the configuration; PARSED, configs and the SAX        *)
(* handler are static and nothing guards them, so the accesses of          *)
(* different calls may come in any order.                                  *)
(*                                                                         *)
(* The VM announces the first class of a loader once, so a call is known   *)
(* by its loader.  Where a call stands, pc:                                *)
(*   "check"      if (!PARSED)              "open"    parse, readContent   *)
(*   "event"      at event[l] of the parse  "put"     configs.put          *)
(*   "reset"      the fields are cleared    "parsed"  PARSED = true        *)
(*   "name"       the rest of generateIdentifier                           *)
(*   "register"   Utils.registerClassLoader                                *)
(* and then how it ended: "registered", "refused", "ignored" (no name for  *)
(* its class) or "failed" (an exception or an Error).                      *)
(*                                                                         *)
(* A document is the events its parse reports, with the <classloader>      *)
(* elements it was written from.                                           *)
(***************************************************************************)
EXTENDS Naturals, Sequences

CONSTANTS
    Loaders,
    Strings,            \* names of classes and fields, unique names, "true"
    Jars,               \* jar paths of a URLClassLoader
    Values,             \* values of fields
    NONE,               \* null, no entry
    INVALID,            \* the rule of its class cannot name the loader
    LoaderInfo,         \* what a loader is
    Documents,          \* a sequence of documents
    ReadMayFail         \* may opening or reading the file throw?

Config == [fieldName : Strings \cup {NONE}, appendJarPathsAsName : BOOLEAN,
           uniqueName : Strings \cup {NONE}]

NoConfig == [fieldName |-> NONE, appendJarPathsAsName |-> FALSE, uniqueName |-> NONE]

Element == [klass : Strings \cup {NONE}, config : Config]

Leaves == {"klass", "fieldName", "appendJarPathsAsName", "uniqueName"}

\* characters with text, NONE for white space; endElement with a tag; the
\* exception for a document that is not well formed.
Event == [kind : {"characters"}, value : Strings \cup {NONE}]
    \cup [kind : {"end"}, value : Leaves \cup {"classloader", "classloaders"}]
    \cup [kind : {"error"}, value : {NONE}]

\* Its elements are those that are ended, the n-th by events[ends[n]].
Document == [events : Seq(Event), elements : Seq(Element), ends : Seq(Nat)]

\* What the text before the end of a leaf makes of its field: Boolean.parseBoolean,
\* which is FALSE for null, or the text itself.
FieldValue(tag, text) == IF tag = "appendJarPathsAsName" THEN text = "true" ELSE text

\* The value of a field in a new handler.
Blank(tag) == IF tag = "appendJarPathsAsName" THEN FALSE ELSE NONE

FieldOf(element, tag) == IF tag = "klass" THEN element.klass ELSE element.config[tag]

\* The events of the n-th element.
Within(d, n) == {k \in 1..Len(d.events) : k <= d.ends[n] /\ (n > 1 => d.ends[n - 1] < k)}

EndsLeaf(d, n, tag) == {k \in Within(d, n) : d.events[k] = [kind |-> "end", value |-> tag]}

\* A field has the text its leaf encloses, and the leaf is preceded by text or
\* white space of its own; a field without a leaf is blank.
PrintedLeaf(d, n, tag) ==
    /\ EndsLeaf(d, n, tag) = {} => FieldOf(d.elements[n], tag) = Blank(tag)
    /\ \A k \in EndsLeaf(d, n, tag) :
          /\ k - 1 \in Within(d, n) /\ d.events[k - 1].kind = "characters"
          /\ FieldOf(d.elements[n], tag) = FieldValue(tag, d.events[k - 1].value)

\* A document written as the default configuration is: each leaf is in an
\* element, on a line of its own.  The text may be cut off anywhere.
PrintedDocument(d) ==
    /\ Len(d.ends) = Len(d.elements)
    /\ \A n \in 1..Len(d.ends) : d.ends[n] \in 1..Len(d.events)
    /\ \A m, n \in 1..Len(d.ends) : m < n => d.ends[m] < d.ends[n]
    /\ \A k \in 1..Len(d.events) :
          d.events[k] = [kind |-> "end", value |-> "classloader"]
             <=> \E n \in 1..Len(d.ends) : d.ends[n] = k
    /\ \A n \in 1..Len(d.ends), tag \in Leaves : PrintedLeaf(d, n, tag)
    /\ \/ \E k \in 1..Len(d.events) : d.events[k].kind = "error"
       \/ \A k \in 1..Len(d.events) :
             d.events[k].kind = "end" /\ d.events[k].value \in Leaves =>
                \E n \in 1..Len(d.ends) : k \in Within(d, n)

ASSUME ConstantsAssumption ==
    /\ \A d \in DOMAIN Documents : Documents[d] \in Document
    /\ LoaderInfo \in [Loaders -> [klass : Strings, jars : Jars \cup {NONE},
                                   fields : [Strings -> Values \cup {NONE}]]]
    /\ NONE \notin Strings \cup Jars \cup Values \cup Config
    /\ ReadMayFail \in BOOLEAN

ASSUME DocumentsPrinted == \A d \in DOMAIN Documents : PrintedDocument(Documents[d])

VARIABLES
    document,    \* the file at xmlPath, or the resource
    supported,   \* has the run-time the two methods DragonwellUtils looks up?
    PARSED,
    configs,
    klass, config, characters,   \* the fields of the SAX handler
    pc,
    event,       \* the next event of the parse each call makes
    identifier,
    registered,  \* the names the run-time holds
    mixed        \* history: has a parse begun within the events of another?

fieldVars == <<klass, config, characters>>
parserVars == <<document, supported, PARSED, configs, fieldVars, pc, event, identifier,
                registered, mixed>>

Finished == {"registered", "refused", "ignored", "failed"}

Calling(l) == pc[l] \notin Finished \cup {"idle"}

ParserInit ==
    /\ document \in DOMAIN Documents /\ supported \in BOOLEAN
    /\ PARSED = FALSE /\ mixed = FALSE
    /\ configs = [k \in Strings \cup {NONE} |-> NONE]
    /\ klass = NONE /\ config = NoConfig /\ characters = NONE
    /\ pc = [l \in Loaders |-> "idle"]
    /\ event = [l \in Loaders |-> 1]
    /\ identifier = [l \in Loaders |-> NONE]
    /\ registered = [l \in Loaders |-> NONE]

Goto(l, where) == pc' = [pc EXCEPT ![l] = where]

-----------------------------------------------------------------------------
(* parse *)

registerClassLoader(l) ==
    /\ pc[l] = "idle"
    /\ Goto(l, "check")
    /\ UNCHANGED <<document, supported, PARSED, configs, fieldVars, event, identifier,
                   registered, mixed>>

\* Mutant: the flag is set before the parse it stands for.
CheckParsedEarly(l) ==
    /\ pc[l] = "check"
    /\ Goto(l, IF PARSED THEN "name" ELSE "open")
    /\ PARSED' = TRUE
    /\ UNCHANGED <<document, configs, fieldVars, event, identifier, registered>>

CheckParsed(l) ==
    /\ pc[l] = "check"
    /\ Goto(l, IF PARSED THEN "name" ELSE "open")
    /\ UNCHANGED <<document, PARSED, configs, fieldVars, event, identifier, registered>>

\* Mutant: what an earlier parse has left is thrown away before the next.
ReadAfresh(l) ==
    /\ pc[l] = "open"
    /\ Goto(l, "event") /\ event' = [event EXCEPT ![l] = 1]
    /\ configs' = [k \in Strings \cup {NONE} |-> NONE]
    /\ UNCHANGED <<document, PARSED, fieldVars, identifier, registered>>

\* The whole file is read before the first event.
Read(l) ==
    /\ pc[l] = "open"
    /\ Goto(l, "event") /\ event' = [event EXCEPT ![l] = 1]
    /\ UNCHANGED <<document, PARSED, configs, fieldVars, identifier, registered>>

\* Mutant: reading is tried until it succeeds.
ReadFailsRetry(l) ==
    /\ pc[l] = "open" /\ ReadMayFail
    /\ Goto(l, "check")
    /\ UNCHANGED <<document, PARSED, configs, fieldVars, event, identifier, registered>>

\* FileNotFoundException, IOException, or a file of 1048576 characters.
ReadFails(l) ==
    /\ pc[l] = "open" /\ ReadMayFail
    /\ Goto(l, "failed")
    /\ UNCHANGED <<document, PARSED, configs, fieldVars, event, identifier, registered>>

Events == Documents[document].events

\* The next event of l's parse is e.
At(l, e) ==
    /\ pc[l] = "event" /\ event[l] <= Len(Events)
    /\ Events[event[l]] = e

Advance(l) == event' = [event EXCEPT ![l] = @ + 1]

\* Trimmed; null when nothing is left.
Characters(l) ==
    /\ \E text \in Strings \cup {NONE} :
          /\ At(l, [kind |-> "characters", value |-> text])
          /\ characters' = text
    /\ Advance(l)
    /\ UNCHANGED <<document, PARSED, configs, klass, config, pc, identifier, registered>>

EndKlass(l) ==
    /\ At(l, [kind |-> "end", value |-> "klass"])
    /\ klass' = characters
    /\ Advance(l)
    /\ UNCHANGED <<document, PARSED, configs, config, characters, pc, identifier, registered>>

EndName(l) ==
    /\ \E tag \in Leaves \ {"klass"} :
          /\ At(l, [kind |-> "end", value |-> tag])
          /\ config' = [config EXCEPT ![tag] = FieldValue(tag, characters)]
    /\ Advance(l)
    /\ UNCHANGED <<document, PARSED, configs, klass, characters, pc, identifier, registered>>

\* The two checks of the end of a <classloader>; NullPointerException.
Validate(l) ==
    /\ At(l, [kind |-> "end", value |-> "classloader"])
    /\ Goto(l, IF klass = NONE \/ config = NoConfig THEN "failed" ELSE "put")
    /\ UNCHANGED <<document, PARSED, configs, fieldVars, event, identifier, registered>>

\* The entry is replaced even when the exception is thrown.  Fields another
\* call has cleared meanwhile make an entry for null.
Put(l) ==
    /\ pc[l] = "put"
    /\ configs' = [configs EXCEPT ![klass] = config]
    /\ Goto(l, IF configs[klass] # NONE THEN "failed" ELSE "reset")
    /\ UNCHANGED <<document, PARSED, fieldVars, event, identifier, registered>>

\* Mutant: the names of one element stay for the next.
ResetKlassOnly(l) ==
    /\ pc[l] = "reset"
    /\ klass' = NONE
    /\ Goto(l, "event") /\ Advance(l)
    /\ UNCHANGED <<document, PARSED, configs, config, characters, identifier, registered>>

Reset(l) ==
    /\ pc[l] = "reset"
    /\ klass' = NONE /\ config' = NoConfig
    /\ Goto(l, "event") /\ Advance(l)
    /\ UNCHANGED <<document, PARSED, configs, characters, identifier, registered>>

EndClassLoaders(l) ==
    /\ At(l, [kind |-> "end", value |-> "classloaders"])
    /\ Advance(l)
    /\ UNCHANGED <<document, PARSED, configs, fieldVars, pc, identifier, registered>>

\* SAXException
Malformed(l) ==
    /\ At(l, [kind |-> "error", value |-> NONE])
    /\ Goto(l, "failed")
    /\ UNCHANGED <<document, PARSED, configs, fieldVars, event, identifier, registered>>

EndParse(l) ==
    /\ pc[l] = "event" /\ event[l] > Len(Events)
    /\ Goto(l, "parsed")
    /\ UNCHANGED <<document, PARSED, configs, fieldVars, event, identifier, registered>>

SetParsed(l) ==
    /\ pc[l] = "parsed"
    /\ PARSED' = TRUE /\ Goto(l, "name")
    /\ UNCHANGED <<document, configs, fieldVars, event, identifier, registered>>

ParseStep(l) ==
    \/ CheckParsed(l) \/ Read(l) \/ ReadFails(l)
    \/ Characters(l) \/ EndKlass(l) \/ EndName(l) \/ Validate(l) \/ Put(l) \/ Reset(l)
    \/ EndClassLoaders(l) \/ Malformed(l) \/ EndParse(l) \/ SetParsed(l)

-----------------------------------------------------------------------------
(* generateIdentifier, registerClassLoader *)

Part(x) == IF x = NONE THEN << >> ELSE <<x>>

\* Jar paths do not name a loader that is no URLClassLoader, and a field is
\* looked for in the loader's own class only.
Identifier(l, c) ==
    LET info == LoaderInfo[l]
        jars == IF c.appendJarPathsAsName THEN Part(info.jars) ELSE << >>
        field == IF c.fieldName = NONE THEN << >> ELSE <<info.fields[c.fieldName]>>
    IN  IF \/ c.appendJarPathsAsName /\ info.jars = NONE
              /\ c.fieldName = NONE /\ c.uniqueName = NONE
           \/ c.fieldName # NONE /\ info.fields[c.fieldName] = NONE
        THEN INVALID
        ELSE <<info.klass>> \o jars \o field \o Part(c.uniqueName)

\* Mutant: a rule that does not fit the loader is applied all the same.
generateIdentifierAnyway(l) ==
    /\ pc[l] = "name"
    /\ LET c == configs[LoaderInfo[l].klass]
       IN  IF c = NONE THEN Goto(l, "ignored") /\ UNCHANGED identifier
           ELSE Goto(l, "register") /\ identifier' = [identifier EXCEPT ![l] = Identifier(l, c)]
    /\ UNCHANGED <<document, PARSED, configs, fieldVars, event, registered>>

generateIdentifier(l) ==
    /\ pc[l] = "name"
    /\ LET c == configs[LoaderInfo[l].klass]
       IN  IF c = NONE THEN Goto(l, "ignored") /\ UNCHANGED identifier
           ELSE IF Identifier(l, c) = INVALID THEN Goto(l, "failed") /\ UNCHANGED identifier
           ELSE Goto(l, "register") /\ identifier' = [identifier EXCEPT ![l] = Identifier(l, c)]
    /\ UNCHANGED <<document, PARSED, configs, fieldVars, event, registered>>

\* The run-time refuses a name it holds; the exception is only printed.
Register(l) ==
    /\ pc[l] = "register" /\ supported
    /\ IF \E m \in Loaders : registered[m] = identifier[l]
       THEN Goto(l, "refused") /\ UNCHANGED registered
       ELSE /\ registered' = [registered EXCEPT ![l] = identifier[l]]
            /\ Goto(l, "registered")
    /\ UNCHANGED <<document, PARSED, configs, fieldVars, event, identifier>>

\* The static initializer of DragonwellUtils throws an Error, which is no
\* Exception and leaves registerClassLoader.
RegisterFails(l) ==
    /\ pc[l] = "register" /\ ~supported
    /\ Goto(l, "failed")
    /\ UNCHANGED <<document, PARSED, configs, fieldVars, event, identifier, registered>>

Parsing(l) == pc[l] \in {"event", "put", "reset"}

\* The events of l's parse begin within those of another.
Mixes(l) == pc[l] = "open" /\ pc'[l] = "event" /\ \E m \in Loaders : Parsing(m)

CallStep(l) ==
    /\ ParseStep(l) \/ generateIdentifier(l) \/ Register(l) \/ RegisterFails(l)
    /\ mixed' = (mixed \/ Mixes(l))
    /\ UNCHANGED supported

-----------------------------------------------------------------------------
(* Properties.  Calls overlap as they like.  Two parses may each have found  *)
(* PARSED false and still follow one another: one that comes late parses     *)
(* into the rules in force.  What is left of the properties when the events  *)
(* of two parses come mixed into the one handler is said by mixed.           *)

WellFormed(d) == \A i \in DOMAIN d.events : d.events[i].kind # "error"

\* What a document says: every element names a class and a name, no class
\* has two, and the text is well formed.
ValidDocument ==
    [d \in DOMAIN Documents |->
        LET es == Documents[d].elements
        IN  /\ \A i \in DOMAIN es : es[i].klass # NONE /\ es[i].config # NoConfig
            /\ \A i, j \in DOMAIN es : es[i].klass = es[j].klass => i = j
            /\ WellFormed(Documents[d])]

MeaningOf ==
    [d \in DOMAIN Documents |->
        LET es == Documents[d].elements
        IN  [k \in Strings \cup {NONE} |->
                IF \E i \in DOMAIN es : es[i].klass = k
                THEN es[CHOOSE i \in DOMAIN es : es[i].klass = k].config
                ELSE NONE]]

Valid == ValidDocument[document]

Meaning == MeaningOf[document]

\* The name each document gives each loader.
NamesOf ==
    [d \in DOMAIN Documents |-> [l \in Loaders |->
        LET c == MeaningOf[d][LoaderInfo[l].klass]
        IN  IF ~ValidDocument[d] \/ c = NONE THEN NONE ELSE Identifier(l, c)]]

NameFor(l) == NamesOf[document][l]

Identifiers == {Identifier(l, c) : l \in Loaders, c \in Config} \ {INVALID}

\* null is no name.
ASSUME NamesAssumption == NONE \notin Identifiers

\* A document that is not well formed never comes into force, and unless
\* parses were mixed the rules in force are exactly those of a valid document,
\* whatever parses failed before or come late.
ParsedExact ==
    PARSED => /\ WellFormed(Documents[document])
              /\ ~mixed => Valid /\ configs = Meaning

\* A call that ended found the rules of a valid document: its loader has the
\* name they give, unless another loader took it.
RegisteredAsConfigured ==
    \A l \in Loaders :
        Valid /\ supported /\ pc[l] \in Finished /\ NameFor(l) \notin {NONE, INVALID} =>
            \/ registered[l] = NameFor(l)
            \/ \E m \in Loaders \ {l} : registered[m] = NameFor(l)

\* Rules in force stay, and stay what they are: a late parse, of a call that
\* had found PARSED false, puts an entry in the place of its like and throws,
\* unless another parse is mixed with it.
ConfigsFrozen == [][PARSED => PARSED' /\ (~mixed' => configs' = configs)]_parserVars

Loading(l) == pc[l] \in {"open", "event", "put", "reset", "parsed"}

\* What the calls look like from outside.
Registry == INSTANCE LoaderRegistry WITH
    Names <- Identifiers,
    rules <- [valid |-> Valid, supported |-> supported, name |-> NamesOf[document]],
    loaded <- PARSED,
    state <- [l \in Loaders |-> IF Loading(l) THEN "loading"
                                ELSE IF Calling(l) THEN "called" ELSE pc[l]]

\* Parsing lazily, failing, parsing again and parsing late implements loading
\* the rules once: the calls answer as LoaderRegistry says, and every call is
\* answered.
ImplementsRegistry == Registry!Spec

-----------------------------------------------------------------------------
(* Why they hold, when one parse follows the other.  Whatever a parse that   *)
(* failed left behind, the next one either starts over as the first did, or  *)
(* fails at the end of the first element, whose class has an entry by then.  *)
(* So does one that comes late, and the entry it puts is the one there is.   *)

Elements == Documents[document].elements

Ends == Documents[document].ends

\* The field of the handler that an element's leaf is read into.
Field(tag) == IF tag = "klass" THEN klass ELSE config[tag]

\* configs holds the first n elements, each with a class of its own.
Holds(n) ==
    /\ \A i \in 1..n :
          /\ Elements[i].klass # NONE /\ Elements[i].config # NoConfig
          /\ configs[Elements[i].klass] = Elements[i].config
    /\ \A i, j \in 1..n : Elements[i].klass = Elements[j].klass => i = j
    /\ \A k \in Strings \cup {NONE} :
          configs[k] # NONE => \E i \in 1..n : Elements[i].klass = k

\* The handler holds no value but the n-th element's ...
Consistent(n) ==
    n \in 1..Len(Elements) =>
        \A tag \in Leaves : Field(tag) \in {Blank(tag), FieldOf(Elements[n], tag)}

\* ... and all those the parse of l has read.
ReadSoFar(l, n) ==
    n \in 1..Len(Elements) =>
        \A tag \in Leaves : \A k \in EndsLeaf(Documents[document], n, tag) :
            k < event[l] => Field(tag) = FieldOf(Elements[n], tag)

\* A parse ends no later than the first element.
Blocked ==
    Len(Elements) > 0 /\ Elements[1].klass # NONE /\ configs[Elements[1].klass] # NONE

\* The parse of l is in the element after the n-th.
Passed(l, n) ==
    /\ \A m \in 1..n : Ends[m] < event[l]
    /\ n < Len(Elements) => event[l] <= Ends[n + 1]

AtEnd(l, n) == n < Len(Elements) /\ event[l] = Ends[n + 1]

\* Where a parse is that may still succeed ...
Clean(l, n) ==
    /\ Passed(l, n)
    /\ pc[l] = "reset" => Holds(n + 1)
    /\ pc[l] # "reset" => Holds(n)
    /\ Consistent(n + 1) /\ ReadSoFar(l, n + 1)
    /\ n = Len(Elements) /\ WellFormed(Documents[document]) => Consistent(1)
    /\ pc[l] \in {"put", "reset"} => AtEnd(l, n)
    /\ pc[l] = "put" => klass # NONE /\ config # NoConfig

\* ... and one that cannot.
Doomed(l) ==
    /\ Passed(l, 0) /\ Blocked
    /\ \A k \in EndsLeaf(Documents[document], 1, "klass") :
          k < event[l] => klass = Elements[1].klass
    /\ pc[l] \in {"event", "put"}
    /\ pc[l] = "put" => AtEnd(l, 0)

\* The last text is that of the event before.
LastText(l) ==
    event[l] > 1 /\ Events[event[l] - 1].kind = "characters" =>
        characters = Events[event[l] - 1].value

Leftover == Blocked \/ (Holds(0) /\ Consistent(1))

\* A parse has come to its end.
Settled == PARSED \/ \E l \in Loaders : pc[l] = "parsed"

\* A parse that comes late ends no later than the first element either.
Late(l) ==
    /\ Passed(l, 0) /\ Consistent(1) /\ ReadSoFar(l, 1)
    /\ pc[l] \in {"event", "put"}
    /\ pc[l] = "put" => AtEnd(l, 0)

Progress(l) ==
    /\ LastText(l)
    /\ IF Settled THEN Late(l) ELSE Doomed(l) \/ \E n \in 0..Len(Elements) : Clean(l, n)

\* What a parse has passed, mixed with another or not.
TextInv ==
    /\ \A l \in Loaders :
          /\ Parsing(l) \/ pc[l] = "parsed" =>
                \A k \in 1..(event[l] - 1) : Events[k].kind # "error"
          /\ pc[l] \in {"put", "reset"} =>
                /\ event[l] <= Len(Events)
                /\ Events[event[l]] = [kind |-> "end", value |-> "classloader"]
          /\ pc[l] = "parsed" => event[l] > Len(Events)
    /\ PARSED => WellFormed(Documents[document])

ParseInv ==
    ~mixed =>
        /\ \A l, m \in Loaders : Parsing(l) /\ Parsing(m) => l = m
        /\ \A l \in Loaders : Parsing(l) => Progress(l)
        /\ ~Settled /\ (\A l \in Loaders : ~Parsing(l)) => Leftover
        /\ Settled => /\ WellFormed(Documents[document])
                      /\ Holds(Len(Elements)) /\ Consistent(1)

\* What becomes of a call that has found the rules, and of one that has found
\* those of the document.
NameInv ==
    \A l \in Loaders :
        /\ pc[l] \in {"name", "register", "registered", "refused", "ignored"} => PARSED
        /\ pc[l] = "register" => identifier[l] \in Identifiers
        /\ pc[l] \in {"registered", "refused"} => supported
        /\ pc[l] # "registered" => registered[l] = NONE
        /\ ~mixed =>
              /\ pc[l] = "register" => identifier[l] = NameFor(l)
              /\ pc[l] = "registered" => registered[l] = NameFor(l)
              /\ pc[l] = "refused" =>
                    NameFor(l) # NONE /\ \E m \in Loaders : registered[m] = NameFor(l)
              /\ pc[l] = "ignored" => NameFor(l) = NONE

=============================================================================
