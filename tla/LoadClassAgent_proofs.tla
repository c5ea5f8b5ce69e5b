------------------------ MODULE LoadClassAgent_proofs ------------------------
(***************************************************************************)
(* LoadClassAgent for any number of loaders, any documents and callbacks    *)
(* that overlap as they like: the types; unless parses were mixed, the     *)
(* configuration in force is the document's and stays so, and a silent     *)
(* callback has named its loader; and the calls look as LoaderRegistry     *)
(* says.                                                                   *)
(***************************************************************************)
EXTENDS LoadClassAgent, TLAPS

-----------------------------------------------------------------------------
(* The constants *)

\* A document is a sequence of events, and its elements are ended one after
\* the other.
LEMMA DocumentFacts ==
  ASSUME TypeOK
  PROVE  /\ Documents[document] \in Document
         /\ Events \in Seq(Event) /\ Len(Events) \in Nat
         /\ Elements \in Seq(Element) /\ Len(Elements) \in Nat
         /\ Ends \in Seq(Nat) /\ Len(Ends) = Len(Elements)
<1>1. Documents[document] \in Document /\ PrintedDocument(Documents[document])
  BY ConstantsAssumption, DocumentsPrinted DEF TypeOK
<1>2. /\ Documents[document].events \in Seq(Event)
      /\ Documents[document].elements \in Seq(Element)
      /\ Documents[document].ends \in Seq(Nat)
  BY <1>1 DEF Document
<1>. QED
  BY <1>1, <1>2 DEF Events, Elements, Ends, PrintedDocument

LEMMA EndsFacts ==
  ASSUME TypeOK
  PROVE  /\ \A n \in 1..Len(Elements) : Ends[n] \in 1..Len(Events)
         /\ \A m, n \in 1..Len(Elements) : m < n => Ends[m] < Ends[n]
         /\ \A k \in 1..Len(Events) :
               Events[k] = [kind |-> "end", value |-> "classloader"]
                  <=> \E n \in 1..Len(Elements) : Ends[n] = k
<1>1. PrintedDocument(Documents[document])
  BY DocumentsPrinted DEF TypeOK
<1>. QED
  BY <1>1, DocumentFacts DEF Events, Elements, Ends, PrintedDocument

LEMMA ElementFacts ==
  ASSUME TypeOK, NEW n \in 1..Len(Elements)
  PROVE  /\ Elements[n] \in Element
         /\ Elements[n].klass \in Strings \cup {NONE} /\ Elements[n].config \in Config
         /\ \A tag \in Leaves : PrintedLeaf(Documents[document], n, tag)
<1>1. PrintedDocument(Documents[document])
  BY DocumentsPrinted DEF TypeOK
<1>2. n \in 1..Len(Documents[document].ends)
  BY DocumentFacts DEF Ends
<1>3. \A tag \in Leaves : PrintedLeaf(Documents[document], n, tag)
  BY <1>1, <1>2 DEF PrintedDocument
<1>4. Elements[n] \in Element
  BY DocumentFacts
<1>. QED
  BY <1>3, <1>4 DEF Element

LEMMA NoConfigFacts == NoConfig \in Config /\ NONE \notin Config
BY ConstantsAssumption DEF NoConfig, Config

-----------------------------------------------------------------------------
(* Type correctness *)

PCs == {"idle", "check", "open", "event", "put", "reset", "parsed", "name", "register"}
       \cup Finished

EventOK == \A l \in Loaders : pc[l] \in {"put", "reset"} => event[l] <= Len(Events)

ParserOK ==
    /\ PARSED \in BOOLEAN
    /\ configs \in [Strings \cup {NONE} -> Config \cup {NONE}]
    /\ klass \in Strings \cup {NONE} /\ config \in Config
    /\ characters \in Strings \cup {NONE}

CallsOK ==
    /\ pc \in [Loaders -> PCs]
    /\ event \in [Loaders -> 1..(Len(Events) + 1)]
    /\ EventOK

NamesOK ==
    /\ identifier \in [Loaders -> Identifiers \cup {NONE}]
    /\ registered \in [Loaders -> Identifiers \cup {NONE}]

HistoryOK == supported \in BOOLEAN /\ mixed \in BOOLEAN

AgentOK ==
    /\ agent \in {"new", "init", "callbacks", "JNI_OK", "JNI_ERR"}
    /\ m_jvmti \in BOOLEAN
    /\ native \in [Loaders -> DOMAIN After
                              \cup {"none", "CallStaticVoidMethod", "Java", "returned"}]
    /\ printed \subseteq Loaders /\ pending \subseteq Loaders

Types ==
    document \in DOMAIN Documents /\ ParserOK /\ CallsOK /\ NamesOK /\ HistoryOK /\ AgentOK

LEMMA TypeParts == TypeOK /\ EventOK <=> Types
BY DEF Types, TypeOK, ParserOK, CallsOK, NamesOK, HistoryOK, AgentOK, PCs

LEMMA InitType == Init => TypeOK /\ EventOK
<1> SUFFICES ASSUME Init PROVE TypeOK /\ EventOK
  OBVIOUS
<1>1. document \in DOMAIN Documents
  BY DEF Init, ParserInit
<1>2. Documents[document].events \in Seq(Event)
  BY <1>1, ConstantsAssumption DEF Document
<1>3. Len(Events) \in Nat
  BY <1>2 DEF Events
<1>4. ParserOK
  BY NoConfigFacts DEF Init, ParserInit, ParserOK
<1>5. CallsOK
  BY <1>3 DEF Init, ParserInit, CallsOK, EventOK, PCs
<1>6. NamesOK
  BY DEF Init, ParserInit, NamesOK
<1>7. HistoryOK /\ AgentOK
  BY DEF Init, ParserInit, HistoryOK, AgentOK
<1>. QED
  BY <1>1, <1>4, <1>5, <1>6, <1>7, TypeParts DEF Types

\* A step that moves one call, and its parse by at most one event.
LEMMA CallsMove ==
  ASSUME TypeOK, EventOK, NEW l \in Loaders, NEW p \in PCs, Goto(l, p),
         UNCHANGED document,
         \/ UNCHANGED event /\ (p \in {"put", "reset"} => event[l] <= Len(Events))
         \/ event' = [event EXCEPT ![l] = 1] /\ p \notin {"put", "reset"}
         \/ event[l] <= Len(Events) /\ Advance(l) /\ p \notin {"put", "reset"}
  PROVE  CallsOK'
<1>1. Events' = Events
  BY DEF Events
<1>2. pc' \in [Loaders -> PCs]
  BY DEF TypeOK, Goto, PCs
<1>3. event' \in [Loaders -> 1..(Len(Events) + 1)]
  <2>1. event \in [Loaders -> 1..(Len(Events) + 1)] /\ Len(Events) \in Nat
    BY DocumentFacts DEF TypeOK
  <2>. QED
    BY <2>1 DEF Advance
<1>4. EventOK'
  <2>1. pc' = [pc EXCEPT ![l] = p] /\ DOMAIN pc = Loaders /\ DOMAIN event = Loaders
    BY DEF Goto, TypeOK
  <2>2. \A m \in Loaders : m # l => pc'[m] = pc[m] /\ event'[m] = event[m]
    BY <2>1 DEF Advance
  <2>3. p \in {"put", "reset"} => UNCHANGED event /\ event[l] <= Len(Events)
    OBVIOUS
  <2>. QED
    BY <1>1, <2>1, <2>2, <2>3 DEF EventOK
<1>. QED
  BY <1>1, <1>2, <1>3, <1>4 DEF CallsOK

LEMMA CallsStay ==
  ASSUME TypeOK, EventOK, UNCHANGED <<document, pc, event>>
  PROVE  CallsOK'
BY DEF TypeOK, EventOK, CallsOK, PCs, Events

\* A step of a parse within its events.
LEMMA CallsAdvance ==
  ASSUME TypeOK, EventOK, NEW l \in Loaders, pc[l] = "event", event[l] <= Len(Events),
         Advance(l), UNCHANGED <<document, pc>>
  PROVE  CallsOK'
<1>1. Events' = Events
  BY DEF Events
<1>2. event' \in [Loaders -> 1..(Len(Events) + 1)]
  BY DocumentFacts DEF TypeOK, Advance
<1>3. EventOK'
  BY <1>1 DEF EventOK, Advance, TypeOK
<1>. QED
  BY <1>1, <1>2, <1>3 DEF CallsOK, TypeOK, PCs

LEMMA IdentifierType ==
  ASSUME NEW l \in Loaders, NEW c \in Config, Identifier(l, c) # INVALID
  PROVE  Identifier(l, c) \in Identifiers
BY DEF Identifiers

LEMMA ParserStays ==
  ASSUME ParserOK, UNCHANGED <<PARSED, configs, fieldVars>>
  PROVE  ParserOK'
BY DEF ParserOK, fieldVars

LEMMA CallType ==
  ASSUME TypeOK, EventOK, NEW l \in Loaders, CallStep(l)
  PROVE  document' \in DOMAIN Documents /\ ParserOK' /\ CallsOK' /\ NamesOK'
<1>. USE TypeParts DEF Types
<1>0. Len(Events) \in Nat
  BY DocumentFacts
<1>1. CASE CheckParsed(l) \/ Read(l) \/ ReadFails(l) \/ Malformed(l) \/ EndParse(l)
           \/ RegisterFails(l)
  <2>1. UNCHANGED <<document, PARSED, configs, fieldVars, identifier, registered>>
    BY <1>1 DEF CheckParsed, Read, ReadFails, Malformed, EndParse, RegisterFails
  <2>2. PICK p \in {"name", "open", "event", "failed", "parsed"} : Goto(l, p)
    BY <1>1 DEF CheckParsed, Read, ReadFails, Malformed, EndParse, RegisterFails
  <2>3. UNCHANGED event \/ event' = [event EXCEPT ![l] = 1]
    BY <1>1 DEF CheckParsed, Read, ReadFails, Malformed, EndParse, RegisterFails
  <2>4. CallsOK'
    BY <2>1, <2>2, <2>3, CallsMove DEF PCs, Finished
  <2>. QED
    BY <2>1, <2>4, ParserStays DEF NamesOK
<1>2. CASE Characters(l)
  <2>1. UNCHANGED <<document, PARSED, configs, klass, config, pc, identifier, registered>>
    BY <1>2 DEF Characters
  <2>2. characters' \in Strings \cup {NONE}
    BY <1>2 DEF Characters
  <2>3. pc[l] = "event" /\ event[l] <= Len(Events) /\ Advance(l)
    BY <1>2 DEF Characters, At
  <2>. QED
    BY <2>1, <2>2, <2>3, CallsAdvance DEF NamesOK, ParserOK
<1>3. CASE EndKlass(l)
  <2>1. UNCHANGED <<document, PARSED, configs, config, characters, pc, identifier, registered>>
    BY <1>3 DEF EndKlass
  <2>2. pc[l] = "event" /\ event[l] <= Len(Events) /\ Advance(l) /\ klass' = characters
    BY <1>3 DEF EndKlass, At
  <2>. QED
    BY <2>1, <2>2, CallsAdvance DEF NamesOK, ParserOK
<1>4. CASE EndName(l)
  <2>1. UNCHANGED <<document, PARSED, configs, klass, characters, pc, identifier, registered>>
    BY <1>4 DEF EndName
  <2>2. pc[l] = "event" /\ event[l] <= Len(Events) /\ Advance(l)
    BY <1>4 DEF EndName, At
  <2>3. PICK tag \in Leaves \ {"klass"} :
           config' = [config EXCEPT ![tag] = FieldValue(tag, characters)]
    BY <1>4 DEF EndName
  <2>4. tag \in {"fieldName", "appendJarPathsAsName", "uniqueName"}
    BY DEF Leaves
  <2>5. config' \in Config
    BY <2>3, <2>4 DEF ParserOK, Config, FieldValue
  <2>. QED
    BY <2>1, <2>2, <2>5, CallsAdvance DEF NamesOK, ParserOK
<1>5. CASE Validate(l)
  <2>1. UNCHANGED <<document, PARSED, configs, fieldVars, event, identifier, registered>>
    BY <1>5 DEF Validate
  <2>2. PICK p \in {"failed", "put"} : Goto(l, p)
    BY <1>5 DEF Validate
  <2>3. event[l] <= Len(Events)
    BY <1>5 DEF Validate, At
  <2>4. CallsOK'
    BY <2>1, <2>2, <2>3, CallsMove DEF PCs, Finished
  <2>. QED
    BY <2>1, <2>4, ParserStays DEF NamesOK
<1>6. CASE Put(l)
  <2>1. UNCHANGED <<document, PARSED, fieldVars, event, identifier, registered>>
    BY <1>6 DEF Put
  <2>2. PICK p \in {"failed", "reset"} : Goto(l, p)
    BY <1>6 DEF Put
  <2>3. event[l] <= Len(Events)
    BY <1>6 DEF Put, EventOK
  <2>4. configs' \in [Strings \cup {NONE} -> Config \cup {NONE}]
    BY <1>6 DEF Put, ParserOK
  <2>5. CallsOK'
    BY <2>1, <2>2, <2>3, CallsMove DEF PCs, Finished
  <2>. QED
    BY <2>1, <2>4, <2>5 DEF NamesOK, ParserOK, fieldVars
<1>7. CASE Reset(l)
  <2>1. UNCHANGED <<document, PARSED, configs, characters, identifier, registered>>
    BY <1>7 DEF Reset
  <2>2. /\ Goto(l, "event") /\ Advance(l) /\ event[l] <= Len(Events)
        /\ klass' = NONE /\ config' = NoConfig
    BY <1>7 DEF Reset, EventOK
  <2>3. CallsOK'
    BY <2>1, <2>2, CallsMove DEF PCs
  <2>. QED
    BY <2>1, <2>2, <2>3, NoConfigFacts DEF NamesOK, ParserOK
<1>8. CASE EndClassLoaders(l)
  <2>1. UNCHANGED <<document, PARSED, configs, fieldVars, pc, identifier, registered>>
    BY <1>8 DEF EndClassLoaders
  <2>2. pc[l] = "event" /\ event[l] <= Len(Events) /\ Advance(l)
    BY <1>8 DEF EndClassLoaders, At
  <2>. QED
    BY <2>1, <2>2, CallsAdvance, ParserStays DEF NamesOK
<1>9. CASE SetParsed(l)
  <2>1. UNCHANGED <<document, configs, fieldVars, event, identifier, registered>>
    BY <1>9 DEF SetParsed
  <2>2. PARSED' = TRUE /\ Goto(l, "name")
    BY <1>9 DEF SetParsed
  <2>3. CallsOK'
    BY <2>1, <2>2, CallsMove DEF PCs
  <2>. QED
    BY <2>1, <2>2, <2>3 DEF NamesOK, ParserOK, fieldVars
<1>10. CASE generateIdentifier(l)
  <2>1. UNCHANGED <<document, PARSED, configs, fieldVars, event, registered>>
    BY <1>10 DEF generateIdentifier
  <2>2. PICK p \in {"ignored", "failed", "register"} : Goto(l, p)
    BY <1>10 DEF generateIdentifier
  <2>3. CallsOK'
    BY <2>1, <2>2, CallsMove DEF PCs, Finished
  <2> DEFINE c == configs[LoaderInfo[l].klass]
  <2>4. c \in Config \cup {NONE}
    BY ConstantsAssumption DEF ParserOK
  <2>5. \/ UNCHANGED identifier
        \/ /\ c # NONE /\ Identifier(l, c) # INVALID
           /\ identifier' = [identifier EXCEPT ![l] = Identifier(l, c)]
    BY <1>10 DEF generateIdentifier
  <2> HIDE DEF c
  <2>6. NamesOK'
    BY <2>1, <2>4, <2>5, IdentifierType DEF NamesOK
  <2>. QED
    BY <2>1, <2>3, <2>6, ParserStays
<1>11. CASE Register(l)
  <2>1. UNCHANGED <<document, PARSED, configs, fieldVars, event, identifier>>
    BY <1>11 DEF Register
  <2>2. PICK p \in {"refused", "registered"} : Goto(l, p)
    BY <1>11 DEF Register
  <2>3. CallsOK'
    BY <2>1, <2>2, CallsMove DEF PCs, Finished
  <2>4. UNCHANGED registered \/ registered' = [registered EXCEPT ![l] = identifier[l]]
    BY <1>11 DEF Register
  <2>5. NamesOK'
    BY <2>1, <2>4 DEF NamesOK
  <2>. QED
    BY <2>1, <2>3, <2>5, ParserStays
<1>. QED
  BY <1>1, <1>2, <1>3, <1>4, <1>5, <1>6, <1>7, <1>8, <1>9, <1>10, <1>11
     DEF CallStep, ParseStep

LEMMA AgentType ==
  ASSUME AgentOK, Next
  PROVE  AgentOK'
<1>1. CASE OnLoad
  BY <1>1 DEF OnLoad, OnLoadFails, InitAgent, SetEventCallbacks, SetEventNotificationMode,
     nativeVars, AgentOK
<1>2. ASSUME NEW l \in Loaders, FirstClassLoadPrepare(l) \/ HandleLoadClass(l)
      PROVE  AgentOK'
  <2> DEFINE places == DOMAIN After \cup {"none", "CallStaticVoidMethod", "Java", "returned"}
  <2>1. UNCHANGED agentVars
    BY <1>2 DEF FirstClassLoadPrepare, HandleLoadClass, Lookup, LookupFails, Java, Return,
       CallStaticVoidMethod
  <2>2. printed' \in {printed, printed \cup {l}} /\ pending' \in {pending, pending \cup {l}}
    BY <1>2 DEF FirstClassLoadPrepare, HandleLoadClass, Lookup, LookupFails, Java, Return,
       CallStaticVoidMethod, nativeVars
  <2>3. /\ DOMAIN After = {"GetClassSignature", "Deallocate", "FindClass", "GetStaticMethodID"}
        /\ \A p \in DOMAIN After : After[p] \in places
    BY DEF After
  <2>4. UNCHANGED native \/ \E p \in places : native' = [native EXCEPT ![l] = p]
    BY <1>2, <2>3 DEF FirstClassLoadPrepare, HandleLoadClass, Lookup, LookupFails, Java, Return,
       CallStaticVoidMethod, nativeVars
  <2>5. native' \in [Loaders -> places]
    BY <2>4 DEF AgentOK
  <2>. QED
    BY <2>1, <2>2, <2>5 DEF AgentOK, agentVars
<1>. QED
  BY <1>1, <1>2 DEF Next

LEMMA NextType == TypeOK /\ EventOK /\ [Next]_vars => (TypeOK /\ EventOK)'
<1> SUFFICES ASSUME TypeOK, EventOK, [Next]_vars
             PROVE  Types'
  BY DEF Types, TypeOK, ParserOK, CallsOK, NamesOK, HistoryOK, AgentOK, PCs
<1>. USE TypeParts DEF Types
<1>1. CASE UNCHANGED parserVars
  <2>1. document' \in DOMAIN Documents /\ CallsOK'
    BY <1>1, CallsStay DEF parserVars
  <2>2. ParserOK' /\ NamesOK' /\ HistoryOK'
    BY <1>1 DEF parserVars, fieldVars, ParserOK, NamesOK, HistoryOK
  <2>3. AgentOK'
    BY AgentType DEF vars, agentVars, nativeVars, AgentOK
  <2>. QED
    BY <2>1, <2>2, <2>3
<1>2. ASSUME NEW l \in Loaders, CallStaticVoidMethod(l)
      PROVE  Types'
  <2>1. UNCHANGED <<document, supported, PARSED, configs, fieldVars, event, identifier,
                    registered, mixed>>
    BY <1>2 DEF CallStaticVoidMethod, registerClassLoader
  <2>2. Goto(l, "check")
    BY <1>2 DEF CallStaticVoidMethod, registerClassLoader
  <2>3. CallsOK'
    BY <2>1, <2>2, CallsMove DEF PCs
  <2>4. AgentOK'
    BY <1>2, AgentType DEF Next, HandleLoadClass
  <2>. QED
    BY <2>1, <2>3, <2>4, ParserStays DEF NamesOK, HistoryOK
<1>3. ASSUME NEW l \in Loaders, Java(l)
      PROVE  Types'
  <2>1. CallStep(l)
    BY <1>3 DEF Java
  <2>2. AgentOK'
    BY <1>3, AgentType DEF Next, HandleLoadClass
  <2>3. HistoryOK'
    BY <2>1 DEF CallStep, Mixes, HistoryOK
  <2>. QED
    BY <2>1, <2>2, <2>3, CallType
<1>4. CASE UNCHANGED vars
  BY <1>1, <1>4 DEF vars
<1>5. CASE OnLoad
  BY <1>1, <1>5 DEF OnLoad, OnLoadFails, InitAgent, SetEventCallbacks, SetEventNotificationMode
<1>6. ASSUME NEW l \in Loaders,
             FirstClassLoadPrepare(l) \/ Lookup(l) \/ LookupFails(l) \/ Return(l)
      PROVE  UNCHANGED parserVars
  BY <1>6 DEF FirstClassLoadPrepare, Lookup, LookupFails, Return
<1>. QED
  BY <1>1, <1>2, <1>3, <1>4, <1>5, <1>6 DEF Next, HandleLoadClass

\* The variables of the agent and the parser have their types, however the
\* callbacks overlap: a configuration another call has half read is still one,
\* and no identifier comes from a rule that cannot name its loader.
THEOREM TypeCorrect == Spec => []TypeOK
<1>1. Spec => [](TypeOK /\ EventOK)
  BY InitType, NextType, PTL DEF Spec
<1>. QED
  BY <1>1, PTL

-----------------------------------------------------------------------------
(* What the handler holds *)

\* The document is never written.
LEMMA SameDocument ==
  ASSUME UNCHANGED document
  PROVE  /\ Events' = Events /\ Elements' = Elements /\ Ends' = Ends
         /\ \A n, tag : EndsLeaf(Documents[document], n, tag)'
                          = EndsLeaf(Documents[document], n, tag)
         /\ Valid' = Valid /\ Meaning' = Meaning
         /\ \A l : NameFor(l)' = NameFor(l)
BY DEF Events, Elements, Ends, EndsLeaf, Within, Valid, Meaning, NameFor

LEMMA LeafFacts ==
  ASSUME TypeOK, NEW n \in 1..Len(Elements), NEW tag \in Leaves,
         NEW k \in EndsLeaf(Documents[document], n, tag)
  PROVE  /\ k \in 1..Len(Events) /\ k <= Ends[n] /\ (n > 1 => Ends[n - 1] < k)
         /\ Events[k] = [kind |-> "end", value |-> tag]
         /\ k - 1 \in 1..Len(Events) /\ Events[k - 1].kind = "characters"
         /\ FieldOf(Elements[n], tag) = FieldValue(tag, Events[k - 1].value)
<1>1. PrintedLeaf(Documents[document], n, tag)
  BY ElementFacts
<1>. QED
  BY <1>1 DEF PrintedLeaf, EndsLeaf, Within, Events, Elements, Ends

LEMMA NoLeafFacts ==
  ASSUME TypeOK, NEW n \in 1..Len(Elements), NEW tag \in Leaves,
         EndsLeaf(Documents[document], n, tag) = {}
  PROVE  FieldOf(Elements[n], tag) = Blank(tag)
<1>1. PrintedLeaf(Documents[document], n, tag)
  BY ElementFacts
<1>. QED
  BY <1>1 DEF PrintedLeaf, Elements

\* The event of a parse belongs to the element after those it has passed.
LEMMA InElement ==
  ASSUME TypeOK, NEW l \in Loaders, NEW n \in Nat, n < Len(Elements), Passed(l, n),
         NEW tag \in Leaves, event[l] <= Len(Events),
         Events[event[l]] = [kind |-> "end", value |-> tag]
  PROVE  event[l] \in EndsLeaf(Documents[document], n + 1, tag)
<1>1. event[l] \in 1..Len(Events)
  BY DocumentFacts DEF TypeOK
<1>2. event[l] <= Ends[n + 1] /\ (n + 1 > 1 => Ends[n] < event[l])
  BY DocumentFacts DEF Passed
<1>. QED
  BY <1>1, <1>2 DEF EndsLeaf, Within, Events, Elements, Ends

\* At the end of a leaf, the last text is the element's value.
LEMMA LeafRead ==
  ASSUME TypeOK, NEW l \in Loaders, NEW n \in Nat, n < Len(Elements), Passed(l, n),
         NEW tag \in Leaves, event[l] <= Len(Events),
         Events[event[l]] = [kind |-> "end", value |-> tag],
         event[l] > 1 /\ Events[event[l] - 1].kind = "characters" =>
            characters = Events[event[l] - 1].value
  PROVE  FieldOf(Elements[n + 1], tag) = FieldValue(tag, characters)
<1>1. event[l] \in EndsLeaf(Documents[document], n + 1, tag)
  BY InElement
<1>2. n + 1 \in 1..Len(Elements)
  BY DocumentFacts
<1>3. event[l] - 1 \in 1..Len(Events)
      /\ Events[event[l] - 1].kind = "characters"
      /\ FieldOf(Elements[n + 1], tag) = FieldValue(tag, Events[event[l] - 1].value)
  BY <1>1, <1>2, LeafFacts
<1>4. event[l] > 1
  BY <1>3, DocumentFacts DEF TypeOK
<1>. QED
  BY <1>3, <1>4

\* Only an element's end passes it.
LEMMA PassedOn ==
  ASSUME TypeOK, NEW l \in Loaders, NEW n \in Nat, Passed(l, n), event[l] <= Len(Events),
         Events[event[l]] # [kind |-> "end", value |-> "classloader"],
         Advance(l), UNCHANGED document, n <= Len(Elements)
  PROVE  Passed(l, n)'
<1>1. event'[l] = event[l] + 1
  BY DEF Advance, TypeOK
<1>2. event[l] \in 1..Len(Events) /\ event[l] \in Nat
  BY DocumentFacts DEF TypeOK
<1>3. ASSUME n < Len(Elements) PROVE event[l] # Ends[n + 1] /\ Ends[n + 1] \in Nat
  <2>1. n + 1 \in 1..Len(Elements)
    BY <1>3, DocumentFacts
  <2>. QED
    BY <1>2, <2>1, EndsFacts, DocumentFacts
<1>4. \A m \in 1..n : Ends[m] \in Nat
  BY EndsFacts, DocumentFacts
<1>. QED
  BY <1>1, <1>2, <1>3, <1>4, SameDocument DEF Passed

\* What is at the end of an element has all of it.
LEMMA AtEndFields ==
  ASSUME TypeOK, NEW l \in Loaders, NEW n \in Nat, AtEnd(l, n), Consistent(n + 1),
         ReadSoFar(l, n + 1), NEW tag \in Leaves
  PROVE  Field(tag) = FieldOf(Elements[n + 1], tag)
<1>1. n + 1 \in 1..Len(Elements) /\ event[l] = Ends[n + 1] /\ event[l] \in Nat
  BY DocumentFacts DEF AtEnd, TypeOK
<1>2. CASE EndsLeaf(Documents[document], n + 1, tag) = {}
  BY <1>1, <1>2, NoLeafFacts DEF Consistent
<1>3. ASSUME NEW k \in EndsLeaf(Documents[document], n + 1, tag)
      PROVE  Field(tag) = FieldOf(Elements[n + 1], tag)
  <2>1. k \in Nat /\ k <= event[l] /\ Events[k] = [kind |-> "end", value |-> tag]
    BY <1>1, <1>3, LeafFacts, DocumentFacts
  <2>2. Events[event[l]] = [kind |-> "end", value |-> "classloader"]
    BY <1>1, EndsFacts
  <2>3. tag # "classloader"
    BY DEF Leaves
  <2>4. k < event[l]
    BY <1>1, <2>1, <2>2, <2>3
  <2>. QED
    BY <1>1, <1>3, <2>4 DEF ReadSoFar
<1>. QED
  BY <1>2, <1>3

LEMMA AtEndElement ==
  ASSUME TypeOK, NEW l \in Loaders, NEW n \in Nat, AtEnd(l, n), Consistent(n + 1),
         ReadSoFar(l, n + 1)
  PROVE  klass = Elements[n + 1].klass /\ config = Elements[n + 1].config
<1>1. n + 1 \in 1..Len(Elements)
  BY DocumentFacts DEF AtEnd
<1>2. klass = Elements[n + 1].klass
  BY AtEndFields DEF Field, FieldOf, Leaves
<1>3. \A tag \in {"fieldName", "appendJarPathsAsName", "uniqueName"} :
         config[tag] = Elements[n + 1].config[tag]
  BY AtEndFields DEF Field, FieldOf, Leaves
<1>4. config \in Config /\ Elements[n + 1].config \in Config
  BY <1>1, ElementFacts DEF TypeOK
<1>5. config = Elements[n + 1].config
  BY <1>3, <1>4 DEF Config
<1>. QED
  BY <1>2, <1>5
-----------------------------------------------------------------------------
(* One event of a parse *)

\* A step that reads the text before it at the end of a leaf, and nothing
\* elsewhere, keeps the handler consistent.
LEMMA ReadOn ==
  ASSUME TypeOK, NEW l \in Loaders, NEW n \in Nat, Passed(l, n), LastText(l),
         Consistent(n + 1), ReadSoFar(l, n + 1),
         event[l] <= Len(Events), Advance(l), UNCHANGED document,
         \A tag \in Leaves :
            Field(tag)' = IF Events[event[l]] = [kind |-> "end", value |-> tag]
                          THEN FieldValue(tag, characters) ELSE Field(tag)
  PROVE  Consistent(n + 1)' /\ ReadSoFar(l, n + 1)'
<1> SUFFICES ASSUME n + 1 \in 1..Len(Elements), NEW tag \in Leaves
             PROVE  /\ Field(tag)' \in {Blank(tag), FieldOf(Elements[n + 1], tag)}
                    /\ \A k \in EndsLeaf(Documents[document], n + 1, tag) :
                          k < event'[l] => Field(tag)' = FieldOf(Elements[n + 1], tag)
  BY SameDocument DEF Consistent, ReadSoFar
<1>1. event'[l] = event[l] + 1 /\ event[l] \in Nat /\ n < Len(Elements)
  BY DocumentFacts DEF Advance, TypeOK
<1>2. CASE Events[event[l]] = [kind |-> "end", value |-> tag]
  <2>1. Field(tag)' = FieldValue(tag, characters)
    BY <1>2
  <2>2. FieldOf(Elements[n + 1], tag) = FieldValue(tag, characters)
    BY <1>1, <1>2, LeafRead DEF LastText
  <2>. QED
    BY <2>1, <2>2
<1>3. CASE Events[event[l]] # [kind |-> "end", value |-> tag]
  <2>1. Field(tag)' = Field(tag)
    BY <1>3
  <2>2. ASSUME NEW k \in EndsLeaf(Documents[document], n + 1, tag), k < event'[l]
        PROVE  k < event[l]
    <3>1. k \in Nat /\ Events[k] = [kind |-> "end", value |-> tag]
      BY <2>2, LeafFacts, DocumentFacts
    <3>. QED
      BY <1>1, <1>3, <2>2, <3>1
  <2>. QED
    BY <2>1, <2>2 DEF Consistent, ReadSoFar
<1>. QED
  BY <1>2, <1>3

LEMMA HoldsSame ==
  ASSUME UNCHANGED <<document, configs>>, NEW n
  PROVE  Holds(n)' = Holds(n)
BY SameDocument DEF Holds

\* In a text without an error no leaf follows the last element.
LEMMA NoLeafAfter ==
  ASSUME TypeOK, NEW l \in Loaders, Passed(l, Len(Elements)), event[l] <= Len(Events),
         WellFormed(Documents[document]), NEW tag \in Leaves
  PROVE  Events[event[l]] # [kind |-> "end", value |-> tag]
<1> SUFFICES ASSUME Events[event[l]] = [kind |-> "end", value |-> tag] PROVE FALSE
  OBVIOUS
<1>1. PrintedDocument(Documents[document])
  BY DocumentsPrinted DEF TypeOK
<1>2. event[l] \in 1..Len(Events) /\ event[l] \in Nat /\ DOMAIN Events = 1..Len(Events)
  BY DocumentFacts DEF TypeOK
<1>3. \A k \in 1..Len(Events) : Events[k].kind # "error"
  BY <1>2 DEF WellFormed, Events
<1>4. PICK n \in 1..Len(Elements) : event[l] \in Within(Documents[document], n)
  <2>1. \A k \in 1..Len(Events) :
           Events[k].kind = "end" /\ Events[k].value \in Leaves =>
              \E n \in 1..Len(Ends) : k \in Within(Documents[document], n)
    BY <1>1, <1>3 DEF PrintedDocument, Events, Ends
  <2>2. Events[event[l]].kind = "end" /\ Events[event[l]].value \in Leaves
    OBVIOUS
  <2>. QED
    BY <1>2, <2>1, <2>2, DocumentFacts
<1>5. event[l] <= Ends[n] /\ Ends[n] \in Nat
  BY <1>4, EndsFacts, DocumentFacts DEF Within, Ends
<1>6. Ends[n] < event[l]
  BY DocumentFacts DEF Passed
<1>. QED
  BY <1>2, <1>5, <1>6

\* A parse that may succeed, or cannot.
Underway(l) == Doomed(l) \/ \E n \in 0..Len(Elements) : Clean(l, n)

\* What the invariant says of a parse holds after an event other than the end
\* of an element.
LEMMA ProgressOn ==
  ASSUME TypeOK, NEW l \in Loaders, pc[l] = "event", Progress(l), event[l] <= Len(Events),
         Events[event[l]] # [kind |-> "end", value |-> "classloader"],
         Advance(l), UNCHANGED <<document, PARSED, pc, configs>>,
         Events[event[l]].kind = "characters" => characters' = Events[event[l]].value,
         \A tag \in Leaves :
            Field(tag)' = IF Events[event[l]] = [kind |-> "end", value |-> tag]
                          THEN FieldValue(tag, characters) ELSE Field(tag)
  PROVE  Progress(l)'
<1>0. event'[l] = event[l] + 1 /\ event[l] \in 1..Len(Events) /\ Events' = Events
  BY DocumentFacts, SameDocument DEF Advance, TypeOK
<1>1. Settled' = Settled
  BY DEF Settled
<1>2. LastText(l)'
  BY <1>0 DEF LastText
<1>3. LastText(l)
  BY DEF Progress
<1>4. ASSUME NEW n \in 0..Len(Elements), Clean(l, n)
      PROVE  Clean(l, n)'
  <2>1. n \in Nat /\ n <= Len(Elements)
    BY DocumentFacts
  <2>2. Passed(l, n) /\ Holds(n) /\ Consistent(n + 1) /\ ReadSoFar(l, n + 1)
    BY <1>4 DEF Clean
  <2>3. Consistent(n + 1)' /\ ReadSoFar(l, n + 1)'
    BY <1>3, <2>1, <2>2, ReadOn
  <2>4. Passed(l, n)'
    BY <2>1, <2>2, PassedOn
  <2>5. Holds(n)'
    BY <2>2, HoldsSame
  <2>6. ASSUME n = Len(Elements), WellFormed(Documents[document])
        PROVE  Consistent(1)'
    <3>1. \A tag \in Leaves : Field(tag)' = Field(tag)
      BY <2>2, <2>6, NoLeafAfter
    <3>2. Consistent(1)
      BY <1>4, <2>6 DEF Clean
    <3>. QED
      BY <3>1, <3>2, SameDocument DEF Consistent
  <2>. QED
    BY <2>3, <2>4, <2>5, <2>6, SameDocument DEF Clean
<1>5. ASSUME Doomed(l)
      PROVE  Doomed(l)'
  <2>1. Passed(l, 0) /\ Blocked /\ 0 \in Nat /\ 0 <= Len(Elements) /\ 0 < Len(Elements)
    BY <1>5, DocumentFacts DEF Doomed, Blocked
  <2>2. Passed(l, 0)'
    BY <2>1, PassedOn
  <2>3. Blocked'
    BY <2>1, SameDocument DEF Blocked
  <2>4. ASSUME NEW k \in EndsLeaf(Documents[document], 1, "klass"), k < event'[l]
        PROVE  klass' = Elements[1].klass
    <3>0. "klass" \in Leaves /\ 1 \in 1..Len(Elements) /\ 0 + 1 = 1
      BY <2>1, DocumentFacts DEF Leaves
    <3>1. k \in Nat /\ Events[k] = [kind |-> "end", value |-> "klass"]
      BY <2>4, <3>0, LeafFacts, DocumentFacts
    <3>2. Field("klass") = klass /\ Field("klass")' = klass'
          /\ FieldOf(Elements[1], "klass") = Elements[1].klass
      BY DEF Field, FieldOf
    <3>3. CASE Events[event[l]] = [kind |-> "end", value |-> "klass"]
      <4>1. FieldOf(Elements[0 + 1], "klass") = FieldValue("klass", characters)
        BY <1>3, <2>1, <3>0, <3>3, LeafRead DEF LastText
      <4>. QED
        BY <3>0, <3>2, <3>3, <4>1
    <3>4. CASE Events[event[l]] # [kind |-> "end", value |-> "klass"]
      <4>1. klass' = klass
        BY <3>0, <3>2, <3>4
      <4>2. k < event[l]
        BY <1>0, <2>4, <3>1, <3>4
      <4>. QED
        BY <1>5, <4>1, <4>2 DEF Doomed
    <3>. QED
      BY <3>3, <3>4
  <2>. QED
    BY <2>2, <2>3, <2>4, SameDocument DEF Doomed
<1>6. Underway(l) => Underway(l)'
  BY <1>4, <1>5, SameDocument DEF Underway
<1>7. ASSUME Late(l) PROVE Late(l)'
  <2>1. Passed(l, 0) /\ Consistent(0 + 1) /\ ReadSoFar(l, 0 + 1) /\ 0 <= Len(Elements)
    BY <1>7, DocumentFacts DEF Late
  <2>2. Consistent(0 + 1)' /\ ReadSoFar(l, 0 + 1)'
    BY <1>3, <2>1, ReadOn
  <2>3. Passed(l, 0)'
    BY <2>1, PassedOn
  <2>. QED
    BY <2>2, <2>3 DEF Late
<1>. QED
  BY <1>1, <1>2, <1>6, <1>7 DEF Progress, Underway

LEMMA EventStep ==
  ASSUME TypeOK, NEW l \in Loaders, Progress(l),
         Characters(l) \/ EndKlass(l) \/ EndName(l) \/ EndClassLoaders(l)
  PROVE  Progress(l)'
<1>1. CASE Characters(l)
  <2>1. PICK text \in Strings \cup {NONE} :
           At(l, [kind |-> "characters", value |-> text]) /\ characters' = text
    BY <1>1 DEF Characters
  <2>2. \A tag : [kind |-> "characters", value |-> text] # [kind |-> "end", value |-> tag]
    OBVIOUS
  <2>3. \A tag \in Leaves : Field(tag)' = Field(tag)
    BY <1>1 DEF Characters, Field
  <2>4. /\ pc[l] = "event" /\ event[l] <= Len(Events)
        /\ Events[event[l]] = [kind |-> "characters", value |-> text]
        /\ Advance(l) /\ UNCHANGED <<document, PARSED, pc, configs>>
    BY <1>1, <2>1 DEF Characters, At
  <2>. QED
    BY <2>1, <2>2, <2>3, <2>4, ProgressOn
<1>2. CASE EndKlass(l)
  <2>1. /\ pc[l] = "event" /\ event[l] <= Len(Events)
        /\ Events[event[l]] = [kind |-> "end", value |-> "klass"]
        /\ Advance(l) /\ UNCHANGED <<document, PARSED, pc, configs>>
    BY <1>2 DEF EndKlass, At
  <2>2. \A tag \in Leaves :
            Field(tag)' = IF Events[event[l]] = [kind |-> "end", value |-> tag]
                          THEN FieldValue(tag, characters) ELSE Field(tag)
    BY <1>2, <2>1 DEF EndKlass, Field, FieldValue
  <2>. QED
    BY <2>1, <2>2, ProgressOn
<1>3. CASE EndName(l)
  <2>1. PICK t \in Leaves \ {"klass"} :
           /\ At(l, [kind |-> "end", value |-> t])
           /\ config' = [config EXCEPT ![t] = FieldValue(t, characters)]
    BY <1>3 DEF EndName
  <2>2. /\ pc[l] = "event" /\ event[l] <= Len(Events)
        /\ Events[event[l]] = [kind |-> "end", value |-> t]
        /\ Advance(l) /\ UNCHANGED <<document, PARSED, pc, configs, klass>>
    BY <1>3, <2>1 DEF EndName, At
  <2>3. t \in {"fieldName", "appendJarPathsAsName", "uniqueName"} /\ config \in Config
    BY DEF Leaves, TypeOK
  <2>4. ASSUME NEW tag \in Leaves
        PROVE  Field(tag)' = IF Events[event[l]] = [kind |-> "end", value |-> tag]
                             THEN FieldValue(tag, characters) ELSE Field(tag)
    <3>1. CASE tag = t
      BY <2>1, <2>2, <2>3, <3>1 DEF Field, Config
    <3>2. CASE tag # t
      <4>1. Field(tag)' = Field(tag)
        BY <2>1, <2>2, <2>3, <3>2 DEF Field, Config, Leaves
      <4>. QED
        BY <2>2, <3>2, <4>1
    <3>. QED
      BY <3>1, <3>2
  <2>5. /\ Events[event[l]] # [kind |-> "end", value |-> "classloader"]
        /\ Events[event[l]].kind = "end"
    BY <2>2, <2>3
  <2>. QED
    BY <2>2, <2>4, <2>5, ProgressOn
<1>4. CASE EndClassLoaders(l)
  <2>1. /\ pc[l] = "event" /\ event[l] <= Len(Events)
        /\ Events[event[l]] = [kind |-> "end", value |-> "classloaders"]
        /\ Advance(l) /\ UNCHANGED <<document, PARSED, pc, configs>>
    BY <1>4 DEF EndClassLoaders, At
  <2>2. \A tag \in Leaves : Field(tag)' = Field(tag)
    BY <1>4 DEF EndClassLoaders, Field, fieldVars
  <2>3. "classloaders" \notin Leaves
    BY DEF Leaves
  <2>. QED
    BY <2>1, <2>2, <2>3, ProgressOn
<1>. QED
  BY <1>1, <1>2, <1>3, <1>4

-----------------------------------------------------------------------------
(* The end of an element, of a parse and of a call *)

\* What is said of a parse depends on the handler, configs and its event.
LEMMA Still ==
  ASSUME UNCHANGED <<document, configs, fieldVars, event>>, NEW l, NEW n
  PROVE  /\ Passed(l, n)' = Passed(l, n) /\ AtEnd(l, n)' = AtEnd(l, n)
         /\ Holds(n)' = Holds(n) /\ Consistent(n)' = Consistent(n)
         /\ ReadSoFar(l, n)' = ReadSoFar(l, n)
         /\ Blocked' = Blocked
<1>1. Passed(l, n)' = Passed(l, n) /\ AtEnd(l, n)' = AtEnd(l, n) /\ Blocked' = Blocked
  BY SameDocument DEF Passed, AtEnd, Blocked
<1>2. Holds(n)' = Holds(n)
  BY HoldsSame
<1>3. \A tag : Field(tag)' = Field(tag)
  BY DEF Field, fieldVars
<1>4. Consistent(n)' = Consistent(n) /\ ReadSoFar(l, n)' = ReadSoFar(l, n)
  BY <1>3, SameDocument DEF Consistent, ReadSoFar
<1>. QED
  BY <1>1, <1>2, <1>4

\* After the first element is put, its class has an entry.
LEMMA HoldsBlocks ==
  ASSUME TypeOK, NEW n \in 1..Len(Elements), Holds(n)
  PROVE  Blocked
<1>1. 1 \in 1..n /\ 1 \in 1..Len(Elements)
  BY DocumentFacts
<1>2. Elements[1].klass # NONE /\ configs[Elements[1].klass] = Elements[1].config
  BY <1>1 DEF Holds
<1>3. Elements[1].config # NONE
  BY <1>1, ElementFacts, NoConfigFacts
<1>. QED
  BY <1>1, <1>2, <1>3, DocumentFacts DEF Blocked

\* Wherever a parse stops, the next one can do without it.
LEMMA UnderwayLeftover ==
  ASSUME TypeOK, NEW l \in Loaders, pc[l] \in {"event", "put"}, Underway(l)
  PROVE  Leftover
<1>1. CASE Doomed(l)
  BY <1>1 DEF Doomed, Leftover
<1>2. ASSUME NEW n \in 0..Len(Elements), Clean(l, n) PROVE Leftover
  <2>1. Holds(n) /\ Consistent(n + 1)
    BY <1>2 DEF Clean
  <2>2. CASE n = 0
    BY <2>1, <2>2 DEF Leftover
  <2>3. CASE n # 0
    BY <2>1, <2>3, HoldsBlocks, DocumentFacts DEF Leftover
  <2>. QED
    BY <2>2, <2>3
<1>. QED
  BY <1>1, <1>2 DEF Underway

LEMMA StillLeftover ==
  ASSUME UNCHANGED <<document, configs, fieldVars, event>>, Leftover
  PROVE  Leftover'
BY Still DEF Leftover

LEMMA SettledStays ==
  ASSUME UNCHANGED PARSED, \A m \in Loaders : pc'[m] = "parsed" <=> pc[m] = "parsed"
  PROVE  Settled' = Settled
BY DEF Settled

LEMMA ReadStep ==
  ASSUME TypeOK, NEW l \in Loaders, Read(l),
         ~Settled => Leftover, Settled => Consistent(1)
  PROVE  Progress(l)'
<1>1. /\ UNCHANGED <<document, configs, fieldVars>>
      /\ event'[l] = 1 /\ pc'[l] = "event"
  BY DEF Read, Goto, TypeOK
<1>2. /\ Elements' = Elements /\ Ends' = Ends /\ Events' = Events
      /\ Len(Elements) \in Nat /\ Len(Events) \in Nat
  BY <1>1, SameDocument, DocumentFacts
<1>3. Passed(l, 0)'
  <2>1. 0 < Len(Elements) => Ends[0 + 1] \in 1..Len(Events)
    BY <1>2, EndsFacts
  <2>. QED
    BY <1>1, <1>2, <2>1 DEF Passed
<1>4. ASSUME 1 \in 1..Len(Elements), NEW tag \in Leaves,
             NEW k \in EndsLeaf(Documents[document], 1, tag)
      PROVE  ~ (k < event'[l])
  <2>1. k \in 1..Len(Events)
    BY <1>4, LeafFacts
  <2>. QED
    BY <1>1, <1>2, <2>1
<1>5. \A tag : Field(tag)' = Field(tag)
  BY <1>1 DEF Field, fieldVars
<1>6. ASSUME Blocked PROVE Underway(l)'
  <2>1. Blocked'
    BY <1>1, <1>2, <1>6 DEF Blocked
  <2>2. "klass" \in Leaves /\ 1 \in 1..Len(Elements)
    BY <1>2, <1>6 DEF Leaves, Blocked
  <2>. QED
    BY <1>1, <1>3, <1>4, <2>1, <2>2, SameDocument DEF Doomed, Underway
<1>7. ReadSoFar(l, 0 + 1)'
  BY <1>1, <1>2, <1>4, SameDocument DEF ReadSoFar
<1>8. ASSUME Consistent(1) PROVE Consistent(0 + 1)' /\ Consistent(1)'
  BY <1>1, <1>2, <1>5, <1>8, SameDocument DEF Consistent
<1>9. ASSUME Holds(0), Consistent(1) PROVE Underway(l)'
  <2>1. Holds(0)'
    BY <1>1, <1>9, HoldsSame
  <2>2. Clean(l, 0)'
    BY <1>1, <1>3, <1>7, <1>8, <1>9, <2>1 DEF Clean
  <2>3. 0 \in 0..Len(Elements')
    BY <1>2
  <2>. QED
    BY <2>2, <2>3 DEF Underway
<1>10. ASSUME Consistent(1) PROVE Late(l)'
  BY <1>1, <1>3, <1>7, <1>8, <1>10 DEF Late
<1>11. Settled' = Settled
  <2>1. UNCHANGED PARSED /\ pc[l] = "open" /\ pc' = [pc EXCEPT ![l] = "event"]
    BY DEF Read, Goto
  <2>. QED
    BY <2>1, SettledStays DEF TypeOK
<1>12. LastText(l)'
  BY <1>1 DEF LastText
<1>. QED
  BY <1>6, <1>9, <1>10, <1>11, <1>12 DEF Progress, Underway, Leftover

\* The end of an element is the one the parse is in.
LEMMA ClosesElement ==
  ASSUME TypeOK, NEW l \in Loaders, NEW n \in 0..Len(Elements), Passed(l, n),
         event[l] <= Len(Events),
         Events[event[l]] = [kind |-> "end", value |-> "classloader"]
  PROVE  AtEnd(l, n)
<1>1. event[l] \in 1..Len(Events) /\ event[l] \in Nat /\ n \in Nat
  BY DocumentFacts DEF TypeOK
<1>2. PICK j \in 1..Len(Elements) : Ends[j] = event[l]
  BY <1>1, EndsFacts
<1>3. j > n
  BY <1>1, <1>2, DocumentFacts DEF Passed
<1>4. n + 1 \in 1..Len(Elements) /\ n < Len(Elements)
  BY <1>1, <1>3, DocumentFacts
<1>5. event[l] <= Ends[n + 1] /\ Ends[n + 1] \in Nat
  BY <1>4, EndsFacts, DocumentFacts DEF Passed
<1>6. j = n + 1
  BY <1>1, <1>2, <1>3, <1>4, <1>5, EndsFacts
<1>. QED
  BY <1>2, <1>4, <1>6 DEF AtEnd

LEMMA ValidateStep ==
  ASSUME TypeOK, NEW l \in Loaders, Progress(l), Validate(l), pc'[l] = "put"
  PROVE  Progress(l)'
<1>1. /\ UNCHANGED <<document, configs, fieldVars, event>>
      /\ pc[l] = "event" /\ event[l] <= Len(Events)
      /\ Events[event[l]] = [kind |-> "end", value |-> "classloader"]
      /\ klass # NONE /\ config # NoConfig /\ pc'[l] = "put"
  BY DEF Validate, At, Goto, TypeOK
<1>2. Events' = Events /\ Elements' = Elements
  BY <1>1, SameDocument
<1>3. klass' # NONE /\ config' # NoConfig /\ characters' = characters
  BY <1>1 DEF fieldVars, NoConfig
<1>4. ASSUME NEW n \in 0..Len(Elements), Clean(l, n) PROVE Clean(l, n)'
  <2>1. AtEnd(l, n) /\ Passed(l, n) /\ Holds(n) /\ Consistent(n + 1) /\ ReadSoFar(l, n + 1)
    BY <1>1, <1>4, ClosesElement DEF Clean
  <2>. QED
    BY <1>1, <1>3, <1>4, <2>1, Still, SameDocument DEF Clean
<1>5. ASSUME Doomed(l) PROVE Doomed(l)'
  <2>1. 0 \in 0..Len(Elements) /\ Passed(l, 0)
    BY <1>5, DocumentFacts DEF Doomed
  <2>2. AtEnd(l, 0)
    BY <1>1, <2>1, ClosesElement
  <2>. QED
    BY <1>1, <1>2, <1>5, <2>2, Still, SameDocument DEF Doomed, fieldVars
<1>6. ASSUME Late(l) PROVE Late(l)'
  <2>1. 0 \in 0..Len(Elements) /\ Passed(l, 0) /\ Consistent(1) /\ ReadSoFar(l, 1)
    BY <1>6, DocumentFacts DEF Late
  <2>2. AtEnd(l, 0)
    BY <1>1, <2>1, ClosesElement
  <2>. QED
    BY <1>1, <2>1, <2>2, Still DEF Late
<1>7. Settled' = Settled
  <2>1. UNCHANGED PARSED /\ pc' = [pc EXCEPT ![l] = "put"]
    BY DEF Validate, Goto, TypeOK
  <2>. QED
    BY <1>1, <2>1, SettledStays DEF TypeOK
<1>8. LastText(l)'
  BY <1>1, <1>2, <1>3 DEF Progress, LastText
<1>9. Underway(l) => Underway(l)'
  BY <1>2, <1>4, <1>5 DEF Underway
<1>. QED
  BY <1>6, <1>7, <1>8, <1>9 DEF Progress, Underway

\* The class of a doomed parse's only element has an entry.
LEMMA DoomedFails ==
  ASSUME TypeOK, NEW l \in Loaders, Doomed(l), pc[l] = "put"
  PROVE  configs[klass] # NONE
<1>1. 1 \in 1..Len(Elements) /\ "klass" \in Leaves /\ 0 + 1 = 1
  BY DocumentFacts DEF Doomed, Blocked, Leaves
<1>2. event[l] = Ends[1] /\ event[l] \in Nat
  BY DocumentFacts DEF Doomed, AtEnd, TypeOK
<1>3. Elements[1].klass # NONE /\ configs[Elements[1].klass] # NONE
  BY DEF Doomed, Blocked
<1>4. EndsLeaf(Documents[document], 1, "klass") # {}
  BY <1>1, <1>3, NoLeafFacts DEF FieldOf, Blank
<1>5. PICK k \in EndsLeaf(Documents[document], 1, "klass") : TRUE
  BY <1>4
<1>6. k \in Nat /\ k <= event[l] /\ Events[k] = [kind |-> "end", value |-> "klass"]
  BY <1>1, <1>2, <1>5, LeafFacts, DocumentFacts
<1>7. Events[event[l]] = [kind |-> "end", value |-> "classloader"]
  BY <1>1, <1>2, EndsFacts
<1>8. k < event[l]
  BY <1>2, <1>6, <1>7
<1>9. klass = Elements[1].klass
  BY <1>8 DEF Doomed
<1>. QED
  BY <1>3, <1>9

\* What comes late puts the entry there is.
LEMMA LatePut ==
  ASSUME TypeOK, NEW l \in Loaders, Late(l), Put(l), Holds(Len(Elements))
  PROVE  configs' = configs /\ Goto(l, "failed")
<1>1. /\ pc[l] = "put" /\ configs' = [configs EXCEPT ![klass] = config]
      /\ Goto(l, IF configs[klass] # NONE THEN "failed" ELSE "reset")
  BY DEF Put
<1>2. AtEnd(l, 0) /\ Consistent(0 + 1) /\ ReadSoFar(l, 0 + 1)
  BY <1>1 DEF Late
<1>3. klass = Elements[0 + 1].klass /\ config = Elements[0 + 1].config
  BY <1>2, AtEndElement
<1>4. 0 + 1 \in 1..Len(Elements)
  BY <1>2, DocumentFacts DEF AtEnd
<1>5. configs[klass] = config
  BY <1>3, <1>4 DEF Holds
<1>6. config # NONE
  BY NoConfigFacts DEF TypeOK
<1>7. configs' = configs
  BY <1>1, <1>5 DEF TypeOK
<1>. QED
  BY <1>1, <1>5, <1>6, <1>7

LEMMA PutStep ==
  ASSUME TypeOK, NEW l \in Loaders, ~Settled, Progress(l), Put(l), pc'[l] = "reset"
  PROVE  Progress(l)'
<1>1. /\ UNCHANGED <<document, fieldVars, event>> /\ pc[l] = "put"
      /\ configs' = [configs EXCEPT ![klass] = config]
      /\ configs[klass] = NONE
  BY DEF Put, Goto, TypeOK
<1>2. Events' = Events /\ Elements' = Elements /\ Ends' = Ends /\ Len(Elements) \in Nat
  BY <1>1, SameDocument, DocumentFacts
<1>3. PICK n \in 0..Len(Elements) : Clean(l, n)
  BY <1>1, DoomedFails DEF Progress
<1>4. /\ Passed(l, n) /\ Holds(n) /\ Consistent(n + 1) /\ ReadSoFar(l, n + 1)
      /\ AtEnd(l, n) /\ klass # NONE /\ config # NoConfig
  BY <1>1, <1>3 DEF Clean
<1>5. klass = Elements[n + 1].klass /\ config = Elements[n + 1].config
  BY <1>2, <1>4, AtEndElement
<1>6. n + 1 \in 1..Len(Elements) /\ n \in Nat
  BY <1>2, <1>4 DEF AtEnd
<1>7. Holds(n + 1)'
  <2>0. /\ \A i \in 1..n : Elements[i].klass # NONE /\ Elements[i].config # NoConfig
                           /\ configs[Elements[i].klass] = Elements[i].config
        /\ \A i, j \in 1..n : Elements[i].klass = Elements[j].klass => i = j
        /\ \A k \in Strings \cup {NONE} :
              configs[k] # NONE => \E i \in 1..n : Elements[i].klass = k
    BY <1>4 DEF Holds
  <2>1. ASSUME NEW i \in 1..n PROVE Elements[i].klass # klass /\ Elements[i].klass \in Strings
    <3>1. i \in 1..Len(Elements)
      BY <1>6, <1>2
    <3>2. configs[Elements[i].klass] # NONE
      BY <2>0, <3>1, ElementFacts, NoConfigFacts
    <3>. QED
      BY <1>1, <2>0, <3>1, <3>2, ElementFacts
  <2>2. configs' \in [Strings \cup {NONE} -> Config \cup {NONE}] /\ klass \in Strings \cup {NONE}
        /\ configs \in [Strings \cup {NONE} -> Config \cup {NONE}]
    BY <1>1 DEF TypeOK
  <2>3. \A i \in 1..(n + 1) : i \in 1..n \/ i = n + 1
    BY <1>6
  <2>4. \A i \in 1..(n + 1) : Elements[i].klass # NONE /\ Elements[i].config # NoConfig
                           /\ configs'[Elements[i].klass] = Elements[i].config
    BY <1>1, <1>4, <1>5, <2>0, <2>1, <2>2, <2>3
  <2>5. \A i, j \in 1..(n + 1) : Elements[i].klass = Elements[j].klass => i = j
    BY <1>5, <2>0, <2>1, <2>3
  <2>6. \A k \in Strings \cup {NONE} :
              configs'[k] # NONE => \E i \in 1..(n + 1) : Elements[i].klass = k
    <3>1. \A i \in 1..n : i \in 1..(n + 1)
      BY <1>6
    <3>2. n + 1 \in 1..(n + 1)
      BY <1>6
    <3>. QED
      BY <1>1, <1>5, <2>0, <2>2, <3>1, <3>2
  <2>. QED
    BY <1>2, <2>4, <2>5, <2>6 DEF Holds, NoConfig
<1>8. \A tag : Field(tag)' = Field(tag)
  BY <1>1 DEF Field, fieldVars
<1>9. Consistent(n + 1)' /\ ReadSoFar(l, n + 1)'
  BY <1>1, <1>4, <1>8, SameDocument DEF Consistent, ReadSoFar
<1>10. Passed(l, n)' /\ AtEnd(l, n)'
  BY <1>1, <1>2, <1>4 DEF Passed, AtEnd
<1>11. Clean(l, n)'
  <2>1. n # Len(Elements) /\ pc'[l] = "reset"
    BY <1>2, <1>4 DEF AtEnd
  <2>. QED
    BY <1>2, <1>7, <1>9, <1>10, <2>1 DEF Clean
<1>12. LastText(l)'
  BY <1>1, <1>2 DEF Progress, LastText, fieldVars
<1>13. ~Settled'
  <2>1. UNCHANGED PARSED /\ pc' = [pc EXCEPT ![l] = "reset"]
    BY <1>1 DEF Put, Goto
  <2>. QED
    BY <1>1, <2>1, SettledStays DEF TypeOK
<1>. QED
  BY <1>2, <1>11, <1>12, <1>13 DEF Progress

\* A second element of a class replaces the entry of the first: it stays one.
LEMMA PutFails ==
  ASSUME TypeOK, NEW l \in Loaders, Underway(l), Put(l), pc'[l] = "failed"
  PROVE  Leftover'
<1>1. /\ UNCHANGED <<document, fieldVars, event>> /\ pc[l] = "put"
      /\ configs' = [configs EXCEPT ![klass] = config]
      /\ configs[klass] # NONE
  BY DEF Put, Goto, TypeOK
<1>2. Elements' = Elements /\ Len(Elements) \in Nat
  BY <1>1, SameDocument, DocumentFacts
<1>3. Blocked
  <2>1. ASSUME NEW n \in 0..Len(Elements), Clean(l, n) PROVE Blocked
    <3>1. Holds(n)
      BY <1>1, <2>1 DEF Clean
    <3>2. n # 0
      BY <1>1, <3>1 DEF Holds, TypeOK
    <3>. QED
      BY <1>2, <3>1, <3>2, HoldsBlocks
  <2>. QED
    BY <2>1 DEF Underway, Doomed
<1>4. 1 \in 1..Len(Elements)
  BY <1>2, <1>3 DEF Blocked
<1>5. Elements[1].klass \in Strings \cup {NONE} /\ klass \in Strings \cup {NONE}
      /\ configs \in [Strings \cup {NONE} -> Config \cup {NONE}] /\ config # NONE
  BY <1>4, ElementFacts, NoConfigFacts DEF TypeOK
<1>6. configs'[Elements[1].klass] # NONE
  BY <1>1, <1>3, <1>5 DEF Blocked
<1>. QED
  BY <1>2, <1>3, <1>6 DEF Blocked, Leftover

LEMMA ResetStep ==
  ASSUME TypeOK, EventOK, NEW l \in Loaders, Progress(l), Reset(l)
  PROVE  Progress(l)'
<1>1. /\ UNCHANGED <<document, configs, characters>> /\ pc[l] = "reset" /\ pc'[l] = "event"
      /\ klass' = NONE /\ config' = NoConfig /\ event'[l] = event[l] + 1
      /\ event[l] \in 1..Len(Events) /\ event[l] \in Nat
  BY DocumentFacts DEF Reset, Goto, Advance, TypeOK, EventOK
<1>2. Events' = Events /\ Elements' = Elements /\ Ends' = Ends /\ Len(Elements) \in Nat
  BY <1>1, SameDocument, DocumentFacts
<1>3. PICK n \in 0..Len(Elements) : Clean(l, n)
  BY <1>1 DEF Progress, Doomed, Late
<1>4. Passed(l, n) /\ Holds(n + 1) /\ AtEnd(l, n)
  BY <1>1, <1>3 DEF Clean
<1>5. /\ n \in Nat /\ n + 1 \in 1..Len(Elements) /\ n + 1 \in 0..Len(Elements)
      /\ event[l] = Ends[n + 1]
  BY <1>2, <1>4 DEF AtEnd
<1>6. Passed(l, n + 1)'
  <2>1. \A m \in 1..(n + 1) : m \in 1..n \/ m = n + 1
    BY <1>5
  <2>2. \A m \in 1..n : Ends[m] < event[l] /\ Ends[m] \in Nat
    BY <1>2, <1>4, <1>5, EndsFacts DEF Passed
  <2>3. \A m \in 1..(n + 1) : Ends[m] < event'[l]
    BY <1>1, <1>5, <2>1, <2>2
  <2>4. ASSUME n + 1 < Len(Elements) PROVE event'[l] <= Ends[(n + 1) + 1]
    <3>1. (n + 1) + 1 \in 1..Len(Elements)
      BY <1>2, <1>5, <2>4
    <3>2. Ends[n + 1] < Ends[(n + 1) + 1] /\ Ends[(n + 1) + 1] \in 1..Len(Events)
      BY <1>5, <3>1, EndsFacts
    <3>3. Ends[(n + 1) + 1] \in Nat
      BY <3>2, DocumentFacts
    <3>. QED
      BY <1>1, <1>5, <3>2, <3>3
  <2>. QED
    BY <1>2, <2>3, <2>4 DEF Passed
<1>7. Holds(n + 1)'
  BY <1>1, <1>4, HoldsSame
<1>8. \A tag \in Leaves : Field(tag)' = Blank(tag)
  <2>1. /\ NoConfig["fieldName"] = NONE /\ NoConfig["uniqueName"] = NONE
        /\ NoConfig["appendJarPathsAsName"] = FALSE
    BY DEF NoConfig
  <2>2. klass' = NONE /\ \A tag : config'[tag] = NoConfig[tag]
    BY <1>1 DEF NoConfig
  <2>. QED
    BY <2>1, <2>2 DEF Field, Blank, Leaves
<1>9. Consistent((n + 1) + 1)' /\ Consistent(1)'
  BY <1>8 DEF Consistent
<1>10. ReadSoFar(l, (n + 1) + 1)'
  <2>1. ASSUME (n + 1) + 1 \in 1..Len(Elements), NEW tag \in Leaves,
               NEW k \in EndsLeaf(Documents[document], (n + 1) + 1, tag)
        PROVE  ~ (k < event'[l])
    <3>1. PICK m \in 1..Len(Elements) : m = (n + 1) + 1
      BY <2>1
    <3>2. m > 1 /\ m - 1 = n + 1
      BY <1>5, <3>1
    <3>3. k \in EndsLeaf(Documents[document], m, tag)
      BY <2>1, <3>1
    <3>4. k \in 1..Len(Events) /\ (m > 1 => Ends[m - 1] < k)
      BY <3>3, LeafFacts
    <3>5. k \in Nat /\ event[l] < k
      BY <1>5, <3>2, <3>4, DocumentFacts
    <3>. QED
      BY <1>1, <3>5
  <2>2. \A tag : EndsLeaf(Documents[document], (n + 1) + 1, tag)'
                   = EndsLeaf(Documents[document], (n + 1) + 1, tag)
    BY <1>1, SameDocument
  <2>. QED
    BY <1>2, <2>1, <2>2 DEF ReadSoFar
<1>11. Clean(l, n + 1)'
  BY <1>1, <1>6, <1>7, <1>9, <1>10 DEF Clean
<1>12. Events[event[l]] = [kind |-> "end", value |-> "classloader"]
  BY <1>1, <1>5, EndsFacts
<1>13. LastText(l)'
  BY <1>1, <1>2, <1>12 DEF LastText
<1>14. ~Settled'
  <2>1. UNCHANGED PARSED /\ pc' = [pc EXCEPT ![l] = "event"]
    BY DEF Reset, Goto
  <2>2. ~Settled
    BY <1>1 DEF Progress, Late
  <2>. QED
    BY <1>1, <2>1, <2>2, SettledStays DEF TypeOK
<1>. QED
  BY <1>2, <1>5, <1>11, <1>13, <1>14 DEF Progress

\* A parse that comes to its end has read every element.
LEMMA EndParseStep ==
  ASSUME TypeOK, NEW l \in Loaders, Underway(l), EndParse(l), WellFormed(Documents[document])
  PROVE  Holds(Len(Elements)) /\ Consistent(1)
<1>1. pc[l] = "event" /\ event[l] > Len(Events) /\ event[l] \in Nat
  BY DocumentFacts DEF EndParse, TypeOK
<1>2. ASSUME NEW n \in 0..Len(Elements), Passed(l, n) PROVE n = Len(Elements)
  <2>1. ASSUME n < Len(Elements) PROVE FALSE
    <3>1. n + 1 \in 1..Len(Elements)
      BY <2>1, DocumentFacts
    <3>2. Ends[n + 1] \in 1..Len(Events) /\ event[l] <= Ends[n + 1]
      BY <1>2, <2>1, <3>1, EndsFacts DEF Passed
    <3>. QED
      BY <1>1, <3>2, DocumentFacts
  <2>. QED
    BY <2>1, DocumentFacts
<1>3. ~ Doomed(l)
  <2>1. 0 \in 0..Len(Elements)
    BY DocumentFacts
  <2>. QED
    BY <1>2, <2>1 DEF Doomed, Blocked
<1>4. PICK n \in 0..Len(Elements) : Clean(l, n)
  BY <1>3 DEF Underway
<1>5. n = Len(Elements)
  BY <1>2, <1>4 DEF Clean
<1>. QED
  BY <1>1, <1>4, <1>5 DEF Clean

\* configs that hold all of a well-formed document are what it means.
LEMMA HoldsMeans ==
  ASSUME TypeOK, WellFormed(Documents[document]), Holds(Len(Elements))
  PROVE  Valid /\ configs = Meaning
<1>1. DOMAIN Elements = 1..Len(Elements) /\ DOMAIN Events = 1..Len(Events)
      /\ document \in DOMAIN Documents
  BY DocumentFacts DEF TypeOK
<1>2. Valid
  BY <1>1 DEF Valid, ValidDocument, Holds, Elements
<1>3. Meaning = [k \in Strings \cup {NONE} |->
                    IF \E i \in DOMAIN Elements : Elements[i].klass = k
                    THEN Elements[CHOOSE i \in DOMAIN Elements : Elements[i].klass = k].config
                    ELSE NONE]
  BY <1>1 DEF Meaning, MeaningOf, Elements
<1>4. ASSUME NEW k \in Strings \cup {NONE} PROVE configs[k] = Meaning[k]
  <2>1. CASE \E i \in DOMAIN Elements : Elements[i].klass = k
    <3>1. PICK i \in DOMAIN Elements : i = CHOOSE j \in DOMAIN Elements : Elements[j].klass = k
      BY <2>1
    <3>2. Elements[i].klass = k
      BY <2>1, <3>1
    <3>3. Meaning[k] = Elements[i].config
      BY <1>3, <2>1, <3>1
    <3>4. configs[Elements[i].klass] = Elements[i].config
      BY <1>1, <3>1 DEF Holds
    <3>. QED
      BY <3>2, <3>3, <3>4
  <2>2. CASE ~ \E i \in DOMAIN Elements : Elements[i].klass = k
    BY <1>1, <1>3, <2>2 DEF Holds
  <2>. QED
    BY <2>1, <2>2
<1>5. configs = Meaning
  <2>1. configs \in [Strings \cup {NONE} -> Config \cup {NONE}]
    BY DEF TypeOK
  <2>2. Meaning = [k \in Strings \cup {NONE} |-> Meaning[k]]
    BY <1>3
  <2>. QED
    BY <1>4, <2>1, <2>2
<1>. QED
  BY <1>2, <1>5

-----------------------------------------------------------------------------
(* The steps of a call *)

LEMMA CallStepFacts ==
  ASSUME TypeOK, NEW l \in Loaders, CallStep(l)
  PROVE  /\ UNCHANGED <<document, supported>>
         /\ \A m \in Loaders : m # l => pc'[m] = pc[m] /\ event'[m] = event[m]
         /\ pc[l] \notin Finished \cup {"idle"} /\ pc'[l] # "idle"
         /\ PARSED => PARSED'
         /\ mixed => mixed'
<1>0. UNCHANGED supported /\ (mixed => mixed')
  BY DEF CallStep
<1>1. CASE CheckParsed(l) \/ Read(l) \/ ReadFails(l)
  BY <1>0, <1>1 DEF CheckParsed, Read, ReadFails, Goto, Finished, TypeOK
<1>2. CASE Characters(l) \/ EndKlass(l) \/ EndName(l) \/ EndClassLoaders(l)
  <2>1. pc[l] = "event" /\ UNCHANGED <<document, pc, PARSED>> /\ Advance(l)
    BY <1>2 DEF Characters, EndKlass, EndName, EndClassLoaders, At
  <2>. QED
    BY <1>0, <2>1 DEF Finished, Advance, TypeOK
<1>3. CASE Validate(l) \/ Malformed(l) \/ EndParse(l)
  BY <1>0, <1>3 DEF Validate, Malformed, EndParse, At, Goto, Finished, TypeOK
<1>4. CASE Put(l) \/ Reset(l) \/ SetParsed(l)
  BY <1>0, <1>4 DEF Put, Reset, SetParsed, Goto, Finished, Advance, TypeOK
<1>5. CASE generateIdentifier(l) \/ Register(l) \/ RegisterFails(l)
  BY <1>0, <1>5 DEF generateIdentifier, Register, RegisterFails, Goto, Finished, TypeOK
<1>. QED
  BY <1>1, <1>2, <1>3, <1>4, <1>5 DEF CallStep, ParseStep

\* The steps outside the events of a parse.
Quiet(l) == CheckParsed(l) \/ ReadFails(l) \/ generateIdentifier(l) \/ Register(l)
            \/ RegisterFails(l)

LEMMA QuietFacts ==
  ASSUME TypeOK, NEW l \in Loaders, Quiet(l)
  PROVE  /\ UNCHANGED <<document, PARSED, configs, fieldVars, event>>
         /\ pc[l] \in {"check", "open", "name", "register"}
         /\ pc'[l] \in {"open", "name", "register"} \cup Finished
<1>1. CASE CheckParsed(l) \/ ReadFails(l)
  BY <1>1 DEF CheckParsed, ReadFails, Goto, Finished, TypeOK
<1>2. CASE generateIdentifier(l) \/ Register(l) \/ RegisterFails(l)
  BY <1>2 DEF generateIdentifier, Register, RegisterFails, Goto, Finished, TypeOK
<1>. QED
  BY <1>1, <1>2 DEF Quiet

-----------------------------------------------------------------------------
(* The text a parse has passed *)

TextAt(l) ==
    /\ Parsing(l) \/ pc[l] = "parsed" =>
          \A k \in 1..(event[l] - 1) : Events[k].kind # "error"
    /\ pc[l] \in {"put", "reset"} =>
          /\ event[l] <= Len(Events)
          /\ Events[event[l]] = [kind |-> "end", value |-> "classloader"]
    /\ pc[l] = "parsed" => event[l] > Len(Events)

LEMMA TextParts ==
  TextInv <=> (\A l \in Loaders : TextAt(l)) /\ (PARSED => WellFormed(Documents[document]))
BY DEF TextInv, TextAt

\* An event that is no error passed.
LEMMA TextPassed ==
  ASSUME TypeOK, NEW l \in Loaders, TextAt(l), Parsing(l), UNCHANGED document,
         event[l] <= Len(Events), Events[event[l]].kind # "error",
         event'[l] = event[l] + 1, pc'[l] = "event"
  PROVE  TextAt(l)'
<1>1. event[l] \in 1..Len(Events) /\ Events' = Events
  BY DocumentFacts, SameDocument DEF TypeOK
<1>2. \A k \in 1..(event[l] - 1) : Events[k].kind # "error"
  BY DEF TextAt
<1>3. \A k \in 1..(event'[l] - 1) : k \in 1..(event[l] - 1) \/ k = event[l]
  BY <1>1, DocumentFacts
<1>4. \A k \in 1..(event'[l] - 1) : Events'[k].kind # "error"
  BY <1>1, <1>2, <1>3
<1>. QED
  BY <1>4 DEF TextAt

LEMMA TextStep ==
  ASSUME TypeOK, NEW l \in Loaders, TextInv, CallStep(l)
  PROVE  TextInv'
<1>0. /\ UNCHANGED document /\ Events' = Events /\ TextAt(l)
      /\ Documents[document]' = Documents[document]
  BY CallStepFacts, SameDocument, TextParts
<1>1. \A m \in Loaders : m # l => TextAt(m)'
  BY <1>0, CallStepFacts, TextParts DEF TextAt, Parsing
<1>2. SUFFICES TextAt(l)' /\ (PARSED' => WellFormed(Documents[document]))
  BY <1>0, <1>1 DEF TextInv, TextAt, WellFormed
<1>p. PARSED => WellFormed(Documents[document])
  BY TextParts
<1>3. CASE Quiet(l)
  BY <1>p, <1>3, QuietFacts DEF TextAt, Parsing, Finished
<1>4. CASE Read(l)
  <2>1. pc'[l] = "event" /\ event'[l] = 1 /\ UNCHANGED <<PARSED, document>>
    BY <1>4 DEF Read, Goto, TypeOK
  <2>2. \A k \in 1..(event'[l] - 1) : FALSE
    BY <2>1
  <2>3. TextAt(l)'
    BY <2>1, <2>2 DEF TextAt
  <2>. QED
    BY <1>p, <2>1, <2>3
<1>5. CASE Characters(l) \/ EndKlass(l) \/ EndName(l) \/ EndClassLoaders(l)
  <2>1. /\ pc[l] = "event" /\ UNCHANGED <<pc, PARSED>> /\ Advance(l)
        /\ event[l] <= Len(Events)
    BY <1>5 DEF Characters, EndKlass, EndName, EndClassLoaders, At
  <2>2. event'[l] = event[l] + 1
    BY <2>1 DEF Advance, TypeOK
  <2>3. Events[event[l]].kind # "error"
    <3>1. ASSUME NEW v, At(l, [kind |-> "characters", value |-> v])
                        \/ At(l, [kind |-> "end", value |-> v])
          PROVE  Events[event[l]].kind # "error"
      BY <3>1 DEF At
    <3>. QED
      BY <1>5, <3>1 DEF Characters, EndKlass, EndName, EndClassLoaders
  <2>. QED
    BY <1>0, <1>p, <2>1, <2>2, <2>3, TextPassed DEF Parsing
<1>6. CASE Validate(l) \/ Malformed(l)
  <2>1. /\ UNCHANGED <<PARSED, event>> /\ pc[l] = "event" /\ event[l] <= Len(Events)
        /\ pc'[l] \in {"put", "failed"}
        /\ pc'[l] = "put" => Events[event[l]] = [kind |-> "end", value |-> "classloader"]
    BY <1>6 DEF Validate, Malformed, At, Goto, TypeOK
  <2>. QED
    BY <1>0, <1>p, <2>1 DEF TextAt, Parsing
<1>7. CASE Put(l)
  <2>1. UNCHANGED <<PARSED, event>> /\ pc[l] = "put" /\ pc'[l] \in {"reset", "failed"}
    BY <1>7 DEF Put, Goto, TypeOK
  <2>. QED
    BY <1>0, <1>p, <2>1 DEF TextAt, Parsing
<1>8. CASE Reset(l)
  <2>1. /\ UNCHANGED PARSED /\ pc[l] = "reset" /\ pc'[l] = "event"
        /\ event'[l] = event[l] + 1
    BY <1>8 DEF Reset, Goto, Advance, TypeOK
  <2>2. event[l] <= Len(Events) /\ Events[event[l]].kind # "error"
    BY <1>0, <2>1 DEF TextAt
  <2>. QED
    BY <1>0, <1>p, <2>1, <2>2, TextPassed DEF Parsing
<1>9. CASE EndParse(l)
  <2>1. /\ UNCHANGED <<PARSED, event>> /\ pc[l] = "event" /\ pc'[l] = "parsed"
        /\ event[l] > Len(Events)
    BY <1>9 DEF EndParse, Goto, TypeOK
  <2>. QED
    BY <1>0, <1>p, <2>1 DEF TextAt, Parsing
<1>10. CASE SetParsed(l)
  <2>1. pc[l] = "parsed" /\ pc'[l] = "name"
    BY <1>10 DEF SetParsed, Goto, TypeOK
  <2>2. event[l] > Len(Events) /\ \A k \in 1..(event[l] - 1) : Events[k].kind # "error"
    BY <1>0, <2>1 DEF TextAt
  <2>3. WellFormed(Documents[document])
    BY <2>2, DocumentFacts DEF WellFormed, Events, TypeOK
  <2>. QED
    BY <2>1, <2>3 DEF TextAt, Parsing
<1>. QED
  BY <1>3, <1>4, <1>5, <1>6, <1>7, <1>8, <1>9, <1>10 DEF CallStep, ParseStep, Quiet

-----------------------------------------------------------------------------
(* One parse after the other *)

\* What ParseInv says of parses that are not mixed.
Orderly ==
    /\ \A l, m \in Loaders : Parsing(l) /\ Parsing(m) => l = m
    /\ \A l \in Loaders : Parsing(l) => Progress(l)
    /\ ~Settled /\ (\A l \in Loaders : ~Parsing(l)) => Leftover
    /\ Settled => /\ WellFormed(Documents[document])
                  /\ Holds(Len(Elements)) /\ Consistent(1)

LEMMA OrderlyParse == ParseInv <=> (~mixed => Orderly)
BY DEF ParseInv, Orderly

\* Steps outside the events of the parses.
LEMMA OrderlyStays ==
  ASSUME TypeOK, Orderly, UNCHANGED <<document, configs, fieldVars, event>>,
         Settled' = Settled,
         \A m \in Loaders : Parsing(m) \/ Parsing(m)' => pc'[m] = pc[m]
  PROVE  Orderly'
<1>0. /\ Documents[document]' = Documents[document] /\ Events' = Events
      /\ Elements' = Elements /\ Ends' = Ends
  BY SameDocument
<1>1. \A m \in Loaders : Parsing(m)' = Parsing(m)
  BY DEF Parsing
<1>2. Leftover' = Leftover
  BY Still DEF Leftover
<1>3. ASSUME NEW m \in Loaders, Parsing(m), Progress(m) PROVE Progress(m)'
  <2>1. pc'[m] = pc[m] /\ characters' = characters
    BY <1>3 DEF fieldVars
  <2>2. ASSUME NEW n, Clean(m, n) PROVE Clean(m, n)'
    BY <1>0, <2>1, <2>2, Still DEF Clean, fieldVars, NoConfig
  <2>3. Doomed(m) => Doomed(m)'
    BY <1>0, <2>1, Still, SameDocument DEF Doomed, fieldVars
  <2>4. Late(m) => Late(m)'
    BY <2>1, Still DEF Late
  <2>5. LastText(m)'
    BY <1>0, <1>3, <2>1 DEF Progress, LastText
  <2>. QED
    BY <1>0, <1>3, <2>2, <2>3, <2>4, <2>5 DEF Progress
<1>4. Settled' => WellFormed(Documents[document]) /\ Holds(Len(Elements))' /\ Consistent(1)'
  BY <1>0, Still DEF Orderly, Holds
<1>5. \A m \in Loaders : Parsing(m)' => Progress(m)'
  BY <1>1, <1>3 DEF Orderly
<1>. QED
  BY <1>0, <1>1, <1>2, <1>4, <1>5 DEF Orderly, WellFormed

\* A parse goes on, alone.
LEMMA OrderlyParsing ==
  ASSUME NEW l \in Loaders, \A m \in Loaders : m # l => ~Parsing(m)',
         Parsing(l)', Progress(l)',
         Settled' => /\ WellFormed(Documents[document])'
                     /\ Holds(Len(Elements))' /\ Consistent(1)'
  PROVE  Orderly'
BY DEF Orderly

\* A parse ends, alone.
LEMMA OrderlyEnded ==
  ASSUME NEW l \in Loaders, \A m \in Loaders : ~Parsing(m)',
         ~Settled' => Leftover',
         Settled' => /\ WellFormed(Documents[document])'
                     /\ Holds(Len(Elements))' /\ Consistent(1)'
  PROVE  Orderly'
BY DEF Orderly

LEMMA OrderlyStep ==
  ASSUME TypeOK, EventOK, NEW l \in Loaders, TextInv, Orderly, CallStep(l), ~Mixes(l)
  PROVE  Orderly'
<1>0. /\ UNCHANGED document /\ Events' = Events /\ Elements' = Elements
      /\ Documents[document]' = Documents[document]
      /\ \A m \in Loaders : m # l => pc'[m] = pc[m]
  BY CallStepFacts, SameDocument
<1>1. ASSUME Parsing(l)
      PROVE  /\ \A m \in Loaders : m # l => ~Parsing(m)'
             /\ Progress(l)
  BY <1>0, <1>1 DEF Orderly, Parsing
<1>2. \A m \in Loaders : m # l => (pc'[m] = "parsed" <=> pc[m] = "parsed")
  BY <1>0
<1>s. ASSUME UNCHANGED PARSED, pc[l] # "parsed", pc'[l] # "parsed" PROVE Settled' = Settled
  BY <1>0, <1>s, SettledStays
<1>3. CASE Quiet(l)
  <2>1. /\ UNCHANGED <<document, PARSED, configs, fieldVars, event>>
        /\ ~Parsing(l) /\ ~Parsing(l)' /\ pc[l] # "parsed" /\ pc'[l] # "parsed"
    BY <1>3, QuietFacts DEF Parsing, Finished
  <2>. QED
    BY <1>0, <1>s, <2>1, OrderlyStays
<1>4. CASE SetParsed(l)
  <2>1. /\ UNCHANGED <<document, configs, fieldVars, event>>
        /\ PARSED' = TRUE /\ pc[l] = "parsed" /\ pc'[l] = "name"
    BY <1>4 DEF SetParsed, Goto, TypeOK
  <2>2. Settled /\ Settled' /\ ~Parsing(l) /\ ~Parsing(l)'
    BY <2>1 DEF Settled, Parsing
  <2>3. Settled' = Settled
    BY <2>2 DEF Settled
  <2>. QED
    BY <1>0, <2>1, <2>2, <2>3, OrderlyStays
<1>5. CASE Read(l)
  <2>1. /\ pc[l] = "open" /\ pc'[l] = "event"
        /\ UNCHANGED <<document, PARSED, configs, fieldVars>>
    BY <1>5 DEF Read, Goto, TypeOK
  <2>2. \A m \in Loaders : ~Parsing(m)
    BY <2>1 DEF Mixes
  <2>3. Progress(l)'
    BY <1>5, <2>2, ReadStep DEF Orderly
  <2>4. Parsing(l)' /\ \A m \in Loaders : m # l => ~Parsing(m)'
    BY <1>0, <2>1, <2>2 DEF Parsing
  <2>5. \A tag : Field(tag)' = Field(tag)
    BY <2>1 DEF Field, fieldVars
  <2>6. Settled' => WellFormed(Documents[document]) /\ Holds(Len(Elements))' /\ Consistent(1)'
    BY <1>0, <1>s, <2>1, <2>5 DEF Orderly, Holds, Consistent
  <2>. QED
    BY <1>0, <2>3, <2>4, <2>6, OrderlyParsing DEF WellFormed
<1>6. CASE Characters(l) \/ EndKlass(l) \/ EndName(l) \/ EndClassLoaders(l)
  <2>1. pc[l] = "event" /\ UNCHANGED <<PARSED, pc, configs>>
    BY <1>6 DEF Characters, EndKlass, EndName, EndClassLoaders, At
  <2>2. Parsing(l) /\ Parsing(l)'
    BY <2>1 DEF Parsing
  <2>3. Progress(l)'
    BY <1>1, <1>6, <2>2, EventStep
  <2>4. Settled' => WellFormed(Documents[document]) /\ Holds(Len(Elements))'
    BY <1>0, <1>s, <2>1 DEF Orderly, Holds
  <2>5. Settled' => Consistent(1)'
    BY <2>3 DEF Progress, Late
  <2>. QED
    BY <1>0, <1>1, <2>2, <2>3, <2>4, <2>5, OrderlyParsing DEF WellFormed
<1>7. CASE Validate(l) \/ Malformed(l)
  <2>1. /\ UNCHANGED <<document, configs, fieldVars, event, PARSED>>
        /\ pc[l] = "event" /\ pc'[l] \in {"put", "failed"}
        /\ pc'[l] = "put" => Validate(l)
    BY <1>7 DEF Validate, Malformed, At, Goto, TypeOK
  <2>2. Parsing(l) /\ Progress(l) /\ \A m \in Loaders : m # l => ~Parsing(m)'
    BY <1>1, <2>1 DEF Parsing
  <2>3. Settled' = Settled
    BY <1>s, <2>1
  <2>4. Settled' => WellFormed(Documents[document]) /\ Holds(Len(Elements))' /\ Consistent(1)'
    BY <1>0, <2>1, <2>3, Still DEF Orderly, Holds
  <2>5. CASE pc'[l] = "put"
    <3>1. Progress(l)' /\ Parsing(l)'
      BY <2>1, <2>2, <2>5, ValidateStep DEF Parsing
    <3>. QED
      BY <1>0, <2>2, <2>4, <3>1, OrderlyParsing DEF WellFormed
  <2>6. CASE pc'[l] = "failed"
    <3>1. ~Settled' => Leftover'
      BY <2>1, <2>2, <2>3, UnderwayLeftover, StillLeftover DEF Progress, Underway
    <3>2. ~Parsing(l)'
      BY <2>6 DEF Parsing
    <3>. QED
      BY <1>0, <2>2, <2>4, <3>1, <3>2, OrderlyEnded DEF WellFormed
  <2>. QED
    BY <2>1, <2>5, <2>6
<1>8. CASE Put(l)
  <2>1. /\ pc[l] = "put" /\ pc'[l] \in {"reset", "failed"}
        /\ UNCHANGED <<document, fieldVars, event, PARSED>>
    BY <1>8 DEF Put, Goto, TypeOK
  <2>2. Parsing(l) /\ Progress(l) /\ \A m \in Loaders : m # l => ~Parsing(m)'
    BY <1>1, <2>1 DEF Parsing
  <2>3. Settled' = Settled
    BY <1>s, <2>1
  <2>4. CASE Settled
    <3>1. configs' = configs /\ pc'[l] = "failed"
      BY <1>8, <2>2, <2>4, LatePut DEF Progress, Orderly, Goto, TypeOK
    <3>2. WellFormed(Documents[document]) /\ Holds(Len(Elements))' /\ Consistent(1)'
      BY <1>0, <2>1, <2>4, <3>1, Still DEF Orderly, Holds
    <3>3. ~Parsing(l)'
      BY <3>1 DEF Parsing
    <3>. QED
      BY <1>0, <2>2, <2>3, <2>4, <3>2, <3>3, OrderlyEnded DEF WellFormed
  <2>5. CASE ~Settled /\ pc'[l] = "reset"
    <3>1. Progress(l)' /\ Parsing(l)'
      BY <1>8, <2>2, <2>5, PutStep DEF Parsing
    <3>. QED
      BY <2>2, <2>3, <2>5, <3>1, OrderlyParsing
  <2>6. CASE ~Settled /\ pc'[l] = "failed"
    <3>1. Leftover' /\ ~Parsing(l)'
      BY <1>8, <2>2, <2>6, PutFails DEF Parsing, Progress, Underway
    <3>. QED
      BY <2>2, <2>3, <2>6, <3>1, OrderlyEnded
  <2>. QED
    BY <2>1, <2>4, <2>5, <2>6
<1>9. CASE Reset(l)
  <2>1. pc[l] = "reset" /\ pc'[l] = "event" /\ UNCHANGED PARSED
    BY <1>9 DEF Reset, Goto, TypeOK
  <2>2. Parsing(l) /\ Parsing(l)' /\ Progress(l)
    BY <1>1, <2>1 DEF Parsing
  <2>3. Progress(l)'
    BY <1>9, <2>2, ResetStep
  <2>4. ~Settled'
    BY <1>s, <2>1, <2>2 DEF Progress, Late
  <2>. QED
    BY <1>1, <2>2, <2>3, <2>4, OrderlyParsing
<1>10. CASE EndParse(l)
  <2>1. /\ UNCHANGED <<document, configs, fieldVars, event>>
        /\ pc[l] = "event" /\ pc'[l] = "parsed" /\ event[l] > Len(Events)
    BY <1>10 DEF EndParse, Goto, TypeOK
  <2>2. Parsing(l) /\ Progress(l) /\ \A m \in Loaders : ~Parsing(m)'
    BY <1>1, <2>1 DEF Parsing
  <2>3. \A k \in 1..(event[l] - 1) : Events[k].kind # "error"
    BY <2>2 DEF TextInv
  <2>4. WellFormed(Documents[document])
    BY <2>1, <2>3, DocumentFacts DEF WellFormed, Events, TypeOK
  <2>5. Holds(Len(Elements)) /\ Consistent(1)
    BY <1>10, <2>2, <2>4, EndParseStep DEF Progress, Underway, Orderly
  <2>6. Holds(Len(Elements))' /\ Consistent(1)' /\ Settled'
    BY <1>0, <2>1, <2>5, Still DEF Holds, Settled
  <2>. QED
    BY <1>0, <2>2, <2>4, <2>6, OrderlyEnded DEF WellFormed
<1>. QED
  BY <1>3, <1>4, <1>5, <1>6, <1>7, <1>8, <1>9, <1>10 DEF CallStep, ParseStep, Quiet

LEMMA ParseStepInv ==
  ASSUME TypeOK, EventOK, NEW l \in Loaders, TextInv, ParseInv, CallStep(l)
  PROVE  ParseInv'
<1>1. mixed' = (mixed \/ Mixes(l))
  BY DEF CallStep
<1>2. ASSUME ~mixed' PROVE Orderly'
  BY <1>1, <1>2, OrderlyParse, OrderlyStep
<1>. QED
  BY <1>2 DEF ParseInv, Orderly

\* So the rules in force are those of the document.
LEMMA Exact == TypeOK /\ TextInv /\ ParseInv => ParsedExact
<1> SUFFICES ASSUME TypeOK, TextInv, ParseInv PROVE ParsedExact
  OBVIOUS
<1>1. PARSED => WellFormed(Documents[document])
  BY DEF TextInv
<1>2. ASSUME PARSED, ~mixed PROVE Valid /\ configs = Meaning
  BY <1>2, HoldsMeans DEF ParseInv, Settled
<1>. QED
  BY <1>1, <1>2 DEF ParsedExact

\* A late parse changes nothing of them.
LEMMA FrozenStep ==
  ASSUME TypeOK, NEW l \in Loaders, ParseInv, CallStep(l), PARSED, ~mixed'
  PROVE  configs' = configs
<1>1. Orderly /\ Settled
  BY CallStepFacts, OrderlyParse DEF Settled
<1>2. CASE Put(l)
  <2>1. Parsing(l) /\ pc[l] = "put"
    BY <1>2 DEF Put, Parsing
  <2>2. Late(l) /\ Holds(Len(Elements))
    BY <1>1, <2>1 DEF Orderly, Progress
  <2>. QED
    BY <1>2, <2>2, LatePut
<1>3. CASE ~Put(l)
  BY <1>3 DEF CallStep, ParseStep, CheckParsed, Read, ReadFails, Characters, EndKlass, EndName,
     Validate, Reset, EndClassLoaders, Malformed, EndParse, SetParsed, generateIdentifier,
     Register, RegisterFails
<1>. QED
  BY <1>2, <1>3

-----------------------------------------------------------------------------
(* The names *)

\* What the rules in force make of a loader.
LEMMA NameFacts ==
  ASSUME TypeOK, PARSED, ~mixed, ParsedExact,
         NEW l \in Loaders, NEW c, c = configs[LoaderInfo[l].klass]
  PROVE  /\ c = NONE => NameFor(l) = NONE
         /\ c # NONE => NameFor(l) = Identifier(l, c)
<1>1. /\ document \in DOMAIN Documents /\ ValidDocument[document]
      /\ c = MeaningOf[document][LoaderInfo[l].klass]
  BY DEF TypeOK, ParsedExact, Valid, Meaning
<1>2. NameFor(l) = IF c = NONE THEN NONE ELSE Identifier(l, c)
  BY <1>1 DEF NameFor, NamesOf
<1>. QED
  BY <1>2

\* The two halves of NameInv.
NameAt(l) ==
    /\ pc[l] \in {"name", "register", "registered", "refused", "ignored"} => PARSED
    /\ pc[l] = "register" => identifier[l] \in Identifiers
    /\ pc[l] \in {"registered", "refused"} => supported
    /\ pc[l] # "registered" => registered[l] = NONE

NamedAt(l) ==
    /\ pc[l] = "register" => identifier[l] = NameFor(l)
    /\ pc[l] = "registered" => registered[l] = NameFor(l)
    /\ pc[l] = "refused" =>
          NameFor(l) # NONE /\ \E m \in Loaders : registered[m] = NameFor(l)
    /\ pc[l] = "ignored" => NameFor(l) = NONE

LEMMA NameParts == NameInv <=> \A l \in Loaders : NameAt(l) /\ (~mixed => NamedAt(l))
BY DEF NameInv, NameAt, NamedAt

\* A step that registers nothing and leaves the identifiers of the others.
LEMMA NameStays ==
  ASSUME TypeOK, NameInv, NEW l \in Loaders, CallStep(l), UNCHANGED registered,
         \A m \in Loaders : m # l => identifier'[m] = identifier[m],
         NameAt(l)', ~mixed' => NamedAt(l)'
  PROVE  NameInv'
<1>0. /\ UNCHANGED supported /\ (PARSED => PARSED') /\ (mixed => mixed')
      /\ Identifiers' = Identifiers
      /\ \A m \in Loaders : NameFor(m)' = NameFor(m) /\ (m # l => pc'[m] = pc[m])
  <2>1. Identifiers' = Identifiers
    BY DEF Identifiers
  <2>2. UNCHANGED document
    BY CallStepFacts
  <2>3. \A m \in Loaders : NameFor(m)' = NameFor(m)
    BY <2>2, SameDocument
  <2>. QED
    BY <2>1, <2>3, CallStepFacts
<1>1. \A m \in Loaders : m # l => NameAt(m)'
  BY <1>0, NameParts DEF NameAt
<1>2. ASSUME ~mixed', NEW m \in Loaders, m # l PROVE NamedAt(m)'
  BY <1>0, <1>2, NameParts DEF NamedAt
<1>. QED
  BY <1>1, <1>2 DEF NameInv, NameAt, NamedAt

LEMMA NameStep ==
  ASSUME TypeOK, ParsedExact, NameInv, NEW l \in Loaders, CallStep(l)
  PROVE  NameInv'
<1>0. /\ \A m \in Loaders : NameFor(m)' = NameFor(m) /\ (m # l => pc'[m] = pc[m])
      /\ pc[l] \notin Finished /\ UNCHANGED supported
      /\ PARSED => PARSED'
      /\ mixed => mixed'
      /\ Identifiers' = Identifiers
  <2>1. Identifiers' = Identifiers
    BY DEF Identifiers
  <2>2. UNCHANGED document
    BY CallStepFacts
  <2>3. \A m \in Loaders : NameFor(m)' = NameFor(m)
    BY <2>2, SameDocument
  <2>. QED
    BY <2>1, <2>3, CallStepFacts
<1>n. NameAt(l) /\ (~mixed => NamedAt(l)) /\ registered[l] = NONE
  BY <1>0, NameParts DEF NameAt, Finished
<1>1. CASE generateIdentifier(l)
  <2>1. PICK c : c = configs[LoaderInfo[l].klass]
    OBVIOUS
  <2>2. /\ pc[l] = "name" /\ registered' = registered
        /\ \/ c = NONE /\ pc'[l] = "ignored" /\ identifier' = identifier
           \/ c # NONE /\ pc'[l] = "failed" /\ identifier' = identifier
           \/ /\ c # NONE /\ Identifier(l, c) # INVALID /\ pc'[l] = "register"
              /\ identifier' = [identifier EXCEPT ![l] = Identifier(l, c)]
    BY <1>1, <2>1 DEF generateIdentifier, Goto, TypeOK
  <2>3. c \in Config \cup {NONE}
    BY <2>1, ConstantsAssumption DEF TypeOK
  <2>4. PARSED
    BY <1>n, <2>2 DEF NameAt
  <2>5. NameAt(l)'
    BY <1>0, <1>n, <2>2, <2>3, <2>4, IdentifierType DEF NameAt, TypeOK
  <2>6. ~mixed' => NamedAt(l)'
    BY <1>0, <2>1, <2>2, <2>4, NameFacts DEF NamedAt, TypeOK
  <2>7. \A m \in Loaders : m # l => identifier'[m] = identifier[m]
    BY <2>2 DEF TypeOK
  <2>. QED
    BY <2>2, <2>5, <2>6, <2>7, NameStays
<1>2. CASE Register(l) /\ pc'[l] = "refused"
  <2>1. /\ pc[l] = "register" /\ UNCHANGED <<identifier, registered>> /\ supported
        /\ \E m \in Loaders : registered[m] = identifier[l]
    BY <1>2 DEF Register, Goto, TypeOK
  <2>2. identifier[l] # NONE /\ PARSED
    BY <1>n, <2>1, NamesAssumption DEF NameAt
  <2>3. NameAt(l)' /\ (~mixed' => NamedAt(l)')
    BY <1>0, <1>2, <1>n, <2>1, <2>2 DEF NameAt, NamedAt
  <2>. QED
    BY <2>1, <2>3, NameStays
<1>3. CASE Register(l) /\ pc'[l] # "refused"
  <2>1. /\ pc[l] = "register" /\ pc'[l] = "registered" /\ supported
        /\ UNCHANGED identifier
        /\ registered' = [registered EXCEPT ![l] = identifier[l]]
    BY <1>3 DEF Register, Goto, TypeOK
  <2>2. /\ registered'[l] = identifier[l]
        /\ \A m \in Loaders : m # l => registered'[m] = registered[m]
    BY <2>1 DEF TypeOK
  <2>3. NameAt(l)' /\ (~mixed' => NamedAt(l)')
    BY <1>0, <1>n, <2>1, <2>2 DEF NameAt, NamedAt
  <2>4. ASSUME NEW m \in Loaders, m # l PROVE NameAt(m)' /\ (~mixed' => NamedAt(m)')
    <3>1. NameAt(m)'
      BY <1>0, <2>1, <2>2, <2>4, NameParts DEF NameAt
    <3>2. ASSUME ~mixed', pc[m] = "refused"
          PROVE  NameFor(m) # NONE /\ \E k \in Loaders : registered'[k] = NameFor(m)
      <4>1. NameFor(m) # NONE /\ \E k \in Loaders : registered[k] = NameFor(m)
        BY <1>0, <3>2, NameParts DEF NamedAt
      <4>2. PICK k \in Loaders : registered[k] = NameFor(m)
        BY <4>1
      <4>3. k # l
        BY <1>n, <4>1, <4>2
      <4>. QED
        BY <2>2, <4>1, <4>2, <4>3
    <3>3. ~mixed' => NamedAt(m)'
      BY <1>0, <2>1, <2>2, <2>4, <3>2, NameParts DEF NamedAt
    <3>. QED
      BY <3>1, <3>3
  <2>. QED
    BY <2>3, <2>4 DEF NameInv, NameAt, NamedAt
<1>4. CASE ParseStep(l) \/ RegisterFails(l)
  <2>1. UNCHANGED <<identifier, registered>>
    BY <1>4 DEF ParseStep, CheckParsed, Read, ReadFails, Characters, EndKlass, EndName, Validate,
       Put, Reset, EndClassLoaders, Malformed, EndParse, SetParsed, RegisterFails
  <2>2. /\ pc'[l] \notin {"register", "registered", "refused", "ignored"}
        /\ pc'[l] = "name" => PARSED'
    <3>1. CASE Characters(l) \/ EndKlass(l) \/ EndName(l) \/ EndClassLoaders(l)
      BY <3>1 DEF Characters, EndKlass, EndName, EndClassLoaders, At
    <3>2. CASE CheckParsed(l) \/ Read(l) \/ ReadFails(l) \/ Validate(l) \/ Malformed(l)
               \/ EndParse(l) \/ RegisterFails(l)
      BY <3>2 DEF CheckParsed, Read, ReadFails, Validate, Malformed, EndParse, RegisterFails,
         Goto, TypeOK
    <3>3. CASE Put(l) \/ Reset(l) \/ SetParsed(l)
      BY <3>3 DEF Put, Reset, SetParsed, Goto, TypeOK
    <3>. QED
      BY <1>4, <3>1, <3>2, <3>3 DEF ParseStep
  <2>3. NameAt(l)' /\ NamedAt(l)'
    BY <1>n, <2>1, <2>2 DEF NameAt, NamedAt
  <2>. QED
    BY <2>1, <2>3, NameStays
<1>. QED
  BY <1>1, <1>2, <1>3, <1>4 DEF CallStep

-----------------------------------------------------------------------------
(* The inductive invariant *)

CallAt(l) ==
    /\ native[l] \in DOMAIN After \cup {"none", "CallStaticVoidMethod"} => pc[l] = "idle"
    /\ native[l] = "Java" => pc[l] # "idle"
    /\ native[l] = "returned" =>
          \/ pc[l] \in Finished \ {"failed"}
          \/ pc[l] = "failed" /\ l \in pending
          \/ pc[l] = "idle" /\ l \in printed

LEMMA CallStays ==
  ASSUME CallInv, NEW l \in Loaders, CallAt(l)',
         \A m \in Loaders : m # l => native'[m] = native[m] /\ pc'[m] = pc[m],
         printed \subseteq printed', pending \subseteq pending'
  PROVE  CallInv'
BY DEF CallInv, CallAt, After, Finished

LEMMA CallInvStep ==
  ASSUME TypeOK, CallInv, Next
  PROVE  CallInv'
<1>1. CASE OnLoad
  <2>1. UNCHANGED <<native, printed, pending, pc>>
    BY <1>1 DEF OnLoad, OnLoadFails, InitAgent, SetEventCallbacks, SetEventNotificationMode,
       nativeVars, parserVars
  <2>. QED
    BY <2>1 DEF CallInv, After, Finished
<1>2. ASSUME NEW l \in Loaders, FirstClassLoadPrepare(l) PROVE CallInv'
  <2>1. /\ UNCHANGED <<printed, pending, pc>>
        /\ native[l] = "none" /\ native' = [native EXCEPT ![l] = "GetClassSignature"]
    BY <1>2 DEF FirstClassLoadPrepare, parserVars
  <2>2. native'[l] = "GetClassSignature" /\ \A m \in Loaders : m # l => native'[m] = native[m]
    BY <2>1 DEF TypeOK
  <2>3. CallAt(l)'
    BY <2>1, <2>2 DEF CallInv, CallAt, After
  <2>. QED
    BY <2>1, <2>2, <2>3, CallStays
<1>3. ASSUME NEW l \in Loaders, Lookup(l) \/ LookupFails(l) PROVE CallInv'
  <2>1. /\ UNCHANGED pc /\ native[l] \in DOMAIN After
        /\ printed \subseteq printed' /\ pending \subseteq pending'
        /\ \/ native' = [native EXCEPT ![l] = After[native[l]]]
           \/ native' = [native EXCEPT ![l] = "returned"] /\ printed' = printed \cup {l}
    BY <1>3 DEF Lookup, LookupFails, parserVars
  <2>2. \A p \in DOMAIN After : After[p] \notin {"returned", "Java"}
    BY DEF After
  <2>3. /\ \A m \in Loaders : m # l => native'[m] = native[m]
        /\ \/ native'[l] \notin {"returned", "Java"}
           \/ native'[l] = "returned" /\ l \in printed'
    BY <2>1, <2>2 DEF TypeOK
  <2>4. pc[l] = "idle"
    BY <2>1 DEF CallInv
  <2>5. CallAt(l)'
    BY <2>1, <2>3, <2>4 DEF CallAt, After
  <2>. QED
    BY <2>1, <2>3, <2>5, CallStays
<1>4. ASSUME NEW l \in Loaders, CallStaticVoidMethod(l) PROVE CallInv'
  <2>1. /\ UNCHANGED <<printed, pending>>
        /\ native' = [native EXCEPT ![l] = "Java"]
        /\ pc' = [pc EXCEPT ![l] = "check"]
    BY <1>4 DEF CallStaticVoidMethod, registerClassLoader, Goto
  <2>2. /\ native'[l] = "Java" /\ pc'[l] = "check"
        /\ \A m \in Loaders : m # l => native'[m] = native[m] /\ pc'[m] = pc[m]
    BY <2>1 DEF TypeOK
  <2>3. CallAt(l)'
    BY <2>2 DEF CallAt, After
  <2>. QED
    BY <2>1, <2>2, <2>3, CallStays
<1>5. ASSUME NEW l \in Loaders, Java(l) PROVE CallInv'
  <2>1. UNCHANGED <<native, printed, pending>> /\ native[l] = "Java" /\ CallStep(l)
    BY <1>5 DEF Java, nativeVars
  <2>2. (\A m \in Loaders : m # l => pc'[m] = pc[m]) /\ pc'[l] # "idle"
    BY <2>1, CallStepFacts
  <2>3. CallAt(l)'
    BY <2>1, <2>2 DEF CallAt, After
  <2>. QED
    BY <2>1, <2>2, <2>3, CallStays
<1>6. ASSUME NEW l \in Loaders, Return(l) PROVE CallInv'
  <2>1. /\ UNCHANGED <<printed, pc>> /\ pc[l] \in Finished
        /\ native' = [native EXCEPT ![l] = "returned"]
        /\ pending' = IF pc[l] = "failed" THEN pending \cup {l} ELSE pending
    BY <1>6 DEF Return, parserVars
  <2>2. native'[l] = "returned" /\ \A m \in Loaders : m # l => native'[m] = native[m]
    BY <2>1 DEF TypeOK
  <2>3. CallAt(l)'
    BY <2>1, <2>2 DEF CallAt, After, Finished
  <2>. QED
    BY <2>1, <2>2, <2>3, CallStays
<1>. QED
  BY <1>1, <1>2, <1>3, <1>4, <1>5, <1>6 DEF Next, HandleLoadClass

ParserInv == TextInv /\ ParseInv /\ ParsedExact /\ NameInv

\* A step of the agent alone, or the begin of a call, leaves the parser as it is.
LEMMA Outside ==
  ASSUME TypeOK, ParserInv,
         UNCHANGED <<document, supported, PARSED, configs, fieldVars, event, identifier,
                     registered, mixed>>,
         \/ UNCHANGED pc
         \/ \E l \in Loaders : pc[l] = "idle" /\ Goto(l, "check")
  PROVE  ParserInv'
<1>0. /\ \A m \in Loaders : pc'[m] = pc[m] \/ (pc[m] = "idle" /\ pc'[m] = "check")
      /\ \A m \in Loaders : NameFor(m)' = NameFor(m)
      /\ Valid' = Valid /\ Meaning' = Meaning /\ Events' = Events
      /\ Documents[document]' = Documents[document] /\ Identifiers' = Identifiers
  BY SameDocument DEF Goto, TypeOK, Identifiers
<1>1. TextInv'
  BY <1>0 DEF ParserInv, TextInv, Parsing, WellFormed
<1>2. ParsedExact'
  BY <1>0 DEF ParserInv, ParsedExact, WellFormed
<1>3. NameInv'
  BY <1>0 DEF ParserInv, NameInv
<1>4. Settled' = Settled
  BY <1>0, SettledStays
<1>5. \A m \in Loaders : Parsing(m) \/ Parsing(m)' => pc'[m] = pc[m]
  BY <1>0 DEF Parsing
<1>6. Orderly => Orderly'
  BY <1>4, <1>5, OrderlyStays
<1>7. ParseInv'
  BY <1>6, OrderlyParse DEF ParserInv, ParseInv, Orderly
<1>. QED
  BY <1>1, <1>2, <1>3, <1>7 DEF ParserInv

\* A step that is not Java's leaves the parser alone.
LEMMA NativeStep ==
  ASSUME TypeOK, ParserInv, [Next]_vars, ~ \E l \in Loaders : Java(l)
  PROVE  ParserInv'
<1>1. CASE UNCHANGED parserVars
  BY <1>1, Outside DEF parserVars
<1>2. CASE OnLoad
  BY <1>1, <1>2 DEF OnLoad, OnLoadFails, InitAgent, SetEventCallbacks, SetEventNotificationMode
<1>3. ASSUME NEW l \in Loaders,
             FirstClassLoadPrepare(l) \/ Lookup(l) \/ LookupFails(l) \/ Return(l)
      PROVE  UNCHANGED parserVars
  BY <1>3 DEF FirstClassLoadPrepare, Lookup, LookupFails, Return
<1>4. ASSUME NEW l \in Loaders, CallStaticVoidMethod(l)
      PROVE  ParserInv'
  <2>1. /\ pc[l] = "idle" /\ Goto(l, "check")
        /\ UNCHANGED <<document, supported, PARSED, configs, fieldVars, event, identifier,
                       registered, mixed>>
    BY <1>4 DEF CallStaticVoidMethod, registerClassLoader
  <2>. QED
    BY <2>1, Outside
<1>5. CASE UNCHANGED vars
  BY <1>1, <1>5 DEF vars
<1>. QED
  BY <1>1, <1>2, <1>3, <1>4, <1>5 DEF Next, HandleLoadClass

LEMMA InitInd == Init => IndInv
<1> SUFFICES ASSUME Init PROVE IndInv
  OBVIOUS
<1>1. CallInv
  BY DEF Init, ParserInit, CallInv, After
<1>2. /\ \A k \in Strings \cup {NONE} : configs[k] = NONE
      /\ klass = NONE /\ config = NoConfig
  BY DEF Init, ParserInit
<1>3. Holds(0)
  BY <1>2 DEF Holds
<1>4. Consistent(1)
  <2>1. /\ NoConfig["fieldName"] = NONE /\ NoConfig["uniqueName"] = NONE
        /\ NoConfig["appendJarPathsAsName"] = FALSE
    BY DEF NoConfig
  <2>2. \A tag \in Leaves : Field(tag) = Blank(tag)
    BY <1>2, <2>1 DEF Field, Blank, Leaves
  <2>. QED
    BY <2>2 DEF Consistent
<1>5. ~Settled /\ \A l \in Loaders : ~Parsing(l)
  BY DEF Init, ParserInit, Settled, Parsing
<1>6. ParseInv
  BY <1>3, <1>4, <1>5 DEF ParseInv, Leftover
<1>7. TextInv /\ ParsedExact /\ NameInv
  BY DEF Init, ParserInit, TextInv, Parsing, ParsedExact, NameInv
<1>. QED
  BY <1>1, <1>6, <1>7 DEF IndInv

LEMMA NextInd ==
  ASSUME TypeOK, EventOK, IndInv, [Next]_vars, TypeOK'
  PROVE  IndInv'
<1>1. CallInv'
  <2>1. CASE Next
    BY <2>1, CallInvStep DEF IndInv
  <2>2. CASE UNCHANGED vars
    BY <2>2 DEF vars, parserVars, agentVars, nativeVars, IndInv, CallInv, After, Finished
  <2>. QED
    BY <2>1, <2>2
<1>2. ASSUME NEW l \in Loaders, Java(l) PROVE ParserInv'
  <2>1. CallStep(l)
    BY <1>2 DEF Java
  <2>2. TextInv'
    BY <2>1, TextStep DEF IndInv
  <2>3. ParseInv'
    BY <2>1, ParseStepInv DEF IndInv
  <2>4. NameInv'
    BY <2>1, NameStep DEF IndInv
  <2>5. TypeOK' /\ TextInv' /\ ParseInv' => ParsedExact'
    BY Exact, PTL
  <2>. QED
    BY <2>2, <2>3, <2>4, <2>5 DEF ParserInv
<1>3. ASSUME ~ \E l \in Loaders : Java(l) PROVE ParserInv'
  BY <1>3, NativeStep DEF IndInv, ParserInv
<1>4. ParserInv'
  BY <1>2, <1>3
<1>. QED
  BY <1>1, <1>4 DEF IndInv, ParserInv

\* While parses follow one another, the one after a parse that failed starts
\* afresh or fails again, and so does one that comes late; mixed or not, no
\* parse passes an error of the text.
THEOREM Inductive == Spec => [](TypeOK /\ EventOK /\ IndInv)
<1>1. Init => TypeOK /\ EventOK /\ IndInv
  BY InitType, InitInd
<1>2. TypeOK /\ EventOK /\ IndInv /\ [Next]_vars => (TypeOK /\ EventOK /\ IndInv)'
  BY NextType, NextInd
<1>. QED
  BY <1>1, <1>2, PTL DEF Spec

-----------------------------------------------------------------------------
(* The properties *)

\* A document that is not well formed never comes into force, and unless the
\* events of two parses were mixed the rules in force are those of a valid
\* document, whole (generateIdentifier, XMLParserHandler).
THEOREM Parsed == Spec => []ParsedExact
<1>1. IndInv => ParsedExact
  BY DEF IndInv
<1>. QED
  BY <1>1, Inductive, PTL

\* Rules in force stay in force, and a parse that comes late and alone leaves
\* them what they are.
THEOREM Frozen == Spec => ConfigsFrozen
<1>1. TypeOK /\ EventOK /\ IndInv /\ [Next]_vars
         => [PARSED => PARSED' /\ (~mixed' => configs' = configs)]_parserVars
  <2> SUFFICES ASSUME TypeOK, EventOK, IndInv, [Next]_vars, PARSED
               PROVE  \/ PARSED' /\ (~mixed' => configs' = configs)
                      \/ UNCHANGED parserVars
    OBVIOUS
  <2>1. ASSUME NEW l \in Loaders, Java(l)
        PROVE  PARSED' /\ (~mixed' => configs' = configs)
    <3>1. CallStep(l)
      BY <2>1 DEF Java
    <3>. QED
      BY <3>1, CallStepFacts, FrozenStep DEF IndInv
  <2>2. ASSUME NEW l \in Loaders, CallStaticVoidMethod(l) PROVE PARSED' /\ configs' = configs
    <3>1. UNCHANGED <<PARSED, configs>>
      BY <2>2 DEF CallStaticVoidMethod, registerClassLoader
    <3>. QED
      BY <3>1
  <2>3. ASSUME NEW l \in Loaders,
               FirstClassLoadPrepare(l) \/ Lookup(l) \/ LookupFails(l) \/ Return(l)
        PROVE  UNCHANGED parserVars
    BY <2>3 DEF FirstClassLoadPrepare, Lookup, LookupFails, Return
  <2>4. CASE OnLoad
    BY <2>4 DEF OnLoad, OnLoadFails, InitAgent, SetEventCallbacks, SetEventNotificationMode
  <2>5. CASE UNCHANGED vars
    BY <2>5 DEF vars
  <2>. QED
    BY <2>1, <2>2, <2>3, <2>4, <2>5 DEF Next, HandleLoadClass
<1>. QED
  BY <1>1, Inductive, PTL DEF Spec, ConfigsFrozen

\* Unless parses were mixed, a callback that returns without a word and leaves
\* no exception pending found its loader's name taken, or gave it, or there is
\* none to give (HandleLoadClass).
THEOREM Silent == Spec => []SilentMeansNamed
<1>1. TypeOK /\ IndInv => SilentMeansNamed
  <2> SUFFICES ASSUME TypeOK, IndInv, NEW l \in Loaders, ~mixed,
                      native[l] = "returned", l \notin printed \cup pending
               PROVE  /\ Valid
                      /\ NameFor(l) = NONE \/ \E m \in Loaders : registered[m] = NameFor(l)
    BY DEF SilentMeansNamed
  <2>1. pc[l] \in {"registered", "refused", "ignored"}
    BY DEF IndInv, CallInv, Finished
  <2>2. PARSED
    BY <2>1 DEF IndInv, NameInv
  <2>3. Valid
    BY <2>2 DEF IndInv, ParsedExact
  <2>4. NameFor(l) = NONE \/ \E m \in Loaders : registered[m] = NameFor(l)
    BY <2>1 DEF IndInv, NameInv
  <2>. QED
    BY <2>3, <2>4
<1>. QED
  BY <1>1, Inductive, PTL

-----------------------------------------------------------------------------
(* The refinement of LoaderRegistry *)

State(l) == IF Loading(l) THEN "loading" ELSE IF Calling(l) THEN "called" ELSE pc[l]

Rules == [valid |-> Valid, supported |-> supported, name |-> NamesOf[document]]

LEMMA RegistryInit == Init => Registry!Init
<1> SUFFICES ASSUME Init PROVE Registry!Init
  OBVIOUS
<1>1. TypeOK
  BY InitType
<1>2. ASSUME NEW l \in Loaders, Valid
      PROVE  NamesOf[document][l] \in Identifiers \cup {NONE, INVALID}
  <2>1. PICK c : c = Meaning[LoaderInfo[l].klass]
    OBVIOUS
  <2>2. c \in Config \cup {NONE}
    <3>1. DOMAIN Elements = 1..Len(Elements) /\ document \in DOMAIN Documents
      BY <1>1, DocumentFacts DEF TypeOK
    <3>2. LoaderInfo[l].klass \in Strings
      BY ConstantsAssumption
    <3>3. PICK k : k = LoaderInfo[l].klass
      OBVIOUS
    <3>4. c = IF \E i \in DOMAIN Elements : Elements[i].klass = k
              THEN Elements[CHOOSE i \in DOMAIN Elements : Elements[i].klass = k].config
              ELSE NONE
      BY <2>1, <3>1, <3>2, <3>3 DEF Meaning, MeaningOf, Elements
    <3>5. CASE \E i \in DOMAIN Elements : Elements[i].klass = k
      <4>1. PICK i \in DOMAIN Elements : i = CHOOSE j \in DOMAIN Elements : Elements[j].klass = k
        BY <3>5
      <4>2. c = Elements[i].config
        BY <3>4, <3>5, <4>1
      <4>. QED
        BY <1>1, <3>1, <4>1, <4>2, ElementFacts
    <3>. QED
      BY <3>4, <3>5
  <2>3. NamesOf[document][l] = IF c = NONE THEN NONE ELSE Identifier(l, c)
    BY <1>1, <1>2, <2>1 DEF TypeOK, NamesOf, Valid, Meaning
  <2>. QED
    BY <2>2, <2>3, IdentifierType
<1>3. ASSUME NEW l \in Loaders, ~Valid PROVE NamesOf[document][l] = NONE
  BY <1>1, <1>3 DEF TypeOK, NamesOf, Valid
<1>4. NamesOf[document] \in [Loaders -> Identifiers \cup {NONE, INVALID}]
  <2>1. NamesOf[document] = [l \in Loaders |-> NamesOf[document][l]]
    BY <1>1 DEF TypeOK, NamesOf
  <2>. QED
    BY <1>2, <1>3, <2>1
<1>5. Valid \in BOOLEAN /\ supported \in BOOLEAN
  BY <1>1 DEF TypeOK, Valid, ValidDocument
<1>6. [l \in Loaders |-> State(l)] = [l \in Loaders |-> "idle"]
  BY DEF Init, ParserInit, State, Calling, Loading
<1>. QED
  BY <1>4, <1>5, <1>6 DEF Registry!Init, Init, ParserInit, State

LEMMA SameRules ==
  ASSUME UNCHANGED <<document, supported>>
  PROVE  Rules' = Rules
BY DEF Rules, Valid, NamesOf

\* What is seen of a step that only l's call takes.
LEMMA Seen ==
  ASSUME TypeOK, NEW l \in Loaders, \A m \in Loaders : m # l => pc'[m] = pc[m]
  PROVE  [m \in Loaders |-> State(m)]' = [[m \in Loaders |-> State(m)] EXCEPT ![l] = State(l)']
<1>1. \A m \in Loaders : m # l => State(m)' = State(m)
  BY DEF State, Loading, Calling, Finished
<1>. QED
  BY <1>1

LEMMA Unseen ==
  ASSUME UNCHANGED <<document, supported, PARSED, registered, mixed>>,
         \A l \in Loaders : State(l)' = State(l)
  PROVE  UNCHANGED Registry!vars
<1>1. Rules' = Rules
  BY SameRules
<1>2. [l \in Loaders |-> State(l)]' = [l \in Loaders |-> State(l)]
  OBVIOUS
<1>. QED
  BY <1>1, <1>2 DEF Registry!vars, State, Rules

\* Nothing a parse does is seen but its end, and its begin within another.
LEMMA RegistryParse ==
  ASSUME TypeOK, EventOK, IndInv, NEW l \in Loaders, CallStep(l), ParseStep(l)
  PROVE  [Registry!Next]_(Registry!vars)
<1> DEFINE state == [m \in Loaders |-> State(m)]
<1>1. /\ UNCHANGED <<document, supported>> /\ Rules' = Rules
      /\ \A m \in Loaders : m # l => pc'[m] = pc[m]
  BY CallStepFacts, SameRules
<1>2. state' = [state EXCEPT ![l] = State(l)'] /\ state[l] = State(l)
  BY <1>1, Seen
<1>3. \A m \in Loaders : m # l => State(m)' = State(m)
  BY <1>1 DEF State, Loading, Calling, Finished
<1>4. UNCHANGED registered
  BY DEF ParseStep, CheckParsed, Read, ReadFails, Characters, EndKlass, EndName, Validate,
     Put, Reset, EndClassLoaders, Malformed, EndParse, SetParsed
<1>5. mixed' = mixed \/ (Mixes(l) /\ ~mixed /\ mixed')
  <2>1. mixed \in BOOLEAN /\ Mixes(l) \in BOOLEAN
    BY DEF TypeOK, Mixes
  <2>2. mixed' = (mixed \/ Mixes(l))
    BY DEF CallStep
  <2>3. CASE Mixes(l)
    BY <2>1, <2>2, <2>3
  <2>4. CASE ~Mixes(l)
    BY <2>1, <2>2, <2>4
  <2>. QED
    BY <2>3, <2>4
<1>6. CASE CheckParsed(l) /\ PARSED
  <2>1. pc[l] = "check" /\ pc'[l] = "name" /\ UNCHANGED PARSED
    BY <1>6 DEF CheckParsed, Goto, TypeOK
  <2>2. State(l)' = State(l) /\ ~Mixes(l)
    BY <2>1 DEF State, Loading, Calling, Finished, Mixes
  <2>. QED
    BY <1>1, <1>3, <1>4, <1>5, <2>1, <2>2, Unseen
<1>7. CASE CheckParsed(l) /\ ~PARSED
  <2>1. pc[l] = "check" /\ pc'[l] = "open" /\ UNCHANGED PARSED
    BY <1>7 DEF CheckParsed, Goto, TypeOK
  <2>2. State(l) = "called" /\ State(l)' = "loading" /\ ~Mixes(l)
    BY <2>1 DEF State, Loading, Calling, Finished, Mixes
  <2>3. Registry!Begin(l)
    BY <1>1, <1>2, <1>4, <1>5, <1>7, <2>1, <2>2
       DEF Registry!Begin, Registry!Move, State, Rules
  <2>. QED
    BY <2>3 DEF Registry!Next, Registry!Proceed
<1>8. CASE Read(l)
  <2>1. pc[l] = "open" /\ pc'[l] = "event" /\ UNCHANGED PARSED
    BY <1>8 DEF Read, Goto, TypeOK
  <2>2. State(l) = "loading" /\ State(l)' = "loading"
    BY <2>1 DEF State, Loading
  <2>3. CASE mixed' = mixed
    BY <1>1, <1>3, <1>4, <2>1, <2>2, <2>3, Unseen
  <2>4. CASE Mixes(l) /\ mixed'
    <3>1. PICK m \in Loaders : Parsing(m)
      BY <2>4 DEF Mixes
    <3>2. m # l /\ State(m) = "loading"
      BY <2>1, <3>1 DEF Parsing, State, Loading
    <3>3. state' = state
      BY <1>2, <2>2
    <3>4. mixed' = TRUE
      BY <2>1, <2>4, <3>1 DEF CallStep, Mixes
    <3>5. Registry!Mix
      BY <1>1, <1>4, <2>1, <2>2, <3>2, <3>3, <3>4 DEF Registry!Mix, State, Rules
    <3>. QED
      BY <3>5 DEF Registry!Next
  <2>. QED
    BY <1>5, <2>3, <2>4
<1>9. CASE SetParsed(l)
  <2>1. pc[l] = "parsed" /\ pc'[l] = "name" /\ PARSED' = TRUE
    BY <1>9 DEF SetParsed, Goto, TypeOK
  <2>2. State(l) = "loading" /\ State(l)' = "called" /\ ~Mixes(l)
    BY <2>1 DEF State, Loading, Calling, Finished, Mixes
  <2>3. Valid \/ mixed
    BY <2>1, HoldsMeans DEF IndInv, ParseInv, Settled
  <2>4. Registry!Load(l)
    BY <1>1, <1>2, <1>4, <1>5, <2>1, <2>2, <2>3
       DEF Registry!Load, Registry!Move, State, Rules
  <2>. QED
    BY <2>4 DEF Registry!Next, Registry!Proceed
<1>10. ASSUME UNCHANGED PARSED, Loading(l), pc[l] # "open", pc'[l] \notin {"failed"}, Loading(l)'
       PROVE  UNCHANGED Registry!vars
  <2>1. State(l) = "loading" /\ State(l)' = "loading" /\ ~Mixes(l)
    BY <1>10 DEF State, Mixes
  <2>. QED
    BY <1>1, <1>3, <1>4, <1>5, <1>10, <2>1, Unseen
<1>11. ASSUME UNCHANGED PARSED, Loading(l), pc'[l] = "failed"
       PROVE  Registry!Next
  <2>1. State(l) = "loading" /\ State(l)' = "failed" /\ ~Mixes(l)
    BY <1>11 DEF State, Loading, Calling, Finished, Mixes
  <2>2. Registry!LoadFails(l)
    BY <1>1, <1>2, <1>4, <1>5, <1>11, <2>1
       DEF Registry!LoadFails, Registry!Move, State, Rules
  <2>. QED
    BY <2>2 DEF Registry!Next, Registry!Proceed
<1>12. CASE Characters(l) \/ EndKlass(l) \/ EndName(l) \/ EndClassLoaders(l)
  <2>1. UNCHANGED <<PARSED, pc>> /\ pc[l] = "event"
    BY <1>12 DEF Characters, EndKlass, EndName, EndClassLoaders, At
  <2>. QED
    BY <1>10, <2>1 DEF Loading
<1>13. CASE Validate(l) \/ Put(l) \/ Reset(l) \/ EndParse(l) \/ Malformed(l)
  <2>1. /\ UNCHANGED PARSED /\ pc[l] \in {"event", "put", "reset"}
        /\ pc'[l] \in {"event", "put", "reset", "parsed", "failed"}
    BY <1>13 DEF Validate, Put, Reset, EndParse, Malformed, At, Goto, TypeOK
  <2>. QED
    BY <1>10, <1>11, <2>1 DEF Loading
<1>14. CASE ReadFails(l)
  <2>1. UNCHANGED PARSED /\ pc[l] = "open" /\ pc'[l] = "failed"
    BY <1>14 DEF ReadFails, Goto, TypeOK
  <2>. QED
    BY <1>11, <2>1 DEF Loading
<1>. QED
  BY <1>6, <1>7, <1>8, <1>9, <1>12, <1>13, <1>14 DEF ParseStep

\* A call that has found the rules is answered by them.
LEMMA RegistryAnswer ==
  ASSUME TypeOK, IndInv, NEW l \in Loaders, CallStep(l),
         generateIdentifier(l) \/ Register(l) \/ RegisterFails(l)
  PROVE  [Registry!Next]_(Registry!vars)
<1> DEFINE state == [m \in Loaders |-> State(m)]
<1>1. /\ UNCHANGED <<document, supported>> /\ Rules' = Rules
      /\ \A m \in Loaders : m # l => pc'[m] = pc[m]
  BY CallStepFacts, SameRules
<1>2. state' = [state EXCEPT ![l] = State(l)'] /\ state[l] = State(l)
  BY <1>1, Seen
<1>3. \A m \in Loaders : m # l => State(m)' = State(m)
  BY <1>1 DEF State, Loading, Calling, Finished
<1>4. pc[l] \in {"name", "register"} /\ UNCHANGED PARSED
  BY DEF generateIdentifier, Register, RegisterFails
<1>5. UNCHANGED mixed
  <2>1. ~Mixes(l) /\ mixed \in BOOLEAN
    BY <1>4 DEF Mixes, TypeOK
  <2>2. mixed' = (mixed \/ Mixes(l))
    BY DEF CallStep
  <2>. QED
    BY <2>1, <2>2
<1>6. PARSED /\ State(l) = "called"
  BY <1>4 DEF IndInv, NameInv, State, Loading, Calling, Finished
<1>7. ASSUME pc'[l] \in Finished PROVE Registry!Finish(l, pc'[l])
  <2>1. State(l)' = pc'[l]
    BY <1>7 DEF State, Loading, Calling, Finished
  <2>. QED
    BY <1>1, <1>2, <1>4, <1>5, <1>6, <2>1
       DEF Registry!Finish, Registry!Move, State, Rules
<1>8. ASSUME Registry!Answer(l) PROVE Registry!Next
  BY <1>8 DEF Registry!Next, Registry!Proceed
<1>9. Rules.name[l] = NameFor(l) /\ Rules.supported = supported
  BY DEF Rules, NameFor
<1>10. CASE generateIdentifier(l)
  <2>1. PICK c : c = configs[LoaderInfo[l].klass]
    OBVIOUS
  <2>2. /\ UNCHANGED registered
        /\ \/ c = NONE /\ pc'[l] = "ignored"
           \/ c # NONE /\ Identifier(l, c) = INVALID /\ pc'[l] = "failed"
           \/ pc[l] = "name" /\ pc'[l] = "register"
    BY <1>10, <2>1 DEF generateIdentifier, Goto, TypeOK
  <2>3. ~mixed => (c = NONE => NameFor(l) = NONE) /\ (c # NONE => NameFor(l) = Identifier(l, c))
    BY <1>6, <2>1, NameFacts DEF IndInv
  <2>4. CASE pc'[l] = "register"
    <3>1. State(l)' = State(l)
      BY <1>6, <2>4 DEF State, Loading, Calling, Finished
    <3>. QED
      BY <1>1, <1>3, <1>4, <1>5, <2>2, <3>1, Unseen
  <2>5. CASE c = NONE /\ pc'[l] = "ignored"
    <3>1. Registry!Finish(l, "ignored")
      BY <1>7, <2>5 DEF Finished
    <3>2. Registry!Given(l, NONE)
      BY <1>9, <2>3, <2>5 DEF Registry!Given, Rules
    <3>3. Registry!Ignore(l)
      BY <2>2, <3>1, <3>2 DEF Registry!Ignore
    <3>. QED
      BY <1>8, <3>3 DEF Registry!Answer
  <2>6. CASE c # NONE /\ Identifier(l, c) = INVALID /\ pc'[l] = "failed"
    <3>1. Registry!Finish(l, "failed")
      BY <1>7, <2>6 DEF Finished
    <3>2. Registry!Given(l, INVALID)
      BY <1>9, <2>3, <2>6 DEF Registry!Given, Rules
    <3>3. Registry!Fail(l)
      BY <2>2, <3>1, <3>2 DEF Registry!Fail
    <3>. QED
      BY <1>8, <3>3 DEF Registry!Answer
  <2>. QED
    BY <2>2, <2>4, <2>5, <2>6
<1>11. ASSUME pc[l] = "register"
       PROVE  identifier[l] \in Identifiers /\ Registry!Given(l, identifier[l])
  BY <1>9, <1>11 DEF IndInv, NameInv, Registry!Given, Rules
<1>12. CASE Register(l)
  <2>1. /\ pc[l] = "register" /\ supported
        /\ \/ /\ \E m \in Loaders : registered[m] = identifier[l]
              /\ pc'[l] = "refused" /\ registered' = registered
           \/ /\ ~ \E m \in Loaders : registered[m] = identifier[l]
              /\ pc'[l] = "registered"
              /\ registered' = [registered EXCEPT ![l] = identifier[l]]
    BY <1>12 DEF Register, Goto, TypeOK
  <2>2. CASE pc'[l] = "refused"
    <3>1. Registry!Finish(l, "refused")
      BY <1>7, <2>2 DEF Finished
    <3>2. Registry!Refuse(l)
      BY <1>9, <1>11, <2>1, <2>2, <3>1 DEF Registry!Refuse, Registry!Taken, Rules
    <3>. QED
      BY <1>8, <3>2 DEF Registry!Answer
  <2>3. CASE pc'[l] = "registered"
    <3>1. Registry!Finish(l, "registered")
      BY <1>7, <2>3 DEF Finished
    <3>2. Registry!Register(l)
      BY <1>9, <1>11, <2>1, <2>3, <3>1 DEF Registry!Register, Registry!Taken, Rules
    <3>. QED
      BY <1>8, <3>2 DEF Registry!Answer
  <2>. QED
    BY <2>1, <2>2, <2>3
<1>13. CASE RegisterFails(l)
  <2>1. pc[l] = "register" /\ ~supported /\ pc'[l] = "failed" /\ UNCHANGED registered
    BY <1>13 DEF RegisterFails, Goto, TypeOK
  <2>2. Registry!Finish(l, "failed")
    BY <1>7, <2>1 DEF Finished
  <2>3. Registry!Fail(l)
    BY <1>9, <1>11, <2>1, <2>2 DEF Registry!Fail, Rules
  <2>. QED
    BY <1>8, <2>3 DEF Registry!Answer
<1>. QED
  BY <1>10, <1>12, <1>13

LEMMA RegistryStep ==
  ASSUME TypeOK, EventOK, IndInv, [Next]_vars
  PROVE  [Registry!Next]_(Registry!vars)
<1>1. CASE UNCHANGED parserVars
  <2>1. UNCHANGED <<document, supported, PARSED, registered, mixed, pc>>
    BY <1>1 DEF parserVars
  <2>2. \A l \in Loaders : State(l)' = State(l)
    BY <2>1 DEF State, Loading, Calling, Finished
  <2>. QED
    BY <2>1, <2>2, Unseen
<1>2. ASSUME NEW l \in Loaders, CallStaticVoidMethod(l) PROVE Registry!Next
  <2>1. /\ UNCHANGED <<document, supported, PARSED, registered, mixed>>
        /\ pc[l] = "idle" /\ pc' = [pc EXCEPT ![l] = "check"]
    BY <1>2 DEF CallStaticVoidMethod, registerClassLoader, Goto
  <2>2. /\ State(l) = "idle" /\ State(l)' = "called"
        /\ \A m \in Loaders : m # l => pc'[m] = pc[m]
    BY <2>1 DEF State, Loading, Calling, Finished, TypeOK
  <2>3. [m \in Loaders |-> State(m)]' = [[m \in Loaders |-> State(m)] EXCEPT ![l] = "called"]
    BY <2>2, Seen
  <2>4. Rules' = Rules
    BY <2>1, SameRules
  <2>5. Registry!Call(l)
    BY <2>1, <2>2, <2>3, <2>4 DEF Registry!Call, Registry!Move, State, Rules
  <2>. QED
    BY <2>5 DEF Registry!Next
<1>3. ASSUME NEW l \in Loaders, Java(l) PROVE [Registry!Next]_(Registry!vars)
  <2>1. CallStep(l)
    BY <1>3 DEF Java
  <2>. QED
    BY <2>1, RegistryParse, RegistryAnswer DEF CallStep
<1>4. ASSUME NEW l \in Loaders,
             FirstClassLoadPrepare(l) \/ Lookup(l) \/ LookupFails(l) \/ Return(l)
      PROVE  UNCHANGED parserVars
  BY <1>4 DEF FirstClassLoadPrepare, Lookup, LookupFails, Return
<1>5. CASE OnLoad
  BY <1>1, <1>5 DEF OnLoad, OnLoadFails, InitAgent, SetEventCallbacks, SetEventNotificationMode
<1>6. CASE UNCHANGED vars
  BY <1>1, <1>6 DEF vars
<1>. QED
  BY <1>1, <1>2, <1>3, <1>4, <1>5, <1>6 DEF Next, HandleLoadClass

\* The safety half of ImplementsRegistry: for callbacks that overlap in any
\* way, parsing lazily, failing, parsing again and parsing late look as loading
\* the rules once and as a whole, until two parses are mixed; and then a call
\* is still answered only after rules were loaded, with the one name it takes.
THEOREM ImplementsRegistrySafely ==
  Spec => Registry!Init /\ [][Registry!Next]_(Registry!vars)
<1>1. Init => Registry!Init
  BY RegistryInit
<1>2. TypeOK /\ EventOK /\ IndInv /\ [Next]_vars => [Registry!Next]_(Registry!vars)
  BY RegistryStep
<1>. QED
  BY <1>1, <1>2, Inductive, PTL DEF Spec

=============================================================================
