---------------------------- MODULE LoadClassAgent ----------------------------
(***************************************************************************)
(* The native agent, loadClassAgent.cpp and testClassLoaderJVMTI.cpp: it   *)
(* asks the VM for the event of the first class of a loader, and hands the *)
(* loader to ClassLoaderXMLParser on the thread that posted the event.     *)
(*                                                                         *)
(* Any JVMTI or JNI call may fail.  HandleLoadClass catches and prints its *)
(* own AgentException; what a JNI call or the Java method throws stays     *)
(* pending in the thread, and nobody looks at it.                          *)
(***************************************************************************)
EXTENDS ClassLoaderXMLParser

CONSTANT
    AgentMayFail  \* may a JVMTI or JNI call fail?

ASSUME AgentAssumption == AgentMayFail \in BOOLEAN

VARIABLES
    agent,     \* "new", "init", "callbacks", then "JNI_OK" or "JNI_ERR"
    m_jvmti,   \* is the environment set?
    native,    \* where the callback for a loader is
    printed,   \* the callbacks that printed an AgentException
    pending    \* the callbacks that left an exception pending in their thread

agentVars == <<agent, m_jvmti>>
nativeVars == <<native, printed, pending>>
vars == <<parserVars, agentVars, nativeVars>>

Init ==
    /\ ParserInit
    /\ agent = "new" /\ m_jvmti = FALSE
    /\ native = [l \in Loaders |-> "none"]
    /\ printed = {} /\ pending = {}

-----------------------------------------------------------------------------
(* Agent_OnLoad: Init, RegisterEvent *)

OnLoadFails ==
    /\ AgentMayFail /\ agent \in {"new", "init", "callbacks"}
    /\ agent' = "JNI_ERR"
    /\ UNCHANGED <<m_jvmti, nativeVars, parserVars>>

InitAgent ==
    /\ agent = "new"
    /\ m_jvmti' = TRUE /\ agent' = "init"
    /\ UNCHANGED <<nativeVars, parserVars>>

SetEventCallbacks ==
    /\ agent = "init"
    /\ agent' = "callbacks"
    /\ UNCHANGED <<m_jvmti, nativeVars, parserVars>>

SetEventNotificationMode ==
    /\ agent = "callbacks"
    /\ agent' = "JNI_OK"
    /\ UNCHANGED <<m_jvmti, nativeVars, parserVars>>

-----------------------------------------------------------------------------
(* HandleLoadClass *)

\* The VM posts the event of l, on the thread that loads the class.  Nothing
\* in the VM keeps two threads from doing so at once.
FirstClassLoadPrepare(l) ==
    /\ agent = "JNI_OK" /\ native[l] = "none"
    /\ native' = [native EXCEPT ![l] = "GetClassSignature"]
    /\ UNCHANGED <<printed, pending, agentVars, parserVars>>

After == [GetClassSignature |-> "Deallocate", Deallocate |-> "FindClass",
          FindClass |-> "GetStaticMethodID", GetStaticMethodID |-> "CallStaticVoidMethod"]

Lookup(l) ==
    /\ native[l] \in DOMAIN After
    /\ native' = [native EXCEPT ![l] = After[native[l]]]
    /\ UNCHANGED <<printed, pending, agentVars, parserVars>>

\* FindClass and GetStaticMethodID throw when they find nothing.
Throws(l) == native[l] \in {"FindClass", "GetStaticMethodID"}

\* Mutant: an error code of JVMTI ends the callback.
LookupFailsSilently(l) ==
    /\ AgentMayFail /\ native[l] \in DOMAIN After
    /\ native' = [native EXCEPT ![l] = "returned"]
    /\ printed' = IF Throws(l) THEN printed \cup {l} ELSE printed
    /\ pending' = IF Throws(l) THEN pending \cup {l} ELSE pending
    /\ UNCHANGED <<agentVars, parserVars>>

\* An error code, or a class or method that is not found: AgentException,
\* caught at the end of the callback.
LookupFails(l) ==
    /\ AgentMayFail /\ native[l] \in DOMAIN After
    /\ native' = [native EXCEPT ![l] = "returned"]
    /\ printed' = printed \cup {l}
    /\ pending' = IF Throws(l) THEN pending \cup {l} ELSE pending
    /\ UNCHANGED <<agentVars, parserVars>>

CallStaticVoidMethod(l) ==
    /\ native[l] = "CallStaticVoidMethod"
    /\ registerClassLoader(l)
    /\ native' = [native EXCEPT ![l] = "Java"]
    /\ UNCHANGED <<printed, pending, agentVars>>

Java(l) ==
    /\ native[l] = "Java"
    /\ CallStep(l)
    /\ UNCHANGED <<nativeVars, agentVars>>

Return(l) ==
    /\ native[l] = "Java" /\ pc[l] \in Finished
    /\ native' = [native EXCEPT ![l] = "returned"]
    /\ pending' = IF pc[l] = "failed" THEN pending \cup {l} ELSE pending
    /\ UNCHANGED <<printed, agentVars, parserVars>>

OnLoad == OnLoadFails \/ InitAgent \/ SetEventCallbacks \/ SetEventNotificationMode

HandleLoadClass(l) ==
    \/ Lookup(l) \/ LookupFails(l) \/ CallStaticVoidMethod(l) \/ Java(l) \/ Return(l)

Next == OnLoad \/ \E l \in Loaders : FirstClassLoadPrepare(l) \/ HandleLoadClass(l)

\* A thread in the callback goes on, it waits for nothing; the VM need not
\* load any class.
Spec == Init /\ [][Next]_vars /\ \A l \in Loaders : WF_vars(HandleLoadClass(l))

-----------------------------------------------------------------------------
(* Properties *)

\* The type of every variable of the agent and of the parser.
TypeOK ==
    /\ agent \in {"new", "init", "callbacks", "JNI_OK", "JNI_ERR"}
    /\ m_jvmti \in BOOLEAN
    /\ native \in [Loaders -> DOMAIN After
                              \cup {"none", "CallStaticVoidMethod", "Java", "returned"}]
    /\ printed \subseteq Loaders /\ pending \subseteq Loaders
    /\ document \in DOMAIN Documents /\ supported \in BOOLEAN
    /\ PARSED \in BOOLEAN /\ mixed \in BOOLEAN
    /\ configs \in [Strings \cup {NONE} -> Config \cup {NONE}]
    /\ klass \in Strings \cup {NONE} /\ config \in Config
    /\ characters \in Strings \cup {NONE}
    /\ pc \in [Loaders -> {"idle", "check", "open", "event", "put", "reset", "parsed",
                           "name", "register"} \cup Finished]
    /\ event \in [Loaders -> 1..(Len(Events) + 1)]
    /\ identifier \in [Loaders -> Identifiers \cup {NONE}]
    /\ registered \in [Loaders -> Identifiers \cup {NONE}]

\* A callback that returns without a word has done its work: if nothing was
\* printed and no exception is pending, and parses were not mixed, its loader
\* has the name the configuration gives it, or another loader took it, or there
\* is none.
SilentMeansNamed ==
    \A l \in Loaders :
        ~mixed /\ native[l] = "returned" /\ l \notin printed \cup pending =>
            /\ Valid
            /\ NameFor(l) = NONE \/ \E m \in Loaders : registered[m] = NameFor(l)

\* Every callback returns to the thread that loads the class.
CallbacksReturn == \A l \in Loaders : native[l] # "none" ~> native[l] = "returned"

-----------------------------------------------------------------------------
(* Why they hold.                                                            *)

\* Where a callback and its call of the Java method are.
CallInv ==
    \A l \in Loaders :
        /\ native[l] \in DOMAIN After \cup {"none", "CallStaticVoidMethod"} => pc[l] = "idle"
        /\ native[l] = "Java" => pc[l] # "idle"
        /\ native[l] = "returned" =>
              \/ pc[l] \in Finished \ {"failed"}
              \/ pc[l] = "failed" /\ l \in pending
              \/ pc[l] = "idle" /\ l \in printed

IndInv == CallInv /\ TextInv /\ ParseInv /\ ParsedExact /\ NameInv

=============================================================================
