---------------------------- MODULE LoaderRegistry ----------------------------
(***************************************************************************)
(* What the class loader naming promises, whatever the XML says.  A call    *)
(* that finds no rules loads them, as a whole, or fails; a call that finds *)
(* them gives its loader the name they give it, if the run-time can.       *)
(* Several calls may be loading: nothing keeps them from mixing what they  *)
(* load, and then the rules may be anything.                               *)
(***************************************************************************)
CONSTANTS
    Loaders,
    Names,
    NONE,     \* a loader no rule is about
    INVALID   \* a loader whose rule cannot be applied to it

VARIABLES
    rules,      \* valid: can the rules be loaded; name: what they say;
                \* supported: does the run-time take names?
    loaded,
    mixed,
    state,      \* of the call for each loader
    registered  \* the names the run-time holds

vars == <<rules, loaded, mixed, state, registered>>

Finished == {"registered", "refused", "ignored", "failed"}

Init ==
    /\ rules \in [valid : BOOLEAN, supported : BOOLEAN,
                  name : [Loaders -> Names \cup {NONE, INVALID}]]
    /\ loaded = FALSE /\ mixed = FALSE
    /\ state = [l \in Loaders |-> "idle"]
    /\ registered = [l \in Loaders |-> NONE]

Move(l, from, to) == state[l] = from /\ state' = [state EXCEPT ![l] = to]

Call(l) ==
    /\ Move(l, "idle", "called")
    /\ UNCHANGED <<rules, loaded, mixed, registered>>

\* Only a call that finds no rules loads them.
Begin(l) ==
    /\ ~loaded /\ Move(l, "called", "loading")
    /\ UNCHANGED <<rules, loaded, mixed, registered>>

Load(l) ==
    /\ rules.valid \/ mixed
    /\ Move(l, "loading", "called")
    /\ loaded' = TRUE
    /\ UNCHANGED <<rules, mixed, registered>>

Mix ==
    /\ \E l, m \in Loaders : l # m /\ state[l] = "loading" /\ state[m] = "loading"
    /\ mixed' = TRUE
    /\ UNCHANGED <<rules, loaded, state, registered>>

\* Loading may fail, also when another call has succeeded.
LoadFails(l) ==
    /\ Move(l, "loading", "failed")
    /\ UNCHANGED <<rules, loaded, mixed, registered>>

\* The rules in force give the loader this name, or none.
Given(l, name) == rules.name[l] = name \/ mixed

Taken(name) == \E m \in Loaders : registered[m] = name

Finish(l, how) ==
    /\ loaded /\ Move(l, "called", how)
    /\ UNCHANGED <<rules, loaded, mixed>>

Register(l) ==
    /\ Finish(l, "registered") /\ rules.supported
    /\ \E name \in Names :
          /\ Given(l, name) /\ ~Taken(name)
          /\ registered' = [registered EXCEPT ![l] = name]

\* "If duplicated names are found, run-time will throw an error"
Refuse(l) ==
    /\ Finish(l, "refused") /\ rules.supported
    /\ \E name \in Names : Given(l, name) /\ Taken(name)
    /\ UNCHANGED registered

Ignore(l) ==
    /\ Finish(l, "ignored")
    /\ Given(l, NONE)
    /\ UNCHANGED registered

Fail(l) ==
    /\ Finish(l, "failed")
    /\ Given(l, INVALID) \/ (~rules.supported /\ \E name \in Names : Given(l, name))
    /\ UNCHANGED registered

Answer(l) == Register(l) \/ Refuse(l) \/ Ignore(l) \/ Fail(l)

Proceed(l) == Begin(l) \/ Load(l) \/ LoadFails(l) \/ Answer(l)

Next == Mix \/ \E l \in Loaders : Call(l) \/ Proceed(l)

\* A call that was made is answered.
Spec == Init /\ [][Next]_vars /\ \A l \in Loaders : WF_vars(Proceed(l))

=============================================================================
