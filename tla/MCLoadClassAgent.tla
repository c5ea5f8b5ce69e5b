--------------------------- MODULE MCLoadClassAgent ---------------------------
(***************************************************************************)
(* Configurations and loaders for TLC.  A document is printed from its     *)
(* rules the way the default configuration is: each leaf on a line of      *)
(* its own, an empty one without characters of its own.  It may be cut     *)
(* off anywhere.                                                           *)
(***************************************************************************)
EXTENDS LoadClassAgent, SequencesExt

CONSTANTS web, boot, name, only, jarPath, value, l1, l2, l3

MCStrings == {web, boot, name, only, "true"}
MCJars == {jarPath}
MCValues == {value}

Fields(v) == [t \in MCStrings |-> IF t = name THEN v ELSE NONE]
Loader(k, jars, v) == [klass |-> k, jars |-> jars, fields |-> Fields(v)]

\* Two loaders of one class, the second a URLClassLoader; a third of its own.
MCLoaderInfo ==
    [l \in Loaders |-> CASE l = l1 -> Loader(web, NONE, value)
                         [] l = l2 -> Loader(web, jarPath, NONE)
                         [] OTHER -> Loader(boot, jarPath, NONE)]

-----------------------------------------------------------------------------

Text(t) == [kind |-> "characters", value |-> t]
End(tag) == [kind |-> "end", value |-> tag]

Leaf(tag, t) ==
    IF t = NONE THEN <<Text(NONE), End(tag)>> ELSE <<Text(NONE), Text(t), End(tag)>>

\* White space between the elements of a printed document matters only where
\* an empty leaf follows.
PrintElement(e) ==
    (IF e.klass = NONE THEN << >> ELSE Leaf("klass", e.klass))
    \o (IF e.config.fieldName = NONE THEN << >> ELSE Leaf("fieldName", e.config.fieldName))
    \o (IF e.config.appendJarPathsAsName
        THEN Leaf("appendJarPathsAsName", "true") ELSE << >>)
    \o Leaf("uniqueName", e.config.uniqueName)
    \o <<End("classloader")>>

Rule(k, field, append, unique) ==
    [klass |-> k, config |-> [fieldName |-> field, appendJarPathsAsName |-> append,
                              uniqueName |-> unique]]

Rules == <<Rule(web, NONE, FALSE, only), Rule(boot, NONE, FALSE, only),
           Rule(web, name, FALSE, NONE), Rule(web, NONE, TRUE, NONE),
           Rule(boot, NONE, FALSE, NONE), Rule(NONE, NONE, FALSE, only)>>

\* The document of the given events; its elements are those that are ended.
Parsed(events, rules) ==
    LET ends == SetToSortSeq({k \in DOMAIN events : events[k] = End("classloader")}, <)
    IN  [events |-> events, ends |-> ends,
         elements |-> [i \in DOMAIN ends |-> Rules[rules[i]]]]

PrintElements(rules) == FlattenSeq([i \in DOMAIN rules |-> PrintElement(Rules[rules[i]])])

Whole(rules) == Parsed(Append(PrintElements(rules), End("classloaders")), rules)

\* Cut off after n events.
CutOff(rules, n) ==
    Parsed(Append(SubSeq(PrintElements(rules), 1, n), [kind |-> "error", value |-> NONE]), rules)

\* The documents of a set, in any order.
InSequence(docs) == FoldSet(LAMBDA d, s : Append(s, d), << >>, docs)

\* Two classes, one class twice, and a rule that lacks its class or its name
\* before or after one that does not.
Pairs == {<<2, 1>>, <<1, 4>>, <<4, 5>>, <<5, 1>>, <<1, 6>>, <<6, 1>>}

AllDocuments ==
    InSequence({Whole(<<r>>) : r \in 1..6} \cup {Whole(p) : p \in Pairs}
               \cup {CutOff(<<1, 2>>, n) : n \in 0..Len(PrintElements(<<1, 2>>))})

\* TLC evaluates a definition without parameters once, and what a constant is
\* replaced by every time.
MCDocuments == AllDocuments

\* The default configuration: two classes with a unique name each.
DefaultDocument == <<Whole(<<1, 2>>)>>

MCDefaultDocument == DefaultDocument

=============================================================================
