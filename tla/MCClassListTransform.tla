------------------------ MODULE MCClassListTransform ------------------------
(***************************************************************************)
(* Small class lists for TLC.  HierarchyLines are the lines that matter to *)
(* ids, parents, sources and verdicts; LoaderLines those that matter to    *)
(* loaders, not-found classes and the way a list ends.                     *)
(***************************************************************************)
EXTENDS ClassListTransform

CONSTANTS obj, A, B, r1, r2, r3, app, lib, nested, h1, h2

MCNames == {obj, A, B}
MCRawIds == {r1, r2, r3}
MCPaths == {app, lib, nested}
MCHashes == {h1, h2}

Src(form, main, inner) == [form |-> form, main |-> main, inner |-> inner]

Klass(name, id, super, interfaces, source, origin, defining) ==
    [text |-> "record", name |-> name, id |-> id, super |-> super,
     interfaces |-> interfaces, source |-> source, origin |-> origin,
     defining |-> defining, initiating |-> NONE]

ObjectLine == Klass(obj, r1, NONE, << >>, NONE, "other", NONE)

\* r2 and r3 are addresses that classes take one after the other.
HierarchyLines == {
    ObjectLine,
    Klass(A, r2, r1, << >>, Src("file", app, app), "file", NONE),
    Klass(A, r2, r1, <<r3>>, Src("fatJar", app, nested), "file", h1),
    Klass(B, r3, r2, << >>, Src("fatJar", lib, nested), "file", h1),
    Klass(B, r3, r1, <<r2>>, NONE, "file", NONE),
    Klass(B, r3, r1, << >>, Src("jarFile", app, app), "other", NONE),
    Klass(A, r2, r3, << >>, Src("fileDir", app, nested), "file", h1),
    Klass(B, r3, r1, << >>, Src("jrt", app, app), NONE, NONE),
    Klass(A, r2, r1, << >>, Src("badJar", app, app), "file", NONE)}

Other(text, source, id, defining, initiating) ==
    [Klass(A, id, NONE, << >>, source, NONE, defining)
        EXCEPT !.text = text, !.initiating = initiating]

LoaderLines == {
    ObjectLine,
    Klass(A, r2, r1, << >>, Src("file", app, app), "file", NONE),
    Klass(A, r2, r1, << >>, Src("jrt", app, app), "file", h1),
    Klass(A, NONE, r1, << >>, NONE, "file", NONE),
    Other("record", NONE, r2, h1, h1),
    Other("record", NONE, r2, h1, h2),
    Other("record", Src("notFoundClass", app, app), NONE, NONE, h1),
    Other("record", Src("notFoundClass", app, app), NONE, NONE, h2),
    Other("record", Src("jvmDefineClass", app, app), r2, h1, NONE),
    Other("comment", NONE, NONE, NONE, NONE),
    Other("blank", NONE, NONE, NONE, NONE)}

=============================================================================
