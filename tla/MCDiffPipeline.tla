---------------------------- MODULE MCDiffPipeline ----------------------------
(***************************************************************************)
(* A small application for TLC: plain.jar with A for two releases, and the *)
(* fat jar app.jar with C below BOOT-INF/classes and A and B in lib.jar.   *)
(* It is scanned as it was, with each of its parts changed, and with a     *)
(* second plain.jar in another directory.                                  *)
(***************************************************************************)
EXTENDS DiffPipeline, TLC

CONSTANTS obj, A, B, C, bootC, N, r1, r2, r3, plain, twin, app, lib, classes, dummy,
          h1, old, old9, new, base, v9

MCNames == {obj, A, B, C, bootC, N}
MCRawIds == {r1, r2, r3}
MCJars == {plain, twin, app, lib}
MCPaths == {plain, twin, app, lib, classes}
MCFiles == {plain, app, lib, classes, dummy}
MCFileName == [p \in MCPaths |-> IF p = twin THEN plain ELSE p]
MCHashes == {h1}
MCPrints == {old, old9, new}
MCVersions == {base, v9}

File(path, name, release, print) ==
    [path |-> path, name |-> name, release |-> release, fingerprint |-> print]

Jar(file, in, inside) == [file |-> file, classes |-> in, nested |-> inside]

\* The application with the given content for A of plain.jar, and of lib.jar,
\* B, C and the directory beside the jars.
App(a9, aLib, b, c, jars, loose) ==
    [lines |-> <<[type |-> "class", is |-> "directory", classes |-> loose, jars |-> {}],
                 [type |-> "jar", is |-> "directory", classes |-> {}, jars |-> jars]>>,
     jar |-> (plain :> Jar(plain, {File(A, A, base, old), File(A, A, v9, a9)}, {}))
             @@ (twin :> Jar(plain, {File(A, A, base, old9)}, {}))
             @@ (app :> Jar(app, {File(bootC, C, base, c)}, {lib}))
             @@ (lib :> Jar(lib, {File(A, A, base, aLib), File(B, B, base, b)}, {}))]

Both == {plain, app}

AppDeployed == App(old9, old, old, old, Both, {})

IllFormed == [AppDeployed EXCEPT !.lines[2].type = "illFormed"]

AllApplications == {
    AppDeployed, IllFormed,
    App(new, old, old, old, Both, {}),
    App(new, old, old, old, Both \cup {twin}, {}),
    App(old9, new, old, old, Both, {}),
    App(old9, old, new, old, Both, {}),
    App(old9, old, old, new, Both, {}),
    App(old9, old, old, old, {app}, {}),
    App(old9, old, old, old, Both, {File(N, N, base, old), File(bootC, NONE, base, old)})}

MCApplications == AllApplications
MCDeployed == AppDeployed

Src(form, main, inner) == [form |-> form, main |-> main, inner |-> inner]

ClassLine(name, id, super, interfaces, source, origin, defining) ==
    [text |-> "record", name |-> name, id |-> id, super |-> super,
     interfaces |-> interfaces, source |-> source, origin |-> origin,
     defining |-> defining, initiating |-> NONE]

\* A from plain.jar, and A again at an address that was B's; the B that is
\* not from a file stands between A and C; the N that was generated at run
\* time has an origin and no class file.
LineA == ClassLine(A, r2, r1, << >>, Src("jarFile", plain, plain), "file", NONE)

AllLines == {
    ClassLine(obj, r1, NONE, << >>, NONE, "other", NONE),
    LineA,
    ClassLine(B, r3, r2, << >>, Src("fatJar", app, lib), "file", h1),
    ClassLine(B, r3, r2, << >>, NONE, "other", h1),
    ClassLine(A, r3, r1, << >>, Src("fatJar", app, lib), "file", h1),
    ClassLine(C, r2, r1, <<r3>>, Src("fileDir", app, classes), "file", h1),
    ClassLine(N, r3, r1, << >>, Src("jarFile", plain, plain), "file", NONE),
    [ClassLine(N, NONE, NONE, << >>, Src("notFoundClass", app, app), NONE, NONE)
        EXCEPT !.initiating = h1]}

MCLines == AllLines

AllFingerprints == [l \in AllLines |-> IF l = LineA THEN old9
                                       ELSE IF l.origin = "file" /\ l.name # N THEN old ELSE NONE]

MCFingerprint == AllFingerprints

=============================================================================
