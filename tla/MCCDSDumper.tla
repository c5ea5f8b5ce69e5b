----------------------------- MODULE MCCDSDumper -----------------------------
(***************************************************************************)
(* Small dumps for TLC: two main jars with nested jars and classes, some   *)
(* at the same place in both; and heaps around 32 G, with 2 for 1024.      *)
(***************************************************************************)
EXTENDS CDSDumper

CONSTANTS app, lib, boot, libs, classes, nested, other, top, klass

MCMains == {app, lib}
MCFiles == {nested, other, top, klass}
MCDirs == {boot, libs, classes}

\* BOOT/lib/nested.jar, BOOT/lib/other.jar, top.jar, BOOT/classes/Klass.class
MCChain == [f \in MCFiles |-> CASE f \in {nested, other} -> <<boot, libs>>
                                [] f = klass -> <<boot, classes>>
                                [] OTHER -> << >>]

MCEntries == [m \in MCMains |-> IF m = app THEN MCFiles ELSE {nested, klass}]

Jar(main, file) == [form |-> "fatJar", main |-> main, dir |-> libs, file |-> file]
Class(main) == [form |-> "fileDir", main |-> main, dir |-> classes, file |-> klass]

RequestLists == {
    <<Jar(app, nested), Jar(lib, nested), Jar(app, nested)>>,
    <<Jar(app, other), Jar(lib, nested), Class(app)>>,
    <<Class(app), Class(lib), Jar(app, nested)>>,
    <<Jar(app, top), Jar(app, nested)>>}

Heap(number, unit) == [heap |-> TRUE, number |-> number, unit |-> unit]
NoHeap == [heap |-> FALSE, number |-> 0, unit |-> "digit"]

\* With KB = 2: 32 G is 256; 256 T is 2^12, which wraps to 0.
Heaps == {Heap(n, u) : n \in {16, 31, 32}, u \in {"T", "G"}}
            \cup {Heap(255, "T"), Heap(256, "T"), Heap(256, "digit"), Heap(128, "K"),
                  Heap(64, "M"), Heap(1, "bad"), NoHeap}

AllInputs ==
    {[requests |-> r, arguments |-> << >>] : r \in RequestLists}
    \cup {[requests |-> << >>, arguments |-> <<a, b>>] : a, b \in Heaps}

MCInputs == AllInputs

=============================================================================
