-------------------------- MODULE MCClassComparator --------------------------
(***************************************************************************)
(* Small class hierarchies and scans for TLC.  Deep inputs have four       *)
(* classes in every hierarchy over earlier ids, listed children first or   *)
(* parents first, and scans that find a class changed or not; wide inputs  *)
(* have two classes and every way a scan may find them.                    *)
(***************************************************************************)
EXTENDS ClassComparator

CONSTANTS A, B, C, f1, f2, own, other, v0, v9

MCNames == {A, B, C}
MCIds == 1..4
MCPrints == {f1, f2}
MCFiles == {own, other}
MCVersions == {v0, v9}

Info(print, file, version) == [fingerprint |-> print, filename |-> file, version |-> version]

Class(id, name, super, interfaces) ==
    [id |-> id, name |-> name, super |-> super, interfaces |-> interfaces,
     fingerprint |-> f1, ownerFile |-> own]

Unchanged == {Info(f1, own, v0)}
Modified == {Info(f2, own, v0)}

\* Class k may extend and implement any class before it; the fourth has the
\* name of the first, loaded by another loader.
SuperChoices == {s \in [1..4 -> {NONE, 1, 2, 3}] : \A k \in 1..4 : s[k] = NONE \/ s[k] < k}
InterfaceChoices ==
    {t \in [1..4 -> {<< >>, <<1>>, <<2>>, <<1, 2>>, <<3>>}] :
        \A k \in 1..4 : \A m \in DOMAIN t[k] : t[k][m] < k}

NameOf == <<A, B, C, A>>

Flip(s) == [k \in DOMAIN s |-> s[Len(s) + 1 - k]]

DeepInputs ==
    {[list |-> IF flipped THEN Flip(l) ELSE l, notFound |-> << >>, scan |-> scan] :
        flipped \in BOOLEAN,
        l \in {[k \in 1..4 |-> Class(k, NameOf[k], s[k], t[k])] :
                  s \in {x \in SuperChoices : x[1] = NONE /\ x[2] = 1},
                  t \in {x \in InterfaceChoices : x[2] = << >> /\ x[3] \in {<< >>, <<2>>}}},
        scan \in {[n \in {A, B, C} |-> IF n \in changed THEN Modified ELSE Unchanged] :
                     changed \in SUBSET {A, B, C}}}

Found == SUBSET {Info(p, f, v) : p \in MCPrints, f \in MCFiles, v \in MCVersions}

WideScans == {[m \in {A, B, C} |-> IF m = A THEN x ELSE IF m = B THEN y ELSE {}] :
                 x \in {z \in Found : Cardinality(z) <= 2}, y \in {{}, Unchanged}}

WideInputs ==
    {[list |-> <<Class(1, A, NONE, << >>), Class(2, n, 1, << >>)>>, notFound |-> nf, scan |-> sc] :
        n \in {A, B}, nf \in {<< >>, <<B>>, <<C, B, B>>}, sc \in WideScans}

MCInputs == DeepInputs \cup WideInputs

=============================================================================
