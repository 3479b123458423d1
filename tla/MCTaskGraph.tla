---------------------------- MODULE MCTaskGraph ----------------------------
(***************************************************************************)
(* Small plans for TLC.                                                    *)
(***************************************************************************)
EXTENDS TaskGraph, TLC

CONSTANTS g1, g2, a, b, c, h1, h2, x, f

\* Two graphs that write one file, and a reader beside the writer of the first.
FilesGraphOf == [n \in Node |-> IF n = c THEN g2 ELSE g1]
FilesPlanDeps == [n \in Plan |-> {}]
FilesFiles == [n \in Node |-> IF n \in {a, c} THEN {f} ELSE {}]

\* One graph: b depends on a; a may be split, and the closing may add x.
LifeGraphOf == [n \in Node |-> g1]
LifePlanDeps == [n \in Plan |-> IF n = b THEN {a} ELSE {}]
LifeFiles == [n \in Node |-> {}]

\* The two halves of a split are alike.
Alike == Permutations(Halves)
=============================================================================
