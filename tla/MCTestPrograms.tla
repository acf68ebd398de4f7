--------------------------- MODULE MCTestPrograms ---------------------------
(***************************************************************************)
(* Small instances of TestPrograms.                                        *)
(***************************************************************************)
EXTENDS TestPrograms, TLC

CONSTANTS a1, a2, asserts, other, css, role

Symmetry == Permutations(Author)

\* Revision 1 rewords the requirement, or only the risk in quality.yaml.
Reworded == [v \in Revision |-> v]
Unchanged == [v \in Revision |-> 0]
=============================================================================
