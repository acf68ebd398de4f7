------------------------------- MODULE MCCas --------------------------------
(***************************************************************************)
(* Small instances of Cas.                                                 *)
(***************************************************************************)
EXTENDS Cas

CONSTANTS w1, w2, a, b

\* Each writer puts blobs of its own.
Apart == [w \in Writer |-> IF w = w1 THEN {a} ELSE {b}]

=============================================================================
