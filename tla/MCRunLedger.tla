---------------------------- MODULE MCRunLedger -----------------------------
(***************************************************************************)
(* Small instances of RunLedger.                                           *)
(***************************************************************************)
EXTENDS RunLedger, TLC

CONSTANTS p1, p2, o1

Symmetry == Permutations(Proc)

\* The obligation is mutated and requires coverage; where programs may be
\* spoiled it requires the DOM as well and is not mutated.
MCRequired == [o \in Obligation |-> {"coverage"}]
MCRequiredBoth == [o \in Obligation |-> {"coverage", "dom"}]
MCMutation == Obligation
NoMutation == {}

\* It requires what a browser program alone can show.
RequiredOfBrowser == [o \in Obligation |-> {"dom"}]

MCTests   == {{"passed"}, {"failed"}}
MCAsserts == {{}, {"passed"}, {"contradicted"}}
MCSpoiled == {{"passed"}, {"spoiled"}}
PassOnly  == {{"passed"}}

\* Browser programs under every seal.
MCSeals == Revision

\* No runner test, and one promoted program, of the first seal.
NoTests   == {{}}
FirstSeal == {0}
=============================================================================
