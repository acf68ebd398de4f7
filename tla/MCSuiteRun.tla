----------------------------- MODULE MCSuiteRun -----------------------------
(* A repository with a jest package in web/ and a vitest package at its root,  *)
(* one test bound to the only obligation, one that only history can select.    *)
EXTENDS SuiteRun

CONSTANTS p1, p2, web, root, n1, n2, o1

MCWithin == (1 :> {web, root}) @@ (2 :> {web, root}) @@ (3 :> {root})
MCTargets ==
    << [name |-> "jest", cwd |-> web, depth |-> 1, kind |-> "paths",
        reports |-> {"reports", "lcov"}, stdout |-> FALSE],
       [name |-> "vitest", cwd |-> root, depth |-> 0, kind |-> "paths",
        reports |-> {"junit"}, stdout |-> FALSE] >>
MCNeed == {[id |-> o1, high |-> FALSE]}
MCBinding ==
    {[path |-> 1, runner |-> "jest", suite |-> "suite", case |-> "case", obligations |-> {o1}, cost |-> 2, penalty |-> 0]}
MCReach == (1 :> {n1}) @@ (2 :> {n2}) @@ (3 :> {n2})
MCPresentAt == (1 :> {1, 2, 3}) @@ (2 :> {2, 3})
MCImpacts == {{n1}, {n2}}
MCStatics == {{}}
MCBreaks == {{2}}
MCTaught == {{[test |-> 2, node |-> n2, run |-> r] : r \in {-1, 0}}}
MCSymmetry == Permutations(Proc)
=============================================================================
