---------------------------- MODULE MCRecoveryDesk ----------------------------
(* Four revisions of a working tree: 1 adds surface 1 and tests symbol 4; 2     *)
(* removes surface 1 again and makes a component of symbol 4; 3 both adds and   *)
(* removes surface 1; 4 recovers what the specification of surface 1 already    *)
(* says.  The name of surface 5 contains that of surface 1.                     *)
EXTENDS RecoveryDesk

CONSTANTS studio, mcp, quinn, pat

MCSubject == 0..5
MCNamesIn == [s \in MCSubject |-> IF s = 5 THEN {1, 5} ELSE {s}]
MCPrefix  == [s \in MCSubject |-> IF s \in {1, 5} THEN 1 ELSE s]
MCRoleOf  == (quinn :> "qa") @@ (pat :> "product")

MCLog ==
    << [title |-> {1}, body |-> {}, issue |-> 1, token |-> "alpha"],
       [title |-> {3}, body |-> {3}, issue |-> 0, token |-> "beta"],
       [title |-> {}, body |-> {2}, issue |-> 0, token |-> "beta"],
       [title |-> {}, body |-> {}, issue |-> 1, token |-> "beta"],
       [title |-> {}, body |-> {}, issue |-> 0, token |-> "gamma"],
       [title |-> {}, body |-> {}, issue |-> 2, token |-> "gamma"],
       [title |-> {}, body |-> {}, issue |-> 0, token |-> "gamma"],
       [title |-> {}, body |-> {}, issue |-> 2, token |-> "delta"],
       [title |-> {}, body |-> {}, issue |-> 0, token |-> "delta"] >>

First ==
    [added |-> {1}, removed |-> {}, components |-> {}, publicSymbols |-> {4},
     symbols |-> <<1, 3>>, requirements |-> <<[subject |-> 5, outcome |-> "available"]>>,
     tests |-> <<{4}>>, log |-> MCLog, specChanged |-> FALSE, worktree |-> TRUE,
     testRemoved |-> FALSE]

MCDelta ==
    << First,
       [First EXCEPT !.added = {}, !.removed = {1}, !.components = {4}, !.log = SubSeq(MCLog, 1, 3),
                     !.specChanged = TRUE],
       [First EXCEPT !.removed = {1}, !.publicSymbols = {}, !.log = <<>>,
                     !.testRemoved = TRUE],
       [First EXCEPT !.requirements = <<[subject |-> 1, outcome |-> "available"]>>,
                     !.components = {3}, !.tests = <<>>, !.log = SubSeq(MCLog, 4, 6)] >>
=============================================================================
