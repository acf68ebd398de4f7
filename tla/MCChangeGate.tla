---------------------------- MODULE MCChangeGate ----------------------------
(***************************************************************************)
(* Small instances of ChangeGate: contents that differ from the base in    *)
(* one or two ways each, and the page they show.                           *)
(***************************************************************************)
EXTENDS ChangeGate, TLC

CONSTANTS p1, p2

Obligation(id, text) == [id |-> id, slot |-> "s", text |-> text, mandatory |-> TRUE]

Flow(tests, obligations) ==
  [tests |-> tests, sessions |-> {}, branches |-> {}, obligations |-> obligations]

-----------------------------------------------------------------------------
(* The page: a button, one that a narrow page does not hold, a menu with a *)
(* clipped rectangle on the button's edge, and a panel without extent.     *)

MCWidth == 1..8

Rect(x, y, w, h) == [x |-> x, y |-> y, w |-> w, h |-> h]

Button(id, name, rect) ==
  [id |-> id, parent |-> NoNode, dom_id |-> Absent, test_id |-> Absent, role |-> "button",
   name |-> name, hint |-> Absent, entity |-> Absent, tag |-> "button", input |-> Absent,
   oracle |-> id = 1, focusable |-> "true", labelled |-> Absent, native_disabled |-> "false",
   modal |-> Absent, focus_inside |-> Absent,
   aria |-> [a \in {"disabled", "checked", "selected", "pressed", "expanded"} |-> Absent],
   rects |-> {rect}, clip |-> {}, visible |-> TRUE, interactive |-> TRUE, enabled |-> TRUE,
   pointer |-> TRUE, scrollable |-> FALSE, decorative |-> FALSE, text |-> {}]

Save == Button(1, "save", Rect(0, 0, 1, 1))
Help(right) == [Button(2, "help", Rect(0, 2, right, 1)) EXCEPT
                  !.text = {[sw |-> 3, cw |-> 3, sh |-> 1, ch |-> 1]}]
Menu == [Button(3, Absent, Rect(0, 0, 2, 2)) EXCEPT !.test_id = "menu",
                                                    !.clip = {Rect(0, 0, 1, 2)}]
Panel == [Button(4, "panel", Rect(0, 0, 0, 4)) EXCEPT !.parent = 2]

\* The collector samples the button's middle.
Hit(topmost) == [target |-> 1, point |-> <<0, 0>>, topmost |-> topmost, stack |-> {topmost}]

Snapshot(revision, width, nodes, right) ==
  [schema |-> SchemaV, revision |-> revision, program |-> "p", step |-> 1, route |-> "home",
   width |-> width, height |-> 6, breakpoints |-> {}, complete |-> TRUE,
   page_width |-> IF right > width THEN right
                  ELSE IF revision = "long" /\ width >= 7 THEN width + 1 ELSE width,
   client_width |-> width,
   nodes |-> nodes, hits |-> {Hit(IF Menu \in nodes THEN 3 ELSE 1)}, truncated |-> FALSE]

Returned(snapshot) ==
  [listened |-> TRUE,
   evidence |-> {[limited |-> FALSE, layout |-> {snapshot}, axe |-> {}, repeated |-> {}]}]

\* plain; wide: the second button reaches further; raised: the menu lies on the
\* first one on wide pages; long: a wide page scrolls sideways; garbled: a snapshot of another version.
Page(revision, width) ==
  LET right == IF revision = "wide" THEN 5 ELSE 3
      raised == IF revision \in {"wide", "raised"} /\ width >= 7 THEN {Menu} ELSE {}
      snapshot == Snapshot(revision, width, {Save, Help(right), Panel} \cup raised, right)
  IN  Returned(IF revision = "garbled" THEN [snapshot EXCEPT !.schema = 0] ELSE snapshot)

MCPages == [page \in {"plain", "wide", "raised", "long", "garbled"} |->
              [w \in MCWidth |-> Page(page, w)]]

MCSeen == Measurements

Section(probes) ==
  [keys |-> {"enabled", "responsive"}, enabled |-> TRUE, max_nodes |-> 4, tolerance |-> 0,
   occlusion |-> 500,
   responsive |-> [enabled |-> TRUE, min |-> 1, max |-> 8, probes |-> probes],
   overlaps |-> {}, truncations |-> {}, exceptions |-> {}]

MCSections == [ui |-> Section(8), poor |-> Section(4)]

MCWobbles == [w \in MCWidth |-> IF w = 8 THEN 0..2 ELSE {0}]
-----------------------------------------------------------------------------
\* One flow guarded by the test t, one mandatory obligation, a browser program,
\* one old piece of debt.
Base ==
  [obligations |-> {Obligation("o", "old")}, spec |-> {<<"s", "old">>},
   flows |-> ("f" :> Flow({"t"}, {"o"})), code |-> ("f" :> "v1"),
   declared |-> ("f" :> {"o"}), executed |-> {"t"}, mandatory |-> {}, loose |-> {},
   debt |-> {<<"old_arch">>}, exceptions |-> {}, programs |-> TRUE, behaviour |-> "b1",
   layout |-> "plain", ui |-> "ui"]

Changed == [Base EXCEPT !.code = "f" :> "v2"]

\* The test guards nothing any more and another one that proves nothing is there;
\* the failure of x fails no invocation.
Unguarded == [Changed EXCEPT !.flows = "f" :> Flow({}, {}), !.executed = {"t", "u"},
                             !.programs = FALSE]

\* New debt, and the old one fixed.
Indebted == [Changed EXCEPT !.debt = {<<"new_arch">>}, !.programs = FALSE,
                            !.mandatory = {"x"}, !.loose = {"x"}]

\* The program does something else, and its menu is in the way on a wide page.
Drifted == [Changed EXCEPT !.behaviour = "b2", !.layout = "raised"]

\* The specification says something else of the same obligation, and the interface
\* does not fit any more.
Overlapping == [Changed EXCEPT !.obligations = {Obligation("o", "new")},
                               !.spec = {<<"s", "new">>}, !.layout = "wide"]

\* The policy allows too few probes to find the width where scrolling starts.
Stopped == [Changed EXCEPT !.layout = "long", !.ui = "poor"]

\* The collector returns what nobody can read.
Garbled == [Changed EXCEPT !.layout = "garbled"]

\* The specification asks for something else, which u proves in another flow.
Replaced == [Unguarded EXCEPT !.obligations = {Obligation("o2", "new")},
                              !.spec = {<<"s", "new">>},
                              !.code = "f" :> "v2" @@ "g" :> "v1",
                              !.flows = "g" :> Flow({"u"}, {"o2"}), !.executed = {"u"}]

MCFacts ==
  [base |-> Base, unguarded |-> Unguarded, replaced |-> Replaced, indebted |-> Indebted,
   drifted |-> Drifted, overlapping |-> Overlapping, garbled |-> Garbled, stopped |-> Stopped]

MCHeads == {"replaced", "indebted", "drifted", "overlapping", "stopped"}

\* A developer goes back, breaks the page or drops the programs.
MCEdits ==
  [c \in DOMAIN MCFacts |->
     IF c = "overlapping" THEN {"garbled"} ELSE IF c = "replaced" THEN {"drifted"}
     ELSE IF c = "drifted" THEN {"indebted"} ELSE {"base"} \ {c}]

MCPast == {{"pass"}, {"fail"}}

MCRuleOf == [d \in {<<"old_arch">>, <<"new_arch">>} |-> {"ARCH", d[1]}]
MCSignature == [f \in {"f", "g"} |-> NoSignature]
=============================================================================
