--------------------------- MODULE MCBehaviorLedger ---------------------------
(* A page over a component over an endpoint's handler, one test that is cut    *)
(* short on its way there and one that is not, an endpoint of a test's own; two *)
(* journals of one session, a journal that is refused, a recording and a        *)
(* program that stays on one page.                                             *)
EXTENDS BehaviorLedger

CONSTANTS p1, p2, r1, r2, t1, t2, a, b, c, ft, f2, fa, fb, fc

MCOrder ==
    <<<<"component", "list">>, <<"endpoint", "GET /x">>, <<"route", "/a">>, <<"route", "/c">>>>
MCGraph ==
    [nodes |-> {t1, t2, a, b, c},
     edges |-> {<<t1, a>>, <<a, b>>, <<b, c>>, <<t2, c>>},
     endpoints |-> {[label |-> "GET /x", nodes |-> {c, t2}], [label |-> ft, nodes |-> {a}]},
     file  |-> (t1 :> ft) @@ (t2 :> f2) @@ (a :> fa) @@ (b :> fb) @@ (c :> fc),
     path  |-> (t1 :> ft) @@ (t2 :> f2) @@ (a :> fa) @@ (b :> b) @@ (c :> fc),
     kind  |-> (t1 :> "route") @@ (t2 :> "none") @@ (a :> "route") @@ (b :> "component")
                 @@ (c :> "route"),
     label |-> (t1 :> "/a") @@ (t2 :> "t") @@ (a :> "/a") @@ (b :> "list") @@ (c :> "/c")]

Page(route) == [route |-> route, actor |-> Unknown, component |-> Unknown,
                data |-> Unknown, modal |-> Unknown, flags |-> Unknown]
Act(action, after) == [action |-> action, value |-> "none", route |-> "/a", after |-> after]

MCJournals ==
    {[session |-> 1, data |-> {}, initial |-> Page("/c"), events |-> <<>>],
     [session |-> 1, data |-> {"name"}, initial |-> Page("/a"),
      events |-> <<[Act("fill", Page("/c")) EXCEPT !.value = "name"]>>],
     [session |-> 2, data |-> {}, initial |-> Page("/c"),
      events |-> <<[Act("fill", Page("/b")) EXCEPT !.value = "secret"]>>]}
MCRecordings ==
    {[session |-> 4, obligations |-> {"o"}, apis |-> {"GET /x"}, initial |-> Page("/a"),
      events |-> <<Act("activate", Page("/c"))>>]}

Seen(state, requests) == [state |-> state, requests |-> requests]
MCProgram ==
    [observations |-> <<Seen(Page("/a"), {}), Seen(Page(Unknown), {"GET /x"})>>,
     spans |-> <<[start |-> 1, end |-> 1, action |-> "press"],
                 [start |-> 1, end |-> 2, action |-> "activate"]>>]
MCSource(browser) ==
    [graph |-> MCGraph, browser |-> browser,
     bindings |-> {[path |-> ft, obligations |-> FALSE], [path |-> f2, obligations |-> TRUE]},
     coverage |-> (a :> "covered") @@ (c :> "uncovered"), passing |-> {f2},
     flows |-> {b}, ui |-> [findings |-> {[route |-> "/a", a11y |-> TRUE]}, measured |-> {}],
     mutated |-> Unknown]
MCSources == <<MCSource(<<MCProgram>>)>>
MCSymmetry == Permutations(Proc) \cup Permutations(Runs)
=============================================================================
