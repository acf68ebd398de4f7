------------------------------- MODULE Surfaces -------------------------------
(***************************************************************************)
(* What a run says of the surfaces of an application: the projection of    *)
(* the code graph, the evidence matrix over it, the cheapest plan to fill  *)
(* its gaps and the behaviours seen on it.  Pure functions of              *)
(* crates/wvq-intelligence and of the persist_* files of the command bus.  *)
(*                                                                         *)
(* A graph is [nodes, edges, endpoints, file, path, kind, label].  file is *)
(* what a node's span says, path what its identifier names.  Its kind is   *)
(* that of the parser or, where it has none, the one its label or its      *)
(* identifier looks like ("none" if neither looks like anything), and its  *)
(* label is the name the surface takes: the identifier, where only that    *)
(* looks like an endpoint.  An endpoint of the graph's own list is [label, *)
(* nodes].  A surface is <<kind, label>>.                                  *)
(***************************************************************************)
EXTENDS Integers, Sequences, FiniteSets, SequencesExt, FiniteSetsExt, Functions

CONSTANTS
    TestFile,      \* files, and labels, that look like tests, stories or specifications
    SourceFile,    \* files the walk takes for production sources
    Code,          \* nodes that are symbols or files
    SurfaceOrder,  \* surfaces in the order of their names
    MaxSurfaces,   \* MAX_APPLICATION_SURFACES
    MaxDepth,      \* MAX_REACH_DEPTH
    MaxPaths,      \* MAX_EVIDENCE_PATHS
    Unknown        \* an absent dimension

First(max, ids) ==
    LET order == SelectSeq(SurfaceOrder, LAMBDA s : s \in ids)
    IN  Range(SubSeq(order, 1, Min({max, Len(order)})))

-----------------------------------------------------------------------------
(* The projection *)

\* node_is_test looks at the identifier.
IsTestNode(g, n) == g.path[n] \in TestFile
Implements(g, n) == n \in Code /\ ~ IsTestNode(g, n)

\* An endpoint of the list names its nodes, a node of the graph its neighbours and itself.
FromEndpoint(g, e) ==
    [surface |-> <<"endpoint", e.label>>, nodes |-> {n \in e.nodes : ~ IsTestNode(g, n)}]
FromNode(g, n) ==
    LET near == {m \in g.nodes : <<n, m>> \in g.edges \/ <<m, n>> \in g.edges}
    IN  [surface |-> <<g.kind[n], g.label[n]>>,
         nodes   |-> {m \in near \cup {n} : Implements(g, m)}]

\* What names a surface: endpoints and nodes that do not look like tests.
Found(g) ==
    {FromEndpoint(g, e) : e \in {x \in g.endpoints : x.label \notin TestFile}}
        \cup {FromNode(g, n) : n \in {m \in g.nodes :
                   ~ IsTestNode(g, m) /\ g.kind[m] # "none"}}

\* application_surface_graph: surface -> its implementation
Application(g) ==
    [s \in First(MaxSurfaces, {f.surface : f \in Found(g)}) |->
        UNION {f.nodes : f \in {h \in Found(g) : h.surface = s}}]

ApplicationTruncated(g) == Cardinality({f.surface : f \in Found(g)}) > MaxSurfaces

Touching(app, nodes) == {s \in DOMAIN app : app[s] \cap nodes # {}}

\* production_nodes_for_binding: the nodes of a production file, or those a test's file
\* leads to; the walk looks at the files of spans.  Beyond MaxPaths nodes it is truncated;
\* that it also stops at twice as many is left out.
Reach(g, path) ==
    LET After(nodes) == {m \in g.nodes : \E n \in nodes : <<n, m>> \in g.edges}
        start == {n \in g.nodes : g.file[n] = path}
        Level[d \in 0..MaxDepth] ==
            IF d = 0 THEN start
            ELSE {n \in After(Level[d - 1]) : g.file[n] \notin TestFile}
                    \ UNION {Level[k] : k \in 0..(d - 1)}
        walked == {n \in UNION {Level[d] : d \in 1..MaxDepth} : g.file[n] \in SourceFile}
    IN  IF path \notin TestFile THEN [nodes |-> start, truncated |-> FALSE]
        ELSE [nodes     |-> walked,
              truncated |-> After(Level[MaxDepth]) # {} \/ Cardinality(walked) > MaxPaths]

-----------------------------------------------------------------------------
(* The matrix.  A column is None or [present, absent], sets of surfaces. *)

Unmeasured == [present |-> {}, absent |-> {}]
ClosedWorld(app, present) == [present |-> present, absent |-> DOMAIN app \ present]

\* A column in which what a truncated walk touches is absent like anything else.
BindingColumnClosed(g, app, paths) ==
    ClosedWorld(app, UNION {Touching(app, Reach(g, p).nodes) :
                                p \in {q \in paths : ~ Reach(g, q).truncated}})

BindingColumn(g, app, paths) ==
    LET Seen(truncated) == UNION {Touching(app, Reach(g, p).nodes) :
                                p \in {q \in paths : Reach(g, q).truncated = truncated}}
        present == Seen(FALSE) \ Seen(TRUE)
    IN  [present |-> present, absent |-> DOMAIN app \ (present \cup Seen(TRUE))]

\* coverage_autopilot and coverage_column.  coverage: node -> "covered", "uncovered" or,
\* outside its domain, unmeasured.
CoverageColumn(app, coverage) ==
    LET Of(s, measured) == {n \in app[s] \cap DOMAIN coverage : coverage[n] = measured}
    IN  [present |-> {s \in DOMAIN app : Of(s, "covered") # {}},
         absent  |-> {s \in DOMAIN app : app[s] # {} /\ Of(s, "uncovered") = app[s]}]

SurfacesOfRoute(app, route) == DOMAIN app \cap {<<"route", route>>}

SurfacesOfState(app, state) ==
    SurfacesOfRoute(app, state.route) \cup (DOMAIN app \cap {<<"component", state.component>>})

\* A step of a browser program is [observed, requests]; a journal is [initial, events]
\* with events [action, route, after].  A journal holds no API call.
RuntimeColumn(app, browser, journals) ==
    IF browser = {} /\ journals = {} THEN Unmeasured
    ELSE ClosedWorld(app,
        (UNION {SurfacesOfRoute(app, o.state.route)
                 \cup (DOMAIN app \cap {<<"endpoint", r>> : r \in o.requests})
                    : o \in UNION {Range(b.observations) : b \in browser}})
        \cup UNION {SurfacesOfState(app, j.initial)
                 \cup UNION {SurfacesOfState(app, e.after)
                        \cup (IF e.action = "navigate" THEN SurfacesOfRoute(app, e.route)
                              ELSE {}) : e \in Range(j.events)} : j \in journals})

\* passing: the bound test files of which an exact case passed.  None measured leaves the
\* column out; a truncated walk proves nothing.
ProofColumn(g, app, passing) ==
    IF passing = {} THEN Unmeasured
    ELSE ClosedWorld(app, UNION {Touching(app, Reach(g, p).nodes) :
                                    p \in {q \in passing : ~ Reach(g, q).truncated}})

\* mutated: None, or the files with judged mutants
MutationColumn(g, app, mutated) ==
    IF mutated = Unknown THEN Unmeasured
    ELSE ClosedWorld(app, UNION {Touching(app, Reach(g, p).nodes) :
                                    p \in {q \in mutated : ~ Reach(g, q).truncated}})

\* flows: None, or the nodes of the protected flows
ProtectionColumn(app, flows) ==
    IF flows = Unknown THEN Unmeasured ELSE ClosedWorld(app, Touching(app, flows))

\* ui: None, or [findings : sets of [route, a11y], measured : routes]
UiColumn(app, ui, a11y) ==
    IF ui = Unknown THEN Unmeasured
    ELSE ClosedWorld(app, UNION {SurfacesOfRoute(app, r) :
            r \in ui.measured \cup {f.route : f \in {h \in ui.findings : h.a11y = a11y}}})

Cell(column, s) ==
    IF s \in column.present THEN "present"
    ELSE IF s \in column.absent THEN "absent" ELSE "unmeasured"

\* surface_evidence_from, of the sources of one run
Matrix(g, of) ==
    LET app == Application(g)
        bound == {b.path : b \in of.bindings}
        columns ==
           [intent     |-> BindingColumn(g, app, {b.path : b \in {c \in of.bindings : c.obligations}}),
            test       |-> BindingColumn(g, app, bound),
            coverage   |-> CoverageColumn(app, of.coverage),
            runtime    |-> RuntimeColumn(app, of.browser, of.journals),
            proof      |-> ProofColumn(g, app, of.passing),
            protection |-> ProtectionColumn(app, of.flows),
            ui         |-> UiColumn(app, of.ui, FALSE),
            a11y       |-> UiColumn(app, of.ui, TRUE),
            mutation   |-> MutationColumn(g, app, of.mutated)]
    IN  [truncated |-> ApplicationTruncated(g) \/ \E p \in bound : Reach(g, p).truncated,
         rows |-> [s \in DOMAIN app |-> [c \in DOMAIN columns |-> Cell(columns[c], s)]]]

-----------------------------------------------------------------------------
(* The cheapest plan.  The inventory of a live run has every producer. *)

Cost(producer) ==
    CASE producer = "existing_test_adaptation" -> 1
      [] producer = "recorded_session"         -> 2
      [] producer = "storybook_flow"           -> 3
      [] producer = "source_mutation"          -> 4
      [] producer = "spec_recovery"            -> 5
      [] producer = "product_review"           -> 8
      [] producer = "ai_test_program"          -> 10

\* Offers; that of exploration, which is never available, is left out.
Offers(column, kind, intent) ==
    LET story == IF kind \in {"route", "component"} THEN {"storybook_flow"} ELSE {}
    IN  CASE column = "intent"   -> {"spec_recovery", "product_review"}
          [] column = "mutation" -> {"source_mutation"}
          [] column = "runtime"  -> {"recorded_session", "ai_test_program"}
          [] column = "test"     -> {"existing_test_adaptation", "recorded_session",
                                     "ai_test_program"} \cup story
          [] column = "proof"    -> IF ~ intent THEN {}
                                    ELSE {"existing_test_adaptation", "recorded_session",
                                          "ai_test_program"} \cup story
          [] column \in {"coverage", "protection"} ->
                {"existing_test_adaptation", "ai_test_program"} \cup story
          [] column \in {"ui", "a11y"} -> {"recorded_session", "ai_test_program"} \cup story

Plan(matrix) ==
    {LET row == matrix.rows[gap[1]]
         offers == Offers(gap[2], gap[1][1], row.intent = "present")
     IN  [surface  |-> gap[1],
          column   |-> gap[2],
          need     |-> row[gap[2]],
          offers   |-> offers,
          cheapest |-> {p \in offers : \A q \in offers : Cost(p) <= Cost(q)}]
        : gap \in UNION {{<<s, c>> : c \in {d \in DOMAIN matrix.rows[s] :
                            matrix.rows[s][d] # "present"}} : s \in DOMAIN matrix.rows}}

-----------------------------------------------------------------------------
(* Behaviours *)

Fact(state, action, origin) ==
    [surface |-> <<"route", state.route>>, role |-> state.actor,
     state   |-> IF state.data # Unknown THEN state.data ELSE state.modal,
     action  |-> action, flag |-> state.flags, origin |-> origin]

JournalFacts(j) ==
    {Fact(j.initial, Unknown, "recorded")}
        \cup {Fact(e.after, e.action, "recorded") : e \in Range(j.events)}

\* The observation at the end of the span or, where it is missing, at its start.
BrowserFacts(b) ==
    LET At(span) == IF span.end \in DOMAIN b.observations THEN span.end ELSE span.start
    IN  {Fact(b.observations[At(span)].state, span.action, "observed") :
            span \in {s \in Range(b.spans) : /\ At(s) \in DOMAIN b.observations
                                             /\ b.observations[At(s)].state.route # Unknown}}

\* Facts that agree in every dimension are one behaviour with several origins; two facts
\* that do not are two.  The separator in a name, which drops a fact, and MAX_BEHAVIOR_SURFACES are left out.
Behaviors(g, facts) ==
    LET Id(f) == [surface |-> f.surface, role |-> f.role, state |-> f.state,
                  action |-> f.action, flag |-> f.flag]
        used == {f \in facts : /\ f.surface \in DOMAIN Application(g)
                               /\ {f.role, f.state, f.action, f.flag} # {Unknown}}
    IN  {[id |-> i, origins |-> {f.origin : f \in {h \in used : Id(h) = i}}] :
            i \in {Id(f) : f \in used}}
=============================================================================
