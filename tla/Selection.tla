------------------------------ MODULE Selection ------------------------------
(***************************************************************************)
(* What an impacted run executes: the bindings of quality.yaml, the        *)
(* measured history and the static impact are joined to a selection of     *)
(* test paths, and the selection is turned into runner processes or        *)
(* widened to the full suite.  Pure functions of                           *)
(* crates/wvq-intelligence/src/selection.rs and of selection_build.rs and  *)
(* execute.rs of the command bus.                                          *)
(*                                                                         *)
(* A test path is a number (paths are compared only for identity and       *)
(* order).  A binding is [path, runner, suite, case, obligations, cost,    *)
(* penalty].  A target is an executor discovered in a directory, [name,    *)
(* cwd, depth, kind, reports]: kind is how it takes filters, reports which *)
(* report files it writes.                                                 *)
(***************************************************************************)
EXTENDS Integers, Sequences, FiniteSets, SequencesExt, FiniteSetsExt

CONSTANTS
    Story,          \* the test paths that are Storybook stories
    NoCase,         \* a binding that names no test case
    BrowserPath,    \* the paths of the configured browser programs
    Within,         \* test path -> the directories it lies in
    MaxHistory,     \* 500: historical candidates kept
    MaxFilters,     \* 128: filters of one process; its limit of 24 KiB is left out
    MaxProcesses    \* 16: runner processes of a reduced run

MinObservations == 2
MandatoryWeight == 1000

TargetKind == {"paths", "stories", "cargo", "plain"}
NoRunner == "none"    \* a binding that names no runner
CargoRunner == {NoRunner, "cargo-test", "cargo-llvm-cov", "cargo-tarpaulin"}

-----------------------------------------------------------------------------
(* The greedy weighted set cover. *)

EffectiveCost(c) == IF c.cost + c.penalty > 0 THEN c.cost + c.penalty ELSE 1

Score(c, remaining, mandatory) ==
    MandatoryWeight * Cardinality(c.covers \cap remaining \cap mandatory)
        + Cardinality((c.covers \cap remaining) \ mandatory)

Better(c, d, remaining, mandatory) ==
    LET left  == Score(c, remaining, mandatory) * EffectiveCost(d)
        right == Score(d, remaining, mandatory) * EffectiveCost(c)
    IN  \/ left > right
        \/ left = right /\ EffectiveCost(c) < EffectiveCost(d)
        \/ left = right /\ EffectiveCost(c) = EffectiveCost(d) /\ c.id < d.id

Useful(unused, remaining) == {c \in unused : c.covers \cap remaining # {}}

Best(unused, remaining, mandatory) ==
    CHOOSE c \in Useful(unused, remaining) :
        \A d \in Useful(unused, remaining) \ {c} :
            Better(c, d, remaining, mandatory)

\* One turn of the loop; a turn that finds no candidate changes nothing.
Pick(plan, mandatory) ==
    IF Useful(plan.unused, plan.remaining) = {} THEN plan
    ELSE LET c == Best(plan.unused, plan.remaining, mandatory)
         IN  [selected  |-> Append(plan.selected,
                                [id |-> c.id, covers |-> c.covers \cap plan.remaining]),
              unused    |-> plan.unused \ {c},
              remaining |-> plan.remaining \ c.covers]

\* needs: a set of [id, high]
MinimalPlan(candidates, needs) ==
    LET mandatory == {n.id : n \in {m \in needs : m.high}}
        start == [selected |-> <<>>, unused |-> candidates,
                  remaining |-> {n.id : n \in needs}]
        end == FoldLeft(LAMBDA plan, i : Pick(plan, mandatory), start,
                        [i \in 1..Cardinality(candidates) |-> i])
    IN  [selected  |-> end.selected,
         uncovered |-> mandatory \cap end.remaining]

-----------------------------------------------------------------------------
(* What a run selects. *)

\* Configured and browser bindings with the same key are one binding.
MergedBindings(configured, browser) ==
    LET all  == configured \cup browser
        Same(b) == {d \in all : /\ d.path = b.path /\ d.runner = b.runner
                                /\ d.suite = b.suite /\ d.case = b.case}
    IN  {[path        |-> b.path,
          runner      |-> b.runner,
          suite       |-> b.suite,
          case        |-> b.case,
          obligations |-> UNION {d.obligations : d \in Same(b)},
          cost        |-> Min({d.cost : d \in Same(b)}),
          penalty     |-> Max({d.penalty : d \in Same(b)})] : b \in all}

\* A binding to an obligation nobody compiled fails the run before it starts.
BindingsKnown(bindings, known) ==
    \A b \in bindings : b.obligations \subseteq known

CaseBindings(bindings, present) ==
    {b \in bindings : b.case # NoCase /\ b.path \in present}

Candidates(bindings, present) ==
    LET bound == CaseBindings(bindings, present)
    IN  {[id      |-> t,
          covers  |-> UNION {b.obligations : b \in {d \in bound : d.path = t}},
          cost    |-> Min({b.cost : b \in {d \in bound : d.path = t}}),
          penalty |-> Max({b.penalty : b \in {d \in bound : d.path = t}})]
            : t \in {b.path : b \in bound}}

\* obs and misses: the rows of test_node_observation_runs and
\* selection_miss_observations, [test, node, run] and [test, node, audit].
Observations(obs, t, n) == Cardinality({o \in obs : o.test = t /\ o.node = n})

ObservedTests(obs, nodes) ==
    {t \in {o.test : o \in obs} :
        \E n \in nodes : Observations(obs, t, n) >= MinObservations}

MissedTests(misses, nodes) == {m.test : m \in {k \in misses : k.node \in nodes}}

\* MaxHistory candidates: most defensive misses first, then most nodes matched, then
\* the highest observation floor, then the path.
HistoricalTests(obs, misses, nodes) ==
    LET all == ObservedTests(obs, nodes) \cup MissedTests(misses, nodes)
        Misses(t) == Cardinality({m \in misses : m.test = t /\ m.node \in nodes})
        Seen(t) == {n \in nodes : Observations(obs, t, n) >= MinObservations}
        Matched(t) == Cardinality(Seen(t) \cup
                        {n \in nodes : \E m \in misses : m.test = t /\ m.node = n})
        Floor(t) == IF Seen(t) = {} THEN 0
                    ELSE Min({Observations(obs, t, n) : n \in Seen(t)})
        Before(t, u) ==
            \/ Misses(t) > Misses(u)
            \/ /\ Misses(t) = Misses(u)
               /\ \/ Matched(t) > Matched(u)
                  \/ /\ Matched(t) = Matched(u)
                     /\ \/ Floor(t) > Floor(u)
                        \/ Floor(t) = Floor(u) /\ t < u
    IN  {t \in all : Cardinality({u \in all \ {t} : Before(u, t)}) < MaxHistory}

\* A plan that forgets to ask whether the greedy cover left anything out.
LiveSelectionMandatory(static, stories, historical, bindings, needs, present) ==
    LET plan == MinimalPlan(Candidates(bindings, present), needs)
    IN  [selected  |-> static \cup (historical \cap present)
                        \cup {s.id : s \in Range(plan.selected)},
         mandatory |-> plan.uncovered,
         uncovered |-> plan.uncovered]

\* static: what Weavatrix selects on head and what the graph diff preserves of base
LiveSelection(static, stories, historical, bindings, needs, present) ==
    LET known == {n.id : n \in needs}
        plan  == MinimalPlan(Candidates(bindings, present), needs)
        selected == static \cup (historical \cap present)
                        \cup (stories \cap Story \cap present)
                        \cup {s.id : s \in Range(plan.selected)}
        covered == UNION {b.obligations :
                    b \in {d \in CaseBindings(bindings, present) : d.path \in selected}}
    IN  [selected  |-> selected,
         mandatory |-> plan.uncovered,
         uncovered |-> known \ covered]

Complete(selection) == selection.uncovered = {}

-----------------------------------------------------------------------------
(* From a selection to runner processes. *)

AcceptsFilter(target, t) ==
    IF t \in Story THEN target.kind = "stories" ELSE target.kind = "paths"

\* cargo_exact_cases: cargo takes exact case names, so only tests whose cases are named
\* by bindings to a cargo runner, one filter for each binding
CargoCases(t, bindings) ==
    {b \in bindings : b.path = t /\ b.runner \in CargoRunner /\ b.case # NoCase}

Takes(target, t, bindings) ==
    /\ target.cwd \in Within[t]
    /\ \/ AcceptsFilter(target, t)
       \/ target.kind = "cargo" /\ CargoCases(t, bindings) # {}

\* the first such target of the deepest directory; targets is a sorted sequence
TargetOf(t, targets, bindings) ==
    CHOOSE i \in 1..Len(targets) :
        /\ Takes(targets[i], t, bindings)
        /\ \A j \in 1..Len(targets) :
              Takes(targets[j], t, bindings) =>
                  \/ targets[j].depth < targets[i].depth
                  \/ targets[j].depth = targets[i].depth /\ i <= j

Mappable(t, targets, present, bindings) ==
    /\ t \in present
    /\ \E i \in 1..Len(targets) : Takes(targets[i], t, bindings)

InOrder(paths) ==
    CHOOSE order \in [1..Cardinality(paths) -> paths] :
        \A i, j \in DOMAIN order : i < j => order[i] < order[j]

\* A target's filters in the order of the selection, each with the test it selects,
\* cut into processes.  A cargo test has one filter per binding.
Batches(target, tests, bindings) ==
    LET size == IF target.kind = "cargo" THEN 1 ELSE MaxFilters
        Filters(t) == IF target.kind = "cargo"
                      THEN [i \in 1..Cardinality(CargoCases(t, bindings)) |-> t]
                      ELSE <<t>>
        order == InOrder(tests)
        pairs == FlattenSeq([i \in 1..Len(order) |-> Filters(order[i])])
    IN  [k \in 1..((Len(pairs) + size - 1) \div size) |->
            [target |-> target,
             tests  |-> SubSeq(pairs, (k - 1) * size + 1, Min({k * size, Len(pairs)}))]]

FilteredRequests(selected, targets, bindings) ==
    LET Of(i) == {t \in selected \ BrowserPath : TargetOf(t, targets, bindings) = i}
    IN  FlattenSeq([i \in 1..Len(targets) |-> Batches(targets[i], Of(i), bindings)])

\* Every target once, without filters; a story target is left out where a vitest
\* target of the same directory runs the stories too.
FullRequests(targets) ==
    LET Kept == {i \in 1..Len(targets) :
                    ~(/\ targets[i].kind = "stories"
                      /\ \E h \in Range(targets) : h.cwd = targets[i].cwd
                                                  /\ h.name \in {"vitest", "vitest-coverage"})}
        order == InOrder(Kept)
    IN  [requests |-> [i \in 1..Cardinality(Kept) |->
                         [target |-> targets[order[i]], tests |-> <<>>]],
         scope    |-> "all",
         executed |-> {}]

ExecutionRequests(scope, selection, targets, bindings, present) ==
    LET filtered == FilteredRequests(selection.selected, targets, bindings)
    IN  IF \/ scope # "impacted"
           \/ ~ Complete(selection)
           \/ selection.selected = {}
           \/ \E t \in selection.selected \ BrowserPath :
                  ~ Mappable(t, targets, present, bindings)
        THEN FullRequests(targets)
        ELSE IF Len(filtered) > MaxProcesses THEN FullRequests(targets)
        ELSE [requests |-> filtered, scope |-> "impacted", executed |-> selection.selected]
=============================================================================
