------------------------------- MODULE SuiteRun -------------------------------
(***************************************************************************)
(* Suite runs of several processes in one repository, and the defensive    *)
(* audit that compares an impacted run with a full one: run_controlled     *)
(* from its selection to its execution summary, the report files the       *)
(* runners leave at fixed paths, the measured history in the ledger, and   *)
(* audit_live_selection.                                                   *)
(*                                                                         *)
(* A report file is [tests, failed]: the tests of the invocation that      *)
(* wrote it and those it reports as failed; what a coverage report covers  *)
(* is what these tests reach.  A report is fresh when it was modified no   *)
(* more than two seconds before the invocation started: `recent` holds     *)
(* the reports written since two seconds last passed without one.          *)
(***************************************************************************)
EXTENDS Selection

CONSTANTS
    Proc,           \* processes that run commands on the repository
    Root,           \* the repository's root directory
    Targets,        \* the executor targets, a sequence sorted by name and directory
    Need,           \* the compiled obligations, [id, high]
    Binding,        \* the bindings of quality.yaml
    Node,           \* nodes of the code graph
    Reach,          \* test path -> the nodes it covers when it runs
    PresentAt,      \* tree -> the test paths that exist in it
    Impacts,        \* the sets of nodes a change may impact
    Statics,        \* the sets of paths the static selection may return
    Breaks,         \* the sets of tests a change may break
    Taught,         \* what earlier runs may have left in the history
    Runs,           \* bound: ids of stored runs, 1..n
    None

Trees == DOMAIN PresentAt
Tests == DOMAIN Within

ASSUME SuiteAssumption ==
    /\ Trees # {} /\ Trees \subseteq Nat
    /\ \A t \in Trees : PresentAt[t] \subseteq Nat /\ IsFiniteSet(PresentAt[t])
    /\ Targets \in Seq(Range(Targets)) /\ \A g \in Range(Targets) : g.depth \in Nat
    /\ IsFiniteSet(Binding) /\ \A nodes \in Impacts : IsFiniteSet(nodes)
    /\ MaxFilters \in Nat \ {0} /\ MaxHistory \in Nat

Cwds  == {Targets[i].cwd : i \in 1..Len(Targets)} \cup {Root}

\* The candidate reports of a directory, in the order they are looked for.  "cover"
\* and "junit" lie in .weavatrix-quality and are cleared before and after a request,
\* "reports" stands for the five other places of a junit.xml, "lcov" for the four
\* other places of a coverage report, "shared" is .weavatrix/coverage/lcov.info.
ReportNames == <<"cover", "junit", "reports", "lcov", "shared">>
Cleared     == {"cover", "junit"}
JunitNames  == {"junit", "reports"}
CoverNames  == {"cover", "lcov", "shared"}
Report      == Cwds \X Range(ReportNames)
Published   == <<Root, "shared">>

Content == [tests : SUBSET Tests, failed : SUBSET Tests]
Torn    == [tests |-> {}, failed |-> {}]    \* just truncated

VARIABLES
    tree,       \* the working tree, one of Trees
    broken,     \* the tests that fail on it
    files,      \* report -> its content, None when there is none
    recent,     \* the reports that may still count as just written
    job,        \* process -> the run it executes
    runs,       \* id -> stored run
    obs,        \* rows of test_node_observation_runs
    audits,     \* rows of selection_audits
    misses,     \* rows of selection_miss_observations
    audit       \* process -> the audit it is making

suiteVars == <<tree, broken, files, recent, job, runs, obs, audits, misses, audit>>

Idle == [pc |-> "idle"]

-----------------------------------------------------------------------------
(* The repository *)

Edit ==
    /\ tree + 1 \in Trees
    /\ tree' = tree + 1
    /\ UNCHANGED <<broken, files, recent, job, runs, obs, audits, misses, audit>>

\* clear_generated_runner_artifacts in the directories dirs
ClearedFiles(dirs) ==
    [f \in Report |-> IF f[1] \in dirs /\ f[2] \in Cleared THEN None ELSE files[f]]

-----------------------------------------------------------------------------
(* run_controlled: selection *)

\* What the ledger and the tree make of a change that impacts nodes.
SelectionOf(static, nodes) ==
    LET bindings == MergedBindings(Binding, {})
    IN  LiveSelection(static, {}, HistoricalTests(obs, misses, nodes),
                      bindings, Need, PresentAt[tree])

\* Bound: a run begins only while an id is left for it.
RoomForARun ==
    Cardinality(DOMAIN runs)
        + Cardinality({q \in Proc : job[q].pc # "idle" /\ job[q].id = None}) < Cardinality(Runs)

Prepare(p, scope, nodes, static) ==
    /\ job[p] = Idle /\ audit[p] = Idle
    /\ RoomForARun
    /\ BindingsKnown(Binding, {n.id : n \in Need})
    /\ files' = ClearedFiles(Cwds)
    /\ LET selection == SelectionOf(static, nodes)
           plan == ExecutionRequests(scope, selection, Targets,
                        MergedBindings(Binding, {}), PresentAt[tree])
       IN  job' = [job EXCEPT ![p] =
                [pc |-> "next", tree |-> tree, requested |-> scope, scope |-> plan.scope,
                 impact |-> nodes, selected |-> selection.selected,
                 requests |-> plan.requests, records |-> <<>>, stale |-> {}, id |-> None]]
    /\ UNCHANGED <<tree, broken, recent, runs, obs, audits, misses, audit>>

-----------------------------------------------------------------------------
(* run_controlled: one request after the other *)

Request(p) == job[p].requests[Len(job[p].records) + 1]
Cwd(p)     == Request(p).target.cwd

\* The tests a request executes: those of its filters, or all its target sees.
Invoked(p) ==
    IF Request(p).tests = <<>>
    THEN {t \in PresentAt[tree] : Request(p).target.cwd \in Within[t]}
    ELSE Range(Request(p).tests) \cap PresentAt[tree]

\* Writing a report makes it fresh for every invocation under way.
Wrote(fs, j) ==
    [q \in Proc |-> IF j[q].pc = "ran" THEN [j[q] EXCEPT !.stale = @ \ fs] ELSE j[q]]

\* A request: the reports of the directory are cleared, the clock is read and the
\* runner runs to its end.  What other processes write meanwhile can as well be
\* written after it, before Attach.  When it is settled, more than two seconds have
\* passed since the last report was written.  The runner exits with zero although
\* tests failed when the package's script says so (lenient); one that is timed out or
\* cancelled leaves no report (killed).  Cargo and go report their cases on standard
\* output, and exit with zero only without failures.
Execute(p, settled, ending) ==
    /\ job[p].pc = "next" /\ Len(job[p].records) < Len(job[p].requests)
    /\ ending = "lenient" => ~ Request(p).target.stdout
    /\ settled => recent # {}
    /\ LET failed == Invoked(p) \cap broken
           young   == IF settled THEN {} ELSE recent
           before  == ClearedFiles({Cwd(p)})
           written == IF ending = "killed" THEN {}
                      ELSE {<<Cwd(p), n>> : n \in Request(p).target.reports}
           stdout == IF Request(p).target.stdout /\ ending # "killed"
                     THEN {[test |-> t, fail |-> t \in broken] : t \in Invoked(p)}
                     ELSE {}
           ran == [job EXCEPT ![p].pc = "ran",
                     ![p].stale = {f \in Report \ young : before[f] # None},
                     ![p].records = Append(@,
                        [tests  |-> Request(p).tests,
                         passed |-> ending = "lenient" \/ (ending = "exit" /\ failed = {}),
                         error  |-> ending = "killed",
                         cases  |-> stdout,
                         covers |-> <<>>])]
       IN  /\ files' = [f \in Report |-> IF f \in written
                            THEN [tests |-> Invoked(p), failed |-> failed] ELSE before[f]]
           /\ recent' = young \cup written
           /\ job' = Wrote(written, ran)
    /\ UNCHANGED <<tree, broken, runs, obs, audits, misses, audit>>

\* The record of the request that ran last, and its directory
Latest(p)    == job[p].records[Len(job[p].records)]
RanCwd(p)  == job[p].requests[Len(job[p].records)].target.cwd

Fresh(p) ==
    {n \in Range(ReportNames) : /\ files[<<RanCwd(p), n>>] # None
                                /\ <<RanCwd(p), n>> \notin job[p].stale}

CasesOf(content) == {[test |-> t, fail |-> t \in content.failed] : t \in content.tests}

\* An attach that takes the reports' word for the cases and the exit code's for the
\* rest.
AttachLenient(p, malformed) ==
    /\ job[p].pc = "ran"
    /\ LET In(n) == files[<<RanCwd(p), n>>]
           Junits == Fresh(p) \cap JunitNames
           Covers == SelectSeq(ReportNames, LAMBDA n : n \in Fresh(p) \cap CoverNames)
           record == [tests  |-> Latest(p).tests,
                      passed |-> Latest(p).passed,
                      error  |-> Latest(p).error,
                      cases  |-> Latest(p).cases \cup UNION {CasesOf(In(n)) : n \in Junits},
                      covers |-> [i \in 1..Len(Covers) |-> In(Covers[i])]]
       IN  job' = [job EXCEPT ![p].pc = "attached", ![p].stale = {},
                              ![p].records[Len(job[p].records)] = record]
    /\ UNCHANGED <<tree, broken, files, recent, runs, obs, audits, misses, audit>>

\* attach_normalized_artifacts: every fresh report of the directory, whoever wrote
\* it.  A report that is being rewritten is malformed or empty (malformed).
Attach(p, malformed) ==
    /\ job[p].pc = "ran"
    /\ LET In(n) == files[<<RanCwd(p), n>>]
           Junits == Fresh(p) \cap JunitNames
           Covers == SelectSeq(ReportNames, LAMBDA n : n \in Fresh(p) \cap CoverNames
                                  /\ ~ (malformed /\ In(n) = Torn))
           bad == \/ \E n \in Junits : In(n).failed # {}
                  \/ malformed /\ \E n \in Fresh(p) : In(n) = Torn
           record == [tests  |-> Latest(p).tests,
                      passed |-> Latest(p).passed /\ ~ bad,
                      error  |-> Latest(p).error \/ bad,
                      cases  |-> Latest(p).cases \cup UNION {CasesOf(In(n)) : n \in Junits},
                      covers |-> [i \in 1..Len(Covers) |-> In(Covers[i])]]
       IN  job' = [job EXCEPT ![p].pc = "attached", ![p].stale = {},
                              ![p].records[Len(job[p].records)] = record]
    /\ UNCHANGED <<tree, broken, files, recent, runs, obs, audits, misses, audit>>

HasCoverage(record) ==
    record.covers # <<>> /\ record.covers[Len(record.covers)].tests # {}

\* publish_measured_coverage: the last coverage report, unless it is empty, is
\* written in place over the shared one, which is first truncated ...
Truncate(p) ==
    /\ job[p].pc = "attached"
    /\ HasCoverage(Latest(p))
    /\ files' = [files EXCEPT ![Published] = Torn]
    /\ recent' = recent \cup {Published}
    /\ job' = Wrote({Published}, [job EXCEPT ![p].pc = "publishing"])
    /\ UNCHANGED <<tree, broken, runs, obs, audits, misses, audit>>

\* ... then filled, and the generated reports are cleared.
Publish(p) ==
    /\ job[p].pc = "publishing"
    /\ files' = [ClearedFiles({RanCwd(p)}) EXCEPT
                    ![Published] = Latest(p).covers[Len(Latest(p).covers)]]
    /\ recent' = recent \cup {Published}
    /\ job' = Wrote({Published}, [job EXCEPT ![p].pc = "next"])
    /\ UNCHANGED <<tree, broken, runs, obs, audits, misses, audit>>

PublishNothing(p) ==
    /\ job[p].pc = "attached"
    /\ ~ HasCoverage(Latest(p))
    /\ files' = ClearedFiles({RanCwd(p)})
    /\ job' = [job EXCEPT ![p].pc = "next"]
    /\ UNCHANGED <<tree, broken, recent, runs, obs, audits, misses, audit>>

-----------------------------------------------------------------------------
(* run_controlled: what is stored *)

\* The revision is compared, the row is inserted, and with it stands the
\* impacted surface; the later artifacts have steps of their own.
PutRun(p, id) ==
    /\ job[p].pc = "next" /\ Len(job[p].records) = Len(job[p].requests)
    /\ job[p].tree = tree
    /\ id \notin DOMAIN runs /\ \A i \in Runs : i < id => i \in DOMAIN runs
    /\ LET row == [tree |-> tree, requested |-> job[p].requested, scope |-> job[p].scope,
                   impact |-> job[p].impact, selected |-> job[p].selected,
                   passed |-> \A i \in 1..Len(job[p].records) :
                                  job[p].records[i].passed /\ ~ job[p].records[i].error,
                   cases |-> {}, summary |-> FALSE]
       IN  runs' = [i \in DOMAIN runs \cup {id} |-> IF i = id THEN row ELSE runs[i]]
    /\ job' = [job EXCEPT ![p].pc = "stored", ![p].id = id]
    /\ UNCHANGED <<tree, broken, files, recent, obs, audits, misses, audit>>

\* persist_dynamic_coverage_history: one transaction per test; only a passed record
\* that ran one selected test teaches what that test covers.
TaughtBy(record) ==
    IF record.passed /\ Len(record.tests) = 1
    THEN UNION {UNION {Reach[t] : t \in record.covers[i].tests} : i \in 1..Len(record.covers)}
    ELSE {}

Learned(p) ==
    UNION {{[test |-> job[p].records[i].tests[1], node |-> n, run |-> job[p].id]
              : n \in TaughtBy(job[p].records[i])} : i \in 1..Len(job[p].records)}

Observe(p) ==
    /\ job[p].pc = "stored"
    /\ obs' = obs \cup Learned(p)
    /\ job' = [job EXCEPT ![p].pc = "observed"]
    /\ UNCHANGED <<tree, broken, files, recent, runs, audits, misses, audit>>

\* persist_test_analytics inserts the cases one after the other.
AllCases(p) == UNION {job[p].records[i].cases : i \in 1..Len(job[p].records)}

PutCase(p) ==
    /\ job[p].pc = "observed"
    /\ LET left == AllCases(p) \ runs[job[p].id].cases
           first == Min({c.test : c \in left})
       IN  /\ left # {}
           /\ runs' = [runs EXCEPT ![job[p].id].cases =
                            @ \cup {c \in left : c.test = first}]
    /\ UNCHANGED <<tree, broken, files, recent, job, obs, audits, misses, audit>>

\* The execution summary is the last artifact.
PutSummary(p) ==
    /\ job[p].pc = "observed"
    /\ runs[job[p].id].cases = AllCases(p)
    /\ runs' = [runs EXCEPT ![job[p].id].summary = TRUE]
    /\ job' = [job EXCEPT ![p] = Idle]
    /\ UNCHANGED <<tree, broken, files, recent, obs, audits, misses, audit>>

-----------------------------------------------------------------------------
(* audit_live_selection *)

Failed(cases) == {c.test : c \in {d \in cases : d.fail}}
Missed(impacted, full) == Failed(runs[full].cases) \ Failed(runs[impacted].cases)

\* A run that is stored will do.
AuditedWhenStored(id) == id \in DOMAIN runs

\* read_single_run_json: a run without an execution summary cannot be audited.
Audited(id) == id \in DOMAIN runs /\ runs[id].summary

AuditStatus(impacted, full) ==
    IF runs[impacted].scope # "impacted" THEN "not_reduced"
    ELSE IF runs[full].cases = {} THEN "unmeasured"
    ELSE IF Missed(impacted, full) = {} THEN "corroborated"
    ELSE "contradicted"

ShadowRuns(impacted, full) ==
    /\ impacted # full
    /\ Audited(impacted) /\ Audited(full)
    /\ runs[impacted].tree = runs[full].tree
    /\ runs[impacted].requested = "impacted"
    /\ runs[full].requested = "all" /\ runs[full].scope = "all"

\* A pair that was audited before is answered from its row, which is no step here.
BeginAudit(p, impacted, full) ==
    /\ job[p] = Idle /\ audit[p] = Idle
    /\ ShadowRuns(impacted, full)
    /\ ~ \E a \in audits : a.impacted = impacted /\ a.full = full
    /\ LET status == AuditStatus(impacted, full)
           missed == IF status = "not_reduced" THEN {} ELSE Missed(impacted, full)
       IN  audit' = [audit EXCEPT ![p] =
              [pc |-> "found", impacted |-> impacted, full |-> full, status |-> status,
               missed |-> missed, left |-> missed \cap PresentAt[tree],
               learned |-> missed \cap PresentAt[tree]]]
    /\ UNCHANGED <<tree, broken, files, recent, job, runs, obs, audits, misses>>

\* INSERT OR IGNORE; a row that differs from the stored one is a conflict.
PutAudit(p) ==
    /\ audit[p].pc = "found"
    /\ LET a == audit[p]
           same == {b \in audits : b.impacted = a.impacted /\ b.full = a.full}
           row == [impacted |-> a.impacted, full |-> a.full, status |-> a.status,
                   missed |-> Cardinality(a.missed), learned |-> Cardinality(a.learned),
                   done |-> FALSE]
       IN  /\ audits' = IF same = {} THEN audits \cup {row} ELSE audits
           /\ audit' = [audit EXCEPT ![p] =
                IF \A b \in same : b.status = row.status /\ b.missed = row.missed
                                   /\ b.learned = row.learned
                THEN [a EXCEPT !.pc = "stored"] ELSE Idle]
    /\ UNCHANGED <<tree, broken, files, recent, job, runs, obs, misses>>

\* An audit that remembers the nodes of the full run, which impacts nothing.
LearnMissOfFull(p) ==
    /\ audit[p].pc = "stored" /\ audit[p].left # {}
    /\ LET t == Min(audit[p].left)
       IN  /\ misses' = misses \cup
                {[test |-> t, node |-> n, audit |-> <<audit[p].impacted, audit[p].full>>]
                    : n \in runs[audit[p].full].impact}
           /\ audit' = [audit EXCEPT ![p].left = @ \ {t}]
    /\ UNCHANGED <<tree, broken, files, recent, job, runs, obs, audits>>

\* observe_selection_miss, path by path, for the nodes the impacted run knew
LearnMiss(p) ==
    /\ audit[p].pc = "stored" /\ audit[p].left # {}
    /\ LET t == Min(audit[p].left)
       IN  /\ misses' = misses \cup
                {[test |-> t, node |-> n, audit |-> <<audit[p].impacted, audit[p].full>>]
                    : n \in runs[audit[p].impacted].impact}
           /\ audit' = [audit EXCEPT ![p].left = @ \ {t}]
    /\ UNCHANGED <<tree, broken, files, recent, job, runs, obs, audits>>

\* The artifact of the audit is stored last.
FinishAudit(p) ==
    /\ audit[p].pc = "stored" /\ audit[p].left = {}
    /\ audits' = {IF a.impacted = audit[p].impacted /\ a.full = audit[p].full
                  THEN [a EXCEPT !.done = TRUE] ELSE a : a \in audits}
    /\ audit' = [audit EXCEPT ![p] = Idle]
    /\ UNCHANGED <<tree, broken, files, recent, job, runs, obs, misses>>

-----------------------------------------------------------------------------

SuiteInit ==
    /\ tree = Min(Trees)
    /\ broken \in Breaks
    /\ files = [f \in Report |-> None]
    /\ recent = {}
    /\ job = [p \in Proc |-> Idle]
    /\ runs = [i \in {} |-> None]
    /\ obs \in Taught
    /\ audits = {}
    /\ misses = {}
    /\ audit = [p \in Proc |-> Idle]

Step(p) ==
    \/ \E scope \in {"impacted", "all"}, nodes \in Impacts, static \in Statics :
          Prepare(p, scope, nodes, static)
    \/ \E settled \in BOOLEAN, ending \in {"exit", "lenient", "killed"} :
          Execute(p, settled, ending)
    \/ \E malformed \in BOOLEAN : Attach(p, malformed)
    \/ Truncate(p) \/ Publish(p) \/ PublishNothing(p)
    \/ \E id \in Runs : PutRun(p, id)
    \/ Observe(p) \/ PutCase(p) \/ PutSummary(p)
    \/ \E i \in Runs, f \in Runs : BeginAudit(p, i, f)
    \/ PutAudit(p) \/ LearnMiss(p) \/ FinishAudit(p)

\* A process that dies, or ends with an error because the tree was edited, takes no
\* further step: what it has written and stored stays.
SuiteNext == Edit \/ \E p \in Proc : Step(p)

SuiteSpec == SuiteInit /\ [][SuiteNext]_suiteVars

-----------------------------------------------------------------------------

\* A run that was reduced to the impacted tests still executes, for every obligation,
\* a test with a case bound to it; otherwise it would have been widened
\* (selection_build.rs, execute.rs).
ReducedRunsStillProve ==
    \A p \in Proc : job[p] # Idle /\ job[p].scope = "impacted" =>
        \A n \in Need : \E b \in CaseBindings(Binding, PresentAt[job[p].tree]) :
            /\ n.id \in b.obligations
            /\ \/ b.path \in BrowserPath
               \/ \E i \in 1..Len(job[p].requests) :
                     b.path \in Range(job[p].requests[i].tests)

\* A run is stored as passed only when none of the cases stored for it failed,
\* whatever reports its runners, or the runners of another process, left where it
\* looks (runner.rs, run_execute.rs).
PassedRunsHaveNoFailure ==
    \A i \in DOMAIN runs : runs[i].passed => Failed(runs[i].cases) = {}

\* What an audit recorded is what its two runs say once they are stored whole: it
\* never compares a run whose cases are still being inserted, although any process
\* may audit any stored run (selection_audit.rs).
AuditsReadWholeRuns ==
    \A a \in audits :
        /\ a.status = AuditStatus(a.impacted, a.full)
        /\ a.status # "not_reduced" =>
              a.missed = Cardinality(Missed(a.impacted, a.full))

\* Once an audit has ended, every failure the reduction missed is part of any later
\* selection for a change that impacts one of the same nodes, as long as the test
\* exists (selection_audit.rs, Store::historical_tests_for_nodes).
LearnedMissesAreSelected ==
    \A a \in audits : a.done /\ a.status = "contradicted" /\ a.learned = a.missed =>
        \A t \in Missed(a.impacted, a.full) \cap PresentAt[tree], nodes \in Impacts :
            nodes \cap runs[a.impacted].impact # {} =>
                t \in SelectionOf({}, nodes).selected

=============================================================================
