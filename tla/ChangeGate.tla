----------------------------- MODULE ChangeGate -----------------------------
(***************************************************************************)
(* The gate of one change: what runs store, what humans and earlier audits *)
(* left in the ledger, and the composite verdict `verify` draws from it.   *)
(*                                                                         *)
(* run_controlled inserts its row and then stores its documents one by     *)
(* one; the protection view runs the suite, replays the base and attaches  *)
(* two more documents to its own run; debt, baseline and a human decision  *)
(* write the persistent memories; verify reads the newest run of the       *)
(* current content axis by axis and composes.  Processes share the ledger  *)
(* without a lock, the working tree and the base branch move under them,   *)
(* and a command may fail or die between two steps.                        *)
(*                                                                         *)
(* Of a content (a tree by name) the program can observe:                  *)
(*   obligations  set of [id, slot, text, mandatory] (the sealed contract) *)
(*   spec         set of <<slot, text>> (the OpenSpec scenarios)           *)
(*   flows, code  per flow its protection when the suite passes, its source*)
(*   declared     flows a bound test reaches -> its obligations            *)
(*   executed     tests of the suite; mandatory: paths bound to high risk  *)
(*   loose        tests whose failure fails no bound invocation            *)
(*   debt, exceptions   audit fingerprints; those the policy accepts       *)
(*   programs     is a browser with a program configured?                  *)
(*   behaviour    what the program does                                    *)
(*   layout, ui   names of its page and of its ui_integrity section        *)
(***************************************************************************)
EXTENDS Verdicts, Protection, UiRatchet, TLC

CONSTANTS
  Runner,       \* wvq processes that run the suite
  Looker,       \* wvq processes that verify
  Facts,        \* content -> what the program can observe of it
  FirstBase,    \* the base branch before the change
  FirstHeads,   \* the working trees the model may start with
  Edits,        \* the trees a developer may make of a tree
  RuleOf,       \* audit fingerprint -> the parts of its rule name
  Past,         \* results earlier changes may have left for a test
  Outcome,      \* how the suite and the programs may end
  Pages,        \* page -> viewport width -> what the browser returns of it
  Sections,     \* ui_integrity section -> its contents
  Seen,         \* page -> section -> width -> what the analysis makes of it
  DefaultWidth, \* the width the programs run at
  Today,        \* the date policies are read at
  Wobbles,      \* width -> how many attempts to collect the head may fail there
  None,         \* no document, no command
  MaxRuns,      \* bound on recorded runs
  MaxMoves,     \* bound on edits of the tree and moves of the base branch
  MaxDeaths     \* bound on runs that end half way

Content == DOMAIN Facts

ASSUME GateAssumption ==
  /\ FirstBase \in Content /\ FirstHeads \subseteq Content
  /\ Edits \in [Content -> SUBSET Content]
  /\ None \notin Content \cup (Content \X Content)
  /\ Outcome \subseteq {"passed", "failed", "contradicted"}
  /\ Past \subseteq SUBSET {"pass", "fail"}
  /\ DefaultWidth \in Width /\ Wobbles \in [Width -> SUBSET (0..2)]
  /\ {MaxRuns, MaxMoves, MaxDeaths} \subseteq Nat

VARIABLES
  head,      \* content of the working tree
  base,      \* content of the merge base the base ref resolves to
  moves,     \* <<edits and merges, deaths>> so far
  bases,     \* every content the base branch has had (a witness, never read)
  runs,      \* table runs with the documents attached to each
  fixed,     \* table debt_history: fingerprints once seen fixed
  observed,  \* table observed_debt_baselines
  known,     \* failure clusters: tests whose failure was recorded
  history,   \* test_case_results: outcomes recorded per loose test
  approved,  \* human decisions on replacement proposals, by what they digest
  cmd        \* what each process is doing

Proc == Runner \cup Looker

memories == <<fixed, observed, known, history, approved>>
tree == <<head, base, moves, bases>>
vars == <<head, base, moves, bases, runs, fixed, observed, known, history, approved, cmd>>
-----------------------------------------------------------------------------
(* What the measuring tools make of two contents. *)

Loose == UNION {Facts[c].loose : c \in Content}

Mandatory(content) == \E o \in Facts[content].obligations : o.mandatory

Seal(content) == Facts[content].obligations

\* The flows of the files the range changes: protection_graph_for_files.
Touched(from, to) ==
  {f \in DOMAIN Facts[from].code \cup DOMAIN Facts[to].code :
     f \in DOMAIN Facts[from].code /\ f \in DOMAIN Facts[to].code => Facts[from].code[f] # Facts[to].code[f]}

\* live_protection_snapshot: only a passing suite covers, and a snapshot
\* without a flow is none.
SnapshotOf(content, flows, failing) ==
  LET kept == DOMAIN Facts[content].flows \cap flows
  IN  IF kept = {} THEN None
      ELSE [flows |-> [f \in kept |-> Facts[content].flows[f]],
            executed |-> Facts[content].executed \ failing]

\* A replacement proposal is identified by the digest of its bytes, which
\* name both revisions and both seals.
Proposal(from, to) == <<from, to>>

\* What the browser measures of a tree at a width, under the policy of another.
Measurements ==
  [page \in DOMAIN Pages |->
     [section \in DOMAIN Sections |->
        [w \in Width |-> Analysis(Pages[page][w], Policy(Sections[section], Today))]]]

ASSUME SeenAssumption == Seen = Measurements

\* Every tree shows a page, of finitely many nodes; whether what came back of it is sound
\* is for the run to decide.
ASSUME PagesAssumption ==
  /\ \A content \in Content : Facts[content].layout \in DOMAIN Pages
  /\ \A page \in DOMAIN Pages : \A w \in Width : \A s \in Layouts(Pages[page][w]) :
       IsFiniteSet(s.nodes) /\ \A n \in s.nodes : NodeIsMeasured(n)

UiPolicy(content) == Policy(Sections[Facts[content].ui], Today)

\* Does a run of the content measure the interface?
HasUi(content) == Facts[content].programs /\ UiPolicy(content).enabled

\* What the collector returns is not a sound snapshot of the revision (a page is
\* refused at every width or at none).
Refused == {page \in DOMAIN Pages : \E w \in Width : AnalysisFails(Pages[page][w], page)}

PageFails(content) == Facts[content].layout \in Refused

\* What base and head look like to a run at a width, one of each.
BaseAt(run, width) ==
  {IF run.replayed THEN Seen[Facts[run.from].layout][Facts[run.content].ui][width] ELSE NothingSeen}
HeadAt(run, content, width) == {Seen[Facts[content].layout][Facts[run.content].ui][width]}

\* No search, or one that was cancelled: nothing says so.
NoSearch ==
  [trees |-> {}, fixed |-> {}, probes |-> << >>, intervals |-> {}, cut |-> FALSE]

SpecOf(content, slot) == {s \in Facts[content].spec : s[1] = slot}

\* scoped_spec_delta: every obligation the program asserts lies in the changed
\* scope of the specification.
SpecAuthorizes(from, to) ==
  /\ Facts[to].obligations # {}
  /\ \A o \in Facts[to].obligations : SpecOf(from, o.slot) # SpecOf(to, o.slot)

\* scoped_code_delta: the flows that a measurement or a declared binding maps to
\* the obligations.
MappedFlows(to, snapshot) ==
  {f \in DOMAIN Facts[to].declared : Facts[to].declared[f] \cap Ids(Facts[to].obligations) # {}}
    \cup (IF snapshot = None THEN {}
          ELSE {f \in FlowsOf(snapshot) :
                  snapshot.flows[f].obligations \cap Ids(Facts[to].obligations) # {}})

\* join_triangle and unexpected_findings.
TriangleFindings(from, to, snapshot) ==
  LET measured == MappedFlows(to, snapshot) # {}
      spec == SpecAuthorizes(from, to)
      code == MappedFlows(to, snapshot) \cap Touched(from, to) # {}
      behaviour == Facts[from].behaviour # Facts[to].behaviour
      Only(check, severity) == {[subject |-> check, severity |-> severity]}
  IN  IF ~spec /\ behaviour /\ (code \/ ~measured) THEN Only("001", "error")
      ELSE IF spec /\ ~behaviour
      THEN IF measured /\ code THEN Only("002", "warn") ELSE Only("003", "warn")
      ELSE IF behaviour /\ measured /\ ~code
      THEN IF spec THEN Only("005", "warn") ELSE Only("004", "warn")
      ELSE {}

\* persist_delta_triangle: no comparison without both replays.
TriangleDocument(from, to, snapshot, replayed) ==
  LET findings == IF replayed THEN TriangleFindings(from, to, snapshot) ELSE {}
  IN  [state |-> IF \E f \in findings : f.severity = "error" THEN "blocking"
                 ELSE IF ~replayed THEN "unmeasured"
                 ELSE IF findings = {} THEN "clean" ELSE "warnings",
       findings |-> findings]
-----------------------------------------------------------------------------
(* Rows and commands. *)

\* A row of runs; ui, triangle and analytics are empty until the document is stored
\* and then hold it, a snapshot or a proposal is None where there is none.  outcome and
\* failing are what the suite did, replayed whether the base programs could be run.
\* whole and before are witnesses no code reads: did run_controlled reach its
\* end, and which results the ledger held when the run was recorded.
Row(content, from, outcome, failing, replayed, before) ==
  [before |-> before, content |-> content, from |-> from, outcome |-> outcome, failing |-> failing,
   replayed |-> replayed, range |-> FALSE, executed |-> FALSE, ui |-> {},
   protection |-> None, baseProtection |-> None, proposal |-> None,
   triangle |-> {}, analytics |-> {}, whole |-> FALSE]

\* asked: the content the protection view compiled before it called run.
\* kept: the document computed before it is stored.
Command(pc, content, from, asked, run, kept) ==
  [pc |-> pc, content |-> content, from |-> from, asked |-> asked, run |-> run,
   kept |-> kept]

Idle == Command("idle", None, None, None, 0, None)

Init ==
  /\ head \in FirstHeads /\ base = FirstBase /\ moves = <<0, 0>> /\ bases = {FirstBase}
  /\ runs = << >>
  /\ fixed = {} /\ observed = {} /\ approved = {}
  /\ history \in [Loose -> Past]
  /\ known = {t \in Loose : "fail" \in history[t]}
  /\ cmd = [p \in Proc |-> Idle]

Goto(p, pc) == cmd' = [cmd EXCEPT ![p].pc = pc]

\* A developer edits the tree.
Edit ==
  /\ moves[1] < MaxMoves
  /\ head' \in Edits[head]
  /\ moves' = [moves EXCEPT ![1] = @ + 1]
  /\ UNCHANGED <<base, bases, runs, memories, cmd>>

\* The change is merged: the base branch now holds the tree.
Merge ==
  /\ moves[1] < MaxMoves
  /\ base # head
  /\ base' = head /\ bases' = bases \cup {head}
  /\ moves' = [moves EXCEPT ![1] = @ + 1]
  /\ UNCHANGED <<head, runs, memories, cmd>>

\* A run fails or its process dies: what it stored stays.  (A verify that dies
\* leaves nothing behind, one that is never scheduled again is as good as dead.)
Die(p) ==
  /\ cmd[p].pc # "idle"
  /\ moves[2] < MaxDeaths
  /\ moves' = [moves EXCEPT ![2] = @ + 1]
  /\ cmd' = [cmd EXCEPT ![p] = Idle]
  /\ UNCHANGED <<head, base, bases, runs, memories>>
-----------------------------------------------------------------------------
(* run_controlled. *)

\* protection_view compiles the tree first and calls run afterwards.
StartProtection(p) ==
  /\ cmd[p].pc = "idle" /\ Len(runs) < MaxRuns
  /\ Touched(base, head) # {}
  /\ cmd' = [cmd EXCEPT ![p] = Command("asked", None, base, head, 0, None)]
  /\ UNCHANGED <<tree, runs, memories>>

StartRun(p) ==
  /\ cmd[p].pc \in {"idle", "asked"} /\ Len(runs) < MaxRuns
  /\ cmd' = [cmd EXCEPT ![p] = Command("running", head, base, @.asked, 0, None)]
  /\ UNCHANGED <<tree, runs, memories>>

\* The suite and the programs ran; the revision must not have moved.
PutRun(p) ==
  /\ cmd[p].pc = "running" /\ head = cmd[p].content /\ Len(runs) < MaxRuns
  /\ PolicyIsSound(Sections[Facts[head].ui])
  /\ \E outcome \in Outcome, failing \in SUBSET Facts[head].loose, replayed \in BOOLEAN :
       /\ outcome = "contradicted" => Facts[head].programs
       /\ replayed => Facts[head].programs /\ Facts[cmd[p].from].programs
       /\ runs' = Append(runs, Row(head, cmd[p].from, outcome, failing, replayed, history))
  /\ cmd' = [cmd EXCEPT ![p].pc = "range", ![p].run = Len(runs) + 1]
  /\ UNCHANGED <<tree, memories>>

\* The sources changed while the suite ran, or the policy does not parse: the run
\* is refused.
RefuseRun(p) ==
  /\ cmd[p].pc = "running"
  /\ head # cmd[p].content \/ ~PolicyIsSound(Sections[Facts[cmd[p].content].ui])
  /\ cmd' = [cmd EXCEPT ![p] = Idle]
  /\ UNCHANGED <<tree, runs, memories>>

Own(p) == runs[cmd[p].run]

\* One put_run_artifact of the process's own run.
Store(p, field, document, next) ==
  /\ runs' = [runs EXCEPT ![cmd[p].run][field] = document]
  /\ Goto(p, next)
  /\ UNCHANGED tree

StoreRange(p) ==
  /\ cmd[p].pc = "range"
  /\ Store(p, "range", TRUE, "execution") /\ UNCHANGED memories

\* obligation-execution-map and the browser evidence beside it.
StoreExecution(p) ==
  /\ cmd[p].pc = "execution"
  /\ ~(HasUi(Own(p).content) /\ PageFails(Own(p).content))
  /\ Store(p, "executed", TRUE, IF HasUi(Own(p).content) THEN "ratchet" ELSE "protection")
  /\ UNCHANGED memories

\* A later step of the run fails; what it stored stays.
Fail(p) ==
  /\ cmd' = [cmd EXCEPT ![p] = Idle]
  /\ UNCHANGED <<tree, runs, memories>>

\* The head's page is not what a collector returns.
RefusePage(p) ==
  /\ cmd[p].pc = "execution"
  /\ HasUi(Own(p).content) /\ PageFails(Own(p).content)
  /\ Fail(p)

\* Does the run search for widths?  The tree it probes is the one that is there.
Searching(run) == UiPolicy(run.content).responsive.enabled /\ run.replayed

\* Base for head and head for base.
DefaultDeltaSwapped(run, from, to) == Delta(to, from, fixed, UiPolicy(run.content))

DefaultDelta(run, from, to) == Delta(from, to, fixed, UiPolicy(run.content))

\* What the first comparison saw fixed is remembered before the delta is stored; the
\* search is kept as a witness.
Ratcheted(p, delta, search) ==
  /\ cmd' = [cmd EXCEPT ![p].pc = "ui",
               ![p].kept = [ui |-> Document(delta, search.intervals, search.cut),
                            search |-> search]]
  /\ fixed' = fixed \cup Prints(delta.fixed)
  /\ UNCHANGED <<tree, runs, observed, known, history, approved>>

\* finish_controlled_run: base and head are compared at the default viewport.
Ratchet(p) ==
  /\ cmd[p].pc = "ratchet" /\ ~Searching(Own(p))
  /\ Own(p).replayed => ~PageFails(Own(p).from)
  /\ \E from \in BaseAt(Own(p), DefaultWidth),
        to \in HeadAt(Own(p), Own(p).content, DefaultWidth) :
       Ratcheted(p, DefaultDelta(Own(p), from, to), NoSearch)

\* measure_responsive_ui: with a browser in both trees widths are measured too,
\* first the planned ones.  trees is a witness of what was measured.
StartSearch(p) ==
  /\ cmd[p].pc = "ratchet" /\ Searching(Own(p))
  /\ ~PageFails(Own(p).from) /\ Facts[head].programs
  /\ \E from \in BaseAt(Own(p), DefaultWidth),
        to \in HeadAt(Own(p), Own(p).content, DefaultWidth) :
     \E breakpoints \in {from.breakpoints \cup to.breakpoints},
        responsive \in {UiPolicy(Own(p).content).responsive} :
       cmd' = [cmd EXCEPT ![p].pc = "probe",
                 ![p].kept = [delta |-> DefaultDelta(Own(p), from, to), fixed |-> fixed,
                              plan |-> Seeds(responsive, breakpoints),
                              cut |-> \/ PlanIsCut(responsive, breakpoints)
                                      \/ from.blind \/ to.blind,
                              probes |-> << >>, trees |-> {}]]
  /\ UNCHANGED <<tree, runs, memories>>

\* The base's page is refused, or the tree has lost its browser.
RefuseRatchet(p) ==
  /\ cmd[p].pc = "ratchet"
  /\ \/ Own(p).replayed /\ PageFails(Own(p).from)
     \/ Searching(Own(p)) /\ ~Facts[head].programs
  /\ Fail(p)

\* The width measured next: the plan in ascending order, then what the search asks
\* for.
NextWidth(p) ==
  LET left == cmd[p].kept.plan \ DOMAIN cmd[p].kept.probes
  IN  IF left # {} THEN {Min(left)}
      ELSE NextProbe(UiPolicy(Own(p).content).responsive.probes, cmd[p].kept.probes)

\* One probe: the base worktree against the tree that is there; failed attempts at
\* the head see nothing.
Probe(p) ==
  /\ cmd[p].pc = "probe" /\ ~PageFails(head)
  /\ \E width \in NextWidth(p) : \E failed \in Wobbles[width],
        from \in BaseAt(Own(p), width), to \in HeadAt(Own(p), head, width) :
       LET Attempt(k) == Delta(from, IF k <= failed THEN NothingSeen ELSE to,
                               cmd[p].kept.fixed, UiPolicy(Own(p).content))
       IN  cmd' = [cmd EXCEPT
             ![p].kept.probes = Probed(@, width, Retried(Attempt(1), Attempt(2))),
             ![p].kept.trees = @ \cup {head}]
  /\ UNCHANGED <<tree, runs, memories>>

\* The tree's page is refused in the middle of a search.
RefuseProbe(p) ==
  /\ cmd[p].pc = "probe" /\ PageFails(head) /\ NextWidth(p) # {}
  /\ Fail(p)

EndSearch(p) ==
  /\ cmd[p].pc = "probe" /\ NextWidth(p) = {}
  /\ \E probes \in {cmd[p].kept.probes} :
     \E search \in {[trees |-> cmd[p].kept.trees, fixed |-> cmd[p].kept.fixed, probes |-> probes,
                     intervals |-> Intervals(UiPolicy(Own(p).content).responsive, probes),
                     cut |-> cmd[p].kept.cut \/ SearchIsCut(probes)]} :
       Ratcheted(p, cmd[p].kept.delta, search)

\* A cancelled search leaves the delta as if there had been none.
CancelSearch(p) ==
  /\ cmd[p].pc = "probe"
  /\ Ratcheted(p, cmd[p].kept.delta, NoSearch)

StoreUi(p) ==
  /\ cmd[p].pc = "ui"
  /\ Store(p, "ui", {cmd[p].kept.ui}, "protection") /\ UNCHANGED memories

HeadSnapshot(run) ==
  IF run.outcome = "failed" THEN None
  ELSE SnapshotOf(run.content, Touched(run.from, run.content), run.failing)

StoreProtection(p) ==
  /\ cmd[p].pc = "protection"
  /\ Store(p, "protection", HeadSnapshot(Own(p)),
           IF Facts[Own(p).content].programs THEN "triangle" ELSE "failures")
  /\ UNCHANGED memories

StoreTriangle(p) ==
  /\ cmd[p].pc = "triangle"
  /\ Store(p, "triangle",
           {TriangleDocument(Own(p).from, Own(p).content, HeadSnapshot(Own(p)),
                             Own(p).replayed)}, "failures")
  /\ UNCHANGED memories

\* The outcome of the run for that of the case.
CaseStatusOfRun(run, test) == run.outcome

CaseStatus(run, test) == IF test \in run.failing THEN "fail" ELSE "pass"

\* persist_test_analytics writes a failure cluster and a result per case; the
\* document it returns reads the history back.
RecordFailures(p) ==
  /\ cmd[p].pc = "failures"
  /\ LET run == Own(p)
         after == [t \in Loose |-> IF t \in Facts[run.content].loose
                                   THEN history[t] \cup {CaseStatus(run, t)}
                                   ELSE history[t]]
     IN  /\ history' = after
         /\ known' = known \cup run.failing
         /\ cmd' = [cmd EXCEPT ![p].pc = "analytics",
                      ![p].kept = [unknown |-> run.failing \ known,
                                   flaky |-> {t \in Facts[run.content].loose :
                                                after[t] = {"pass", "fail"}}]]
  /\ UNCHANGED <<tree, runs, fixed, observed, approved>>

StoreAnalytics(p) ==
  /\ cmd[p].pc = "analytics"
  /\ Store(p, "analytics", {cmd[p].kept}, "finish") /\ UNCHANGED memories

\* The reply of run; the protection view goes on when its own run passed and
\* was covered.
FinishRun(p) ==
  /\ cmd[p].pc = "finish"
  /\ LET run == Own(p)
         viewing == /\ cmd[p].asked # None
                    /\ run.outcome = "passed" /\ run.failing = {}
                    /\ run.protection # None
     IN  cmd' = [cmd EXCEPT ![p] = IF viewing THEN [@ EXCEPT !.pc = "base", !.kept = None]
                                   ELSE Idle]
  /\ runs' = [runs EXCEPT ![cmd[p].run].whole = TRUE]
  /\ UNCHANGED <<tree, memories>>

\* persist_base_protection: the base suite covered the flows of the files that
\* the tree compiled first had changed.
StoreBase(p) ==
  /\ cmd[p].pc = "base"
  /\ LET snapshot == SnapshotOf(cmd[p].from, Touched(cmd[p].from, cmd[p].asked), {})
     IN  IF snapshot # None THEN Store(p, "baseProtection", snapshot, "proposal")
         ELSE cmd' = [cmd EXCEPT ![p] = Idle] /\ UNCHANGED <<tree, runs>>
  /\ UNCHANGED memories

\* persist_oracle_replacement, when the two seals differ.
StoreProposal(p) ==
  /\ cmd[p].pc = "proposal"
  /\ runs' = IF Seal(cmd[p].from) = Seal(cmd[p].asked) THEN runs
             ELSE [runs EXCEPT ![cmd[p].run].proposal =
                                 Proposal(cmd[p].from, cmd[p].asked)]
  /\ cmd' = [cmd EXCEPT ![p] = Idle]
  /\ UNCHANGED <<tree, memories>>

\* An intent owner accepts a proposal that some run carries.
Approve ==
  /\ \E r \in 1..Len(runs) :
       /\ runs[r].proposal # None
       /\ approved' = approved \cup {runs[r].proposal}
  /\ approved' # approved
  /\ UNCHANGED <<tree, runs, fixed, observed, known, history, cmd>>
-----------------------------------------------------------------------------
(* debt and baseline: one audit of the current range each. *)

Excepted == Facts[head].debt \cap (Facts[head].exceptions \cup observed)
Introduced == Facts[head].debt \ Facts[base].debt

\* debt remembers what the range fixed.
Debt ==
  /\ fixed' = fixed \cup (Facts[base].debt \ Facts[head].debt)
  /\ fixed' # fixed
  /\ UNCHANGED <<tree, runs, observed, known, history, approved, cmd>>

\* Everything the tree has is accepted.
BaselineEverything ==
  /\ observed' = observed \cup Facts[head].debt
  /\ observed' # observed
  /\ UNCHANGED <<tree, runs, fixed, known, history, approved, cmd>>

\* baseline remembers the debt both sides of the range have.
Baseline ==
  /\ observed' = observed \cup (Facts[head].debt \cap Facts[base].debt)
  /\ observed' # observed
  /\ UNCHANGED <<tree, runs, fixed, known, history, approved, cmd>>

\* debt_axis_from over compact_debt_findings: a returned finding is rendered
\* without its rule, so it never belongs to a blocking family.
DebtAxis ==
  LET returned == (Introduced \cap fixed) \ Excepted
      new == (Introduced \ Excepted) \ returned
      Items(set) == {[id |-> d, blocking |-> DebtRuleBlocks(RuleOf[d])] : d \in set}
  IN  [state |-> IF \E d \in new : DebtRuleBlocks(RuleOf[d]) THEN "blocking"
                 ELSE IF new \cup returned = {} THEN "clean" ELSE "warnings",
       new |-> Items(new),
       returned |-> {[id |-> d, blocking |-> FALSE] : d \in returned}]
-----------------------------------------------------------------------------
(* verify: the run, the proofs, then one axis after the other. *)

NoInputs ==
  [proofs |-> {}, protection |-> NoProtection, debt |-> NoDebt,
   stability |-> NoStability, ai |-> NoAi, ui |-> NoUi, delta |-> NoDelta]

LatestRun(content) ==
  LET mine == {r \in 1..Len(runs) : runs[r].content = content}
  IN  IF mine = {} THEN 0 ELSE CHOOSE r \in mine : \A s \in mine : s <= r

Proofs(content, execution) ==
  {[obligation |-> o.id, mandatory |-> o.mandatory,
    verdict |-> Assemble(execution, {}, {}, FALSE, FALSE)] : o \in Facts[content].obligations}

\* What verify has gathered so far is kept with two witnesses: whether the run
\* was whole, and which two contents the debt audit saw.
Gathered(in, verdict, whole) ==
  [in |-> in, verdict |-> verdict, whole |-> whole, audit |-> None]

Verify(p) ==
  /\ cmd[p].pc = "idle"
  /\ LET r  == LatestRun(head)
         in == [NoInputs EXCEPT !.proofs =
                  Proofs(head, IF r # 0 /\ runs[r].executed
                               THEN runs[r].outcome ELSE "absent")]
     IN  cmd' = [cmd EXCEPT ![p] =
                   Command(IF r = 0 THEN "replied" ELSE "v_protection", head, None, None, r,
                           Gathered(in, IF r = 0 THEN Compose(in) ELSE None,
                                    r # 0 /\ runs[r].whole))]
  /\ UNCHANGED <<tree, runs, memories>>

Gather(p, axis, value, next) ==
  cmd' = [cmd EXCEPT ![p].kept.in[axis] = value, ![p].pc = next]

\* A proposal that a different range or seal made is refused, and verify fails.
ProposalFits(run, content) ==
  \/ run.proposal = None
  \/ run.proposal = Proposal(run.from, run.content) /\ run.content = content

RefuseProposal(p) ==
  /\ cmd[p].pc = "v_protection" /\ ~ProposalFits(Own(p), head)
  /\ cmd' = [cmd EXCEPT ![p] = Idle]
  /\ UNCHANGED <<tree, runs, memories>>

\* protection_axis of the stored snapshots.
ReadProtection(p) ==
  /\ cmd[p].pc = "v_protection"
  /\ LET run == Own(p)
         from == run.proposal[1]
         to == run.proposal[2]
         proposed == run.proposal # None
     IN  /\ ProposalFits(run, head)
         /\ Gather(p, "protection",
              IF run.protection = None THEN NoProtection
              ELSE IF run.baseProtection = None
              THEN [NoProtection EXCEPT !.state = "unmeasured"]
              ELSE ProtectionAxis(run.baseProtection, run.protection,
                     IF proposed
                     THEN ExpectationChanged(Facts[from].obligations, Facts[to].obligations, TRUE) ELSE {},
                     IF proposed
                     THEN ObligationReplacements(Facts[from].obligations, Facts[to].obligations) ELSE {},
                     proposed /\ run.proposal \in approved,
                     Mandatory(cmd[p].content)),
              "v_debt")
  /\ UNCHANGED <<tree, runs, memories>>

\* debt_axis audits the refs of the stored range again, as they resolve now;
\* the audit may be unavailable.
ReadDebt(p) ==
  /\ cmd[p].pc = "v_debt"
  /\ \/ /\ ~Own(p).range
        /\ Goto(p, "v_stability")
        /\ UNCHANGED fixed
     \/ /\ Own(p).range
        /\ Gather(p, "debt", [NoDebt EXCEPT !.state = "unmeasured"], "v_stability")
        /\ UNCHANGED fixed
     \/ /\ Own(p).range
        /\ cmd' = [cmd EXCEPT ![p].kept = [@ EXCEPT !.in.debt = DebtAxis,
                     !.audit = <<base, head>>],
                   ![p].pc = "v_stability"]
        /\ fixed' = fixed \cup (Facts[base].debt \ Facts[head].debt)
  /\ UNCHANGED <<tree, runs, observed, known, history, approved>>

\* stability_axis: a first unknown failure on a mandatory path is escalated.
ReadStability(p) ==
  /\ cmd[p].pc = "v_stability"
  /\ \/ Own(p).analytics = {} /\ Goto(p, "v_ui")
     \/ \E doc \in Own(p).analytics :
          LET urgent == doc.unknown \cap Facts[head].mandatory
          IN  Gather(p, "stability",
                [state |-> IF urgent # {} THEN "blocking"
                           ELSE IF doc.flaky \cup doc.unknown # {} THEN "warnings"
                           ELSE "clean",
                 flaky |-> doc.flaky # {}, unresolved |-> urgent], "v_ui")
  /\ UNCHANGED <<tree, runs, memories>>

\* ui_integrity_axis and delta_triangle_axis read the stored documents.
ReadUi(p) ==
  /\ cmd[p].pc = "v_ui"
  /\ \/ Own(p).ui = {} /\ Goto(p, "v_delta")
     \/ \E doc \in Own(p).ui : Gather(p, "ui", doc, "v_delta")
  /\ UNCHANGED <<tree, runs, memories>>

\* The last axis, and the composition.
ReadTriangle(p) ==
  /\ cmd[p].pc = "v_delta"
  /\ \E in \in IF Own(p).triangle = {} THEN {cmd[p].kept.in}
               ELSE {[cmd[p].kept.in EXCEPT !.delta = doc] : doc \in Own(p).triangle} :
       cmd' = [cmd EXCEPT ![p].kept.in = in, ![p].kept.verdict = Compose(in),
                          ![p].pc = "replied"]
  /\ UNCHANGED <<tree, runs, memories>>

\* The reply was delivered.
Acknowledge(p) ==
  /\ cmd[p].pc = "replied"
  /\ cmd' = [cmd EXCEPT ![p] = Idle]
  /\ UNCHANGED <<tree, runs, memories>>

Run(p) ==
  \/ StartProtection(p) \/ StartRun(p) \/ PutRun(p) \/ RefuseRun(p)
  \/ StoreRange(p) \/ StoreExecution(p) \/ RefusePage(p) 
  \/ Ratchet(p) \/ StartSearch(p) \/ RefuseRatchet(p) \/ Probe(p) \/ RefuseProbe(p)
  \/ EndSearch(p) \/ CancelSearch(p) \/ StoreUi(p)
  \/ StoreProtection(p) \/ StoreTriangle(p) \/ RecordFailures(p) \/ StoreAnalytics(p)
  \/ FinishRun(p) \/ StoreBase(p) \/ StoreProposal(p)

Look(p) ==
  \/ Verify(p) \/ ReadProtection(p) \/ RefuseProposal(p) \/ ReadDebt(p) \/ ReadStability(p)
  \/ ReadUi(p) \/ ReadTriangle(p) \/ Acknowledge(p)

Next ==
  \/ Edit \/ Merge \/ Approve \/ Debt \/ Baseline
  \/ \E p \in Runner : Run(p) \/ Die(p)
  \/ \E p \in Looker : Look(p)

Spec == Init /\ [][Next]_vars
-----------------------------------------------------------------------------
(* What a reply may say. *)

Pc == {"idle", "asked", "running", "range", "execution", "ratchet", "probe", "ui", "protection",
       "triangle", "failures", "analytics", "finish", "base", "proposal", "v_protection",
       "v_debt", "v_stability", "v_ui", "v_delta", "replied"}

\* Rows, memories and commands have the shape the code gives them; every
\* document names an axis state, and a result names one of the outcomes a case
\* can have (the columns of runs, debt_history and test_case_results).
TypeOK ==
  /\ head \in Content /\ base \in bases /\ bases \subseteq Content
  /\ moves \in (0..MaxMoves) \X (0..MaxDeaths)
  /\ Len(runs) <= MaxRuns
  /\ \A r \in 1..Len(runs) :
       LET run == runs[r]
       IN  /\ run.content \in Content /\ run.from \in bases
           /\ \A t \in Loose : run.before[t] \subseteq history[t]
           /\ run.outcome \in Outcome /\ run.failing \subseteq Facts[run.content].loose
           /\ {run.range, run.executed, run.replayed, run.whole} \subseteq BOOLEAN
           /\ \A doc \in run.ui \cup run.triangle : doc.state \in AxisState
           /\ \A doc \in run.analytics :
                doc.flaky \cup doc.unknown \subseteq Facts[run.content].loose
           /\ run.proposal # None => run.proposal \in bases \X Content
  /\ \A t \in Loose : history[t] \subseteq {"pass", "fail"}
  /\ known \subseteq Loose
  /\ approved \subseteq bases \X Content
  /\ \A p \in Proc : cmd[p].pc \in Pc /\ cmd[p].run \in 0..Len(runs)

Replied(p) == cmd[p].pc = "replied"
Verdict(p) == cmd[p].kept.verdict

\* A reply that fell back on no run at all has nothing to say of one.
OnRun(p) == Replied(p) /\ cmd[p].run # 0

\* Nothing the program can observe of the run's change was left out.
Measured(p) ==
  LET run == Own(p)
  IN  /\ run.content = cmd[p].content
      /\ \A o \in Facts[run.content].obligations : run.outcome = "passed"
      /\ run.protection # None => run.baseProtection # None
      /\ cmd[p].kept.audit # None
      /\ Facts[run.content].programs => run.replayed
      /\ HasUi(run.content) =>
           \A from \in BaseAt(run, DefaultWidth), to \in HeadAt(run, run.content, DefaultWidth) :
             ~to.truncated /\ ~from.truncated /\ to.states = from.states

\* A change passes without a remark only if everything it touches was measured:
\* what verify reads from a run that stored all its documents is evidence of the
\* verified tree, each obligation passed, the base was replayed where there are
\* programs, the base suite was covered where the head's was, and the audit
\* answered (the module comment of change_verdict.rs, spec "Unmeasured Never
\* Clean").
PassOfWholeRunIsMeasured ==
  \A p \in Proc :
    OnRun(p) /\ cmd[p].kept.whole /\ Verdict(p) = "PASS" => Measured(p)

\* The flows a test guarded at the base and none guards at the head.
LostFlows(run) ==
  {f \in FlowsOf(run.baseProtection) :
     /\ IsProtected(Facts[run.from].flows[f])
     /\ f \in DOMAIN Facts[run.content].flows => ~IsProtected(Facts[run.content].flows[f])
     /\ Signature[f] = NoSignature}

\* A flow of a high-risk change that loses its last test blocks the change,
\* whatever other tests gained, whatever debt, baselines and flakes the ledger
\* remembers, unless a human accepted exactly this pair of seals
\* (rank_2_lost_protection, check_lost).
LostProtectionBlocks ==
  \A p \in Proc :
    /\ OnRun(p) /\ Own(p).content = cmd[p].content /\ Mandatory(cmd[p].content)
    /\ cmd[p].kept.in.protection.state \notin {"not_applicable", "unmeasured"}
    /\ LostFlows(Own(p)) # {}
    /\ Proposal(Own(p).from, Own(p).content) \notin approved
    => Verdict(p) = "BLOCKED"

\* Debt that the change introduces is reported whatever earlier debt and
\* baseline commands remembered: they may accept what the base branch once had,
\* never what only the tree has; a blocking rule blocks unless the fingerprint
\* was once fixed (remember_observed_baseline, debt_axis_from).
IntroducedDebtIsReported ==
  \A p \in Proc :
    Replied(p) /\ cmd[p].kept.audit # None =>
      LET from == cmd[p].kept.audit[1]
          to   == cmd[p].kept.audit[2]
          merged == UNION {Facts[c].debt : c \in bases}
          foreign == Facts[to].debt \ (merged \cup Facts[to].exceptions)
      IN  /\ foreign # {} => Verdict(p) # "PASS"
          /\ (\E d \in foreign \ fixed : DebtRuleBlocks(RuleOf[d]))
             => Verdict(p) = "BLOCKED"

\* A test that failed in one run and passed in another is not passed over in
\* silence, whichever came first, whoever ran it and whatever became of that run:
\* its result is in the ledger before this run is recorded
\* (persist_test_analytics reads back the results of every run; rank 9).
FlakeIsReported ==
  \A p \in Proc :
    /\ OnRun(p) /\ cmd[p].kept.whole
    /\ \E t \in Facts[Own(p).content].loose :
         Own(p).before[t] \ {CaseStatus(Own(p), t)} # {}
    => Verdict(p) # "PASS"

\* An interface error the base did not have, in a state both replays reached; of
\* findings with one fingerprint the ratchet keeps the one detected last.
NewUiErrors(run) ==
  UNION {LET new == {f \in ByFingerprint(to.findings) :
                       IsError(f) /\ f.at \in from.states \cap to.states}
         IN  Prints(new) \ (Prints(from.findings) \cup UiPolicy(run.content).excepted)
         : from \in BaseAt(run, DefaultWidth), to \in HeadAt(run, run.content, DefaultWidth)}

\* Behaviour that changed with the code and not with the specification.
Drifts(run) ==
  /\ Facts[run.from].behaviour # Facts[run.content].behaviour
  /\ ~SpecAuthorizes(run.from, run.content)
  /\ MappedFlows(run.content, run.protection) \cap Touched(run.from, run.content) # {}

\* What the replay of the base shows to be a regression holds the change back:
\* a new interface error or unauthorized drift blocks, an error that is back
\* after a fix may only yield to missing evidence (ratchet, join_triangle, ranks
\* 3 and 5).
RuntimeRegressionsBlock ==
  \A p \in Proc :
    OnRun(p) /\ cmd[p].kept.whole /\ Own(p).replayed =>
      \E errors \in {IF HasUi(Own(p).content) THEN NewUiErrors(Own(p)) ELSE {}} :
        /\ errors # {} => ~Passes(Verdict(p))
        /\ errors \ fixed # {} \/ Drifts(Own(p)) => Verdict(p) = "BLOCKED"

\* The regressions of the trees at a width, new and returned, whoever looks.
Truth(run, search, width) ==
  UNION {Regressed(Delta(from, to, search.fixed, UiPolicy(run.content))) :
           from \in BaseAt(run, width),
           to \in UNION {HeadAt(run, t, width) : t \in search.trees}}

\* A search that does not call itself cut may be believed: unless it spent the most
\* probes there are, no two neighbours between which something may change are apart;
\* and unless the tree moved meanwhile, its probes show what base and head really do
\* at their widths, however often an attempt failed, and where an interval claims an
\* exact boundary, the width beyond it has no regression of that kind
\* (measure_responsive_ui, responsive_failure_intervals).
ResponsiveIsExact ==
  \A p \in Proc :
    cmd[p].pc = "ui" /\ ~cmd[p].kept.search.cut =>
      LET run == Own(p)
          search == cmd[p].kept.search
          range == UiPolicy(run.content).responsive
          True(w) == Truth(run, search, w)
      IN  /\ Cardinality(DOMAIN search.probes) < MaxProbes => Open(search.probes) = {}
          /\ Cardinality(search.trees) = 1 =>
               /\ \A w \in DOMAIN search.probes :
                    Regressed(search.probes[w]) = True(w)
               /\ \A i \in search.intervals :
                    /\ i.lower => i.first = range.min \/ i.key \notin True(i.first - 1)
                    /\ i.upper => i.last = range.max \/ i.key \notin True(i.last + 1)

\* The sweep of a sound snapshot compares every two controls that lie on each other,
\* however their edges coincide and whatever clips them, and no others (overlapping_pairs
\* stops early).
SweepFindsEveryOverlap ==
  \A p \in Proc :
    cmd[p].pc = "running" =>
      \A w \in Width : \A s \in Layouts(Pages[Facts[cmd[p].content].layout][w]) :
        Sound(s) =>
          {{pair[1][1], pair[2][1]} : pair \in Sweep(s)}
            = {{pair[1], pair[2]} : pair \in
                 {both \in Controls(s) \X Controls(s) :
                    /\ both[1] # both[2]
                    /\ \E a \in VisibleBounds(both[1]), b \in VisibleBounds(both[2]) :
                         Intersection(a, b) # {}}}

=============================================================================
