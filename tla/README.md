# Weavatrix Quality: a TLA+ model of the evidence pipeline

Weavatrix Quality (`wvq`) turns a specification (OpenSpec plus `quality.yaml`)
into obligations, runs registered tests against them, records what they
observed in an evidence ledger, and answers each obligation, and in the end the
whole change, with a verdict. This directory models the part of it in which a wrong
answer can arise without any single function being wrong: several processes that
share one ledger, one object store and one working tree, without a lock between
them; and the pure functions that join what they left there.

Paths below are relative to `src/`; `live/` stands for
`crates/wvq-command-bus/src/service/live/`, `service/` for its parent directory.

## 1. The system

```
 OpenSpec + quality.yaml --> obligations, contract, OracleSeal <-- recovery desk
        |                                   |                     (human review)
        v                                   v
  test selection --> run_controlled --> run row + artifacts --> verify --> proofs,
     ^                 |     |     |       (SQLite)  (CAS)        |    composite verdict
     |       run_bounded  bridge  mutants                    CLI / MCP / Studio
     |      (suite)  (TestPrograms) (worktree)
     +-- selection audit, history      protection, debt, baseline, flakes, ui: the
                                       memories a later verify joins
```

Every front end (CLI, MCP server, `qualityd`) is a process of its own that calls
`LiveService` of `wvq-command-bus`. What they share is on disk:
`.weavatrix-quality/quality.db`, the objects beside it, the working tree, and
the report files of the test runners.

### Components

| Component | State | Operations | What makes it correct | Here |
|---|---|---|---|---|
| Evidence ledger (`wvq-store/src/repository.rs`, `live/run_*.rs`, `live/verify.rs`) | tables `runs`, `run_artifacts`, `proofs`, `proof_artifacts` | `run_controlled`: prepare, execute, persist, finish; `verify` | a verdict never says more than the evidence; a proof is written once; a run is filed under the revision it executed | `RunLedger`, `ProofBook` |
| Verdicts (`wvq-proof/src/verdict.rs`, `assemble.rs`) | none | `decide_verdict`, `assemble`, the status fold of `verify` | a contradiction is never softened, PROVEN needs every kind of evidence | `Verdicts` |
| Content-addressed store (`wvq-store/src/cas.rs`) | `objects/ab/<hash>`, temporary names, artifact rows | `put`, `get` | a row names a whole object; objects do not change | `Cas` |
| Program authoring (`live/author.rs`, `live/promote.rs`) | tables `authoring_previews`, `program_revisions` | preview, promote, heal | a revision was exercised as stored, under its seal; repairs change no assertion | `TestPrograms` |
| Process execution (`wvq-runtime/src/process.rs`) | process tree, pipes, channel, buffers | `run_bounded` | complete output, nothing left after a kill, always ends | `BoundedProcess` |
| Browser bridge (`wvq-runtime/src/browser_bridge.rs`) | a node process, request ids | spawn, request, close, drop | answers belong to requests, what is reported is what ran | `BridgeSession` |
| Source mutation (`source_mutation.rs`, `wvq-proof/src/mutation.rs`) | private worktree, clock, document | plan, copy, apply, judge, restore | a kill was earned by a test that counts; an unfinished phase says so | `MutantPlan`, `SourceMutation`, `MutationOfChange` |
| Selection and its audit (`wvq-intelligence/src/selection.rs`, `service/selection_build.rs`, `execute.rs`) | history tables | select, map to runners, widen, audit, learn | a reduced run still proves; a missed test is selected next time | `Selection`, `SuiteRun` |
| Shared reports and coverage (`service/runner.rs`, `publish_coverage.rs`) | report files at fixed paths | invoke, attach, publish | a run that reads another's report must not pass with a failure | `SuiteRun` |
| Debt, baseline (`live/debt.rs`, `live/baseline.rs`) | tables `debt_history`, `observed_debt_baselines` | debt, baseline, the debt axis of verify | what a change introduces is reported | `ChangeGate` |
| Protection and the delta triangle (`live/protection*.rs`) | documents of a run, approvals | protection view, comparison, replay of the base | a lost guard blocks | `Protection`, `ChangeGate` |
| Change verdict (`change_verdict.rs`, `flake.rs`) | test history | `compose`, flakes, stability | PASS means measured; ranks hide nothing | `ChangeVerdict`, `ChangeGate` |
| UI integrity (`wvq-ui`, `live/ui*.rs`) | layout snapshots | detect, ratchet, responsive search | a regression is reported where it starts | `UiLayout`, `UiDetect`, `UiRatchet`, `ChangeGate` |
| Behaviour model (`live/ingest_journal.rs`, `record*.rs`, `service/persist_behavior.rs`) | `behavior_states`, `behavior_edges`, sessions, traces | ingest, record, run | the graph has what is cited for it | `BehaviorLedger` |
| Surfaces and matrix (`surface_graph.rs`, `persist_matrix.rs`, `evidence_plan.rs`) | documents of a run | project, fill, plan | a walk that was cut proves no absence | `Surfaces`, `BehaviorLedger` |
| Specification recovery (`wvq-spec-recovery`) | a desk in the memory of a host | open, read, decide, seal | nothing is sealed on the word of the code alone | `RecoveredIntent`, `RecoveryDesk` |
| Specification parsing (`wvq-spec`) | none | parse, seal | | the seal only |
| Front ends, JS runner | sockets, browser | | | their processes and answers only |
| Migrations, planning model, explorer, metamorphic relations, repository rules, domain types, benches, packaging, Studio pages | | | | not modelled |

`PROJECT.json` gives the reason for each part that is not or only partly modelled.

### What is hard

* **No lock spans a command.** A `run_controlled` inserts its run row before it
  stores the artifacts (`live/run_execute.rs`, `live/run_persist.rs`); a `verify`
  in another process reads whatever is there (`live/verify.rs:23`).
* **Reads at different moments.** A command compiles obligations, pins the
  repository revision, reads the contract and drives a browser one after the
  other, while the tree may be edited and the base branch merged in between.
* **Check, then act.** `get_proof` and the insert, the latest program revision
  and the repair of it, the lookup of an object and its rename, novelty counted before
  a journal is stored.
* **Death between two steps.** A killed process leaves a run without artifacts, a
  preview without a revision, half a temporary file, an edge without its journal.
* **Absence.** A document that is missing, a walk that was cut, a probe that failed, a
  base that was never replayed: each may read as "nothing wrong".
* **Memory.** Debt once fixed, failures once seen, baselines once accepted, tests
  once missed are joined with evidence of another tree.
* **Processes and pipes.** Descendants outlive the program that was spawned, two
  pipes fill independently, and exit, deadline, cancellation and cap race.

`PROJECT.json` lists each of these, at its line, under `hazards`, with the
properties that would notice it going wrong.

## 2. The modules

Each component has a module with its state and one action per operation; pure
algorithms are operators of modules of their own, so that the same definitions are
model-checked, composed and proved about. `MC*` modules hold the small
instances, `*Proofs` the proofs. A composition is by `EXTENDS`: a component that calls
a pure part extends its module (`RunLedger` extends `Verdicts`; `MutationOfChange`
extends `MutantPlan` and `SourceMutation`; `SuiteRun` extends `Selection`;
`ChangeGate` extends `ChangeVerdict`, `Protection` and `UiRatchet`, which rests on
`UiDetect` and `UiLayout`; `RecoveryDesk` extends `RecoveredIntent`;
`BehaviorLedger` extends `Surfaces`), and `RunLedger` implements `ProofBook` through
an `INSTANCE` with a refinement mapping.

Where a module holds a definition that no specification uses and whose name says what
went wrong in it (`AttachLenient`, `DecideAnytime`, `StatusOfTimeoutKills`), that is a
mutant: a plausible bug of the definition beside it.

### Verdicts
Pure operators: `DecideVerdict`, `Assemble` and `Execution` have the case
order of `verdict.rs`, `assemble.rs` and the fold in `verify.rs`. Execution
evidence is a tag; the `seal_contradicted` flag of a failure is folded into it.

### RunLedger
Several processes (`Proc`) on one ledger, one change, and a working tree whose
content is a revision number.

| Model | Code |
|---|---|
| `tree`, `Edit` | content of the working tree, changed by anybody at any moment |
| `runs`, `attached`, `proofs` | tables in rowid order; `attached[r]` the kinds of artifacts linked to run r |
| `StartRun`, `PinRun` | `prepare_controlled_run`: obligations and oracles first, the revision after |
| `Invoke`, `Programs` | one obligation's invocations and the browser programs admitted for it (`policy/browser.rs:158`: those whose seal is the compiled one), against the tree of that moment |
| `CheckRevision` | the comparison `before != after` that ends execution |
| `PutRun`, `PutArtifact`, `FinishRun` | the run row, then each artifact, in the order of `persist_run_core_artifacts` and `finish_controlled_run` |
| `VerifyCompile` ... `VerifyArtifacts` | the four reads of `verify` |
| `SkipProof`, `MissProof`, `PutProof`, `ReplyVerify` | `get_proof`, the insert that the primary key may refuse, the reply |
| `Abandon` | an error or the death of the process |

A run row carries what the run observed, although the code keeps it in
the artifacts: no step of the model looks at it except through the kinds that
are already attached. Obligation execution statuses and the browser evidence are
two views of one outcome: the status "spoiled" is an assertion that passed in a
program that failed, which the execution map counts as failed and the browser
evidence as passed. Abstractions: evidence kinds are coverage and DOM; the
evidence documents of several browser programs are one kind, "browser"; whether
an observation captured a DOM digest is nondeterministic; `spec_ambiguous` is
always false in `verify`, so HUMAN_REQUIRED does not arise.

### ProofBook
The abstract specification: each run fixes one truth per obligation; the book
holds at most one claim per run and obligation, never changes it, and a claim
equals the truth or stops short of it (UNPROVEN, or PARTIAL for PROVEN).
`RunLedger` implements it: truth is the verdict over everything a run stores,
a page of the book is a proof row.

### Cas
`put` system call by system call over a file system of names and files: a
writer keeps the file it opened whatever happens to the name, and truncation is
seen by everybody. `LookUp` is the early return when the object is there, `Fail` an
I/O error or the death of the writer at any point; what it wrote stays. `Record` is
the artifact row.

### TestPrograms
Authors preview, promote and repair one program of one change. `Compile`, `Pin`,
`ReadLatest`, `SealCandidate` and `Play` are the separate reads of a command in
the order of `live/author.rs` and `live/promote.rs`; `Promote` and `Heal` are the
two transactions of `repository.rs`. The seal is the pair of sealed obligations
and sealed policy, so equal exactly when both are (the digest is taken as
injective). A heal's expected revision is the latest at the time it reads it. The
revision check and the insert of the preview are one step, since the insert
depends on nothing that can change. A promotion names a preview that has been
recorded; preview ids, which are nanosecond timestamps, are unique.

### BoundedProcess
`run_bounded`: the spawned process and its descendants, who inherits which end
of which pipe, the two reader threads, the channel and the collector loop with one
action per check. Output is counted in chunks of one read (`AppendChunk`). `KillTree`
is the behaviour of the process group or job object behind `process-wrap`: killing and
waiting ends the whole tree; `try_wait` speaks of the spawned process. A read
error (`ReadFails`) and a failing `try_wait` (`ReapFails`) are modelled as the
code treats them: the first like the end of the stream, the second without a
kill.

### BridgeSession
One command of `run_browser_program_at`: the host, the node process with
`BridgeSession.handle` of `js/playwright-runner/src/main.ts`, the two pipes between
them, and the browser.

| Model | Code |
|---|---|
| `at`, `phase` | the request the host is about, and how far `request` is with it |
| `Send`, `Drain`, `BrokenPipe` | the cancel check, the new id, `write_all`; a request in `Large` may block until node reads |
| `Check`, `ReceiveNothing`, `Receive` | the receive loop: flag, clock, `recv_timeout`, the match of ids |
| `Handle`, `GotObservation`, `GotStep`, `GotUi`, `GotReel`, `GotFinish` | what the command does with each answer |
| `Close`, `Drop` | stdin closed, ten seconds, the process tree killed if node still runs |
| `Serve` | one call of `handle`: an answer, and what it did to the browser |
| `Stray`, `Crash`, `Exit` | a line nobody asked for, the death of node, its end when stdin has ended |

Whether UI evidence is collected and whether the network is replayed strictly is
the `config` of the session. What a page shows is not modelled: an observation
is the number of steps that had been executed when it was taken. A body or
file that cannot be read ends the command (`Unreadable`). The recording session
(`poll_recording`) is left out.

### MutantPlan, SourceMutation, MutationOfChange
`MutantPlan` is planning as `wvq-proof/src/mutation.rs` does it: the lexical mask,
the operators that propose an edit of what the mask leaves, their order and the
ceiling. A source is a sequence of symbols and, for each place, the lexeme the language
takes it for; the code sees the symbols only, so a mask that takes a literal for code is
visible. `LexedTo` says of the places up to one of them that their lexemes are such as the mask
is meant for: code without quotes, comments up to the end of the line or to the mark,
literals up to the first quote of their kind that no odd number of backslashes escapes. Which edits cut into a comment or a literal
(`Quoted`) is said of the lexemes alone, not of the scanner.
`SourceMutation` is the phase: the private worktree is copied file by file, each
mutant applied, judged by the cases bound to each owner and restored; a report may
be missing, cancelled or timed out; the wall clock, the ceiling of decisions and a
cancellation end the loop where they are looked at; then the document, and how
verify reads it. Which files an obligation owns follows from the walks of its tests that were
not truncated (`Reaches`), and from the production files tests stand in (`Declares`), which
are claimed whatever the walk. `MutationOfChange` puts the plan of a change into the phase: the plans the
phase takes as a constant are those of some change (`PlansOfChangeAssumption`).

### Selection, SuiteRun
`Selection` holds the minimal plan, the historical candidates, the mapping of tests
to runner targets, the batches and the widening. `SuiteRun` lets several processes
run impacted and full suites and audit one against the other.

| Model | Code |
|---|---|
| `files`, `recent` | report files at fixed paths, and those modified within the last two seconds |
| `Prepare` | selection of the moment: tree, history, missed tests, and the requests or the widening |
| `Execute`, `Fresh`, `Attach` | `runner.rs`: start a runner, ask each report whether it is fresh, read it |
| `Truncate`, `Publish`, `PublishNothing` | `publish_coverage.rs`: the shared lcov file rewritten in place |
| `PutRun`, `Observe`, `PutCase`, `PutSummary` | the run row, what it teaches the history, its cases one by one, the summary |
| `BeginAudit`, `PutAudit`, `LearnMiss`, `FinishAudit` | `selection_audit.rs`: two whole runs of a tree, the audit row, each missed test, the count |

A process that dies is one that takes no further step. A report is what the
runner, of whichever process, wrote last; the start of a runner and its end are one
step, since nothing reads its report in between.

### ChangeVerdict, Protection, UiLayout, UiDetect, UiRatchet, ChangeGate
The pure parts: `ChangeVerdict` is `compose` with its seven axes and eleven ranks;
`Protection` compares flows of base and head; `UiLayout` and `UiDetect` are
geometry, policy, the sweep over edges and the detectors; `UiRatchet` compares two
measurements and searches for the width where a regression starts. `ChangeGate`
composes them.

| Model | Code |
|---|---|
| `head`, `base`, `Edit`, `Merge` | content of the tree and of the merge base, which move under every command |
| `runs` | table `runs` with the documents attached to each |
| `fixed`, `observed`, `known`, `history`, `approved` | debt history, baselines, failure clusters, case results, human decisions |
| `StartRun`, `PutRun`, `StoreRange`, `StoreExecution` | preparation and the row, then each document |
| `Ratchet`, `StartSearch`, `Probe`, `EndSearch`, `CancelSearch`, `StoreUi` | `run_finish.rs`, `ui_responsive.rs`: base against head, then one probe per width |
| `StoreProtection`, `StoreTriangle`, `RecordFailures`, `StoreAnalytics`, `FinishRun` | the rest of `finish_controlled_run` |
| `StartProtection`, `StoreBase`, `StoreProposal` | `protection_controlled`: a run of its own, the base suite, a proposal to replace a guard |
| `Debt`, `Baseline`, `Approve` | the commands that write the memories, and the human decision |
| `Verify`, `ReadProtection` ... `ReadTriangle` | verify picks the newest run of the content and reads axis by axis, then composes; `Acknowledge`: the reply is out |
| `Die`, `Fail`, `Refuse...` | a death or an error between two steps |

What can be observed of a content (obligations, flows, debt, pages) is the constant
`Facts`; how flows come out of a code graph is data of the instance. `Measurements`
is what the browser and the detectors make of each page at each width.

### RecoveredIntent, RecoveryDesk
`RecoveredIntent` turns a delta into clusters, evidence with an authority tier,
candidates and the report of the deterministic checks. `RecoveryDesk` has hosts that
open a desk from the tree (`Open`, `Close`), reviewers who read a candidate on one
host and decide on another (`Look`, `Decide`), and `Seal`; a decision carries the
digest of what was read. A desk is in memory only, so a restart forgets.

### Surfaces, BehaviorLedger
`Surfaces` projects a code graph to surfaces, walks from tests through it, fills the
evidence matrix, plans what is missing and lists behaviours. `BehaviorLedger` has
processes that ingest journals, record sessions and finish runs; each writer is a
script of statements, the next of which it executes (`PutState`, `PutEdge`,
`PutSession`, `PutTrace`, `PutJournal`, `LoadJournals`, `PutMatrix`, `PutPlan`,
`PutBehaviors`, `PutContribution`), and may stop between two (`Leave`). `Look` is one query of the
novelty count, `Discard` the reply no_new_behavior.

## 3. What the runs show

| Run | Instance | Shows |
|---|---|---|
| `ledger_races` | two processes run and verify, one edit, either may die | DecisiveVerdictsAreFinal, ProvenIsEarned, EvidenceOfItsRevision |
| `ledger_book` | the same without edits, fair verifies | ImplementsBook (refinement), VerifyEnds |
| `ledger_stale_oracle` | one edit, no runner test, one promoted program of the first seal | violated: ProvenUnderItsSeal, see Findings |
| `cas_apart` | two writers of different contents | RowsAreWhole |
| `programs` | two authors, one edit, three previews | RepairsFormAChain, AdmissionsAgree, ExercisedAsStored, PromotedUnderItsSeal |
| `process` | a program with a descendant, two pipes | ResultIsComplete, NothingSurvivesAKill, PipesAreDrained, StopsAndEnds |
| `bridge` | one program of four steps, late answers, a stray line, a hanging or dying node | ObservationsFollowTheirSteps, ResultIsWhatRan, NothingIsLeft, SessionEnds |
| `gate` | one run or protection view, one reader, moving tree, base and memories | PassOfWholeRunIsMeasured, LostProtectionBlocks, IntroducedDebtIsReported, FlakeIsReported, RuntimeRegressionsBlock, ResponsiveIsExact, SweepFindsEveryOverlap |
| `mutants` | twelve possible changes of six files, one edit, every ceiling | KillsAreEarned, MutantsAreCode, DocumentIsValid, StrongEvidenceIsComplete |
| `suite` | two processes, impacted and full runs, two trees, two runners | ReducedRunsStillProve, PassedRunsHaveNoFailure, AuditsReadWholeRuns, LearnedMissesAreSelected |
| `recovery` | two hosts, a QA and a product reviewer, four revisions, two of which recover opposite sentences under one identifier | SealsRestOnApproval, SealedIsUncontested, FinalStatesStay |
| `evidence` | two processes ingest, record and finish runs | GraphHoldsEvidence, DiscardedWasKnown, BehaviorsWereSeen, CutTestsAreAskedFor |

`PROJECT.json` gives for each checked property a mutant of a mapped definition under
which the run finds it violated.

**Why DecisiveVerdictsAreFinal holds** although `verify` reads half a run: the
execution map is stored first, so a reader that has any evidence at all has the
statuses; required evidence and the mutation document can only be missing, and
missing evidence weakens. A map that left out the browser assertions would break it
(an early PROVEN that the browser evidence then contradicts), and one stored last
would break the refinement.

**The deadline and a blocked write.** `SessionEnds` says the command returns or is
blocked in `write_all` (`browser_bridge.rs:1222`), so it does not catch that hazard, only shows
that there is no other place to hang: the deadline, documented at
line 34 as that of the whole bridge, is looked at only while the host waits for an
answer. A request larger than the pipe needs a node that reads.

**What a dead node leaves.** `drop` asks whether node still runs before it kills the
tree (`browser_bridge.rs:1290`), so `NothingIsLeft` excepts the browser of a node that
died by itself.

**Which whole run.** `PassOfWholeRunIsMeasured` and the reporting properties of `gate`
speak of a run that stored everything, or of the documents that are there: verify
does not look at `run.outcome`, and the missing documents of a run that is still being
stored, or died, read as not applicable. Regressions of the interface are stated for
the findings that are kept, one per fingerprint.

### Findings

*Oracles of an earlier content* (`ledger_stale_oracle`). `prepare_controlled_run`
compiles obligations and admits promoted programs before it pins the revision; an
edit in between is not noticed by the comparison at the end, which starts from the
pin. In the trace the change is compiled and the promoted program, whose seal is the one of
revision 0, admitted (`StartRun`); the tree is edited and the run pinned to revision 1
(`PinRun`); the program runs and passes, the run is filed under revision 1; and verify,
which compiles the new content, stores PROVEN under its seal. Nothing else runs in this
instance: the proof rests on a program whose seal is stale where it is executed, while
`docs/STATUS.md:252` says "stale-seal programs are not executed". `ProvenUnderItsSeal` is
about proofs that rest on what browser programs asserted; a runner test has no seal.

Weaknesses of the code that the models contain, and whose properties are stated
around them:

* *A weaker proof stays.* A verify that reads a run before its artifacts are
  there stores UNPROVEN or PARTIAL. A later verify of the same run assembles
  PROVEN, finds a row under the id and skips the insert, and replies PROVEN
  under an id whose row says otherwise (`live/verify.rs:155`).
* *The newest row is not the newest run.* `proof_for_obligation` orders by the
  rowid of the proof (`repository.rs:1252`).
* *A heal across a seal.* `author_heal_controlled` compiles before it pins, so a
  repair may be stored for a repository revision with another seal.
* *Same content, two writers.* The temporary name is a function of the content
  (`cas.rs:50`): the second `File::create` truncates the file the first one is about
  to rename. `RowsAreWhole` is checked and proved for writers of different contents.
* *Degraded, not lost.* A degraded high-risk flow whose obligations are all still
  guarded reads "blocking" and passes (`change_verdict.rs:563`).
* *A spent probe budget* with the largest budget the policy allows reads clean
  (`live/ui_responsive.rs:112`), and so does a search that a host cancels. That no gap is
  open is claimed, in `ResponsiveIsExact`, for a search within its ceiling.
* *A boundary between new and returned.* The list of what was fixed before holds
  fingerprints with the width in them, so one regression may be "returned" at
  a width and "new" at the next. Intervals are kept apart by that word
  (`responsive.rs:203`), and the one that ends there calls its boundary exact though the
  regression goes on, where the comment (`responsive.rs:46`) says that "a passing point"
  proves it. Two runs in one ledger suffice. An attempt to prove the boundary passing
  failed on this case, so `ResponsiveIsExact` says that beyond an exact boundary there is no
  regression *of the same kind*.
* *The mask* (`wvq-proof/src/mutation.rs`, `code_mask`) misreads Rust lifetimes, JS
  regular expressions with quotes and Go raw strings that end in a backslash.
  `MutantsAreCode`, and its proof, are about every source and every stored decision; that the
  edit reaches into no comment or literal is claimed of those with no misread lexeme
  before them in their file (`Misplaced`). File f of the instance has a raw string that ends in a
  backslash, and in the literal behind it a decision is really made, although the comment
  (`mutation.rs:981`) says "strings and comments are never mutation sites".
* *Accepting the opposite.* A decision is tied to the digest of the sentence read
  (`SealsRestOnApproval`), which covers its first 32 bytes. Where two revisions differ in the
  outcome only, QA accepts "available" and "unavailable" is sealed; the instance has
  such a pair of revisions. `desk.rs:238` calls it the digest "of the exact sentence a reviewer sees", and
  `review.rs:6-8` refuses a decision "made against a candidate the reviewer can no longer
  have seen".
* *A cut walk reads absent.* `CutTestsAreAskedFor` holds for the columns of tests and of
  intent, and for what the walk reached. The columns of proof and mutation
  (`persist_matrix.rs:426-432`, `483-489`) take what such a walk did not add as absent, and
  in every column a surface that lies beyond the cut is absent if another test was walked
  whole; both against `docs/invariants.md:29`, "Missing evidence is never evidence of
  absence".
* *Fixed debt that is back does not block.* A finding listed as fixed before is reported as
  returned without its rule (`verify_debt.rs:124`), so no rule makes it block, where
  `verify_axes.rs:48` says that findings brought back "are classified by rule family".
  `IntroducedDebtIsReported` is about debt never fixed before.

### Bounds, and why they are enough

* Two processes, authors, writers or hosts: each hazard listed is a race of two, and a
  third would only repeat one of the two roles. The theorems do not need the bound.
* `MaxRevision` 1, one edit: the hazard is content that differs between two reads
  of one command. `ledger_book` has none, since refinement does not look at content.
* `MaxRuns` 1 in the ledger: a verify races the run it reads. One obligation:
  `ledger_races` has a mutation policy, requires coverage and has browser programs under
  every seal, so that a verdict can
  be decisive before the browser evidence is there; `ledger_book` requires
  coverage and DOM and has programs that fail after an assertion passed. An
  obligation's verdict depends on its own statuses only.
* `MaxPreviews` 3: preview, promote, repair and a second attempt at each end.
* `Size` 2: one partial state between empty and whole. `MaxFiles` 2.
* `MaxOutput` 2, `MaxWritten` 3, `PipeSize` 1: a full pipe, a cap that is reached
  by both streams together, and the one chunk beyond it.
* A program of four steps with two assertions, so that a failure may come at the
  first, a middle and the last step, with and without an assertion. `MaxStray`
  1: the first stray line that is read ends the session. `Large` holds `prepare`,
  which carries the program and the recorded network profile.
* `gate`: `MaxRuns`, `MaxMoves` and `MaxDeaths` 1 each; a run that races one move of
  the tree, the base or a memory. Widths 1..8 with a device width at 4 have
  gaps on both sides to halve; only width 8 may fail a probe or see another tree. One
  policy allows four probes, so that its search ends with a gap open. The contents differ from the base in one or two ways each, so that each kind of finding
  occurs alone and next to another.
* `mutants`: `MaxMutants` 5 (one change has more), `MaxDecisions` 4 and `MaxWall` 3, so
  that each ceiling ends the phase before, in and after the loop; `MaxEdits` 1.
* `suite`: three tests (one bound, one only history selects, one neither), two trees
  of which one lacks the bound test, a path runner in a directory and one at the
  root, `MaxFilters` 2 and `MaxProcesses` 3, run ids 1 and 2.
* `recovery`: `MaxDecisions` 2 and four of the nine kinds of decision; the four
  revisions of `MCRecoveryDesk` contain a contradiction, a requirement that exists
  already and a name that contains another.
* `evidence`: three journals (two of one session, one refused), one recording, one
  program; `MaxDepth` 2 cuts one of the two walks.
* `RestoreAllowed` FALSE: an edit never brings back an earlier content. With
  TRUE, an edit that is undone while tests execute is invisible to the
  comparison of revisions, and EvidenceOfItsRevision, ExercisedAsStored and
  PromotedUnderItsSeal do not hold. This is an assumption of these three.

Symmetry over processes, authors and run names is used in `ledger_races`, `programs`,
`suite` and `evidence`, which check safety only. `CHECK_DEADLOCK FALSE` stands in
`bridge` and `process`, whose command ends, and in `suite`, where a process may have
ended with an error and the identifiers of runs are used up.

### Fairness

`RunLedger!FairSpec`: weak fairness of each process's verify steps, that is, the
operating system goes on scheduling a thread that can run; every verify step is a
finite computation or one SQL statement. No fairness for edits, runs, failures.
`BoundedProcess!FairSpec`: weak fairness of the collector and of each
reader thread. The collector's receive has a 20 ms timeout, so it always has a
step. Nothing is assumed of the program, which may hang or keep its pipes
open, nor of the deadline, and a read is not obliged to fail: `ReadFails` is not
part of the fair reader.
`BridgeSession!FairSpec`: weak fairness of the host's thread, and of the clock
(`Tick`, `Grace`). Nothing is assumed of node. A receive has a timeout, so the host
always has a step unless it is blocked in a write.
The other modules promise safety only and state no fairness: a process may die
between any two of their steps.

## 4. What is proved

All theorems are for every value of the constants that satisfies the named
assumptions, any number of processes included. The assumptions say what kind of value
a constant is (a bound is a number, a text a sequence, a plan a sequence of different mutants of its
files, an event list a sequence; a page has finitely many numbered nodes, whose boxes
have whole coordinates and at most one clip); TLC evaluates them in the run of the module.
The code's coordinates are doubles: what the sweep's proof says of them is up to rounding.
`RestoreAllowed = FALSE` (EvidenceBound, Exercised, PromotedSeal) and writers of
different contents (RowsWhole) are hypotheses of the theorems
that need them, and are written there.

| Module | About | Theorems |
|---|---|---|
| `LedgerProofs` | `RunLedger`, `ProofBook` | LedgerInvariant, TypeCorrect, DecisiveVerdicts, ProvenEarned, ContradictionKept, OneProof, WriteOnce, EvidenceBound, LedgerImplementsBook |
| | `Cas` | RowsWhole |
| `TestProgramsProofs` | `TestPrograms` | ProgramsInvariant, TypeCorrect, Chain, Admissions, WriteOnce, Exercised, PromotedSeal |
| `RunnerProofs` | `BoundedProcess` | ProcessInvariant, TypeCorrect, ResultComplete, NothingSurvives, LimitReal |
| | `SuiteRun`, `Selection` | SuiteInvariant, PassedRunsAreClean, AuditsAreOfWholeRuns, ReducedRunsProve, LearnedMisses |
| `BrowserProofs` | `BridgeSession` | SessionInvariant, TypeCorrect, ObservationsFollow, FailureStops, ResultRan, NothingLeft |
| | `BehaviorLedger`, `Surfaces` | BehaviorInvariant, GraphIsWhole, DiscardLosesNothing, BehaviorsHaveEvidence, CutTestsStayUnmeasured |
| `SourceMutationProofs` | `SourceMutation` | MutationInvariant, MutationTypes, KillsEarned, StrongEvidence, DocumentValid |
| | `MutantPlan`, `MutationOfChange` | MaskIsExact, PlansAreSound, DecisionsAreAboutCode |
| `RecoveryDeskProofs` | `RecoveryDesk`, `RecoveredIntent` | DeskInvariant, DeskTypes, ApprovedSeals, UncontestedSeals, FinalReviewsStay |
| `ChangeGateProofs` | `ChangeGate`, `ChangeVerdict`, `Protection`, `UiRatchet` | GateInvariant, IntroducedDebt, FlakesAreReported, LostProtection, RuntimeRegressions, PassIsMeasured, SearchesAreExact |
| | `UiDetect`, `UiLayout` | EveryOverlapIsFound |

`SequenceFacts` holds the lemmas about sequences that `RunnerProofs`, `BrowserProofs` and
`SourceMutationProofs` share: concatenation and flattening, the least number of a set,
recursion over numbers, sequences that repeat nothing, and that a finite set of numbers can be
listed in ascending order. Several components
share a proof module where they share such lemmas or belong to one part of the system.

Each proof has the same shape: an inductive invariant `IInv` (`SuiteInv`,
`BehaviorInv`, `CasInv` where a module of that name is composed with another), a lemma
that the initial states satisfy it, a lemma for each action or group of actions that
it is preserved, and the step from the invariant to each property.

**RunLedger.** None of the properties is inductive. `IInv` adds that the kinds
attached to a run, and every set of kinds a verify has read or a proof cites, are
closed under "stored earlier" (`Snapshot`); that run rows are well formed; that
a verify in progress looks at a run of its revision; and that a proof's verdict is
the one its cited artifacts give. The step to the properties is a case
distinction over the verdict functions: a verdict from a snapshot is
`Admissible` for the verdict from all the artifacts. The same lemma
carries the refinement. `RevisionInv` needs `RestoreAllowed = FALSE`: revisions
only grow, so one that is equal before and after was there throughout.

**Cas.** `CasInv` says that the file under a temporary name is the open file of the
one writer of that content, filled as far as that writer has come, and no file has two
names.

**TestPrograms.** `LocalInv` says what a command knows of the tables stays true,
because both only grow; `ProgramsInv` relates the two tables. `TimeInv`, for
`RestoreAllowed = FALSE`, orders the moments at which a command read obligations,
revision, policy and browser by the revisions it read there: a preview that was
recorded found one content from pin to check, and a promotion that matches it
compiled no earlier.

**BoundedProcess.** `Conserved`: each chunk written is in the pipe, in the channel or
collected; `StreamInv`: a reader that ended left an empty pipe that nobody can
write. A result is given only when both ends were heard.

**SuiteRun.** The core is about `Selection` alone (`RequestsHave`, `ReducedPlan`): a plan whose scope is "impacted" is complete and each selected test is
mappable; so for an obligation some selected test has a case bound to it, that test has
a target, its place in the ordered list of that target's tests lies in one of the
batches, and the batch is one of the requests. `SuiteInv` then carries along every
job that a plan of this kind made it; that records only ever lose "passed", so a row
written from records that all passed has no failed case; that a process owns its row from
the insert to the summary, no two the same one; and that an audit, once it has read two
rows that have their summaries, may use what it read later, since such rows never
change again. `WorldOK` says that reports and cases are of finitely many tests, which
the counts of history need. `LearnInv`: the misses recorded stay, and while an audit
learns, the rows of its pair are among what it has to learn; equal counts of a finite
set then mean all of it was learned. A test that was missed ranks before
every one that never was, so history keeps them all as long as no more than
`MaxHistory` different tests were ever missed (`HistoryFits`; the code keeps 500).

**BridgeSession.** `WireInv`: one request is open at most and lies in exactly one
place, unsent, at node or answered, and every other line has id 0. With it,
`NodeInv` and `AnswerInv` say how many steps node has executed at each place of the
command, so that an answer read under the right id speaks of the right step;
`VerdictInv` and `NotesInv` relate the host's records to those steps. Without
the match of ids a stray line would shift every later answer by one.

**BehaviorLedger.** `Grounded`: each statement left in a writer's script is grounded in
the graph or in earlier statements of the same script, so that wherever the writer
dies, what it has stored stands. `StillAsked`: what is not in the graph and has not been
found new is still among the queries of a writer that has nothing new so far; when the
queries are used up, all is known. `DocsOfRun`: the documents of a run still at work
are functions of its source and of one set of journals, loaded before any document; so
matrix and behaviours agree. A walk that is cut stays out of both sets the columns
of tests and of intent are made of, which is what makes those cells unmeasured.

**SourceMutation.** `WorkspaceInv`: while nobody edited, the worktree holds the text
the run began with, and the mutant in turn while it is judged. `EarnedInv`: each result
was given by judges that count. `LoopInv` relates how far the loop came to the ceiling
that ended it, and `DocumentInv` the document to the loop.

`MutantsAreCode` rests on three facts about planning, for texts of any length. (1) Up to the
first lexeme it is not meant for, the mask is exactly the code of any source (`MaskIsExact`). A lexeme says what state the scanner should be in before
each of its places (`Fits`): in a comment or behind a quote once past the first symbol,
escaped after an odd number of backslashes, and, at the start of a lexeme, in code
or at the line break that ends a comment. If it ever were in another state there would be a
least such place; but one step from a state that fits leads to one that fits, in the same
lexeme (`FitsOn`) and across its end (`FitsNext`). (2) Every operator proposes edits among
the places of the mask, and what it puts there differs from what was there
(`EditsSound`, a lemma for each operator): an insertion lengthens the text, a
replacement has another length or another symbol somewhere. Where an operator looks past
white space for a bracket or a number, that place is code because no lexeme but code
begins with such a symbol (`SolidAfterCode`). (3) What is cut off at the ceiling is a list
of such edits, none twice (`SourceMutantsAre`, `PlannedIs`), which also shows that the
assumption the rest of the phase makes of plans is true of the plans of a
change (`PlansAreSound`). A recursion over the places or the files is a function by
`Recursion` in `SequenceFacts`.

**RecoveryDesk.** A desk never alters what it recovered, only the reviews; a review past
PROPOSED has a report without a blocking finding; the identifiers in a review
point at recorded decisions of the right role about this candidate, made on a sentence with
its digest, and what has been recorded stays; so whatever is sealed carries its reasons with it.

**ChangeGate.** Rows and memories only grow. A document in a row says of the two contents
of that row what the property needs (`RowOK`); a run that calls itself whole has
stored each of them; what a reader has gathered stays true of its row while everything else
grows (`ReaderOK`); and any fired rule keeps the composition away from PASS
(`ReasonsAreRanked` and what follows).
The search of widths: a probe is incomplete or the comparison of the base with a tree
that was there while probing (`ProbesOK`); the search calls itself cut if any probe is
incomplete, so in a whole search that saw one tree (`SearchOK`) each probe is the
truth at its width; nothing left to ask means no gap is open or the ceiling is spent
(`NothingLeftToProbe`); and an interval is called exact only where the next width
was measured, as a neighbour, without a regression of its kind (`BoundariesAreMeasured`).
The sweep: what two controls share, after each is cut to its clip, is one rectangle
(`OneBox`), and an overlap of them starts left of the first one's right edge
(`OverlapSpans`), so stopping at that edge loses nothing (`SweepIsExact`). The identifiers of
a sound snapshot are apart (`IdsAreApart`), which orders controls that start at one edge.

### Only model-checked

* `VerifyEnds`, `PipesAreDrained`, `StopsAndEnds`, `SessionEnds`: liveness, out of the
  prover's reach.
* What `LearnedMissesAreSelected` says beyond `HistoryFits`: with more missed tests than
  history keeps, the code drops the last of the ranking, and nothing is claimed.
* `ProvenUnderItsSeal` is a counterexample of TLC's.

The type invariants are proved and not listed in the runs again; so are
OneProofPerObligation, ContradictionNeverSoftened, the write-once properties,
LimitIsReal and NothingRunsAfterAFailure.

## 5. What is not modelled

`PROJECT.json` lists the parts that are left out with the reason. Within the modelled
parts:

* Parsers, formatting, digests as strings; a digest is injective unless the code cuts
  it. Non-finite floats and identifiers of white space do not occur in snapshots.
* The AI budget is read before a call and written after it (`live/model.rs:19`); this and the
  race of two first openings of a ledger are hazards without a property: no document says
  what should hold.
* Shared lcov: two runs at once may leave a file that belongs to neither. It is in
  `SuiteRun` (`Truncate`, `Publish`), but the code promises nothing about it.
* Lineage of renamed tests, linking of dependency directories into a worktree, the
  recorder of the browser bridge, screenshots and pixel comparison.
* Recovery: no host of the repository calls `CandidateReview::edit` or
  `require_product_approval`, passes observations, or seals from the Studio, so the model's
  actions are those that are reachable. A QA_VERIFIED candidate that requires product
  has no way to product; one blocking finding keeps every candidate of its desk PROPOSED.
* Evidence: an ingest that dies between graph rows and artifacts is discarded as
  no_new_behavior when it is repeated, and a longer journal of a known session
  writes graph rows before its trace id is refused. Both are in the model; neither
  breaks a promise of the code.

## 6. Plan

1. The recording session of the browser bridge (`poll_recording`, its idle timeout).
2. Lineage of tests in `Selection`; a second responsive default width in `ChangeGate`.

## 7. Running

```
tlc -workers 2 -config ledger_races.cfg MCRunLedger.tla
tlapm LedgerProofs.tla
```

`PROJECT.json` names module and configuration of every run, the source lines each
definition translates (`map`), and for each checked property a mutant of
a definition that breaks it. `gate`, `suite`, `mutants` and `recovery` need a minute or more;
`ChangeGateProofs`, `BrowserProofs` and `SourceMutationProofs` several minutes.
