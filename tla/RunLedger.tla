----------------------------- MODULE RunLedger ------------------------------
(***************************************************************************)
(* Controlled runs and verification over the shared evidence ledger.       *)
(*                                                                         *)
(* Several wvq processes (CLI, MCP server, qualityd) work on one           *)
(* repository without a lock between them.  run_controlled executes,       *)
(* checks that the repository revision did not move, inserts the run row   *)
(* and only then stores the run's artifacts, one at a time.  verify reads  *)
(* the newest run of the current revision with whatever artifacts it has   *)
(* by then, assembles a verdict per obligation and inserts a proof when    *)
(* the ledger holds none under that id.  Anybody may edit the working tree *)
(* and any process may fail or die between two steps.                      *)
(***************************************************************************)
EXTENDS Verdicts, FiniteSets, Sequences

CONSTANTS
  Proc,                \* wvq processes
  Obligation,          \* compiled obligations of the one change modelled
  Required,            \* required_evidence of each obligation
  MutationObligation,  \* obligations the mutation policy selects
  TestOutcomes,        \* status sets the runner tests may give an obligation
  AssertOutcomes,      \* status sets browser assertions may give it
  ProgramSeals,        \* oracle seals under which there are browser programs
  MaxRevision,         \* bound on repository contents
  MaxRuns,             \* bound on recorded runs
  RestoreAllowed       \* may an edit bring back an earlier content?

Revision == 0..MaxRevision
Status   == {"passed", "failed", "contradicted"}

\* Statuses of browser assertions; "spoiled" is an assertion that passed in a
\* program that did not.
AssertStatus == Status \cup {"spoiled"}
Evidence == {"coverage", "dom"}
Kind     == {"map", "mutation", "coverage", "browser", "summary"}

ASSUME ConstantsAssumption ==
  /\ MaxRevision \in Nat
  /\ MaxRuns \in Nat
  /\ Required \in [Obligation -> SUBSET Evidence]
  /\ MutationObligation \subseteq Obligation
  /\ TestOutcomes \subseteq SUBSET {"passed", "failed"}
  /\ AssertOutcomes \subseteq SUBSET AssertStatus
  /\ ProgramSeals \subseteq Revision
  /\ RestoreAllowed \in BOOLEAN

VARIABLES
  tree,      \* revision of the working-tree content
  runs,      \* table runs in rowid order, with what each run observed
  attached,  \* attached[r]: kinds of the artifacts linked to run r
  proofs,    \* table proofs in rowid order
  pc,        \* what each process is doing
  job,       \* local state of run_controlled
  look       \* local state of verify

ledger == <<runs, attached, proofs>>
vars == <<tree, runs, attached, proofs, pc, job, look>>

\* A row of runs.  saw, tested, asserted, weak, digests (did an observation
\* capture the DOM) and yields are what the artifacts the run is about to store
\* contain; a reader learns of them only through the kinds in `attached`.
RunRecord ==
  [rev : Revision, oracle : Revision, saw : SUBSET Revision,
   tested : [Obligation -> SUBSET Status],
   asserted : [Obligation -> SUBSET AssertStatus],
   weak : SUBSET Obligation, digests : BOOLEAN, yields : SUBSET Kind]

\* A row of proofs with its proof_artifacts rows; the id is (run, obligation).
ProofRecord ==
  [run : Nat, obligation : Obligation, rev : Revision, seal : Revision,
   verdict : ProofVerdict, artifacts : SUBSET Kind]

JobRecord ==
  [oracle : Revision, before : Revision, saw : SUBSET Revision, todo : SUBSET Obligation,
   tested : [Obligation -> SUBSET Status],
   asserted : [Obligation -> SUBSET AssertStatus], run : Nat]

LookRecord ==
  [seal : Revision, rev : Revision, run : Nat, seen : SUBSET Kind,
   todo : SUBSET Obligation, missing : SUBSET Obligation]

PC == {"idle", "prepared", "executing", "recording", "persisting",
       "compiled", "pinned", "selected", "proving"}

NoStatus == [o \in Obligation |-> {}]

Job(oracle, before, saw, todo, tested, asserted, run) ==
  [oracle |-> oracle, before |-> before, saw |-> saw, todo |-> todo, tested |-> tested,
   asserted |-> asserted, run |-> run]

Look(seal, rev, run, seen, todo, missing) ==
  [seal |-> seal, rev |-> rev, run |-> run, seen |-> seen, todo |-> todo,
   missing |-> missing]

NoJob  == Job(0, 0, {}, {}, NoStatus, NoStatus, 0)
NoLook == Look(0, 0, 0, {}, {}, {})

TypeOK ==
  /\ tree \in Revision
  /\ runs \in Seq(RunRecord)
  /\ attached \in Seq(SUBSET Kind)
  /\ proofs \in Seq(ProofRecord)
  /\ pc \in [Proc -> PC]
  /\ job \in [Proc -> JobRecord]
  /\ look \in [Proc -> LookRecord]

Init ==
  /\ tree = 0
  /\ runs = << >> /\ attached = << >> /\ proofs = << >>
  /\ pc = [p \in Proc |-> "idle"]
  /\ job = [p \in Proc |-> NoJob]
  /\ look = [p \in Proc |-> NoLook]

-----------------------------------------------------------------------------
(* The working tree. *)

\* A developer edits the repository, at any moment.
Edit ==
  /\ \E v \in Revision :
       /\ v # tree
       /\ RestoreAllowed \/ v > tree
       /\ tree' = v
  /\ UNCHANGED <<runs, attached, proofs, pc, job, look>>

-----------------------------------------------------------------------------
(* run_controlled: prepare, execute, persist, finish. *)

\* prepare_controlled_run compiles the obligations and the oracles, and admits
\* the promoted programs whose seal matches them (Programs below).
StartRun(p) ==
  /\ pc[p] = "idle"
  /\ pc' = [pc EXCEPT ![p] = "prepared"]
  /\ job' = [job EXCEPT ![p] = Job(tree, 0, {}, {}, NoStatus, NoStatus, 0)]
  /\ UNCHANGED <<tree, runs, attached, proofs, look>>

\* Only then it pins the revision; the requests that cover each obligation are
\* still to be executed.
PinRun(p) ==
  /\ pc[p] = "prepared"
  /\ pc' = [pc EXCEPT ![p] = "executing"]
  /\ job' = [job EXCEPT ![p] =
               Job(@.oracle, tree, {}, Obligation, NoStatus, NoStatus, 0)]
  /\ UNCHANGED <<tree, runs, attached, proofs, look>>

\* What the browser programs a run has admitted may give an obligation.  A
\* promoted program is passed over when its seal is not the one compiled; a
\* program of the repository is compiled with the run and fits every seal.
Programs(p) == IF job[p].oracle \in ProgramSeals THEN AssertOutcomes ELSE {{}}

\* One invocation of the execution loop or one browser program.  It runs
\* against the working tree as it is now.  A skipped or unbound case leaves
\* no status; a failed invocation counts as "failed" for every case in it.
Invoke(p, o) ==
  /\ pc[p] = "executing"
  /\ o \in job[p].todo
  /\ \E t \in TestOutcomes, a \in Programs(p) :
       job' = [job EXCEPT ![p] =
                 Job(@.oracle, @.before, @.saw \cup {tree}, @.todo \ {o},
                     [@.tested EXCEPT ![o] = t], [@.asserted EXCEPT ![o] = a], 0)]
  /\ UNCHANGED <<tree, runs, attached, proofs, pc, look>>

\* The revision is not read again.
CheckRevisionOnce(p) ==
  /\ pc[p] = "executing"
  /\ job[p].todo = {}
  /\ pc' = [pc EXCEPT ![p] = "recording"]
  /\ UNCHANGED <<tree, runs, attached, proofs, job, look>>

\* The revision check that ends execution: `before != after` is Ambiguous.
CheckRevision(p) ==
  /\ pc[p] = "executing"
  /\ job[p].todo = {}
  /\ IF tree = job[p].before
     THEN pc' = [pc EXCEPT ![p] = "recording"] /\ UNCHANGED job
     ELSE pc' = [pc EXCEPT ![p] = "idle"] /\ job' = [job EXCEPT ![p] = NoJob]
  /\ UNCHANGED <<tree, runs, attached, proofs, look>>

\* The source-mutation phase measures the selected obligations, unless a
\* selected baseline suite did not pass: then all of them stay unmeasured.
WeakOutcomes(j) ==
  IF \E o \in Obligation : "failed" \in j.tested[o]
  THEN {MutationObligation}
  ELSE SUBSET MutationObligation

\* The kinds of artifacts a run stores, c being what its runners measured.
Yields(j, c) ==
  {"map", "summary"} \cup c
  \cup (IF j.asserted = NoStatus THEN {} ELSE {"browser"})
  \cup (IF MutationObligation = {} THEN {} ELSE {"mutation"})

\* Store::put_run.  The row is inserted before any artifact; the kinds the
\* run will store follow from its results and its evidence policy.
PutRun(p) ==
  /\ pc[p] = "recording"
  /\ Len(runs) < MaxRuns
  /\ \E w \in WeakOutcomes(job[p]), c \in SUBSET {"coverage"}, d \in BOOLEAN :
       /\ d => job[p].asserted # NoStatus
       /\ runs' = Append(runs,
            [rev |-> job[p].before, oracle |-> job[p].oracle, saw |-> job[p].saw,
             tested |-> job[p].tested, asserted |-> job[p].asserted,
             weak |-> w, digests |-> d, yields |-> Yields(job[p], c)])
  /\ attached' = Append(attached, {})
  /\ job' = [job EXCEPT ![p] = Job(0, 0, {}, {}, NoStatus, NoStatus, Len(runs) + 1)]
  /\ pc' = [pc EXCEPT ![p] = "persisting"]
  /\ UNCHANGED <<tree, proofs, look>>

\* The execution map is stored last.
EarlierMapLast ==
  [map |-> {"mutation", "coverage", "browser"}, mutation |-> {},
   coverage |-> {"mutation"}, browser |-> {"mutation", "coverage"},
   summary |-> {"map", "mutation", "coverage", "browser"}]

\* Kinds persist_run_core_artifacts and finish_controlled_run store earlier.
Earlier ==
  [map |-> {}, mutation |-> {"map"}, coverage |-> {"map", "mutation"},
   browser |-> {"map", "mutation", "coverage"},
   summary |-> {"map", "mutation", "coverage", "browser"}]

\* put_run_artifact: the artifact, then its link to the run.
PutArtifact(p, k) ==
  LET r == job[p].run IN
  /\ pc[p] = "persisting"
  /\ k \in runs[r].yields \ attached[r]
  /\ Earlier[k] \cap runs[r].yields \subseteq attached[r]
  /\ attached' = [attached EXCEPT ![r] = @ \cup {k}]
  /\ UNCHANGED <<tree, runs, proofs, pc, job, look>>

\* The end of finish_controlled_run: everything is stored, the reply is built.
FinishRun(p) ==
  /\ pc[p] = "persisting"
  /\ runs[job[p].run].yields \subseteq attached[job[p].run]
  /\ pc' = [pc EXCEPT ![p] = "idle"]
  /\ job' = [job EXCEPT ![p] = NoJob]
  /\ UNCHANGED <<tree, runs, attached, proofs, look>>

-----------------------------------------------------------------------------
(* verify. *)

\* The contract, the obligations and the oracle seal come from the tree.
VerifyCompile(p) ==
  /\ pc[p] = "idle"
  /\ pc' = [pc EXCEPT ![p] = "compiled"]
  /\ look' = [look EXCEPT ![p] = Look(tree, 0, 0, {}, {}, {})]
  /\ UNCHANGED <<tree, runs, attached, proofs, job>>

VerifyRevision(p) ==
  /\ pc[p] = "compiled"
  /\ pc' = [pc EXCEPT ![p] = "pinned"]
  /\ look' = [look EXCEPT ![p] = Look(@.seal, tree, 0, {}, {}, {})]
  /\ UNCHANGED <<tree, runs, attached, proofs, job>>

\* Store::latest_run answers r: the greatest rowid of an exact revision, or 0
\* when there is none.
LatestRun(v, r) ==
  LET at == {s \in 1..Len(runs) : runs[s].rev = v}
  IN  IF at = {} THEN r = 0 ELSE r \in at /\ \A s \in at : s <= r

VerifyRun(p) ==
  /\ pc[p] = "pinned"
  /\ pc' = [pc EXCEPT ![p] = "selected"]
  /\ \E r \in 0..Len(runs) :
       /\ LatestRun(look[p].rev, r)
       /\ look' = [look EXCEPT ![p] = Look(@.seal, @.rev, r, {}, {}, {})]
  /\ UNCHANGED <<tree, runs, attached, proofs, job>>

\* Store::run_artifacts, and read_artifact of each.
VerifyArtifacts(p) ==
  /\ pc[p] = "selected"
  /\ pc' = [pc EXCEPT ![p] = "proving"]
  /\ LET seen == IF look[p].run = 0 THEN {} ELSE attached[look[p].run]
     IN  look' = [look EXCEPT ![p] =
                    Look(@.seal, @.rev, @.run, seen, Obligation, {})]
  /\ UNCHANGED <<tree, runs, attached, proofs, job>>

\* The map holds the runner tests only.
MapStatusesOfTests(run, o) == run.tested[o]

\* Statuses in the obligation execution map: the runner tests, and the browser
\* assertions, which fail when the program they belong to did.
MapStatuses(run, o) ==
  run.tested[o] \cup (run.asserted[o] \cap Status)
  \cup (IF "spoiled" \in run.asserted[o] THEN {"failed"} ELSE {})

\* Statuses in the browser evidence: the assertions alone.
BrowserStatuses(run, o) ==
  (run.asserted[o] \cap Status)
  \cup (IF "spoiled" \in run.asserted[o] THEN {"passed"} ELSE {})

SeenStatuses(run, o, seen) ==
  (IF "map" \in seen THEN MapStatuses(run, o) ELSE {})
  \cup (IF "browser" \in seen THEN BrowserStatuses(run, o) ELSE {})

\* Evidence kinds present for an obligation.
SeenEvidence(run, o, seen) ==
  (seen \cap {"coverage"})
  \cup (IF "browser" \in seen /\ run.asserted[o] # {} /\ run.digests
        THEN {"dom"} ELSE {})

\* MutationPolicy::summary_for: required and not yet stored is unmeasured.
WeakMutation(run, o, seen) ==
  /\ o \in MutationObligation
  /\ "mutation" \notin seen \/ o \in run.weak

\* The verdict verify assembles for o from the artifacts it has seen.
VerdictFrom(run, o, seen) ==
  Assemble(Execution(SeenStatuses(run, o, seen)), Required[o],
           SeenEvidence(run, o, seen), FALSE, WeakMutation(run, o, seen))

Verdict(p, o) ==
  IF look[p].run = 0 THEN "UNPROVEN"
  ELSE VerdictFrom(runs[look[p].run], o, look[p].seen)

HasProof(r, o) ==
  \E i \in 1..Len(proofs) : proofs[i].run = r /\ proofs[i].obligation = o

\* o is dealt with.
Done(p, o) ==
  look' = [look EXCEPT ![p] =
             Look(@.seal, @.rev, @.run, @.seen, @.todo \ {o}, {})]

\* get_proof finds a row, or there is no run to bind a proof to.
SkipProof(p, o) ==
  /\ pc[p] = "proving"
  /\ look[p].missing = {}
  /\ o \in look[p].todo
  /\ look[p].run = 0 \/ HasProof(look[p].run, o)
  /\ Done(p, o)
  /\ UNCHANGED <<tree, runs, attached, proofs, pc, job>>

\* get_proof finds nothing.
MissProof(p, o) ==
  /\ pc[p] = "proving"
  /\ look[p].missing = {}
  /\ o \in look[p].todo
  /\ look[p].run # 0
  /\ ~HasProof(look[p].run, o)
  /\ look' = [look EXCEPT ![p] =
                Look(@.seal, @.rev, @.run, @.seen, @.todo, {o})]
  /\ UNCHANGED <<tree, runs, attached, proofs, pc, job>>

\* The row an insert adds.
NewProof(p, o) ==
  [run |-> look[p].run, obligation |-> o, rev |-> look[p].rev,
   seal |-> look[p].seal, verdict |-> Verdict(p, o), artifacts |-> look[p].seen]

\* The insert waits for the other process to withdraw its row.
PutProofWaits(p, o) ==
  /\ pc[p] = "proving"
  /\ o \in look[p].missing
  /\ ~HasProof(look[p].run, o)
  /\ proofs' = Append(proofs, NewProof(p, o))
  /\ Done(p, o)
  /\ UNCHANGED <<tree, runs, attached, pc, job>>

\* put_proof_with_artifacts: one transaction, refused by the primary key when
\* another process inserted the same id since; verify then returns the error.
PutProof(p, o) ==
  /\ pc[p] = "proving"
  /\ o \in look[p].missing
  /\ IF HasProof(look[p].run, o)
     THEN /\ pc' = [pc EXCEPT ![p] = "idle"]
          /\ look' = [look EXCEPT ![p] = NoLook]
          /\ UNCHANGED proofs
     ELSE /\ proofs' = Append(proofs, NewProof(p, o))
          /\ Done(p, o)
          /\ UNCHANGED pc
  /\ UNCHANGED <<tree, runs, attached, job>>

\* The reply carries the verdicts just assembled, not the stored ones.
ReplyVerify(p) ==
  /\ pc[p] = "proving"
  /\ look[p].todo = {}
  /\ pc' = [pc EXCEPT ![p] = "idle"]
  /\ look' = [look EXCEPT ![p] = NoLook]
  /\ UNCHANGED <<tree, runs, attached, proofs, job>>

-----------------------------------------------------------------------------
\* The command fails, or its process dies: local state is lost, what was
\* committed to the ledger stays.
Abandon(p) ==
  /\ pc[p] # "idle"
  /\ pc' = [pc EXCEPT ![p] = "idle"]
  /\ job' = [job EXCEPT ![p] = NoJob]
  /\ look' = [look EXCEPT ![p] = NoLook]
  /\ UNCHANGED <<tree, runs, attached, proofs>>

RunStep(p) ==
  \/ StartRun(p)
  \/ PinRun(p)
  \/ \E o \in Obligation : Invoke(p, o)
  \/ CheckRevision(p)
  \/ PutRun(p)
  \/ \E k \in Kind : PutArtifact(p, k)
  \/ FinishRun(p)

VerifyStep(p) ==
  \/ VerifyCompile(p)
  \/ VerifyRevision(p)
  \/ VerifyRun(p)
  \/ VerifyArtifacts(p)
  \/ \E o \in Obligation : SkipProof(p, o) \/ MissProof(p, o) \/ PutProof(p, o)
  \/ ReplyVerify(p)

Next ==
  \/ Edit
  \/ \E p \in Proc : RunStep(p) \/ VerifyStep(p) \/ Abandon(p)

Spec == Init /\ [][Next]_vars
-----------------------------------------------------------------------------
(* Properties. *)

\* What all the evidence of run r shows of o, once everything is stored.
FinalVerdict(r, o) == VerdictFrom(runs[r], o, runs[r].yields)

Stored(i) == [run |-> proofs[i].run, obligation |-> proofs[i].obligation,
              verdict |-> proofs[i].verdict]

\* Verdicts a verify command has assembled and is about to store and reply.
Answering(p) == pc[p] = "proving" /\ look[p].run # 0

\* Every verdict a reader can see: stored proofs and replies of verify.
Claims ==
  {Stored(i) : i \in DOMAIN proofs}
  \cup {[run |-> look[p].run, obligation |-> o, verdict |-> Verdict(p, o)]
          : p \in {q \in Proc : Answering(q)}, o \in Obligation}

\* verify may read a run while run_controlled is still storing its artifacts,
\* or after it died half way.  A PROVEN or CONTRADICTED taken from such a part
\* of the evidence is nevertheless what the whole evidence of the run shows:
\* artifacts that arrive later never overturn it.
DecisiveVerdictsAreFinal ==
  \A c \in Claims :
    c.verdict \in {"PROVEN", "CONTRADICTED"} =>
      c.verdict = FinalVerdict(c.run, c.obligation)

\* A stored PROVEN rests on a run that observed the obligation passing and
\* never failing or contradicted, cites the artifacts that carry each required
\* kind of evidence and, where mutation is requested, a clean measurement.
ProvenIsEarned ==
  \A i \in DOMAIN proofs :
    LET proof == proofs[i]
        o     == proof.obligation
        run   == runs[proof.run]
    IN  proof.verdict = "PROVEN" =>
          /\ run.tested[o] \cup run.asserted[o] = {"passed"}
          /\ "coverage" \in Required[o] => "coverage" \in proof.artifacts
          /\ "dom" \in Required[o] =>
               "browser" \in proof.artifacts /\ run.asserted[o] # {} /\ run.digests
          /\ o \in MutationObligation =>
               "mutation" \in proof.artifacts /\ o \notin run.weak

\* A proof that cites the execution map of a run in which the sealed
\* expectation was contradicted says so: no passing test, missing evidence or
\* mutation result softens it.
ContradictionNeverSoftened ==
  \A i \in DOMAIN proofs :
    LET proof == proofs[i]
    IN  /\ "map" \in proof.artifacts
        /\ "contradicted" \in runs[proof.run].asserted[proof.obligation]
        => proof.verdict = "CONTRADICTED"

\* get_proof and the insert are separate statements: two verify commands may
\* both find no proof.  The ledger still ends with one proof per run and
\* obligation.
OneProofPerObligation ==
  \A i, j \in DOMAIN proofs :
    /\ proofs[i].run = proofs[j].run
    /\ proofs[i].obligation = proofs[j].obligation
    => i = j

\* A recorded run executed nothing but the revision it is filed under, and a
\* proof is bound to the revision of its run, whatever was edited meanwhile
\* (as long as no edit restores an earlier content).
EvidenceOfItsRevision ==
  /\ \A r \in DOMAIN runs : runs[r].saw \subseteq {runs[r].rev}
  /\ \A i \in DOMAIN proofs : proofs[i].rev = runs[proofs[i].run].rev

\* No step changes or removes a proof: it may only be added to.
ProofsWriteOnce ==
  [][/\ DOMAIN proofs \subseteq DOMAIN proofs'
     /\ \A i \in DOMAIN proofs : proofs'[i] = proofs[i]]_proofs

\* The ledger implements the book of proofs: run rows fix what is true of the
\* run, proof rows are claims that never say more.
Truth == [r \in DOMAIN runs |-> [o \in Obligation |-> FinalVerdict(r, o)]]
Page  == {Stored(i) : i \in DOMAIN proofs}

Book == INSTANCE ProofBook WITH truth <- Truth, book <- Page

ImplementsBook == Book!Spec

\* Fairness: the operating system keeps scheduling a verify that can run.
FairSpec == Spec /\ \A p \in Proc : WF_vars(VerifyStep(p))

\* A verify ends, with a reply or an error, whatever other processes do.
VerifyEnds ==
  \A p \in Proc :
    pc[p] \in {"compiled", "pinned", "selected", "proving"} ~> pc[p] = "idle"
-----------------------------------------------------------------------------
(* A statement of the documentation that the ledger does not keep. *)

\* "stale-seal programs are not executed": a PROVEN proof that rests on what
\* browser programs asserted carries the seal those programs were admitted
\* under, however the tree was edited while the run was prepared.
ProvenUnderItsSeal ==
  \A i \in DOMAIN proofs :
    LET run == runs[proofs[i].run]
    IN  proofs[i].verdict = "PROVEN" /\ run.asserted[proofs[i].obligation] # {}
          => proofs[i].seal = run.oracle
-----------------------------------------------------------------------------
(* The inductive invariant. *)

\* A set of kinds verify can have found attached to a run: persistence stores
\* them in one order, so a later kind comes with every earlier one.
Snapshot(run, seen) ==
  /\ seen \subseteq run.yields
  /\ \A k \in seen : Earlier[k] \cap run.yields \subseteq seen

\* What put_run guarantees of the artifacts a run will store.
WellFormed(run) ==
  /\ "map" \in run.yields
  /\ \A o \in Obligation : run.asserted[o] # {} => "browser" \in run.yields
  /\ MutationObligation # {} => "mutation" \in run.yields

RunsInv ==
  /\ Len(attached) = Len(runs)
  /\ \A r \in 1..Len(runs) :
       WellFormed(runs[r]) /\ Snapshot(runs[r], attached[r])
  /\ \A p \in Proc : pc[p] = "persisting" => job[p].run \in 1..Len(runs)

LookInv ==
  \A p \in Proc :
    /\ pc[p] \in {"selected", "proving"} /\ look[p].run # 0 =>
         /\ look[p].run \in 1..Len(runs)
         /\ runs[look[p].run].rev = look[p].rev
         /\ pc[p] = "proving" => Snapshot(runs[look[p].run], look[p].seen)
    /\ pc[p] = "proving" /\ look[p].missing # {} => look[p].run # 0

\* Missing evidence may weaken a verdict, it never invents one.
Admissible(v, t) ==
  \/ v = t
  \/ v = "UNPROVEN"
  \/ v = "PARTIAL" /\ t = "PROVEN"

ProofsInv ==
  /\ \A i \in 1..Len(proofs) :
       /\ proofs[i].run \in 1..Len(runs)
       /\ proofs[i].rev = runs[proofs[i].run].rev
       /\ Snapshot(runs[proofs[i].run], proofs[i].artifacts)
       /\ proofs[i].verdict =
            VerdictFrom(runs[proofs[i].run], proofs[i].obligation, proofs[i].artifacts)
  /\ \A i, j \in 1..Len(proofs) :
       proofs[i].run = proofs[j].run /\ proofs[i].obligation = proofs[j].obligation
         => i = j

IInv == TypeOK /\ RunsInv /\ LookInv /\ ProofsInv

\* When no edit restores an earlier content, a revision that is seen before and
\* after the invocations was there throughout.
RevisionInv ==
  /\ \A p \in Proc :
       /\ pc[p] = "executing" =>
            \A v \in job[p].saw \cup {job[p].before} : job[p].before <= v /\ v <= tree
       /\ pc[p] = "recording" => job[p].saw \subseteq {job[p].before}
  /\ \A r \in 1..Len(runs) : runs[r].saw \subseteq {runs[r].rev}
=============================================================================
