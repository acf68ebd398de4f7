--------------------------- MODULE SourceMutation ---------------------------
(***************************************************************************)
(* The source-mutation phase of one run (source_mutation.rs): the planned  *)
(* mutants are applied one at a time to a private worktree and judged by   *)
(* the exact test cases bound to each owning obligation.  Tests may be     *)
(* cancelled, time out or leave no readable report, the whole phase has a  *)
(* wall clock and a decision ceiling, and the developer may edit the       *)
(* sources meanwhile: the run that carries the document is then refused.   *)
(* What may be planned is a constant here: MutationOfChange says what it   *)
(* is for a change.                                                        *)
(***************************************************************************)
EXTENDS MutantPlan, FiniteSets

CONSTANTS
  Obligation,    \* the obligations the mutation policy selects
  File,          \* the added and changed production files
  LanguageOf,    \* file -> its language, or another value
  Hints,         \* obligation -> [all, operators] of its mutation hints
  Plans,         \* what may be planned: [mutants, whether the ceiling is noted]
  Binding,       \* exact test cases
  Proves,        \* binding -> obligations it is bound to
  Reaches,       \* binding -> files its test reaches in the graph
  Declares,      \* binding -> its own file, where that is no test file, else none
  KnownFlaky,    \* bindings with a flake penalty or a mixed history
  Runs,          \* binding -> languages its runner judges, where a target has it
  Detects,       \* binding -> <<file, operator>> whose mutants it fails on
  Broken,        \* bindings that fail on the sources as they are
  MaxDecisions,  \* the ceiling of 128 decisions
  MaxWall,       \* MAX_MUTATION_WALL_TIME, in time steps
  MaxStep,       \* bound: the most time one decision takes
  MaxEdits       \* bound: edits of the sources

ASSUME MutationAssumption ==
  /\ {MaxDecisions, MaxWall, MaxStep, MaxEdits} \subseteq Nat
  /\ MaxDecisions > 0 /\ MaxWall > 0
  /\ Obligation # {}

\* A plan is a sequence of different mutants of those files.
ASSUME PlansAssumption ==
  \A planned \in Plans :
    /\ planned.mutants \in Seq({planned.mutants[i] : i \in DOMAIN planned.mutants})
    /\ \A i \in DOMAIN planned.mutants : planned.mutants[i].path \in File
    /\ \A i, j \in DOMAIN planned.mutants :
         planned.mutants[i] = planned.mutants[j] => i = j

VARIABLES
  revision,   \* of the repository; the run began at revision 0
  cancelled,  \* the shared cancel flag
  pc,
  surfaces,   \* obligation -> the files it owns
  mutants,    \* what was planned
  planAt,     \* revision the mutants were planned at
  text,       \* workspace: file -> revision its text was copied at
  applied,    \* workspace: file -> mutants now in its text
  next,       \* index of the mutant the outer loop is at
  owners,     \* obligations of that mutant still to be judged
  elapsed,    \* time spent
  results,    \* MutationResultRecords; version and judged are witnesses
  limits,     \* limitations noted
  document    \* the MutationRunDocument

vars == <<revision, cancelled, pc, surfaces, mutants, planAt, text, applied, next, owners, elapsed,
          results, limits, document>>

NotMade == [state |-> "none"]
NotCopied == MaxEdits + 1

\* mutation_code_surfaces: a walk that was truncated gives no evidence; a binding of a
\* production file (a test inside it) claims that file whatever its walk.
SurfacesWithout(truncated) ==
  [o \in Obligation |->
     {f \in File : \E b \in Binding : /\ o \in Proves[b]
                                      /\ \/ f \in Reaches[b] /\ b \notin truncated
                                         \/ f \in Declares[b]}]

\* obligations_for
Wanted(mutant) ==
  {o \in Obligation :
     \/ Hints[o].all /\ mutant.edit.operator \in Catalogue[LanguageOf[mutant.path]]
     \/ mutant.edit.operator \in Hints[o].operators}

\* obligations_owning_path
Owners(mutant) ==
  {o \in Wanted(mutant) : mutant.path \in surfaces[o]}

Applicable == UNION {Owners(mutants[i]) : i \in DOMAIN mutants}

Init ==
  /\ revision = 0 /\ cancelled = FALSE /\ pc = "start"
  /\ surfaces = [o \in Obligation |-> {}]
  /\ mutants = << >> /\ planAt = 0 /\ text = [f \in File |-> NotCopied]
  /\ applied = [f \in File |-> {}]
  /\ next = 1 /\ owners = {} /\ elapsed = 0
  /\ results = {} /\ limits = {} /\ document = NotMade

plan == <<surfaces, mutants, planAt>>
workspace == <<text, applied>>
loop == <<next, owners, elapsed, results>>
-----------------------------------------------------------------------------
Edit ==
  /\ revision < MaxEdits /\ pc \notin {"stored", "refused", "failed"}
  /\ revision' = revision + 1
  /\ UNCHANGED <<cancelled, pc, plan, workspace, loop, limits, document>>

Cancel ==
  /\ ~cancelled /\ pc \notin {"stored", "refused", "failed"}
  /\ cancelled' = TRUE
  /\ UNCHANGED <<revision, pc, plan, workspace, loop, limits, document>>

Doc(state, applicable, planned, res) ==
  [state |-> state, applicable |-> applicable, planned |-> planned, results |-> res,
   killed |-> Cardinality({r \in res : r.status = "killed"}),
   survived |-> Cardinality({r \in res : r.status = "survived"}),
   invalid |-> Cardinality({r \in res : r.status = "invalid"})]

\* MutationRunDocument::unmeasured: the suite did not pass.
SuiteFailed ==
  /\ pc = "start"
  /\ document' = Doc("unmeasured", Obligation, 0, {})
  /\ pc' = "done"
  /\ UNCHANGED <<revision, cancelled, plan, workspace, loop, limits>>

\* The mutants are planned against the sources of this moment.
Plan ==
  /\ pc = "start"
  /\ planAt' = revision
  /\ \E planned \in Plans, truncated \in SUBSET Binding :
       /\ mutants' = planned.mutants
       /\ limits' = IF planned.cut THEN {"mutants"} ELSE {}
       /\ surfaces' = SurfacesWithout(truncated)
  /\ IF mutants' = << >>
     THEN document' = Doc("not_applicable", {}, 0, {}) /\ pc' = "done"
     ELSE UNCHANGED document /\ pc' = "copying"
  /\ UNCHANGED <<revision, cancelled, workspace, loop>>

\* MutationWorkspace::create and overlay_worktree copy the tree file by file.
Copy ==
  /\ pc = "copying"
  /\ \E f \in File :
       /\ text[f] = NotCopied
       /\ text' = [text EXCEPT ![f] = revision]
       /\ pc' = IF \A g \in File \ {f} : text[g] # NotCopied THEN "mutants" ELSE pc
  /\ UNCHANGED <<revision, cancelled, plan, applied, loop, limits, document>>

\* The outer loop is left.
Stop(limit) == limits' = limits \cup limit /\ pc' = "counting"

OutOfTime ==
  /\ pc = "mutants" /\ next <= Len(mutants) /\ elapsed >= MaxWall
  /\ Stop({"wall"})
  /\ UNCHANGED <<revision, cancelled, plan, workspace, loop, document>>

Exhausted ==
  /\ pc = "mutants" /\ next > Len(mutants)
  /\ Stop({})
  /\ UNCHANGED <<revision, cancelled, plan, workspace, loop, document>>

Current == mutants[next]
Turn == pc = "mutants" /\ next <= Len(mutants) /\ elapsed < MaxWall

\* A mutant nobody owns ends the loop.
SkipUnownedAndStop ==
  /\ Turn /\ Owners(Current) = {}
  /\ next' = Len(mutants) + 1
  /\ UNCHANGED <<revision, cancelled, pc, plan, workspace, owners, elapsed, results,
                 limits, document>>

SkipUnowned ==
  /\ Turn /\ Owners(Current) = {}
  /\ next' = next + 1
  /\ UNCHANGED <<revision, cancelled, pc, plan, workspace, owners, elapsed, results,
                 limits, document>>

Apply ==
  /\ Turn /\ Owners(Current) # {}
  /\ applied' = [applied EXCEPT ![Current.path] = @ \cup {Current}]
  /\ owners' = Owners(Current)
  /\ pc' = "judging"
  /\ UNCHANGED <<revision, cancelled, plan, text, next, elapsed, results, limits,
                 document>>

\* The text to be replaced is not where the plan saw it: an edit came between
\* (one elsewhere in the file goes unnoticed here).
SourceChanged ==
  /\ Turn /\ Owners(Current) # {} /\ text[Current.path] # planAt
  /\ pc' = "failed"
  /\ UNCHANGED <<revision, cancelled, plan, workspace, loop, limits, document>>

\* mutation_judge_bindings and the targets that can run them.
Judges(mutant, obligation) ==
  {b \in Binding : /\ LanguageOf[mutant.path] \in Runs[b]
                  /\ obligation \in Proves[b] /\ b \notin KnownFlaky}

Notices(binding, mutant) ==
  binding \in Broken \/ <<mutant.path, mutant.edit.operator>> \in Detects[binding]

\* What one judge reports of the workspace: a verdict, or nothing that can be
\* read (cancelled, timed out, compile error, case missing or skipped).
Fails(binding) ==
  binding \in Broken \/ \E m \in UNION {applied[f] : f \in File} : Notices(binding, m)

Report(binding) ==
  (IF cancelled THEN {} ELSE {IF Fails(binding) THEN "fail" ELSE "pass"}) \cup {"unclear"}

\* An execution that ends without a verdict counts as a kill.
StatusOfTimeoutKills(reports) ==
  IF reports \cap {"fail", "unclear"} # {} THEN "killed"
  ELSE IF reports = {"pass"} THEN "survived"
  ELSE "invalid"

\* authoritative_mutant_status over what the judges reported.
StatusOf(reports) ==
  IF "fail" \in reports THEN "killed"
  ELSE IF reports = {"pass"} THEN "survived"
  ELSE "invalid"

\* execute_one
Judge(o) ==
  /\ pc = "judging" /\ o \in owners
  /\ elapsed < MaxWall /\ Cardinality(results) < MaxDecisions
  /\ \E reports \in {f \in [Judges(Current, o) -> {"pass", "fail", "unclear"}] :
                       \A b \in Judges(Current, o) : f[b] \in Report(b)} :
       results' = results \cup
         {[mutant |-> Current, obligation |-> o,
           status |-> StatusOf({reports[b] : b \in Judges(Current, o)}),
           version |-> text[Current.path]]}
  /\ \E d \in 0..MaxStep :
       elapsed' = IF elapsed + d > MaxWall THEN MaxWall ELSE elapsed + d
  /\ owners' = owners \ {o}
  /\ UNCHANGED <<revision, cancelled, pc, plan, workspace, next, limits, document>>

Restored == applied' = [applied EXCEPT ![Current.path] = {}]

\* The inner loop is over, or cut short; the source is restored either way.
Restore ==
  /\ pc = "judging"
  /\ LET cut == IF owners = {} THEN {}
                ELSE IF elapsed >= MaxWall THEN {"wall"}
                ELSE IF Cardinality(results) >= MaxDecisions THEN {"decisions"}
                ELSE {}
     IN  /\ owners = {} \/ cut # {}
         /\ limits' = limits \cup cut
         /\ pc' = IF cut = {} THEN "mutants" ELSE "counting"
  /\ Restored
  /\ next' = next + 1
  /\ owners' = {}
  /\ UNCHANGED <<revision, cancelled, plan, text, elapsed, results, document>>

\* Any result at all is a measurement.
StateOfAnyResult(res) == IF res = {} THEN "unmeasured" ELSE "measured"

StateOfResults(res) ==
  IF \A r \in res : r.status = "invalid" THEN "unmeasured" ELSE "measured"

\* The document is made and the workspace dropped.
Count ==
  /\ pc = "counting"
  /\ document' = Doc(StateOfResults(results), Applicable, Len(mutants), results)
  /\ text' = [f \in File |-> NotCopied]
  /\ applied' = [f \in File |-> {}]
  /\ pc' = "done"
  /\ UNCHANGED <<revision, cancelled, plan, loop, limits>>

\* The run stores its documents if its revision still stands, else it fails.
Finish ==
  /\ pc = "done"
  /\ pc' = IF revision = 0 THEN "stored" ELSE "refused"
  /\ UNCHANGED <<revision, cancelled, plan, workspace, loop, limits, document>>

Done ==
  /\ pc \in {"stored", "refused", "failed"}
  /\ UNCHANGED vars

Next ==
  \/ Edit \/ Cancel
  \/ SuiteFailed \/ Plan \/ Copy
  \/ OutOfTime \/ Exhausted \/ SkipUnowned \/ Apply \/ SourceChanged
  \/ \E o \in Obligation : Judge(o)
  \/ Restore \/ Count \/ Finish \/ Done

Spec == Init /\ [][Next]_vars
-----------------------------------------------------------------------------
(* How the document is read: MutationRunDocument::summary_for, validate and *)
(* the weakness that assemble takes from a summary.                         *)

Of(doc, o, status) == {r \in doc.results : r.obligation = o /\ r.status = status}

NoSummary == [required |-> FALSE]

Summary(doc, o) ==
  IF o \notin doc.applicable
  THEN IF doc.planned > 0 /\ doc.applicable = {}
       THEN [required |-> TRUE, killed |-> 0, survived |-> 0, invalid |-> 0,
             unmeasured |-> TRUE]
       ELSE NoSummary
  ELSE [required   |-> TRUE,
        killed     |-> Cardinality(Of(doc, o, "killed")),
        survived   |-> Cardinality(Of(doc, o, "survived")),
        invalid    |-> Cardinality(Of(doc, o, "invalid")),
        unmeasured |-> ~\E r \in doc.results : r.obligation = o]

Weak(summary) ==
  /\ summary.required
  /\ summary.survived > 0 \/ summary.invalid > 0 \/ summary.unmeasured

Valid(doc) ==
  /\ doc.applicable \subseteq Obligation
  /\ \A r \in doc.results :
       r.obligation \in doc.applicable /\ r.obligation \in Wanted(r.mutant)
  /\ \A r, s \in doc.results :
       r.mutant = s.mutant /\ r.obligation = s.obligation => r = s
  /\ \A k \in {"killed", "survived", "invalid"} :
       doc[k] = Cardinality({r \in doc.results : r.status = k})
  /\ \/ /\ doc.state = "not_applicable"
        /\ doc.planned = 0 /\ doc.results = {} /\ doc.applicable = {}
     \/ /\ doc.state = "unmeasured" /\ doc.killed + doc.survived = 0
        /\ \/ doc.planned > 0 /\ doc.results = {} /\ doc.applicable = {}
           \/ (doc.planned = 0 \/ doc.invalid > 0) /\ doc.applicable # {}
     \/ doc.state = "measured" /\ doc.planned > 0 /\ doc.killed + doc.survived > 0
-----------------------------------------------------------------------------
\* Cursors, clock and counters stay within their bounds, and the workspace never
\* holds more than the one mutant that is being judged.
TypeOK ==
  /\ revision \in 0..MaxEdits /\ cancelled \in BOOLEAN
  /\ pc \in {"start", "copying", "mutants", "judging", "counting", "done", "stored",
             "refused", "failed"}
  /\ planAt \in 0..MaxEdits
  /\ surfaces \in [Obligation -> SUBSET File]
  /\ text \in [File -> 0..NotCopied]
  /\ applied \in [File -> SUBSET {mutants[i] : i \in DOMAIN mutants}]
  /\ \A f \in File : applied[f] # {} => pc = "judging" /\ applied[f] = {Current}
  /\ next \in 1..(Len(mutants) + 1) /\ owners \subseteq Obligation
  /\ elapsed \in 0..MaxWall
  /\ Cardinality(results) <= MaxDecisions
  /\ limits \subseteq {"mutants", "wall", "decisions"}

\* A decision that is stored was earned by a judge whose word counts, on the text
\* of the revision it is stored for: a kill by a case bound to the obligation, not
\* known to be flaky, that fails on this mutant (or on the sources as they are:
\* a case the selection left out is never tried on them); a survival by cases of
\* which none would fail.  Cancelled and timed-out executions decide nothing.
KillsAreEarned ==
  pc = "stored" => \A r \in document.results :
    LET judges == Judges(r.mutant, r.obligation)
        Notice(b) == Notices(b, r.mutant)
    IN  /\ r.status # "invalid" => r.version = 0
        /\ r.status = "killed" => \E b \in judges : Notice(b)
        /\ r.status = "survived" => judges # {} /\ \A b \in judges : ~Notice(b)

\* Whatever limit, cancellation or unowned mutant cuts the phase short, the
\* document it makes is one that verify accepts (validate).
DocumentIsValid == pc \in {"done", "stored"} => Valid(document)

\* Mutation evidence that does not weaken a proof is complete: every planned
\* mutant the obligation owns was killed, unless the document says that the clock
\* or the decision ceiling cut it short (summary_for, assemble).
StrongEvidenceIsComplete ==
  pc = "stored" => \A o \in document.applicable :
    Weak(Summary(document, o)) \/ limits \cap {"wall", "decisions"} # {}
      \/ /\ \E r \in document.results : r.obligation = o
         /\ \A i \in DOMAIN mutants :
              o \in Owners(mutants[i]) =>
                \E r \in document.results :
                  r.mutant = mutants[i] /\ r.obligation = o /\ r.status = "killed"
=============================================================================
