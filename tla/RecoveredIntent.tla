--------------------------- MODULE RecoveredIntent ----------------------------
(***************************************************************************)
(* What spec recovery makes of a change: evidence with an authority tier,  *)
(* candidate requirements, the deterministic checks they must pass before  *)
(* a human looks, and the packet an agent receives.  Pure functions of     *)
(* crates/wvq-spec-recovery and of the recovery part of the command bus.   *)
(*                                                                         *)
(* A subject is the name of a surface, a component or a public symbol; it  *)
(* is a number, in the order of the names.  A sentence is [subject,        *)
(* outcome].  A delta is what graph diff, Git and OpenSpec say of the      *)
(* change: [added, removed, components, publicSymbols : SUBSET Subject,    *)
(* symbols, requirements, tests, log : sequences, specChanged, worktree :  *)
(* BOOLEAN, testRemoved : BOOLEAN].  A commit of the log is [title, body : *)
(* SUBSET Subject, issue, token].                                          *)
(***************************************************************************)
EXTENDS Integers, Sequences, FiniteSets, SequencesExt, FiniteSetsExt

CONSTANTS
    Subject,        \* numbers
    NamesIn,        \* subject -> the subjects whose name its name contains
    Vague,          \* names with a vague word and no measurable one
    Leaky,          \* names that read like code
    Numeric,        \* names with a digit
    Guarded,        \* names about permissions
    Async,          \* names about loading or requests
    Nobody,         \* no issue, no subject; a title without a token has ""
    MaxCandidates,  \* 100
    MaxEvidence,    \* 20: pieces of evidence kept for a candidate
    MaxSymbols      \* 500: symbols that become evidence

-----------------------------------------------------------------------------
(* Evidence and its authority *)

DeclaredIntent == {"existing_open_spec", "approved_ticket", "acceptance_criterion",
                   "product_decision"}
Reviewed       == {"pull_request_body", "review_discussion", "commit_body",
                   "release_note", "qa_plan"}
Observed       == {"code_delta", "changed_endpoint", "changed_component",
                   "changed_permission", "changed_config", "changed_data_model",
                   "changed_test", "behavior_delta"}

Tier(source) ==
    IF source \in DeclaredIntent THEN "A"
    ELSE IF source \in Reviewed THEN "B"
    ELSE IF source \in Observed THEN "C" ELSE "D"

Tiers(evidence) == {Tier(evidence[i].source) : i \in 1..Len(evidence)}

\* None, Weak, Medium and Strong are 0 to 3.
Assess(evidence) ==
    LET has == Tiers(evidence)
        intent == IF "A" \in has THEN 3 ELSE IF "B" \in has THEN 2
                  ELSE IF has # {} THEN 1 ELSE 0
    IN  [intent         |-> intent,
         implementation |-> IF "C" \in has THEN 3 ELSE IF "D" \in has THEN 1 ELSE 0,
         behavioral     |-> IF \E i \in 1..Len(evidence) :
                                 evidence[i].source = "behavior_delta" THEN 3 ELSE 0,
         independence   |-> intent]

OracleIsWeak(confidence) == confidence.independence <= 1

Named(source, subject) == [source |-> source, mentions |-> NamesIn[subject]]

\* recovery_evidence: the requirements come first, the commits last.
RecoveryEvidence(delta) ==
    LET OfCommit(c) ==
            (IF c.title = {} THEN <<>>
             ELSE <<[source |-> "commit_title", mentions |-> c.title]>>)
            \o (IF c.body = {} THEN <<>>
                ELSE <<[source |-> "commit_body", mentions |-> c.body]>>)
        FromSymbols == SubSeq(delta.symbols, 1, Min({MaxSymbols, Len(delta.symbols)}))
        surfaces == SetToSortSeq(delta.added, <) \o SetToSortSeq(delta.removed, <)
    IN  [i \in 1..Len(delta.requirements) |->
            Named("existing_open_spec", delta.requirements[i].subject)]
        \o [i \in 1..Len(FromSymbols) |-> Named("code_delta", FromSymbols[i])]
        \o [i \in 1..Len(surfaces) |-> Named("changed_endpoint", surfaces[i])]
        \o [i \in 1..Len(delta.tests) |->
                [source |-> "changed_test", mentions |-> delta.tests[i]]]
        \o FlattenSeq([i \in 1..Len(delta.log) |-> OfCommit(delta.log[i])])

-----------------------------------------------------------------------------
(* Candidates *)

\* Public symbols are recovered only where tests changed and the change does not bring
\* its own OpenSpec.
RecoversSymbols(delta) == delta.tests # <<>> /\ ~ delta.specChanged

\* Of two reasons to name a subject the first in this order counts.
Outcome(delta, subject, holds) ==
    IF ~ holds THEN "unavailable"
    ELSE IF subject \in delta.added THEN "available"
    ELSE IF subject \in delta.components THEN "visible" ELSE "demonstrated"

\* The sentence about a symbol does not name it.
Sentence(delta, subject, holds) ==
    LET outcome == Outcome(delta, subject, holds)
    IN  [subject |-> IF outcome = "demonstrated" THEN Nobody ELSE subject,
         outcome |-> outcome]

EvidenceFor(delta, subject, outcome) ==
    LET Supports(item) == \/ subject \in item.mentions
                          \/ outcome = "demonstrated" /\ item.source = "changed_test"
        all == SelectSeq(RecoveryEvidence(delta), Supports)
    IN  SubSeq(all, 1, Min({MaxEvidence, Len(all)}))

\* recovery_candidates, in the order of the names, "unavailable" first.  Every candidate
\* names an actor, a precondition and a trigger, and covers no case.
RecoveryCandidates(delta) ==
    LET symbols == IF RecoversSymbols(delta) THEN delta.publicSymbols ELSE {}
        keys == ((delta.added \cup delta.components \cup symbols) \X {TRUE})
                    \cup (delta.removed \X {FALSE})
        Before(a, b) == \/ a[1] < b[1]
                        \/ a[1] = b[1] /\ ~ a[2] /\ b[2]
        order == SetToSortSeq(keys, Before)
        Candidate(i) ==
            LET subject == order[i][1]
                holds == order[i][2]
                outcome == Outcome(delta, subject, holds)
            IN  [id       |-> <<i, subject>>,
                 subject  |-> subject,
                 text     |-> Sentence(delta, subject, holds),
                 holds    |-> holds,
                 endpoint |-> subject \in delta.added \cup delta.removed,
                 evidence |-> EvidenceFor(delta, subject, outcome),
                 shape    |-> IF outcome = "demonstrated" THEN {}
                              ELSE {k \in {"numeric", "guarded", "async"} :
                                    subject \in (CASE k = "numeric" -> Numeric
                                                   [] k = "guarded" -> Guarded
                                                   [] k = "async" -> Async)}]
    IN  [i \in 1..Min({MaxCandidates, Len(order)}) |-> Candidate(i)]

-----------------------------------------------------------------------------
(* The deterministic checks.  A finding is [candidate, kind]. *)

CheckShape(c) ==
    (IF "numeric" \in c.shape THEN {"missing_boundary_case"} ELSE {})
        \cup (IF {"guarded", "async"} \cap c.shape # {} THEN {"missing_negative_case"} ELSE {})

CheckWording(c) ==
    (IF c.text.subject \in Vague THEN {"non_testable_wording"} ELSE {})
        \cup (IF c.text.subject \in Leaky THEN {"implementation_leakage"} ELSE {})

CheckDuplicate(c, delta) ==
    IF c.text \in Range(delta.requirements) THEN {"duplicate_requirement"} ELSE {}

CheckCode(c, delta) ==
    IF c.endpoint /\ c.holds /\ c.subject \in delta.removed
    THEN {"code_contradiction"} ELSE {}

CheckOracle(c) ==
    IF OracleIsWeak(Assess(c.evidence)) THEN {"weak_oracle_independence"} ELSE {}

CheckContradiction(candidates) ==
    {[candidate |-> candidates[i].id, kind |-> "internal_contradiction"] :
        i \in {j \in DOMAIN candidates : \E k \in DOMAIN candidates :
                    /\ candidates[j].subject = candidates[k].subject
                    /\ candidates[j].holds # candidates[k].holds}}

\* Checks that look at one candidate at a time.
VerifyOneByOne(candidates, delta) ==
    [findings |-> UNION {LET c == candidates[i]
                         IN  {[candidate |-> c.id, kind |-> k] : k \in
                                CheckShape(c) \cup CheckWording(c) \cup CheckDuplicate(c, delta)
                                    \cup CheckOracle(c)} : i \in DOMAIN candidates},
     confidence |-> [id \in {candidates[i].id : i \in DOMAIN candidates} |->
                        Assess(candidates[id[1]].evidence)]]

\* verify_candidates.  No host passes runtime observations, which would be compared with
\* the candidates too.
VerifyCandidates(candidates, delta) ==
    [findings |-> CheckContradiction(candidates) \cup
                    UNION {LET c == candidates[i]
                           IN  {[candidate |-> c.id, kind |-> k] : k \in
                                  CheckShape(c) \cup CheckWording(c)
                                    \cup CheckDuplicate(c, delta) \cup CheckCode(c, delta)
                                    \cup CheckOracle(c)} : i \in DOMAIN candidates},
     confidence |-> [id \in {candidates[i].id : i \in DOMAIN candidates} |->
                        Assess(candidates[id[1]].evidence)]]

BlocksReview(report) ==
    \E f \in report.findings : f.kind # "weak_oracle_independence"

-----------------------------------------------------------------------------
(* The packet *)

\* recovery_commits: the log, and the working tree as one more commit.  A commit of the
\* log may be linked to an issue, that of the working tree names its components.
Commits(delta) ==
    [i \in 1..Len(delta.log) |->
        [issue |-> delta.log[i].issue, components |-> {}, token |-> delta.log[i].token]]
    \o (IF delta.worktree
        THEN <<[issue |-> Nobody, components |-> delta.components, token |-> "working"]>>
        ELSE <<>>)

Keyed(c) == c.issue # Nobody \/ c.components # {}

\* The maximal intervals of the commits that nothing structural keys.
Runs(commits) ==
    LET free == {i \in 1..Len(commits) : ~ Keyed(commits[i])}
    IN  {r \in {a..b : a, b \in free} :
            /\ r # {} /\ r \subseteq free
            /\ Min(r) - 1 \notin free /\ Max(r) + 1 \notin free}

Clusters(commits) ==
    LET runs  == Runs(commits)
        alone == UNION {r \in runs : Cardinality(r) = 1}
        Alike(token) == {i \in alone : commits[i].token = token}
        tokens == {t \in {commits[i].token : i \in alone} \ {""} :
                        Cardinality(Alike(t)) > 1}
        Component(i) == Min(commits[i].components)
        parts == {i \in 1..Len(commits) :
                    commits[i].issue = Nobody /\ commits[i].components # {}}
    IN  {[basis |-> "linked_issue", commits |-> {i \in 1..Len(commits) : commits[i].issue = k}]
            : k \in {commits[i].issue : i \in 1..Len(commits)} \ {Nobody}}
        \cup {[basis |-> "component", commits |-> {i \in parts : Component(i) = k}]
                : k \in {Component(i) : i \in parts}}
        \cup {[basis |-> "commit_adjacency", commits |-> r]
                : r \in {s \in runs : Cardinality(s) > 1}}
        \cup {[basis |-> "title_similarity", commits |-> Alike(t)] : t \in tokens}
        \cup {[basis |-> "unclustered", commits |-> {i}]
                : i \in {j \in alone : commits[j].token \notin tokens}}

Narrate(delta) ==
    LET evidence == RecoveryEvidence(delta)
    IN  [declared   |-> Len(SelectSeq(evidence, LAMBDA e : Tier(e.source) \in {"A", "B"})),
         hints      |-> {e.mentions : e \in {evidence[i] : i \in
                            {j \in 1..Len(evidence) : Tier(evidence[j].source) = "D"}}},
         confidence |-> Assess(evidence)]

Packet(delta) ==
    [narrative  |-> Narrate(delta),
     clusters   |-> Clusters(Commits(delta)),
     heuristics |-> (IF delta.removed # {} THEN {"removed surface"} ELSE {})
                    \cup (IF delta.tests # <<>> THEN {"test changed"} ELSE {})
                    \cup (IF delta.testRemoved THEN {"removed test"} ELSE {})]

\* What QA is asked of each candidate, and what only product can answer.
QaQuestions(candidates, report) ==
    {[candidate |-> f.candidate, about |-> f.kind] : f \in {g \in report.findings :
        g.kind \in {"non_testable_wording", "implementation_leakage", "duplicate_requirement"}}}
    \cup UNION {{[candidate |-> candidates[i].id, about |-> k] : k \in candidates[i].shape}
                    : i \in DOMAIN candidates}

ProductQuestions(report) ==
    {f \in report.findings : f.kind \in {"behavior_contradiction", "code_contradiction",
                "internal_contradiction", "weak_oracle_independence"}}
=============================================================================
