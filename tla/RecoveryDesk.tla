----------------------------- MODULE RecoveryDesk -----------------------------
(***************************************************************************)
(* The review of recovered requirements: RecoveryDesk and CandidateReview  *)
(* of crates/wvq-spec-recovery, as the Studio and the MCP recovery profile *)
(* drive them.                                                             *)
(*                                                                         *)
(* A host opens a desk from the working tree when it starts and keeps it   *)
(* in memory until it ends; nothing of it is stored.  Reviewers read a     *)
(* candidate on one host and decide on whichever host they use next.  A    *)
(* decision carries the digest of what was read.                           *)
(***************************************************************************)
EXTENDS RecoveredIntent

CONSTANTS
    Host,           \* processes that keep a desk
    Sealing,        \* those that also offer quality_spec_seal
    Reviewer,
    RoleOf,         \* reviewer -> "qa", "product" or "developer"
    Delta,          \* revision of the tree -> what is recovered from it
    Prefix,         \* subject -> the part of its name the digest reads
    Tried,          \* bound: the decisions of Decision the reviewers make
    MaxDecisions,   \* bound: decisions recorded
    None

VARIABLES
    tree,       \* the revision of the working tree
    desk,       \* host -> its desk, None while it does not run
    seen,       \* reviewer -> the candidate read last
    made,       \* the decisions recorded, in order; a decision's id is its index
    sealed      \* the approvals handed out

vars == <<tree, desk, seen, made, sealed>>

Decision == {"accept_as_intended", "edit", "add_scenario", "reject", "mark_duplicate",
             "mark_non_behavioral", "observed_only", "request_product_decision",
             "request_developer_clarification"}

ASSUME TriedAssumption == Tried \subseteq Decision

\* Delta is a sequence: the revisions the tree goes through.
ASSUME DeltaAssumption == Len(Delta) \in Nat \ {0} /\ DOMAIN Delta = 1..Len(Delta)

ASSUME RoleAssumption == RoleOf \in [Reviewer -> {"qa", "product", "developer"}]

ASSUME NoneAssumption == None \notin Nat

SealEligible == {"accept_as_intended", "edit", "add_scenario"}
Escalates    == {"request_product_decision", "request_developer_clarification"}

\* The first 32 bytes of the sentence: "When a user exercises `" and 9 bytes of the
\* subject, or a sentence that is the same for every symbol.
CandidateDigest(text) ==
    IF text.subject = Nobody THEN Nobody ELSE Prefix[text.subject]

-----------------------------------------------------------------------------
(* CandidateReview *)

NewReview(candidate) ==
    [state |-> "RECOVERED", digest |-> CandidateDigest(candidate.text),
     qa |-> None, product |-> None, requiresProduct |-> FALSE]

AutoCheck(review, id, report) ==
    IF BlocksReview(report) THEN review
    ELSE [review EXCEPT !.state = "AUTO_CHECKED",
                        !.requiresProduct = OracleIsWeak(report.confidence[id])]

\* propose, auto_check and submit_for_review, as recover calls them
Opened(candidate, report) ==
    LET proposed == [NewReview(candidate) EXCEPT !.state = "PROPOSED"]
        checked  == AutoCheck(proposed, candidate.id, report)
    IN  IF checked.state = "AUTO_CHECKED"
        THEN [checked EXCEPT !.state = "QA_REVIEW"] ELSE checked

\* A check of the role alone.
FitsByRole(review, d, role) == d.role = role

\* check_decision
Fits(review, d, role) == d.digest = review.digest /\ d.role = role

RecordQa(review, d, id) ==
    [review EXCEPT
        !.qa = id,
        !.requiresProduct = @ \/ d.decision \in Escalates,
        !.state = IF d.decision = "observed_only" THEN "OBSERVED_ONLY"
                  ELSE IF d.decision \in Escalates THEN "PRODUCT_DECISION_REQUIRED"
                  ELSE IF d.decision \in SealEligible THEN "QA_VERIFIED"
                  ELSE "REJECTED"]

RecordProduct(review, d, id) ==
    [review EXCEPT !.product = id,
                   !.state = IF d.decision \in SealEligible
                             THEN "PRODUCT_APPROVED" ELSE "REJECTED"]

\* mark_seal_eligible, and the checks of seal that follow
MaySeal(review) ==
    /\ review.qa # None
    /\ \/ review.state = "QA_VERIFIED" /\ ~ review.requiresProduct
       \/ review.state = "PRODUCT_APPROVED"
    /\ review.requiresProduct => review.product # None

-----------------------------------------------------------------------------
(* The hosts *)

Edit ==
    /\ tree + 1 \in DOMAIN Delta
    /\ tree' = tree + 1
    /\ UNCHANGED <<desk, seen, made, sealed>>

\* RecoveryDesk::recover builds everything anew.
Recover(t) ==
    LET candidates == RecoveryCandidates(Delta[t])
        report == VerifyCandidates(candidates, Delta[t])
    IN  [of         |-> t,
         candidates |-> candidates,
         report     |-> report,
         reviews    |-> [id \in {candidates[i].id : i \in DOMAIN candidates} |->
                            Opened(candidates[id[1]], report)],
         packet     |-> Packet(Delta[t]),
         questions  |-> [qa      |-> QaQuestions(candidates, report),
                         product |-> ProductQuestions(report)]]

Recovered == [t \in DOMAIN Delta |-> Recover(t)]

\* A range without a change is refused.
Open(h) ==
    /\ desk[h] = None
    /\ Delta[tree].symbols # <<>> \/ Delta[tree].worktree
    /\ desk' = [desk EXCEPT ![h] = Recovered[tree]]
    /\ UNCHANGED <<tree, seen, made, sealed>>

Close(h) ==
    /\ desk[h] # None
    /\ desk' = [desk EXCEPT ![h] = None]
    /\ UNCHANGED <<tree, seen, made, sealed>>

Knows(h, id) == desk[h] # None /\ id \in DOMAIN desk[h].reviews

\* review: the reviewer reads one candidate with its digest.
Look(r, h, id) ==
    /\ Knows(h, id)
    /\ seen' = [seen EXCEPT ![r] = [candidate |-> id,
                                    text   |-> desk[h].candidates[id[1]].text,
                                    digest |-> desk[h].reviews[id].digest]]
    /\ UNCHANGED <<tree, desk, made, sealed>>

\* decide, with any review whose state nobody looks at.
DecideAnytime(r, h, decision) ==
    /\ Len(made) < MaxDecisions
    /\ seen[r] # None /\ Knows(h, seen[r].candidate)
    /\ LET id == seen[r].candidate
           review == desk[h].reviews[id]
           d == [candidate |-> id, text |-> seen[r].text, digest |-> seen[r].digest,
                 role |-> RoleOf[r], decision |-> decision]
       IN  /\ IF review.state = "PRODUCT_DECISION_REQUIRED"
              THEN /\ Fits(review, d, "product")
                   /\ desk' = [desk EXCEPT ![h].reviews[id] =
                                    RecordProduct(review, d, Len(made) + 1)]
              ELSE /\ Fits(review, d, "qa")
                   /\ desk' = [desk EXCEPT ![h].reviews[id] =
                                    RecordQa(review, d, Len(made) + 1)]
           /\ made' = Append(made, d)
    /\ UNCHANGED <<tree, seen, sealed>>

\* decide: refused unless the review waits for this role and the digest is the current
\* one.  A refusal changes nothing.
Decide(r, h, decision) ==
    /\ Len(made) < MaxDecisions
    /\ seen[r] # None /\ Knows(h, seen[r].candidate)
    /\ LET id == seen[r].candidate
           review == desk[h].reviews[id]
           d == [candidate |-> id, text |-> seen[r].text, digest |-> seen[r].digest,
                 role |-> RoleOf[r], decision |-> decision]
       IN  /\ IF review.state = "PRODUCT_DECISION_REQUIRED"
              THEN /\ Fits(review, d, "product")
                   /\ desk' = [desk EXCEPT ![h].reviews[id] =
                                    RecordProduct(review, d, Len(made) + 1)]
              ELSE /\ review.state = "QA_REVIEW"
                   /\ Fits(review, d, "qa")
                   /\ desk' = [desk EXCEPT ![h].reviews[id] =
                                    RecordQa(review, d, Len(made) + 1)]
           /\ made' = Append(made, d)
    /\ UNCHANGED <<tree, seen, sealed>>

Seal(h, id) ==
    /\ h \in Sealing /\ Knows(h, id)
    /\ MaySeal(desk[h].reviews[id])
    /\ desk' = [desk EXCEPT ![h].reviews[id].state = "SEALED"]
    /\ sealed' = sealed \cup
            {[candidate |-> desk[h].candidates[id[1]], of |-> desk[h].of,
              qa |-> desk[h].reviews[id].qa, product |-> desk[h].reviews[id].product]}
    /\ UNCHANGED <<tree, seen, made>>

-----------------------------------------------------------------------------

Init ==
    /\ tree = Min(DOMAIN Delta)
    /\ desk = [h \in Host |-> None]
    /\ seen = [r \in Reviewer |-> None]
    /\ made = <<>>
    /\ sealed = {}

Next ==
    \/ Edit
    \/ \E h \in Host : Open(h) \/ Close(h)
    \/ \E h \in Host : desk[h] # None /\ \E id \in DOMAIN desk[h].reviews :
            \/ \E r \in Reviewer : Look(r, h, id)
            \/ Seal(h, id)
    \/ \E r \in Reviewer, h \in Host, decision \in Tried : Decide(r, h, decision)

Spec == Init /\ [][Next]_vars

-----------------------------------------------------------------------------

\* Decision i accepts or escalates this candidate in this role, and was made on a sentence
\* that begins like the candidate's own does.
MadeOn(i, candidate, role) ==
    /\ made[i].role = role
    /\ made[i].candidate = candidate.id
    /\ CandidateDigest(made[i].text) = CandidateDigest(candidate.text)

\* Nothing recovered is sealed on the word of the implementation alone: a sealed
\* candidate was accepted by a QA reviewer and has evidence from outside the change, or
\* was answered for by the product owner, whichever hosts and restarts lie in between
\* (docs/invariants.md:22, review.rs).  What they read begins with the 32 bytes the
\* sealed sentence begins with: a decision on a sentence that differs there is refused,
\* one on a sentence that differs in its outcome only is not (desk.rs:238).
SealsRestOnApproval ==
    \A s \in sealed :
        /\ MadeOn(s.qa, s.candidate, "qa")
        /\ IF s.product = None
           THEN /\ made[s.qa].decision \in SealEligible
                /\ "A" \in Tiers(s.candidate.evidence) \/ "B" \in Tiers(s.candidate.evidence)
           ELSE /\ MadeOn(s.product, s.candidate, "product")
                /\ made[s.product].decision \in SealEligible

\* Nothing is sealed that the deterministic checks of its own desk object to: that
\* another candidate of that desk contradicts, that an active requirement already says,
\* or that depends on a surface the change removed (verify.rs, desk.rs).
SealedIsUncontested ==
    \A s \in sealed :
        LET d == Delta[s.of]
            c == s.candidate
        IN  /\ c.text \notin Range(d.requirements)
            /\ ~ (c.holds /\ c.subject \in d.removed)
            /\ \A other \in Range(Recovered[s.of].candidates) :
                  other.subject = c.subject => other.holds = c.holds

\* What a reviewer rejected, left as observed or sealed stays so for as long as the desk
\* is open (review.rs: OBSERVED_ONLY and REJECTED are never promoted).
Final == {"REJECTED", "OBSERVED_ONLY", "SEALED"}
FinalStatesStay ==
    [][\A h \in Host : desk[h] # None /\ desk[h]' # None =>
          \A id \in DOMAIN desk[h].reviews :
             desk[h].reviews[id].state \in Final =>
                desk[h]'.reviews[id].state = desk[h].reviews[id].state]_vars

=============================================================================
