------------------------------ MODULE Verdicts ------------------------------
(***************************************************************************)
(* The five proof verdicts and the pure functions that compute them:       *)
(* decide_verdict, assemble and the status fold of `verify`.               *)
(***************************************************************************)
EXTENDS Naturals

ProofVerdict ==
  {"PROVEN", "CONTRADICTED", "PARTIAL", "UNPROVEN", "HUMAN_REQUIRED"}

\* ExecutionEvidence, with the seal_contradicted flag of Failed folded into
\* the tag; `present` travels beside it.
ExecutionEvidence == {"passed", "failed", "contradicted", "absent"}

\* Any evidence at all stands in for the required kinds.
DecideVerdictAnyEvidence(required, present, passed, contradicted, ambiguous) ==
  CASE contradicted -> "CONTRADICTED"
    [] ~contradicted /\ ambiguous -> "HUMAN_REQUIRED"
    [] OTHER -> IF passed /\ (required # {} => present # {}) THEN "PROVEN"
                ELSE IF present = {} THEN "UNPROVEN" ELSE "PARTIAL"

\* decide_verdict: a contradiction wins over ambiguity, missing evidence is
\* never a contradiction.
DecideVerdict(required, present, passed, contradicted, ambiguous) ==
  CASE contradicted -> "CONTRADICTED"
    [] ~contradicted /\ ambiguous -> "HUMAN_REQUIRED"
    [] ~contradicted /\ ~ambiguous /\ ~(required \subseteq present) ->
         IF passed /\ present # {} THEN "PARTIAL" ELSE "UNPROVEN"
    [] OTHER ->
         IF passed THEN "PROVEN"
         ELSE IF present = {} THEN "UNPROVEN" ELSE "PARTIAL"

\* assemble: Absent execution drops whatever evidence was present; a relevant
\* surviving, invalid or unmeasured mutant weakens PROVEN to PARTIAL.
Assemble(execution, required, present, ambiguous, weak) ==
  LET kept    == IF execution = "absent" THEN {} ELSE present
      verdict == DecideVerdict(required, kept, execution = "passed",
                               execution = "contradicted", ambiguous)
  IN  IF weak /\ verdict = "PROVEN" THEN "PARTIAL" ELSE verdict

\* The status fold of verify: contradicted, then failed, then passed.
Execution(statuses) ==
  CASE "contradicted" \in statuses -> "contradicted"
    [] "contradicted" \notin statuses /\ "failed" \in statuses -> "failed"
    [] statuses \cap {"contradicted", "failed"} = {} /\ "passed" \in statuses
         -> "passed"
    [] OTHER -> "absent"
=============================================================================
