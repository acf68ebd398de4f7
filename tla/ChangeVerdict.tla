--------------------------- MODULE ChangeVerdict ----------------------------
(***************************************************************************)
(* The composite verdict of one change: `compose` of change_verdict.rs,    *)
(* which folds seven independently measured axes into one state.  An axis  *)
(* carries its own state and the items the ranks read from it; a reason is *)
(* a fired rule, and the least rank among the reasons decides.             *)
(*                                                                         *)
(* The input is a record                                                   *)
(*   proofs     set of [obligation, verdict, mandatory]                    *)
(*   protection [state, lostBranches, findings]                            *)
(*   debt       [state, new, returned], items [id, blocking]               *)
(*   stability  [state, flaky, unresolved]                                 *)
(*   ai         [exhausted, unresolved]                                    *)
(*   ui         [state, new, returned], findings [subject, severity]       *)
(*   delta      [state, findings], findings [subject, severity]            *)
(***************************************************************************)
EXTENDS Naturals

AxisState == {"not_applicable", "clean", "warnings", "blocking", "unmeasured"}

ChangeVerdictState ==
  {"PASS", "PASS_WITH_WARNINGS", "NEEDS_HUMAN", "NOT_ENOUGH_EVIDENCE", "BLOCKED"}

\* Severity::Info never reaches an axis.
Severity == {"warn", "error"}

\* The default inputs of verdict_inputs: an axis without a surface.
NoProtection == [state |-> "not_applicable", lostBranches |-> {}, findings |-> {}]
NoDebt == [state |-> "not_applicable", new |-> {}, returned |-> {}]
NoStability == [state |-> "not_applicable", flaky |-> FALSE, unresolved |-> {}]
NoAi == [exhausted |-> FALSE, unresolved |-> {}]
NoUi == [state |-> "not_applicable", new |-> {}, returned |-> {}]
NoDelta == [state |-> "not_applicable", findings |-> {}]

\* debt_rule_blocks: the alphanumeric parts of a rule name, "SECURITY" also
\* inside a longer part.
DebtRuleBlocks(parts) ==
  parts \cap {"SECURITY", "ARCH", "ARCHITECTURE", "API", "SEC"} # {}
-----------------------------------------------------------------------------
Reason(rank, axis, subjects) ==
  {<<rank, axis, s>> : s \in subjects}

WithVerdict(proofs, verdicts) ==
  {p.obligation : p \in {q \in proofs : q.verdict \in verdicts}}

UnprovenMandatory(proofs) ==
  WithVerdict({p \in proofs : p.mandatory}, {"UNPROVEN", "PARTIAL"})

\* proof_axis: the order of the branches is the policy.
ProofState(proofs) ==
  IF proofs = {} THEN "not_applicable"
  ELSE IF WithVerdict(proofs, {"CONTRADICTED"}) # {} THEN "blocking"
  ELSE IF WithVerdict(proofs, {"UNPROVEN", "PARTIAL"}) # {} THEN "unmeasured"
  ELSE IF WithVerdict(proofs, {"HUMAN_REQUIRED"}) # {} THEN "warnings"
  ELSE "clean"

Rank1Contradiction(in) ==
  Reason(1, "proof", WithVerdict(in.proofs, {"CONTRADICTED"}))

\* rank_2_lost_protection: every blocking finding but the 006 ones, which the
\* code takes to repeat a lost critical branch.
Rank2LostProtection(in) ==
  Reason(2, "protection",
         in.protection.lostBranches
           \cup {f.subject : f \in {g \in in.protection.findings :
                                      g.severity = "error" /\ g.check # "006"}})

WithSeverity(findings, severity) ==
  {f.subject : f \in {g \in findings : g.severity = severity}}

BlockingItems(items) == {i.id : i \in {j \in items : j.blocking}}
OtherItems(items) == {i.id : i \in {j \in items : ~j.blocking}}

Rank3NewBlocking(in) ==
  Reason(3, "debt", BlockingItems(in.debt.new))
    \cup Reason(3, "ui_integrity", WithSeverity(in.ui.new, "error"))
    \cup Reason(3, "delta_triangle", WithSeverity(in.delta.findings, "error"))

Rank4UnprovenMandatory(in) == Reason(4, "proof", UnprovenMandatory(in.proofs))

Rank5ReturnedBlocking(in) ==
  Reason(5, "debt", BlockingItems(in.debt.returned))
    \cup Reason(5, "ui_integrity", WithSeverity(in.ui.returned, "error"))

Rank6NeedsHuman(in) ==
  Reason(6, "stability", in.stability.unresolved)
    \cup Reason(6, "proof", WithVerdict(in.proofs, {"HUMAN_REQUIRED"}))

\* The six axes rank 7 reads, with their states.
MeasuredAxes(in) ==
  { <<"proof", ProofState(in.proofs)>>,
    <<"protection", in.protection.state>>,
    <<"debt", in.debt.state>>,
    <<"stability", in.stability.state>>,
    <<"ui_integrity", in.ui.state>>,
    <<"delta_triangle", in.delta.state>> }

\* The protection axis is forgotten.
Rank7WithoutProtection(in) ==
  {<<7, a[1], a[1]>> :
     a \in {b \in MeasuredAxes(in) : b[2] = "unmeasured" /\ b[1] # "protection"}}

Rank7Unmeasured(in) ==
  {<<7, a[1], a[1]>> :
     a \in {b \in MeasuredAxes(in) : b[2] = "unmeasured"}}

Rank8AiBudget(in) ==
  Reason(8, "ai", IF in.ai.exhausted THEN in.ai.unresolved ELSE {})

\* The stability history is not looked at.
Rank9WithoutFlakes(in) ==
  Reason(9, "protection", WithSeverity(in.protection.findings, "warn"))
    \cup Reason(9, "debt", OtherItems(in.debt.new \cup in.debt.returned))
    \cup Reason(9, "ui_integrity", WithSeverity(in.ui.new \cup in.ui.returned, "warn"))
    \cup Reason(9, "delta_triangle", WithSeverity(in.delta.findings, "warn"))

\* rank_9_warnings: an unknown failure of a test that is not flaky yet fires
\* nothing, although the stability axis then reads "warnings".
Rank9Warnings(in) ==
  Reason(9, "protection", WithSeverity(in.protection.findings, "warn"))
    \cup Reason(9, "debt", OtherItems(in.debt.new \cup in.debt.returned))
    \cup Reason(9, "ui_integrity", WithSeverity(in.ui.new \cup in.ui.returned, "warn"))
    \cup Reason(9, "delta_triangle", WithSeverity(in.delta.findings, "warn"))
    \cup Reason(9, "stability", IF in.stability.flaky THEN {"test-history"} ELSE {})

Reasons(in) ==
  Rank1Contradiction(in) \cup Rank2LostProtection(in) \cup Rank3NewBlocking(in)
    \cup Rank4UnprovenMandatory(in) \cup Rank5ReturnedBlocking(in)
    \cup Rank6NeedsHuman(in) \cup Rank7Unmeasured(in) \cup Rank8AiBudget(in)
    \cup Rank9Warnings(in)
-----------------------------------------------------------------------------
StateFor(rank) ==
  IF rank \in {1, 2, 3, 5} THEN "BLOCKED"
  ELSE IF rank \in {6, 8} THEN "NEEDS_HUMAN"
  ELSE IF rank \in {4, 7} THEN "NOT_ENOUGH_EVIDENCE"
  ELSE "PASS_WITH_WARNINGS"

Ranks(reasons) == {r[1] : r \in reasons}

LeastRank(reasons) ==
  CHOOSE k \in Ranks(reasons) : \A l \in Ranks(reasons) : k <= l

StateOf(reasons) ==
  IF reasons = {} THEN "PASS" ELSE StateFor(LeastRank(reasons))

Compose(in) == StateOf(Reasons(in))

Blocks(state) == state = "BLOCKED"

ExitCode(state) ==
  IF state = "BLOCKED" THEN 2
  ELSE IF state \in {"NEEDS_HUMAN", "NOT_ENOUGH_EVIDENCE"} THEN 1
  ELSE 0

Passes(state) == ExitCode(state) = 0
=============================================================================
