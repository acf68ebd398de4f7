----------------------------- MODULE Protection -----------------------------
(***************************************************************************)
(* Protection continuity: what guarded the affected code at the base and   *)
(* at the head revision, flow by flow, and which differences the gate      *)
(* reports (protection_delta.rs, protection_checks.rs, lineage and view).  *)
(*                                                                         *)
(* A snapshot is [flows, executed]: `flows` maps each measured flow to     *)
(* [tests, sessions, branches, obligations], `executed` is the inventory   *)
(* of passing tests.  A context is the DeltaContext of the comparison.     *)
(***************************************************************************)
EXTENDS Naturals, FiniteSets, ChangeVerdict

CONSTANTS
  Signature,  \* flow -> the part of its identity that survives a move, or NoSignature
  NoSignature

FlowsOf(snapshot) == DOMAIN snapshot.flows

IsProtected(flow) == flow.tests # {} \/ flow.sessions # {}

\* executed_test_identities: the inventory and every test named by a flow.
ExecutedTests(snapshot) ==
  snapshot.executed
    \cup UNION {snapshot.flows[f].tests : f \in FlowsOf(snapshot)}

ProvenObligations(snapshot) ==
  UNION {snapshot.flows[f].obligations : f \in FlowsOf(snapshot)}

-----------------------------------------------------------------------------
(* The expectation between two compiled changes: an obligation is          *)
(* [id, slot, text, mandatory], `slot` its requirement, scenario and kind. *)

Ids(obligations) == {o.id : o \in obligations}

ExpectationChanged(base, head, sealChanged) ==
  LET reworded == {o.id : o \in {p \in base : \E q \in head : q.id = p.id /\ q # p}}
      moved    == (Ids(base) \ Ids(head)) \cup (Ids(head) \ Ids(base))
  IN  IF sealChanged /\ reworded \cup moved = {} THEN Ids(base) \cup Ids(head)
      ELSE reworded \cup moved

\* A removed obligation is replaced by the only added one of its slot, when
\* it is itself the only removed one of that slot.
ObligationReplacements(base, head) ==
  LET removed == {o \in base : o.id \notin Ids(head)}
      added   == {o \in head : o.id \notin Ids(base)}
      Slot(set, o) == {p \in set : p.slot = o.slot}
      only    == {pair \in removed \X added : /\ Slot(added, pair[1]) = {pair[2]}
                                               /\ Slot(removed, pair[1]) = {pair[1]}}
  IN  {<<pair[1].id, pair[2].id>> : pair \in only}

\* snapshot_relocations: a base flow that is gone at head, whose signature is
\* unique on both sides.
SnapshotRelocations(base, head) ==
  LET Like(snapshot, f) ==
        {g \in FlowsOf(snapshot) : Signature[g] = Signature[f]}
  IN  {move \in FlowsOf(base) \X FlowsOf(head) :
         /\ move[1] \notin FlowsOf(head)
         /\ Signature[move[1]] # NoSignature
         /\ Like(head, move[1]) = {move[2]}
         /\ Like(base, move[1]) = {move[1]}}

\* approved_replaced_flows: flows unprotected at head whose every obligation
\* has an approved replacement that head proves somewhere.
ApprovedReplacedFlows(base, head, approved, replacements) ==
  {f \in FlowsOf(base) :
     /\ approved
     /\ f \in FlowsOf(head) => ~IsProtected(head.flows[f])
     /\ base.flows[f].obligations # {}
     /\ \A o \in base.flows[f].obligations :
          \E r \in replacements : r[1] = o /\ r[2] \in ProvenObligations(head)}

\* The DeltaContext of protection_axis: nothing is critical and nothing is
\* removed on purpose on the live path.
Context(base, head, changed, replacements, approved) ==
  [relocations   |-> SnapshotRelocations(base, head),
   critical      |-> {},
   removed       |-> {},
   replacedFlows |-> ApprovedReplacedFlows(base, head, approved, replacements),
   changed       |-> changed,
   replacements  |-> replacements,
   approved      |-> approved]
-----------------------------------------------------------------------------
CriticalLosses(base, headBranches, context) ==
  (base.branches \ headBranches) \cap context.critical

LostObligations(base, head, context) ==
  {o \in base.obligations \ head.obligations :
     ~ /\ context.approved
       /\ \E r \in context.replacements : r[1] = o /\ r[2] \in head.obligations}

\* compare_present: both revisions measured the flow; the order of the
\* branches is the policy.
PresentState(flow, base, head, relocated, context) ==
  LET expectationChanged ==
        (base.obligations \cup head.obligations) \cap context.changed # {}
  IN  IF ~IsProtected(base) THEN IF IsProtected(head) THEN "improved" ELSE "unknown"
      ELSE IF CriticalLosses(base, head.branches, context) # {} THEN "lost"
      ELSE IF flow \in context.replacedFlows THEN "obsolete_removed"
      ELSE IF ~IsProtected(head) THEN "lost"
      ELSE IF expectationChanged /\ ~context.approved THEN "degraded"
      ELSE IF LostObligations(base, head, context) # {} THEN "degraded"
      ELSE IF relocated THEN "relocated"
      ELSE IF base.tests # head.tests THEN "replaced"
      ELSE IF base.branches \subseteq head.branches
           THEN IF base.branches = head.branches THEN "preserved" ELSE "improved"
      ELSE "degraded"

HeadName(flow, context) ==
  IF \E r \in context.relocations : r[1] = flow
  THEN (CHOOSE r \in context.relocations : r[1] = flow)[2]
  ELSE flow

\* A flow that head does not measure is not a loss.
CompareForgivingAbsence(base, head, flow, context) ==
  LET name == HeadName(flow, context)
      B    == base.flows[flow]
      H    == head.flows[name]
  IN  IF flow \in FlowsOf(base) /\ name \in FlowsOf(head)
      THEN [flow     |-> flow,
            state    |-> PresentState(flow, B, H, name # flow, context),
            baseTests |-> B.tests, headTests |-> H.tests,
            branches |-> CriticalLosses(B, H.branches, context),
            obligations |-> LostObligations(B, H, context)]
      ELSE [flow |-> flow, state |-> "unknown", baseTests |-> {}, headTests |-> {},
            branches |-> {}, obligations |-> {}]

\* compare: one ProtectionDelta.
Compare(base, head, flow, context) ==
  LET name == HeadName(flow, context)
      B    == base.flows[flow]
      H    == head.flows[name]
      Delta(state, baseTests, headTests, branches, obligations) ==
        [flow |-> flow, state |-> state, baseTests |-> baseTests,
         headTests |-> headTests, branches |-> branches, obligations |-> obligations]
  IN  IF flow \in FlowsOf(base) /\ name \in FlowsOf(head)
      THEN Delta(PresentState(flow, B, H, name # flow, context), B.tests, H.tests,
                 CriticalLosses(B, H.branches, context), LostObligations(B, H, context))
      ELSE IF flow \in FlowsOf(base)
      THEN IF flow \in context.replacedFlows \cup context.removed
           THEN Delta("obsolete_removed", B.tests, {}, {}, {})
           ELSE Delta("lost", B.tests, {}, CriticalLosses(B, {}, context), B.obligations)
      ELSE Delta(IF IsProtected(H) THEN "improved" ELSE "new_unprotected",
                 {}, H.tests, {}, {})

\* protection_delta: a flow that is the target of a relocation is compared
\* under its base name only.
ProtectionDelta(base, head, context) ==
  {Compare(base, head, f, context) :
     f \in {g \in FlowsOf(base) \cup FlowsOf(head) :
              ~\E r \in context.relocations : r[2] = g /\ r[1] \in FlowsOf(base)}}
-----------------------------------------------------------------------------
(* protection_lineage and protection_test_changes: per test and per flow   *)
(* it no longer reaches.                                                   *)

FlowsReached(snapshot, test) ==
  {f \in FlowsOf(snapshot) : test \in snapshot.flows[f].tests}

LostBy(base, head, test) == FlowsReached(base, test) \ FlowsReached(head, test)

\* replacement_test_for_flow: some test that proves the approved replacement
\* of every obligation of the flow.
HasReplacementTest(base, head, flow, context) ==
  LET before  == base.flows[flow].obligations
      targets == {(CHOOSE r \in context.replacements : r[1] = o)[2] :
                    o \in {p \in before : \E r \in context.replacements : r[1] = p}}
  IN  /\ context.approved
      /\ Cardinality(targets) = Cardinality(before)
      /\ \E g \in FlowsOf(head) : /\ head.flows[g].obligations \cap targets # {}
                                  /\ head.flows[g].tests # {}

\* Protection that followed the flow excuses the test that left it.
TestChanges(base, head, deltas, context) ==
  LET Excused(f) == \E d \in deltas :
        /\ d.flow = f
        /\ d.state \in {"preserved", "improved", "replaced", "relocated"}
      Left(t) == {f \in LostBy(base, head, t) : ~Excused(f)}
  IN  UNION {{[test |-> t, flow |-> f,
               survives    |-> t \in ExecutedTests(head),
               obligations |-> UNION {d.obligations : d \in {e \in deltas : e.flow = f}},
               replaced    |-> HasReplacementTest(base, head, f, context)] :
                f \in Left(t)} : t \in ExecutedTests(base)}
-----------------------------------------------------------------------------
(* gate_protection: the checks that can fire on the live path.             *)

Finding(check, severity, subject) ==
  [check |-> check, severity |-> severity, subject |-> subject]

CheckLost(delta, severity) ==
  {Finding("001", severity, delta.flow)}
    \cup (IF delta.branches = {} THEN {}
          ELSE {Finding("006", "error", delta.flow)}
                 \cup (IF Cardinality(delta.headTests) > Cardinality(delta.baseTests)
                       THEN {Finding("010", "error", delta.flow)} ELSE {}))
    \cup (IF delta.obligations = {} THEN {} ELSE {Finding("007", severity, delta.flow)})

CheckFlow(delta, severity) ==
  IF delta.state = "lost" THEN CheckLost(delta, severity)
  ELSE IF delta.state = "degraded"
  THEN {Finding(IF delta.obligations = {} THEN "006" ELSE "007", severity, delta.flow)}
  ELSE IF delta.state = "new_unprotected" THEN {Finding("009", severity, delta.flow)}
  ELSE {}  \* 004 and 008 are informational

CheckTest(change, severity) ==
  (IF change.survives THEN {Finding("002", severity, change.test)} ELSE {})
    \cup (IF ~change.survives /\ ~change.replaced /\ change.obligations # {}
          THEN {Finding("003", "error", change.test)} ELSE {})

GateProtection(deltas, tests, highRisk) ==
  LET severity == IF highRisk THEN "error" ELSE "warn"
      \* severity_for: only flows that have a delta of their own are high risk
      OfTest(c) == IF \E d \in deltas : d.flow = c.flow THEN severity ELSE "warn"
  IN  (UNION {CheckFlow(d, severity) : d \in deltas})
        \cup UNION {CheckTest(c, OfTest(c)) : c \in tests}

\* protection_axis_from, over the context of the live path.
ProtectionAxisFrom(deltas, findings) ==
  LET branches == UNION {d.branches : d \in deltas}
  IN  [state |-> IF branches # {} \/ \E f \in findings : f.severity = "error"
                 THEN "blocking"
                 ELSE IF findings = {} THEN "clean" ELSE "warnings",
       lostBranches |-> branches,
       findings |-> findings]

\* The whole comparison of protection_axis, given what a human has approved.
ProtectionAxis(base, head, changed, replacements, approved, highRisk) ==
  LET context == Context(base, head, changed, replacements, approved)
      deltas  == ProtectionDelta(base, head, context)
  IN  ProtectionAxisFrom(deltas,
        GateProtection(deltas, TestChanges(base, head, deltas, context), highRisk))
=============================================================================
