--------------------------- MODULE ChangeGateProofs ---------------------------
(***************************************************************************)
(* Proofs about ChangeGate, for all contents, pages and processes and      *)
(* every bound.                                                            *)
(*                                                                         *)
(* The argument: rows only grow, and the memories of the ledger with them; *)
(* a document in a row says of the two contents of that row what the       *)
(* property needs (RowOK); a run that calls itself whole has stored each   *)
(* of them; what verify has gathered so far stays true of its row while    *)
(* the row, the base branch, the debt history and the approvals grow       *)
(* (ReaderOK); and any fired rule keeps the composition away from PASS.    *)
(***************************************************************************)
EXTENDS ChangeGate, SequenceTheorems, FiniteSetTheorems, WellFoundedInduction, TLAPS

-----------------------------------------------------------------------------
(* The composition *)

\* A set of numbers has a least one.
LEMMA LeastOfNaturals ==
  ASSUME NEW S \in SUBSET Nat, S # {}
  PROVE  \E k \in S : \A l \in S : k <= l
<1>1. PICK k \in S : \A l \in S : ~ (<<l, k>> \in OpToRel(<, Nat))
  BY WFMin, NatLessThanWellFounded
<1>2. \A l \in S : ~ (l < k)
  BY <1>1 DEF OpToRel
<1> QED BY <1>2

\* A fired rule carries its rank.
LEMMA ReasonsAreRanked ==
  ASSUME NEW in, NEW r \in Reasons(in)
  PROVE  r[1] \in 1..9
BY DEF Reasons, Reason, Rank1Contradiction, Rank2LostProtection, Rank3NewBlocking,
       Rank4UnprovenMandatory, Rank5ReturnedBlocking, Rank6NeedsHuman, Rank7Unmeasured,
       Rank8AiBudget, Rank9Warnings

\* The rank that decides is one of those fired, and none is before it.
LEMMA LeastRankFired ==
  ASSUME NEW in, Reasons(in) # {}
  PROVE  /\ LeastRank(Reasons(in)) \in 1..9
         /\ \A r \in Reasons(in) : LeastRank(Reasons(in)) <= r[1]
<1>1. Ranks(Reasons(in)) \in SUBSET Nat /\ Ranks(Reasons(in)) # {}
      /\ \A k \in Ranks(Reasons(in)) : k \in 1..9
  BY ReasonsAreRanked DEF Ranks
<1>2. \E k \in Ranks(Reasons(in)) : \A l \in Ranks(Reasons(in)) : k <= l
  BY <1>1, LeastOfNaturals
<1>3. /\ LeastRank(Reasons(in)) \in Ranks(Reasons(in))
      /\ \A l \in Ranks(Reasons(in)) : LeastRank(Reasons(in)) <= l
  BY <1>2 DEF LeastRank
<1>4. \A r \in Reasons(in) : r[1] \in Ranks(Reasons(in))
  BY DEF Ranks
<1> QED BY <1>1, <1>3, <1>4

\* Any fired rule keeps the verdict away from PASS; one of the first three blocks, and
\* with one of the first five the command does not exit with 0.
LEMMA ComposeReports ==
  ASSUME NEW in, NEW r \in Reasons(in)
  PROVE  /\ Compose(in) # "PASS"
         /\ r[1] \in 1..3 => Compose(in) = "BLOCKED"
         /\ r[1] \in 1..5 => ~ Passes(Compose(in))
<1> DEFINE k == LeastRank(Reasons(in))
<1>1. k \in 1..9 /\ k <= r[1] /\ Compose(in) = StateFor(k) /\ r[1] \in 1..9
  BY LeastRankFired, ReasonsAreRanked DEF Compose, StateOf
<1> HIDE DEF k
<1>2. StateFor(k) # "PASS"
  BY <1>1 DEF StateFor
<1>3. r[1] \in 1..3 => StateFor(k) = "BLOCKED"
  BY <1>1 DEF StateFor
<1>4. r[1] \in 1..5 => StateFor(k) \in {"BLOCKED", "NOT_ENOUGH_EVIDENCE"}
  BY <1>1 DEF StateFor
<1>5. \A state \in {"BLOCKED", "NOT_ENOUGH_EVIDENCE"} : ~ Passes(state)
  BY DEF Passes, ExitCode
<1> QED BY <1>1, <1>2, <1>3, <1>4, <1>5

\* What each axis makes the policy fire.
LEMMA AxesFire ==
  ASSUME NEW in
  PROVE  /\ \A a \in MeasuredAxes(in) : a[2] = "unmeasured" => <<7, a[1], a[1]>> \in Reasons(in)
         /\ \A x \in in.protection.findings :
               x.severity = "error" /\ x.check # "006" => <<2, "protection", x.subject>> \in Reasons(in)
         /\ \A i \in in.debt.new : i.blocking => <<3, "debt", i.id>> \in Reasons(in)
         /\ \A i \in in.debt.returned : i.blocking => <<5, "debt", i.id>> \in Reasons(in)
         /\ \A i \in in.debt.new \cup in.debt.returned :
               ~ i.blocking => <<9, "debt", i.id>> \in Reasons(in)
         /\ \A f \in in.ui.new :
               f.severity = "error" => <<3, "ui_integrity", f.subject>> \in Reasons(in)
         /\ \A f \in in.ui.returned :
               f.severity = "error" => <<5, "ui_integrity", f.subject>> \in Reasons(in)
         /\ \A f \in in.delta.findings :
               f.severity = "error" => <<3, "delta_triangle", f.subject>> \in Reasons(in)
         /\ \A q \in in.proofs :
               q.verdict = "CONTRADICTED" => <<1, "proof", q.obligation>> \in Reasons(in)
         /\ in.stability.flaky => <<9, "stability", "test-history">> \in Reasons(in)
<1>1. \A a \in MeasuredAxes(in) : a[2] = "unmeasured" => <<7, a[1], a[1]>> \in Reasons(in)
  <2> SUFFICES ASSUME NEW a \in MeasuredAxes(in), a[2] = "unmeasured"
               PROVE  <<7, a[1], a[1]>> \in Rank7Unmeasured(in)
    BY DEF Reasons
  <2> HIDE DEF MeasuredAxes
  <2> QED BY DEF Rank7Unmeasured
<1>2. \A x \in in.protection.findings :
         x.severity = "error" /\ x.check # "006" => <<2, "protection", x.subject>> \in Reasons(in)
  <2> SUFFICES ASSUME NEW x \in in.protection.findings, x.severity = "error", x.check # "006"
               PROVE  <<2, "protection", x.subject>> \in Rank2LostProtection(in)
    BY DEF Reasons
  <2> QED BY DEF Rank2LostProtection, Reason
<1>3. \A i \in in.debt.new : i.blocking => <<3, "debt", i.id>> \in Reasons(in)
  <2> SUFFICES ASSUME NEW i \in in.debt.new, i.blocking
               PROVE  <<3, "debt", i.id>> \in Rank3NewBlocking(in)
    BY DEF Reasons
  <2> QED BY DEF Rank3NewBlocking, Reason, BlockingItems
<1>4. \A i \in in.debt.returned : i.blocking => <<5, "debt", i.id>> \in Reasons(in)
  <2> SUFFICES ASSUME NEW i \in in.debt.returned, i.blocking
               PROVE  <<5, "debt", i.id>> \in Rank5ReturnedBlocking(in)
    BY DEF Reasons
  <2> QED BY DEF Rank5ReturnedBlocking, Reason, BlockingItems
<1>5. \A i \in in.debt.new \cup in.debt.returned :
         ~ i.blocking => <<9, "debt", i.id>> \in Reasons(in)
  <2> SUFFICES ASSUME NEW i \in in.debt.new \cup in.debt.returned, ~ i.blocking
               PROVE  <<9, "debt", i.id>> \in Rank9Warnings(in)
    BY DEF Reasons
  <2> QED BY DEF Rank9Warnings, Reason, OtherItems
<1>6. \A f \in in.ui.new : f.severity = "error" => <<3, "ui_integrity", f.subject>> \in Reasons(in)
  <2> SUFFICES ASSUME NEW f \in in.ui.new, f.severity = "error"
               PROVE  <<3, "ui_integrity", f.subject>> \in Rank3NewBlocking(in)
    BY DEF Reasons
  <2> QED BY DEF Rank3NewBlocking, Reason, WithSeverity
<1>7. \A f \in in.ui.returned :
         f.severity = "error" => <<5, "ui_integrity", f.subject>> \in Reasons(in)
  <2> SUFFICES ASSUME NEW f \in in.ui.returned, f.severity = "error"
               PROVE  <<5, "ui_integrity", f.subject>> \in Rank5ReturnedBlocking(in)
    BY DEF Reasons
  <2> QED BY DEF Rank5ReturnedBlocking, Reason, WithSeverity
<1>8. \A f \in in.delta.findings :
         f.severity = "error" => <<3, "delta_triangle", f.subject>> \in Reasons(in)
  <2> SUFFICES ASSUME NEW f \in in.delta.findings, f.severity = "error"
               PROVE  <<3, "delta_triangle", f.subject>> \in Rank3NewBlocking(in)
    BY DEF Reasons
  <2> QED BY DEF Rank3NewBlocking, Reason, WithSeverity
<1>9. \A q \in in.proofs :
         q.verdict = "CONTRADICTED" => <<1, "proof", q.obligation>> \in Reasons(in)
  <2> SUFFICES ASSUME NEW q \in in.proofs, q.verdict = "CONTRADICTED"
               PROVE  <<1, "proof", q.obligation>> \in Rank1Contradiction(in)
    BY DEF Reasons
  <2> QED BY DEF Rank1Contradiction, Reason, WithVerdict
<1>10. in.stability.flaky => <<9, "stability", "test-history">> \in Reasons(in)
  <2> SUFFICES ASSUME in.stability.flaky
               PROVE  <<9, "stability", "test-history">> \in Rank9Warnings(in)
    BY DEF Reasons
  <2> QED BY DEF Rank9Warnings, Reason
<1> QED BY <1>1, <1>2, <1>3, <1>4, <1>5, <1>6, <1>7, <1>8, <1>9, <1>10

\* A reply that passes rests on axes that were measured and show nothing.
LEMMA PassIsClean ==
  ASSUME NEW in, Compose(in) = "PASS"
  PROVE  /\ ProofState(in.proofs) # "unmeasured"
         /\ in.protection.state # "unmeasured"
         /\ in.debt.state # "unmeasured"
         /\ in.ui.state # "unmeasured"
         /\ in.delta.state # "unmeasured"
         /\ \A q \in in.proofs : q.verdict # "CONTRADICTED"
         /\ \A f \in in.ui.new \cup in.ui.returned : f.severity # "error"
<1>1. \A r \in Reasons(in) : FALSE
  BY ComposeReports
<1>2. /\ \A a \in MeasuredAxes(in) : a[2] # "unmeasured"
      /\ \A q \in in.proofs : q.verdict # "CONTRADICTED"
      /\ \A f \in in.ui.new \cup in.ui.returned : f.severity # "error"
  BY <1>1, AxesFire
<1> QED BY <1>2 DEF MeasuredAxes

-----------------------------------------------------------------------------
(* What a stored document says. *)

\* A run that shows a test both ways.
Flakes(run) ==
  \E t \in Facts[run.content].loose : run.before[t] \ {CaseStatus(run, t)} # {}

HasError(references) == \E f \in references : f.severity = "error"

\* Of the interface: that nothing was left out, or something is wrong or unmeasured;
\* and that the errors the base did not have are there, as new ones unless they were
\* once fixed.
UiSays(fx, run, doc) ==
  /\ \/ doc.state = "unmeasured"
     \/ HasError(doc.new \cup doc.returned)
     \/ \A from \in BaseAt(run, DefaultWidth), to \in HeadAt(run, run.content, DefaultWidth) :
           ~to.truncated /\ ~from.truncated /\ to.states = from.states
  /\ NewUiErrors(run) # {} => HasError(doc.new \cup doc.returned)
  /\ NewUiErrors(run) \ fx # {} => HasError(doc.new)

TriangleOf(run) == TriangleDocument(run.from, run.content, HeadSnapshot(run), run.replayed)

\* A comparison at one width, with any part of the history.
IsDelta(fx, run, delta) ==
  \E old \in SUBSET fx : \A from \in BaseAt(run, DefaultWidth),
                            to \in HeadAt(run, run.content, DefaultWidth) :
     delta = Delta(from, to, old, UiPolicy(run.content))

Keyed(intervals) == \A i \in intervals : i.key[1] \in {"new", "returned"}

\* Every interval is of a regression that is new or returned.
LEMMA IntervalsKeyed ==
  ASSUME NEW responsive, NEW probes
  PROVE  Keyed(Intervals(responsive, probes))
<1>1. \A probe : \A r \in Regressed(probe) : r[1] \in {"new", "returned"}
  BY DEF Regressed, Regressions
<1> DEFINE keys == UNION {Regressed(probes[w]) : w \in DOMAIN probes}
<1>2. \A k \in keys : k[1] \in {"new", "returned"}
  BY <1>1
<1>3. \A i \in Intervals(responsive, probes) : i.key \in keys
  BY DEF Intervals
<1> QED BY <1>2, <1>3 DEF Keyed

\* An error among the findings or the intervals of a kind is an error among its
\* references.
LEMMA ErrorsAreReferred ==
  ASSUME NEW kind, NEW findings, NEW intervals, NEW f, IsError(f),
         f \in findings \/ \E i \in intervals : i.key[1] = kind /\ f = i.finding
  PROVE  HasError(References(kind, findings, intervals))
<1> DEFINE all == findings \cup {i.finding : i \in {j \in intervals : j.key[1] = kind}}
<1>1. f \in all
  OBVIOUS
<1>2. References(kind, findings, intervals)
        = {[subject |-> g.subject, severity |-> g.severity] : g \in all}
  BY DEF References
<1> HIDE DEF all
<1>3. [subject |-> f.subject, severity |-> f.severity] \in References(kind, findings, intervals)
  BY <1>1, <1>2
<1> QED BY <1>3 DEF HasError, IsError

\* The document of a comparison, with or without a search, says what UiSays asks.
LEMMA DocumentSays ==
  ASSUME NEW fx, NEW run, NEW delta, IsDelta(fx, run, delta),
         NEW intervals, Keyed(intervals), NEW cut
  PROVE  UiSays(fx, run, Document(delta, intervals, cut))
<1> DEFINE doc == Document(delta, intervals, cut)
           from == IF run.replayed THEN Seen[Facts[run.from].layout][Facts[run.content].ui][DefaultWidth] ELSE NothingSeen
           to == Seen[Facts[run.content].layout][Facts[run.content].ui][DefaultWidth]
           policy == UiPolicy(run.content)
<1>0. /\ doc.new = References("new", delta.new, intervals)
      /\ doc.returned = References("returned", delta.returned, intervals)
  BY DEF Document
<1>1. /\ BaseAt(run, DefaultWidth) = {from}
      /\ HeadAt(run, run.content, DefaultWidth) = {to}
  BY DEF BaseAt, HeadAt
<1> HIDE DEF from, to, policy
<1>2. PICK old \in SUBSET fx : delta = Delta(from, to, old, policy)
  BY <1>1 DEF IsDelta, policy
<1>3. ASSUME NEW f \in delta.new \cup delta.returned \cup {i.finding : i \in intervals}, IsError(f)
      PROVE  HasError(doc.new \cup doc.returned)
  <2>1. CASE f \in delta.new \cup delta.returned
    <3>1. HasError(doc.new) \/ HasError(doc.returned)
      BY <1>0, <1>3, <2>1, ErrorsAreReferred
    <3> QED BY <3>1 DEF HasError
  <2>2. ASSUME NEW i \in intervals, f = i.finding
        PROVE  HasError(doc.new \cup doc.returned)
    <3>1. i.key[1] = "new" \/ i.key[1] = "returned"
      BY <2>2 DEF Keyed
    <3>2. HasError(doc.new) \/ HasError(doc.returned)
      BY <1>0, <1>3, <2>2, <3>1, ErrorsAreReferred
    <3> QED BY <3>2 DEF HasError
  <2> QED BY <1>3, <2>1, <2>2
<1>4. ASSUME NEW f \in delta.new, IsError(f)
      PROVE  HasError(doc.new)
  BY <1>0, <1>4, ErrorsAreReferred
<1>5. \/ doc.state = "unmeasured"
      \/ HasError(doc.new \cup doc.returned)
      \/ ~delta.truncated /\ delta.unmeasured = {}
  BY <1>3 DEF Document
<1>6. ~delta.truncated /\ delta.unmeasured = {} =>
         ~to.truncated /\ ~from.truncated /\ to.states = from.states
  BY <1>2 DEF Delta
<1>7. ASSUME NEW f \in ByFingerprint(to.findings), IsError(f), f.at \in from.states \cap to.states,
             Fingerprint(f) \notin Prints(from.findings) \cup policy.excepted
      PROVE  /\ f \in delta.new \cup delta.returned
             /\ Fingerprint(f) \notin old => f \in delta.new
  <2>1. Fingerprint(f) \notin Prints(ByFingerprint(from.findings))
    BY <1>7 DEF Prints, ByFingerprint
  <2> QED BY <1>2, <1>7, <2>1 DEF Delta
<1>8. ASSUME NEW e \in NewUiErrors(run)
      PROVE  \E f \in ByFingerprint(to.findings) :
                /\ IsError(f) /\ f.at \in from.states \cap to.states /\ Fingerprint(f) = e
                /\ Fingerprint(f) \notin Prints(from.findings) \cup policy.excepted
  BY <1>1, <1>8 DEF NewUiErrors, Prints, policy
<1>9. NewUiErrors(run) # {} => HasError(doc.new \cup doc.returned)
  BY <1>3, <1>7, <1>8
<1>10. NewUiErrors(run) \ fx # {} => HasError(doc.new)
  BY <1>2, <1>4, <1>7, <1>8
<1> QED BY <1>1, <1>5, <1>6, <1>9, <1>10 DEF UiSays

-----------------------------------------------------------------------------
(* The invariant.  Its parts name the memories, rows and commands they are *)
(* about, so that one says of each part how it may change.                 *)

RunPcs == {"range", "execution", "ratchet", "probe", "ui", "protection", "triangle",
           "failures", "analytics", "finish", "base", "proposal"}
ReadPcs == {"v_protection", "v_debt", "v_stability", "v_ui", "v_delta"}

RowFields == {"before", "content", "from", "outcome", "failing", "replayed", "range",
              "executed", "ui", "protection", "baseProtection", "proposal", "triangle",
              "analytics", "whole"}
CommandFields == {"pc", "content", "from", "asked", "run", "kept"}
SearchFields == {"delta", "fixed", "plan", "cut", "probes", "trees"}
InputFields == {"proofs", "protection", "debt", "stability", "ai", "ui", "delta"}

\* A run that reached its end stored everything there was to measure.
Complete(run) ==
  /\ run.range /\ run.executed
  /\ HasUi(run.content) => run.ui # {}
  /\ run.protection = HeadSnapshot(run)
  /\ Facts[run.content].programs => run.triangle # {}
  /\ run.analytics # {}

\* What a search has measured: at each width, of a tree that was there, or it says that
\* it could not.
ProbesOK(run, found) ==
  /\ IsFiniteSet(DOMAIN found.probes) /\ DOMAIN found.probes \subseteq Int
  /\ IsFiniteSet(found.trees)
  /\ \A w \in DOMAIN found.probes :
       \/ Incomplete(found.probes[w])
       \/ \E t \in found.trees : \E from \in BaseAt(run, w), to \in HeadAt(run, t, w) :
            found.probes[w] = Delta(from, to, found.fixed, UiPolicy(run.content))

\* A search that ended without calling itself cut.
SearchOK(run, found) ==
  \/ found.cut
  \/ found = NoSearch
  \/ /\ ProbesOK(run, found)
     /\ \A w \in DOMAIN found.probes : ~Incomplete(found.probes[w])
     /\ NextProbe(MaxProbes, found.probes) = {}
     /\ found.intervals = Intervals(UiPolicy(run.content).responsive, found.probes)

RowOK(hist, fx, run) ==
  /\ DOMAIN run = RowFields
  /\ run.content \in Content /\ run.outcome \in Outcome
  /\ PolicyIsSound(Sections[Facts[run.content].ui])
  /\ run.replayed => Facts[run.content].programs
  /\ \A t \in Loose : run.before[t] \subseteq hist[t]
  /\ run.protection # None => run.protection = HeadSnapshot(run)
  /\ run.baseProtection # None =>
       \A f \in FlowsOf(run.baseProtection) :
         run.baseProtection.flows[f] = Facts[run.from].flows[f]
  /\ \A doc \in run.ui : UiSays(fx, run, doc)
  /\ \A doc \in run.triangle : doc = TriangleOf(run)
  /\ \A doc \in run.analytics : Flakes(run) => doc.flaky # {}
  /\ run.whole => Complete(run)

\* What a run in progress has stored, and what it is about to store.
RunnerOK(fx, c, run) ==
  /\ c.from = run.from
  /\ c.pc \notin {"base", "proposal"} => ~run.whole
  /\ c.pc # "proposal" => run.baseProtection = None
  /\ c.pc # "range" => run.range
  /\ c.pc \notin {"range", "execution"} => run.executed
  /\ c.pc = "probe" => /\ DOMAIN c.kept = SearchFields
                       /\ IsDelta(fx, run, c.kept.delta)
                       /\ c.kept.plan \subseteq Int /\ IsFiniteSet(c.kept.plan)
                       /\ ProbesOK(run, c.kept)
  /\ c.pc = "ui" => UiSays(fx, run, c.kept.ui) /\ SearchOK(run, c.kept.search)
  /\ c.pc \in {"protection", "triangle", "failures", "analytics", "finish"} =>
       (HasUi(run.content) => run.ui # {})
  /\ c.pc \in {"triangle", "failures", "analytics", "finish"} =>
       run.protection = HeadSnapshot(run)
  /\ c.pc \in {"failures", "analytics", "finish"} =>
       (Facts[run.content].programs => run.triangle # {})
  /\ c.pc = "analytics" => (Flakes(run) => c.kept.flaky # {})
  /\ c.pc = "finish" => run.analytics # {}

\* Of the protection axis: a missing base snapshot was unmeasured, and a flow that lost
\* its guard is an error unless somebody approved the pair of seals.
ProtectionSays(ap, c, run) ==
  LET axis == c.kept.in.protection
  IN  /\ c.kept.whole /\ run.protection # None /\ axis.state # "unmeasured" =>
           run.baseProtection # None
      /\ axis.state \notin {"not_applicable", "unmeasured"} => run.baseProtection # None
      /\ /\ axis.state \notin {"not_applicable", "unmeasured"}
         /\ Mandatory(c.content) /\ LostFlows(run) # {}
         /\ Proposal(run.from, run.content) \notin ap
         => \E x \in axis.findings : x.severity = "error" /\ x.check # "006"

\* Of the debt axis, after an audit of two contents: what only the second has and no
\* base of the past had is an item, a new and blocking one where the rule blocks and it
\* was never fixed.
DebtSays(bs, fx, debt, from, to) ==
  \A d \in Facts[to].debt \ ((UNION {Facts[c].debt : c \in bs}) \cup Facts[to].exceptions) :
    /\ \E i \in debt.new \cup debt.returned : i.id = d
    /\ d \notin fx /\ DebtRuleBlocks(RuleOf[d]) => \E i \in debt.new : i.id = d /\ i.blocking

\* What verify has gathered of its run.
ReaderOK(bs, fx, ap, c, run) ==
  /\ run.content = c.content
  /\ c.kept.whole => run.whole /\ c.kept.in.proofs = Proofs(run.content, run.outcome)
  /\ c.pc # "v_protection" => ProtectionSays(ap, c, run)
  /\ c.pc \in {"v_protection", "v_debt"} => c.kept.audit = None
  /\ IF c.kept.audit = None
     THEN c.pc \notin {"v_protection", "v_debt"} /\ c.kept.whole =>
            c.kept.in.debt.state = "unmeasured"
     ELSE DebtSays(bs, fx, c.kept.in.debt, c.kept.audit[1], c.kept.audit[2])
  /\ c.pc \in {"v_ui", "v_delta", "replied"} /\ c.kept.whole /\ Flakes(run) =>
       c.kept.in.stability.flaky
  /\ c.pc \in {"v_delta", "replied"} /\ c.kept.whole /\ HasUi(run.content) =>
       UiSays(fx, run, c.kept.in.ui)
  /\ c.pc = "replied" /\ c.kept.whole /\ Facts[run.content].programs =>
       c.kept.in.delta = TriangleOf(run)

CommandOK(bs, fx, ap, rs, c) ==
  /\ DOMAIN c = CommandFields
  /\ c.pc = "running" => c.content \in Content
  /\ c.pc \in RunPcs => c.run \in DOMAIN rs /\ RunnerOK(fx, c, rs[c.run])
  /\ c.pc \in ReadPcs \cup {"replied"} =>
       /\ DOMAIN c.kept = {"in", "verdict", "whole", "audit"}
       /\ DOMAIN c.kept.in = InputFields
       /\ IF c.pc = "replied" /\ c.run = 0 THEN c.kept.audit = None
          ELSE c.run \in DOMAIN rs /\ ReaderOK(bs, fx, ap, c, rs[c.run])
  /\ c.pc = "replied" => c.kept.verdict = Compose(c.kept.in)

MemoriesOK ==
  /\ head \in Content /\ base \in bases /\ bases \subseteq Content
  /\ observed \subseteq UNION {Facts[c].debt : c \in bases}
  /\ \A t \in Loose : history[t] \subseteq {"pass", "fail"}

RowsOK ==
  /\ runs \in Seq({runs[r] : r \in DOMAIN runs})
  /\ \A r \in DOMAIN runs : RowOK(history, fixed, runs[r])

CommandsOK ==
  /\ DOMAIN cmd = Proc
  /\ \A p \in Proc : CommandOK(bases, fixed, approved, runs, cmd[p])

\* Two runs in progress are two rows.
RunsApart ==
  \A p, q \in Proc :
    cmd[p].pc \in RunPcs /\ cmd[q].pc \in RunPcs /\ cmd[p].run = cmd[q].run => p = q

IInv == MemoriesOK /\ RowsOK /\ CommandsOK /\ RunsApart

-----------------------------------------------------------------------------
(* What the measurements say of the two contents of a run. *)

\* A failed run proves nothing, a contradicted one contradicts.
LEMMA ProofsPass ==
  ASSUME NEW content, NEW execution \in Outcome, NEW o \in Facts[content].obligations,
         ProofState(Proofs(content, execution)) # "unmeasured",
         \A q \in Proofs(content, execution) : q.verdict # "CONTRADICTED"
  PROVE  execution = "passed"
<1> DEFINE verdict == Assemble(execution, {}, {}, FALSE, FALSE)
           proof == [obligation |-> o.id, mandatory |-> o.mandatory, verdict |-> verdict]
<1>1. proof \in Proofs(content, execution)
  BY DEF Proofs
<1>2. CASE execution = "failed"
  <2>1. verdict = "UNPROVEN"
    BY <1>2 DEF Assemble, DecideVerdict
  <2> DEFINE weak == {q \in Proofs(content, execution) : q.verdict \in {"UNPROVEN", "PARTIAL"}}
  <2>2. proof \in weak
    BY <1>1, <2>1
  <2>3. WithVerdict(Proofs(content, execution), {"UNPROVEN", "PARTIAL"}) # {}
    BY <2>2 DEF WithVerdict
  <2>4. Proofs(content, execution) # {}
    BY <1>1
  <2>5. WithVerdict(Proofs(content, execution), {"CONTRADICTED"}) = {}
    BY DEF WithVerdict
  <2>6. ProofState(Proofs(content, execution)) = "unmeasured"
    BY <2>3, <2>4, <2>5 DEF ProofState
  <2> QED BY <2>6
<1>3. CASE execution = "contradicted"
  <2>1. verdict = "CONTRADICTED"
    BY <1>3 DEF Assemble, DecideVerdict
  <2> QED BY <1>1, <2>1
<1> QED BY <1>2, <1>3, GateAssumption DEF GateAssumption

\* The newest run of a content is a run of that content.
LEMMA LatestRunIsThere ==
  ASSUME runs \in Seq({runs[r] : r \in DOMAIN runs}), NEW content, LatestRun(content) # 0
  PROVE  LatestRun(content) \in DOMAIN runs /\ runs[LatestRun(content)].content = content
<1> DEFINE mine == {r \in 1..Len(runs) : runs[r].content = content}
           n == Len(runs)
<1>1. n \in Nat /\ DOMAIN runs = 1..n
  OBVIOUS
<1> HIDE DEF n
<1>2. mine # {} /\ mine \subseteq 1..n
  BY DEF LatestRun, n
<1>3. {n - r : r \in mine} \in SUBSET Nat /\ {n - r : r \in mine} # {}
  BY <1>1, <1>2
<1>4. PICK k \in {n - r : r \in mine} : \A l \in {n - r : r \in mine} : k <= l
  BY <1>3, LeastOfNaturals
<1>5. PICK r \in mine : k = n - r
  BY <1>4
<1>6. \A s \in mine : n - r <= n - s
  BY <1>4, <1>5
<1>7. \A s \in mine : s <= r
  BY <1>1, <1>2, <1>6
<1>8. LatestRun(content) = CHOOSE m \in mine : \A s \in mine : s <= m
  BY <1>2 DEF LatestRun, n
<1>9. LatestRun(content) \in mine
  BY <1>7, <1>8
<1> QED BY <1>1, <1>2, <1>9

\* Without a human's word, a flow that was guarded at the base, that its name still
\* means and that no test guards at the head is a finding, an error of a high-risk
\* change.
LEMMA LostIsFound ==
  ASSUME NEW before, NEW after, NEW changed, NEW replacements, NEW flow,
         flow \in FlowsOf(before), IsProtected(before.flows[flow]),
         flow \in FlowsOf(after) => ~ IsProtected(after.flows[flow]),
         Signature[flow] = NoSignature,
         NEW axis, axis = ProtectionAxis(before, after, changed, replacements, FALSE, TRUE)
  PROVE  \E x \in axis.findings : x.severity = "error" /\ x.check # "006"
<1> DEFINE context == Context(before, after, changed, replacements, FALSE)
           delta == Compare(before, after, flow, context)
           deltas == ProtectionDelta(before, after, context)
           finding == Finding("001", "error", flow)
<1>1. /\ context.critical = {} /\ context.removed = {} /\ context.replacedFlows = {}
      /\ \A r \in context.relocations :
           /\ r = <<r[1], r[2]>>
           /\ Signature[r[1]] # NoSignature
           /\ r[2] \in FlowsOf(after)
           /\ \A g \in FlowsOf(after) : Signature[g] = Signature[r[1]] <=> g = r[2]
  <2>1. /\ context.critical = {} /\ context.removed = {}
        /\ context.replacedFlows = {}
        /\ context.relocations = SnapshotRelocations(before, after)
    BY DEF Context, ApprovedReplacedFlows
  <2>2. ASSUME NEW r \in SnapshotRelocations(before, after)
        PROVE  /\ r = <<r[1], r[2]>>
               /\ Signature[r[1]] # NoSignature
               /\ r[2] \in FlowsOf(after)
               /\ \A g \in FlowsOf(after) : Signature[g] = Signature[r[1]] <=> g = r[2]
    BY DEF SnapshotRelocations
  <2> QED BY <2>1, <2>2
<1> HIDE DEF context
<1>2. \A r \in context.relocations : r[1] # flow /\ r[2] # flow
  BY <1>1
<1>3. HeadName(flow, context) = flow
  BY <1>2 DEF HeadName
<1>4. delta.state = "lost" /\ delta.flow = flow
  <2>1. CASE flow \in FlowsOf(after)
    <3>1. delta.flow = flow /\ delta.state = PresentState(flow, before.flows[flow], after.flows[flow], FALSE, context)
      BY <1>3, <2>1 DEF Compare
    <3>2. PresentState(flow, before.flows[flow], after.flows[flow], FALSE, context) = "lost"
      BY <1>1, <2>1 DEF PresentState
    <3> QED BY <3>1, <3>2
  <2>2. CASE flow \notin FlowsOf(after)
    BY <1>1, <1>3, <2>2 DEF Compare
  <2> QED BY <2>1, <2>2
<1> HIDE DEF delta
<1>5. delta \in deltas
  <2>1. flow \in {g \in FlowsOf(before) \cup FlowsOf(after) :
                    ~\E r \in context.relocations : r[2] = g /\ r[1] \in FlowsOf(before)}
    BY <1>2
  <2> QED BY <2>1 DEF ProtectionDelta, delta
<1>6. finding \in CheckFlow(delta, "error")
  BY <1>4 DEF CheckFlow, CheckLost
<1> DEFINE findings == GateProtection(deltas, TestChanges(before, after, deltas, context), TRUE)
<1>7. finding \in findings
  BY <1>5, <1>6 DEF GateProtection
<1>8. axis.findings = findings
  BY DEF ProtectionAxis, ProtectionAxisFrom, context
<1> HIDE DEF findings
<1>9. finding.severity = "error" /\ finding.check # "006"
  BY DEF Finding
<1> QED BY <1>7, <1>8, <1>9

\* What the audit answers now: debt of the tree that no base ever had is new, or
\* returned if it was once fixed, whatever a baseline accepted.
LEMMA AuditSays ==
  ASSUME MemoriesOK
  PROVE  DebtSays(bases, fixed, DebtAxis, base, head)
<1> DEFINE merged == UNION {Facts[c].debt : c \in bases}
<1>0. Facts[base].debt \subseteq merged /\ observed \subseteq merged
  BY DEF MemoriesOK
<1> SUFFICES ASSUME NEW d \in Facts[head].debt \ ((UNION {Facts[c].debt : c \in bases})
                                                   \cup Facts[head].exceptions)
             PROVE  /\ \E i \in DebtAxis.new \cup DebtAxis.returned : i.id = d
                    /\ d \notin fixed /\ DebtRuleBlocks(RuleOf[d])
                         => \E i \in DebtAxis.new : i.id = d /\ i.blocking
  BY DEF DebtSays
<1>a. d \in Facts[head].debt \ (merged \cup Facts[head].exceptions)
  OBVIOUS
<1> DEFINE returned == (Introduced \cap fixed) \ Excepted
           new == (Introduced \ Excepted) \ returned
<1> HIDE DEF merged
<1>1. d \in Introduced /\ d \notin Excepted
  <2>1. d \in Facts[head].debt /\ d \notin Facts[base].debt /\ d \notin observed
          /\ d \notin Facts[head].exceptions
    BY <1>0, <1>a
  <2> QED BY <2>1 DEF Introduced, Excepted
<1>2. DebtAxis.new = {[id |-> e, blocking |-> DebtRuleBlocks(RuleOf[e])] : e \in new}
      /\ DebtAxis.returned = {[id |-> e, blocking |-> FALSE] : e \in returned}
  BY DEF DebtAxis
<1>3. CASE d \in fixed
  <2>1. d \in returned
    BY <1>1, <1>3
  <2> HIDE DEF returned, new
  <2>2. [id |-> d, blocking |-> FALSE] \in DebtAxis.returned
    BY <1>2, <2>1
  <2> QED BY <1>3, <2>2
<1>4. CASE d \notin fixed
  <2>1. d \in new
    BY <1>1, <1>4
  <2> HIDE DEF returned, new
  <2> DEFINE item == [id |-> d, blocking |-> DebtRuleBlocks(RuleOf[d])]
  <2>2. item \in DebtAxis.new
    BY <1>2, <2>1
  <2>3. item.id = d /\ item.blocking = DebtRuleBlocks(RuleOf[d])
    OBVIOUS
  <2> HIDE DEF item
  <2> QED BY <1>4, <2>2, <2>3
<1> QED BY <1>3, <1>4

\* Without both replays the triangle is unmeasured, and drift is an error finding.
LEMMA TriangleSays ==
  ASSUME NEW run
  PROVE  /\ ~ run.replayed => TriangleOf(run).state = "unmeasured"
         /\ run.replayed /\ run.protection = HeadSnapshot(run) /\ Drifts(run) =>
              \E f \in TriangleOf(run).findings : f.severity = "error"
<1>1. ASSUME ~ run.replayed
      PROVE  TriangleOf(run).state = "unmeasured"
  BY <1>1 DEF TriangleOf, TriangleDocument
<1>2. ASSUME run.replayed, run.protection = HeadSnapshot(run), Drifts(run)
      PROVE  \E f \in TriangleOf(run).findings : f.severity = "error"
  <2>1. TriangleFindings(run.from, run.content, HeadSnapshot(run))
          = {[subject |-> "001", severity |-> "error"]}
    BY <1>2 DEF TriangleFindings, Drifts
  <2>2. TriangleOf(run).findings = {[subject |-> "001", severity |-> "error"]}
    BY <1>2, <2>1 DEF TriangleOf, TriangleDocument
  <2> QED BY <2>2
<1> QED BY <1>1, <1>2

-----------------------------------------------------------------------------
(* Rows and memories only grow. *)

\* What identifies a run does not change.
SameRun(run, later) ==
  /\ later.before = run.before /\ later.content = run.content /\ later.from = run.from
  /\ later.outcome = run.outcome /\ later.failing = run.failing
  /\ later.replayed = run.replayed

\* Once the run is whole its suite's snapshot stays; the base's stays once stored.
RowExtends(run, later) ==
  /\ SameRun(run, later)
  /\ run.whole => later.whole /\ later.protection = run.protection
  /\ run.baseProtection # None => later.baseProtection = run.baseProtection

LEMMA SameRunSaysTheSame ==
  ASSUME NEW run, NEW later, SameRun(run, later)
  PROVE  /\ Flakes(later) = Flakes(run)
         /\ HeadSnapshot(later) = HeadSnapshot(run)
         /\ TriangleOf(later) = TriangleOf(run)
         /\ NewUiErrors(later) = NewUiErrors(run)
         /\ \A fx, doc : UiSays(fx, later, doc) = UiSays(fx, run, doc)
         /\ \A fx, delta : IsDelta(fx, later, delta) = IsDelta(fx, run, delta)
<1>1. HeadSnapshot(later) = HeadSnapshot(run)
  BY DEF SameRun, HeadSnapshot
<1>2. Flakes(later) = Flakes(run)
  BY DEF SameRun, Flakes, CaseStatus
<1>3. TriangleOf(later) = TriangleOf(run)
  BY <1>1 DEF SameRun, TriangleOf
<1>4. /\ BaseAt(later, DefaultWidth) = BaseAt(run, DefaultWidth)
      /\ HeadAt(later, later.content, DefaultWidth) = HeadAt(run, run.content, DefaultWidth)
      /\ UiPolicy(later.content) = UiPolicy(run.content)
  BY DEF SameRun, BaseAt, HeadAt
<1>5. NewUiErrors(later) = NewUiErrors(run)
  BY <1>4 DEF NewUiErrors
<1>6. \A fx, doc : UiSays(fx, later, doc) = UiSays(fx, run, doc)
  BY <1>4, <1>5 DEF UiSays
<1>7. \A fx, delta : IsDelta(fx, later, delta) = IsDelta(fx, run, delta)
  BY <1>4 DEF IsDelta
<1> QED BY <1>1, <1>2, <1>3, <1>5, <1>6, <1>7

LEMMA UiSaysGrows ==
  ASSUME NEW fx, NEW fx2, fx \subseteq fx2, NEW run, NEW doc, UiSays(fx, run, doc)
  PROVE  UiSays(fx2, run, doc)
<1>1. NewUiErrors(run) \ fx2 # {} => NewUiErrors(run) \ fx # {}
  OBVIOUS
<1> QED BY <1>1 DEF UiSays

LEMMA IsDeltaGrows ==
  ASSUME NEW fx, NEW fx2, fx \subseteq fx2, NEW run, NEW delta, IsDelta(fx, run, delta)
  PROVE  IsDelta(fx2, run, delta)
<1>1. \A old \in SUBSET fx : old \in SUBSET fx2
  OBVIOUS
<1> QED BY <1>1 DEF IsDelta

LEMMA DebtSaysGrows ==
  ASSUME NEW bs, NEW bs2, bs \subseteq bs2, NEW fx, NEW fx2, fx \subseteq fx2,
         NEW debt, NEW from, NEW to, DebtSays(bs, fx, debt, from, to)
  PROVE  DebtSays(bs2, fx2, debt, from, to)
<1>1. UNION {Facts[c].debt : c \in bs} \subseteq UNION {Facts[c].debt : c \in bs2}
  OBVIOUS
<1> HIDE DEF DebtSays
<1>2. SUFFICES ASSUME NEW d \in Facts[to].debt \ ((UNION {Facts[c].debt : c \in bs2}) \cup Facts[to].exceptions)
      PROVE  /\ \E i \in debt.new \cup debt.returned : i.id = d
             /\ d \notin fx2 /\ DebtRuleBlocks(RuleOf[d])
                  => \E i \in debt.new : i.id = d /\ i.blocking
  BY DEF DebtSays
<1>3. d \in Facts[to].debt \ ((UNION {Facts[c].debt : c \in bs}) \cup Facts[to].exceptions)
  BY <1>1
<1> QED BY <1>3 DEF DebtSays

LEMMA RowGrows ==
  ASSUME NEW hist, NEW hist2, \A t \in Loose : hist[t] \subseteq hist2[t],
         NEW fx, NEW fx2, fx \subseteq fx2, NEW run, RowOK(hist, fx, run)
  PROVE  RowOK(hist2, fx2, run)
<1>1. \A doc \in run.ui : UiSays(fx2, run, doc)
  BY UiSaysGrows DEF RowOK
<1>2. \A t \in Loose : run.before[t] \subseteq hist2[t]
  BY DEF RowOK
<1> QED BY <1>1, <1>2 DEF RowOK

LEMMA RunnerGrows ==
  ASSUME NEW fx, NEW fx2, fx \subseteq fx2, NEW c, NEW run, RunnerOK(fx, c, run)
  PROVE  RunnerOK(fx2, c, run)
<1>1. c.pc = "probe" => IsDelta(fx2, run, c.kept.delta)
  BY IsDeltaGrows DEF RunnerOK
<1>2. c.pc = "ui" => UiSays(fx2, run, c.kept.ui)
  BY UiSaysGrows DEF RunnerOK
<1> QED BY <1>1, <1>2 DEF RunnerOK

LEMMA ProtectionSaysGrows ==
  ASSUME NEW ap, NEW ap2, ap \subseteq ap2, NEW c, NEW run, NEW later, RowExtends(run, later),
         c.kept.whole => run.whole, ProtectionSays(ap, c, run)
  PROVE  ProtectionSays(ap2, c, later)
<1> DEFINE axis == c.kept.in.protection
<1>1. c.kept.whole /\ later.protection # None /\ axis.state # "unmeasured" =>
        later.baseProtection # None
  BY DEF ProtectionSays, RowExtends
<1>2. axis.state \notin {"not_applicable", "unmeasured"} =>
         run.baseProtection # None /\ later.baseProtection = run.baseProtection
  BY DEF ProtectionSays, RowExtends
<1>3. later.from = run.from /\ later.content = run.content
  BY DEF RowExtends, SameRun
<1>4. axis.state \notin {"not_applicable", "unmeasured"} => LostFlows(later) = LostFlows(run)
  BY <1>2, <1>3 DEF LostFlows
<1>5. Proposal(later.from, later.content) \notin ap2 => Proposal(run.from, run.content) \notin ap
  BY <1>3
<1> QED BY <1>1, <1>2, <1>4, <1>5 DEF ProtectionSays

LEMMA ReaderGrows ==
  ASSUME NEW bs, NEW bs2, bs \subseteq bs2, NEW fx, NEW fx2, fx \subseteq fx2,
         NEW ap, NEW ap2, ap \subseteq ap2, NEW c, NEW run, NEW later, RowExtends(run, later),
         ReaderOK(bs, fx, ap, c, run)
  PROVE  ReaderOK(bs2, fx2, ap2, c, later)
<1>1. /\ SameRun(run, later)
      /\ run.whole => later.whole
  BY DEF RowExtends
<1>2. /\ later.content = c.content
      /\ c.kept.whole => later.whole /\ c.kept.in.proofs = Proofs(later.content, later.outcome)
  BY <1>1 DEF ReaderOK, SameRun
<1>3. c.pc # "v_protection" => ProtectionSays(ap2, c, later)
  BY ProtectionSaysGrows DEF ReaderOK
<1>4. c.kept.audit # None =>
        DebtSays(bs2, fx2, c.kept.in.debt, c.kept.audit[1], c.kept.audit[2])
  BY DebtSaysGrows DEF ReaderOK
<1>5. /\ c.kept.audit = None =>
            (c.pc \notin {"v_protection", "v_debt"} /\ c.kept.whole =>
               c.kept.in.debt.state = "unmeasured")
      /\ (c.pc \in {"v_protection", "v_debt"} => c.kept.audit = None)
  BY DEF ReaderOK
<1>6. c.pc \in {"v_ui", "v_delta", "replied"} /\ c.kept.whole /\ Flakes(later) =>
        c.kept.in.stability.flaky
  BY <1>1, SameRunSaysTheSame DEF ReaderOK
<1>7. HasUi(later.content) = HasUi(run.content) /\ Facts[later.content] = Facts[run.content]
  BY <1>1 DEF SameRun
<1>8. c.pc \in {"v_delta", "replied"} /\ c.kept.whole /\ HasUi(later.content) =>
        UiSays(fx2, later, c.kept.in.ui)
  BY <1>1, <1>7, SameRunSaysTheSame, UiSaysGrows DEF ReaderOK
<1>9. c.pc = "replied" /\ c.kept.whole /\ Facts[later.content].programs =>
        c.kept.in.delta = TriangleOf(later)
  BY <1>1, <1>7, SameRunSaysTheSame DEF ReaderOK
<1> QED BY <1>2, <1>3, <1>4, <1>5, <1>6, <1>8, <1>9 DEF ReaderOK

-----------------------------------------------------------------------------
(* One step of one process. *)

\* What a command says stays true while rows and memories grow; the row of a run in
\* progress is changed by that run alone.
LEMMA CommandGrows ==
  ASSUME NEW bs, NEW bs2, bs \subseteq bs2, NEW fx, NEW fx2, fx \subseteq fx2,
         NEW ap, NEW ap2, ap \subseteq ap2, NEW rs, NEW rs2, NEW c,
         \A r \in DOMAIN rs : r \in DOMAIN rs2 /\ RowExtends(rs[r], rs2[r]),
         c.pc \in RunPcs => rs2[c.run] = rs[c.run],
         CommandOK(bs, fx, ap, rs, c)
  PROVE  CommandOK(bs2, fx2, ap2, rs2, c)
<1>1. c.pc \in RunPcs => c.run \in DOMAIN rs2 /\ RunnerOK(fx2, c, rs2[c.run])
  BY RunnerGrows DEF CommandOK
<1>2. c.pc \in ReadPcs \cup {"replied"} =>
        /\ DOMAIN c.kept = {"in", "verdict", "whole", "audit"}
        /\ DOMAIN c.kept.in = InputFields
        /\ IF c.pc = "replied" /\ c.run = 0 THEN c.kept.audit = None
           ELSE c.run \in DOMAIN rs2 /\ ReaderOK(bs2, fx2, ap2, c, rs2[c.run])
  BY ReaderGrows DEF CommandOK
<1> QED BY <1>1, <1>2 DEF CommandOK

LEMMA RowExtendsItself ==
  ASSUME NEW run
  PROVE  RowExtends(run, run)
BY DEF RowExtends, SameRun

\* A change of the memories that leaves rows and commands alone.
LEMMA MemoryStep ==
  ASSUME IInv, MemoriesOK', UNCHANGED <<runs, history, cmd>>,
         bases \subseteq bases', fixed \subseteq fixed', approved \subseteq approved'
  PROVE  IInv'
<1>1. RowsOK'
  BY RowGrows DEF IInv, RowsOK
<1>2. \A r \in DOMAIN runs : r \in DOMAIN runs' /\ RowExtends(runs[r], runs'[r])
  BY RowExtendsItself
<1>3. CommandsOK'
  <2> SUFFICES ASSUME NEW p \in Proc
               PROVE  CommandOK(bases', fixed', approved', runs', cmd[p])
    BY DEF IInv, CommandsOK
  <2>1. CommandOK(bases, fixed, approved, runs, cmd[p])
    BY DEF IInv, CommandsOK
  <2> HIDE DEF IInv
  <2> QED BY <1>2, <2>1, CommandGrows
<1>4. RunsApart'
  BY DEF IInv, RunsApart
<1> QED BY <1>1, <1>3, <1>4 DEF IInv

\* A step of one process that appends or extends at most its own row.
LEMMA ProcessStep ==
  ASSUME IInv, NEW p \in Proc, NEW c, cmd' = [cmd EXCEPT ![p] = c],
         MemoriesOK', RowsOK',
         bases \subseteq bases', fixed \subseteq fixed', approved \subseteq approved',
         \A r \in DOMAIN runs : /\ r \in DOMAIN runs' /\ RowExtends(runs[r], runs'[r])
                                /\ \/ r = cmd[p].run /\ cmd[p].pc \in RunPcs
                                   \/ runs'[r] = runs[r],
         CommandOK(bases', fixed', approved', runs', c),
         c.pc \in RunPcs => \/ c.run = cmd[p].run /\ cmd[p].pc \in RunPcs
                            \/ c.run \notin DOMAIN runs
  PROVE  IInv'
<1>1. DOMAIN cmd = Proc /\ cmd'[p] = c /\ DOMAIN cmd' = Proc
      /\ \A q \in Proc : q # p => cmd'[q] = cmd[q]
  BY DEF IInv, CommandsOK
<1>2. ASSUME NEW q \in Proc, cmd[q].pc \in RunPcs
      PROVE  cmd[q].run \in DOMAIN runs
  BY <1>2 DEF IInv, CommandsOK, CommandOK
<1>3. ASSUME NEW q \in Proc, q # p
      PROVE  CommandOK(bases', fixed', approved', runs', cmd'[q])
  <2>1. CommandOK(bases, fixed, approved, runs, cmd[q])
    BY DEF IInv, CommandsOK
  <2>2. cmd[q].pc \in RunPcs => runs'[cmd[q].run] = runs[cmd[q].run]
    BY <1>2, <1>3 DEF IInv, RunsApart
  <2>3. CommandOK(bases', fixed', approved', runs', cmd[q])
    BY <2>1, <2>2, CommandGrows
  <2> QED BY <1>1, <1>3, <2>3
<1>4. CommandsOK'
  BY <1>1, <1>3 DEF CommandsOK
<1>5. RunsApart'
  <2> SUFFICES ASSUME NEW a \in Proc, NEW b \in Proc, cmd'[a].pc \in RunPcs,
                      cmd'[b].pc \in RunPcs, cmd'[a].run = cmd'[b].run
               PROVE  a = b
    BY DEF RunsApart
  <2>1. ASSUME NEW q \in Proc, q # p, cmd[q].pc \in RunPcs
        PROVE  c.pc \in RunPcs => cmd[q].run # c.run
    BY <1>2, <2>1 DEF IInv, RunsApart
  <2>2. CASE a # p /\ b # p
    BY <1>1, <2>2 DEF IInv, RunsApart
  <2> QED BY <1>1, <2>1, <2>2
<1> QED BY <1>4, <1>5 DEF IInv

\* A process that gives up its command, or whose command has not recorded anything yet.
LEMMA QuietCommand ==
  ASSUME NEW bs, NEW fx, NEW ap, NEW rs, NEW pc \in {"idle", "asked", "running"},
         NEW content, NEW from, NEW asked, NEW run, NEW kept,
         pc = "running" => content \in Content
  PROVE  CommandOK(bs, fx, ap, rs, Command(pc, content, from, asked, run, kept))
BY DEF CommandOK, Command, CommandFields, RunPcs, ReadPcs

LEMMA QuietStep ==
  ASSUME IInv, NEW p \in Proc, NEW pc \in {"idle", "asked", "running"},
         NEW content, NEW from, NEW asked, NEW run, NEW kept,
         pc = "running" => content \in Content,
         cmd' = [cmd EXCEPT ![p] = Command(pc, content, from, asked, run, kept)],
         UNCHANGED <<head, base, bases, runs, memories>>
  PROVE  IInv'
<1> DEFINE c == Command(pc, content, from, asked, run, kept)
<1>1. CommandOK(bases', fixed', approved', runs', c)
  BY QuietCommand
<1>2. c.pc \notin RunPcs
  BY DEF Command, RunPcs
<1>3. MemoriesOK' /\ RowsOK'
  BY DEF IInv, MemoriesOK, RowsOK, memories
<1>4. \A r \in DOMAIN runs : r \in DOMAIN runs' /\ RowExtends(runs[r], runs'[r]) /\ runs'[r] = runs[r]
  BY RowExtendsItself
<1> HIDE DEF c, IInv
<1> QED BY <1>1, <1>2, <1>3, <1>4, ProcessStep DEF memories, c

\* A step that reads: its command has a run and goes on with it.
LEMMA ReadingStep ==
  ASSUME IInv, NEW p \in Proc, NEW c, cmd' = [cmd EXCEPT ![p] = c],
         UNCHANGED <<head, base, bases, runs, observed, history, approved>>,
         fixed \subseteq fixed', c.pc \notin RunPcs,
         CommandOK(bases, fixed', approved, runs, c)
  PROVE  IInv'
<1>1. MemoriesOK' /\ RowsOK'
  BY RowGrows DEF IInv, MemoriesOK, RowsOK
<1>2. \A r \in DOMAIN runs : r \in DOMAIN runs' /\ RowExtends(runs[r], runs'[r]) /\ runs'[r] = runs[r]
  BY RowExtendsItself
<1>3. CommandOK(bases', fixed', approved', runs', c)
  OBVIOUS
<1> HIDE DEF IInv
<1> QED BY <1>1, <1>2, <1>3, ProcessStep

\* A step of a run in progress: it extends its row and goes on with it or ends.
LEMMA RunningStep ==
  ASSUME IInv, NEW p \in Proc, cmd[p].pc \in RunPcs,
         NEW c, cmd' = [cmd EXCEPT ![p] = c],
         NEW row, runs' = [runs EXCEPT ![cmd[p].run] = row],
         UNCHANGED <<head, base, bases, observed, approved>>,
         fixed \subseteq fixed', \A t \in Loose : history[t] \subseteq history'[t],
         \A t \in Loose : history'[t] \subseteq {"pass", "fail"},
         RowExtends(runs[cmd[p].run], row), RowOK(history', fixed', row),
         DOMAIN c = CommandFields,
         \/ c.pc \in RunPcs /\ c.run = cmd[p].run /\ RunnerOK(fixed', c, row)
         \/ c.pc = "idle"
  PROVE  IInv'
<1> DEFINE r == cmd[p].run
<1>1. r \in DOMAIN runs
  BY DEF IInv, CommandsOK, CommandOK
<1>2. DOMAIN runs' = DOMAIN runs /\ runs'[r] = row
      /\ \A s \in DOMAIN runs : s # r => runs'[s] = runs[s]
  BY <1>1
<1>3. \A s \in DOMAIN runs : /\ s \in DOMAIN runs' /\ RowExtends(runs[s], runs'[s])
                             /\ s = r \/ runs'[s] = runs[s]
  BY <1>2, RowExtendsItself
<1>4. MemoriesOK'
  BY DEF IInv, MemoriesOK
<1>5. RowsOK'
  <2>1. runs \in Seq({runs[s] : s \in DOMAIN runs})
    BY DEF IInv, RowsOK
  <2>2. \A s \in DOMAIN runs' : runs'[s] \in {runs'[t] : t \in DOMAIN runs'}
    OBVIOUS
  <2> DEFINE S == {runs'[s] : s \in DOMAIN runs'}
  <2>3. runs' \in Seq(S)
    <3>1. Len(runs) \in Nat /\ DOMAIN runs = 1..Len(runs)
      BY <2>1
    <3>2. runs' \in [1..Len(runs) -> S]
      BY <1>2, <2>2, <3>1
    <3> HIDE DEF S
    <3>3. \E n \in Nat : runs' \in [1..n -> S]
      BY <3>1, <3>2
    <3>4. Seq(S) = UNION {[1..n -> S] : n \in Nat}
      BY SeqDef
    <3> QED BY Zenon, <3>3, <3>4
  <2>4. \A s \in DOMAIN runs : RowOK(history', fixed', runs'[s])
    BY <1>2, RowGrows DEF IInv, RowsOK
  <2> QED BY <1>2, <2>3, <2>4 DEF RowsOK
<1>6. CommandOK(bases', fixed', approved', runs', c)
  BY <1>1, <1>2 DEF CommandOK, RunPcs, ReadPcs
<1>7. c.pc \in RunPcs => c.run = r
  BY DEF RunPcs
<1> HIDE DEF IInv
<1> QED BY <1>3, <1>4, <1>5, <1>6, <1>7, ProcessStep

-----------------------------------------------------------------------------
(* The developer, the human and the two memory commands. *)

LEMMA EditKeeps ==
  ASSUME IInv, Edit
  PROVE  IInv'
<1>1. head' \in Content
  BY GateAssumption DEF IInv, MemoriesOK, Edit, GateAssumption
<1>2. MemoriesOK'
  BY <1>1 DEF IInv, MemoriesOK, Edit, memories
<1> QED BY <1>2, MemoryStep DEF Edit, memories

LEMMA MergeKeeps ==
  ASSUME IInv, Merge
  PROVE  IInv'
<1>1. bases \subseteq bases' /\ base' \in bases' /\ bases' \subseteq Content /\ head' \in Content
  BY DEF IInv, MemoriesOK, Merge
<1>2. MemoriesOK'
  <2>1. observed' \subseteq UNION {Facts[c].debt : c \in bases'}
    BY <1>1 DEF IInv, MemoriesOK, Merge, memories
  <2> QED BY <1>1, <2>1 DEF IInv, MemoriesOK, Merge, memories
<1> QED BY <1>1, <1>2, MemoryStep DEF Merge, memories

LEMMA ApproveKeeps ==
  ASSUME IInv, Approve
  PROVE  IInv'
<1>1. MemoriesOK'
  BY DEF IInv, MemoriesOK, Approve, tree
<1>2. approved \subseteq approved'
  BY DEF Approve
<1> QED BY <1>1, <1>2, MemoryStep DEF Approve, tree

LEMMA DebtKeeps ==
  ASSUME IInv, Debt
  PROVE  IInv'
<1>1. MemoriesOK'
  BY DEF IInv, MemoriesOK, Debt, tree
<1>2. fixed \subseteq fixed'
  BY DEF Debt
<1> QED BY <1>1, <1>2, MemoryStep DEF Debt, tree

LEMMA BaselineKeeps ==
  ASSUME IInv, Baseline
  PROVE  IInv'
<1>1. Facts[base].debt \subseteq UNION {Facts[c].debt : c \in bases}
  BY DEF IInv, MemoriesOK
<1>2. observed' \subseteq UNION {Facts[c].debt : c \in bases}
  BY <1>1 DEF IInv, MemoriesOK, Baseline
<1>3. MemoriesOK'
  BY <1>2 DEF IInv, MemoriesOK, Baseline, tree
<1> QED BY <1>3, MemoryStep DEF Baseline, tree

-----------------------------------------------------------------------------
(* The run. *)

\* The runner's command and row, as the invariant has them.
LEMMA RunnerHas ==
  ASSUME IInv, NEW p \in Proc, cmd[p].pc \in RunPcs
  PROVE  /\ cmd[p].run \in DOMAIN runs
         /\ DOMAIN cmd[p] = CommandFields
         /\ RunnerOK(fixed, cmd[p], Own(p))
         /\ RowOK(history, fixed, Own(p))
BY DEF IInv, CommandsOK, CommandOK, RowsOK, Own

\* Every step that ends a command without a trace.
LEMMA QuietKeeps ==
  ASSUME IInv, NEW p \in Proc,
         StartProtection(p) \/ StartRun(p) \/ RefuseRun(p) \/ RefusePage(p) \/ RefuseRatchet(p)
           \/ RefuseProbe(p) \/ Die(p)
  PROVE  IInv'
<1>1. CASE StartProtection(p)
  BY <1>1, QuietStep DEF StartProtection, tree
<1>2. CASE StartRun(p)
  BY <1>2, QuietStep DEF StartRun, tree, IInv, MemoriesOK
<1>3. CASE RefuseRun(p)
  BY <1>3, QuietStep DEF RefuseRun, Idle, tree
<1>4. CASE RefusePage(p) \/ RefuseRatchet(p) \/ RefuseProbe(p)
  <2>1. Fail(p)
    BY <1>4 DEF RefusePage, RefuseRatchet, RefuseProbe
  <2> QED BY <2>1, QuietStep DEF Fail, Idle, tree
<1>5. CASE Die(p)
  BY <1>5, QuietStep DEF Die, Idle
<1> QED BY <1>1, <1>2, <1>3, <1>4, <1>5

\* The row is recorded with nothing attached, and with the results seen so far.
LEMMA PutRunKeeps ==
  ASSUME IInv, NEW p \in Proc, PutRun(p)
  PROVE  IInv'
<1>1. PICK outcome \in Outcome, failing \in SUBSET Facts[head].loose, replayed \in BOOLEAN :
        /\ replayed => Facts[head].programs
        /\ runs' = Append(runs, Row(head, cmd[p].from, outcome, failing, replayed, history))
  BY DEF PutRun
<1> DEFINE row == Row(head, cmd[p].from, outcome, failing, replayed, history)
           c == [cmd[p] EXCEPT !.pc = "range", !.run = Len(runs) + 1]
           n == Len(runs)
<1>2. n \in Nat /\ DOMAIN runs = 1..n /\ DOMAIN runs' = 1..(n + 1) /\ runs'[n + 1] = row
      /\ \A r \in DOMAIN runs : runs'[r] = runs[r]
  BY <1>1 DEF IInv, RowsOK
<1>3. RowOK(history, fixed, row)
  BY <1>1 DEF PutRun, IInv, MemoriesOK, Row, RowOK, RowFields
<1>4. DOMAIN cmd[p] = CommandFields
  BY DEF IInv, CommandsOK, CommandOK
<1>5. /\ DOMAIN c = CommandFields /\ c.pc = "range" /\ c.run = n + 1 /\ c.from = cmd[p].from
      /\ cmd' = [cmd EXCEPT ![p] = c]
  BY <1>4 DEF PutRun, CommandFields
<1>6. row.from = cmd[p].from /\ row.whole = FALSE /\ row.baseProtection = None
  BY DEF Row
<1>7. UNCHANGED <<head, base, bases, fixed, observed, history, approved>>
  BY DEF PutRun, tree, memories
<1>8. MemoriesOK'
  BY <1>7 DEF IInv, MemoriesOK
<1> HIDE DEF row, c, n
<1>9. RowsOK'
  <2>1. \A r \in DOMAIN runs' : RowOK(history', fixed', runs'[r])
    BY <1>2, <1>3, <1>7 DEF IInv, RowsOK
  <2> DEFINE S == {runs'[r] : r \in DOMAIN runs'}
  <2>2. runs' \in Seq(S)
    <3>1. runs \in Seq(S) /\ row \in S
      <4>1. \A r \in DOMAIN runs : runs[r] \in S
        BY <1>2
      <4>2. {runs[r] : r \in DOMAIN runs} \subseteq S
        BY <4>1
      <4> HIDE DEF S
      <4>3. row \in S
        BY <1>2 DEF S
      <4> QED BY <4>2, <4>3, SeqMonotonic DEF IInv, RowsOK
    <3> HIDE DEF S
    <3> QED BY <1>1, <3>1, AppendProperties DEF row
  <2> QED BY <2>1, <2>2 DEF RowsOK
<1>10. CommandOK(bases', fixed', approved', runs', c)
  <2>1. RunnerOK(fixed, c, row)
    BY <1>5, <1>6 DEF RunnerOK
  <2>2. n + 1 \in DOMAIN runs' /\ runs'[n + 1] = row
    BY <1>2
  <2> QED BY <1>5, <1>7, <2>1, <2>2 DEF CommandOK, ReadPcs
<1>11. \A r \in DOMAIN runs : r \in DOMAIN runs' /\ RowExtends(runs[r], runs'[r]) /\ runs'[r] = runs[r]
  BY <1>2, RowExtendsItself
<1>12. c.run \notin DOMAIN runs
  BY <1>2, <1>5
<1> QED BY <1>5, <1>7, <1>8, <1>9, <1>10, <1>11, <1>12, ProcessStep

\* The documents a run attaches, and what each has to say.
Stored(fx, run, field, document) ==
  /\ field \in {"range", "executed", "ui", "protection", "triangle", "analytics"}
  /\ field \in {"range", "executed"} => document = TRUE
  /\ field = "ui" => \A doc \in document : UiSays(fx, run, doc)
  /\ field = "protection" => document = HeadSnapshot(run)
  /\ field = "triangle" => \A doc \in document : doc = TriangleOf(run)
  /\ field = "analytics" => \A doc \in document : Flakes(run) => doc.flaky # {}

LEMMA StoredRow ==
  ASSUME NEW hist, NEW fx, NEW run, RowOK(hist, fx, run), ~ run.whole,
         NEW field, NEW document, Stored(fx, run, field, document),
         NEW later, later = [run EXCEPT ![field] = document]
  PROVE  /\ RowOK(hist, fx, later) /\ RowExtends(run, later) /\ SameRun(run, later)
         /\ DOMAIN later = RowFields /\ later[field] = document
         /\ \A f \in RowFields : f # field => later[f] = run[f]
<1>1. /\ DOMAIN later = RowFields /\ field \in RowFields /\ later[field] = document
      /\ \A f \in RowFields : f # field => later[f] = run[f]
  BY DEF RowOK, Stored, RowFields
<1>2. /\ later.whole = run.whole /\ later.baseProtection = run.baseProtection
      /\ SameRun(run, later)
  BY <1>1 DEF Stored, RowFields, SameRun
<1>3. RowExtends(run, later)
  BY <1>2 DEF RowExtends
<1>4. RowOK(hist, fx, later)
  <2>1. /\ HeadSnapshot(later) = HeadSnapshot(run) /\ Flakes(later) = Flakes(run)
        /\ TriangleOf(later) = TriangleOf(run)
        /\ \A doc : UiSays(fx, later, doc) = UiSays(fx, run, doc)
    <3>1. SameRun(run, later)
      BY <1>2
    <3>2. HeadSnapshot(later) = HeadSnapshot(run)
      BY <3>1, SameRunSaysTheSame
    <3>3. Flakes(later) = Flakes(run)
      BY <3>1, SameRunSaysTheSame
    <3>4. \A doc : UiSays(fx, later, doc) = UiSays(fx, run, doc)
      BY <3>1, SameRunSaysTheSame
    <3>5. TriangleOf(later) = TriangleOf(run)
      BY <3>1, SameRunSaysTheSame
    <3> QED BY <3>2, <3>3, <3>4, <3>5
  <2>2. /\ later.content \in Content /\ later.outcome \in Outcome
        /\ PolicyIsSound(Sections[Facts[later.content].ui])
        /\ later.replayed => Facts[later.content].programs
        /\ \A t \in Loose : later.before[t] \subseteq hist[t]
    BY <1>2 DEF SameRun, RowOK
  <2>3. later.protection # None => later.protection = HeadSnapshot(later)
    BY <1>1, <2>1 DEF RowOK, RowFields, Stored
  <2>4. later.baseProtection # None =>
          \A f \in FlowsOf(later.baseProtection) :
            later.baseProtection.flows[f] = Facts[later.from].flows[f]
    BY <1>2 DEF RowOK, SameRun
  <2>5. \A doc \in later.ui : UiSays(fx, later, doc)
    <3>1. CASE field = "ui"
      BY <1>1, <2>1, <3>1 DEF Stored
    <3>2. CASE field # "ui"
      <4>1. later.ui = run.ui
        BY <1>1, <3>2 DEF RowFields
      <4> QED BY <2>1, <4>1 DEF RowOK
    <3> QED BY <3>1, <3>2
  <2>6. \A doc \in later.triangle : doc = TriangleOf(later)
    <3>1. CASE field = "triangle"
      BY <1>1, <2>1, <3>1 DEF Stored
    <3>2. CASE field # "triangle"
      <4>1. later.triangle = run.triangle
        BY <1>1, <3>2 DEF RowFields
      <4> QED BY <2>1, <4>1 DEF RowOK
    <3> QED BY <3>1, <3>2
  <2>7. \A doc \in later.analytics : Flakes(later) => doc.flaky # {}
    <3>1. CASE field = "analytics"
      BY <1>1, <2>1, <3>1 DEF Stored
    <3>2. CASE field # "analytics"
      <4>1. later.analytics = run.analytics
        BY <1>1, <3>2 DEF RowFields
      <4> QED BY <2>1, <4>1 DEF RowOK
    <3> QED BY <3>1, <3>2
  <2> QED BY <1>1, <1>2, <2>2, <2>3, <2>4, <2>5, <2>6, <2>7 DEF RowOK
<1> QED BY <1>1, <1>2, <1>3, <1>4

\* A run in progress attaches one document and goes on.
LEMMA StoreKeeps ==
  ASSUME IInv, NEW p \in Proc, cmd[p].pc \in RunPcs \ {"base", "proposal"},
         NEW field, NEW document, NEW next \in RunPcs \ {"base", "proposal"},
         Store(p, field, document, next), UNCHANGED memories,
         Stored(fixed, Own(p), field, document),
         \A later : /\ SameRun(Own(p), later) /\ later[field] = document
                    /\ \A f \in RowFields : f # field => later[f] = Own(p)[f]
                    /\ ~ later.whole
                    => RunnerOK(fixed, [cmd[p] EXCEPT !.pc = next], later)
  PROVE  IInv'
<1> DEFINE row == [Own(p) EXCEPT ![field] = document]
           c == [cmd[p] EXCEPT !.pc = next]
<1>1. /\ cmd[p].run \in DOMAIN runs /\ DOMAIN cmd[p] = CommandFields
      /\ RunnerOK(fixed, cmd[p], Own(p)) /\ RowOK(history, fixed, Own(p))
  BY RunnerHas
<1>2. ~ Own(p).whole
  BY <1>1 DEF RunnerOK
<1>3. /\ RowOK(history, fixed, row) /\ RowExtends(Own(p), row) /\ SameRun(Own(p), row)
      /\ DOMAIN row = RowFields /\ row[field] = document
      /\ \A f \in RowFields : f # field => row[f] = Own(p)[f]
  <2> DEFINE run == Own(p)
  <2>1. row = [run EXCEPT ![field] = document] /\ Stored(fixed, run, field, document)
          /\ RowOK(history, fixed, run) /\ ~ run.whole
    BY <1>1, <1>2
  <2> HIDE DEF run, row
  <2>2. /\ RowOK(history, fixed, row) /\ RowExtends(run, row) /\ SameRun(run, row)
        /\ DOMAIN row = RowFields /\ row[field] = document
        /\ \A f \in RowFields : f # field => row[f] = run[f]
    <3>1. RowOK(history, fixed, row)
      BY <2>1, StoredRow
    <3>2. RowExtends(run, row) /\ SameRun(run, row)
      BY <2>1, StoredRow
    <3>3. DOMAIN row = RowFields /\ row[field] = document
      BY <2>1 DEF RowOK, Stored, RowFields
    <3>4. \A f \in RowFields : f # field => row[f] = run[f]
      BY <2>1, StoredRow
    <3> QED BY <3>1, <3>2, <3>3, <3>4
  <2> QED BY <2>2 DEF run
<1>4. cmd' = [cmd EXCEPT ![p] = c] /\ runs' = [runs EXCEPT ![cmd[p].run] = row]
      /\ UNCHANGED <<head, base, bases, fixed, observed, history, approved>>
  BY DEF Store, Goto, Own, tree, memories
<1>5. c.pc = next /\ c.run = cmd[p].run /\ DOMAIN c = CommandFields
  BY <1>1 DEF CommandFields
<1>6. ~ row.whole
  BY <1>2, <1>3 DEF Stored, RowFields
<1>7. RunnerOK(fixed, c, row)
  BY <1>3, <1>6
<1>8. \A t \in Loose : history[t] \subseteq {"pass", "fail"}
  BY DEF IInv, MemoriesOK
<1> HIDE DEF row, c, IInv
<1> QED BY <1>3, <1>4, <1>5, <1>7, <1>8, RunningStep DEF Own

LEMMA StoreRangeKeeps ==
  ASSUME IInv, NEW p \in Proc, StoreRange(p)
  PROVE  IInv'
<1>1. /\ DOMAIN cmd[p] = CommandFields /\ cmd[p].pc = "range"
      /\ RunnerOK(fixed, cmd[p], Own(p))
  BY RunnerHas DEF StoreRange, RunPcs
<1>2. Stored(fixed, Own(p), "range", TRUE)
  BY DEF Stored
<1>3. ASSUME NEW later, SameRun(Own(p), later), later["range"] = TRUE, ~ later.whole,
             \A f \in RowFields : f # "range" => later[f] = Own(p)[f]
      PROVE  RunnerOK(fixed, [cmd[p] EXCEPT !.pc = "execution"], later)
  <2>1. later.baseProtection = Own(p).baseProtection
    BY <1>3 DEF RowFields
  <2> QED BY <1>1, <1>3, <2>1 DEF RunnerOK, SameRun, CommandFields
<1> HIDE DEF IInv
<1> QED BY <1>1, <1>2, <1>3, StoreKeeps DEF StoreRange, RunPcs

LEMMA StoreExecutionKeeps ==
  ASSUME IInv, NEW p \in Proc, StoreExecution(p)
  PROVE  IInv'
<1> DEFINE next == IF HasUi(Own(p).content) THEN "ratchet" ELSE "protection"
<1>1. /\ DOMAIN cmd[p] = CommandFields /\ cmd[p].pc = "execution"
      /\ RunnerOK(fixed, cmd[p], Own(p))
  BY RunnerHas DEF StoreExecution, RunPcs
<1>2. Stored(fixed, Own(p), "executed", TRUE)
  BY DEF Stored
<1>3. ASSUME NEW later, SameRun(Own(p), later), later["executed"] = TRUE, ~ later.whole,
             \A f \in RowFields : f # "executed" => later[f] = Own(p)[f]
      PROVE  RunnerOK(fixed, [cmd[p] EXCEPT !.pc = next], later)
  <2>1. /\ later.baseProtection = Own(p).baseProtection /\ later.range = Own(p).range
        /\ later.content = Own(p).content
    BY <1>3 DEF RowFields
  <2> QED BY <1>1, <1>3, <2>1 DEF RunnerOK, SameRun, CommandFields
<1>4. next \in RunPcs \ {"base", "proposal"}
  BY DEF RunPcs
<1>5. Store(p, "executed", TRUE, next) /\ UNCHANGED memories
  BY DEF StoreExecution
<1> HIDE DEF IInv, next
<1> QED BY <1>1, <1>2, <1>3, <1>4, <1>5, StoreKeeps DEF RunPcs

LEMMA StoreUiKeeps ==
  ASSUME IInv, NEW p \in Proc, StoreUi(p)
  PROVE  IInv'
<1> DEFINE document == {cmd[p].kept.ui}
<1>1. /\ DOMAIN cmd[p] = CommandFields /\ cmd[p].pc = "ui"
      /\ RunnerOK(fixed, cmd[p], Own(p))
  BY RunnerHas DEF StoreUi, RunPcs
<1>2. Stored(fixed, Own(p), "ui", document)
  BY <1>1 DEF Stored, RunnerOK
<1>3. ASSUME NEW later, SameRun(Own(p), later), later["ui"] = document, ~ later.whole,
             \A f \in RowFields : f # "ui" => later[f] = Own(p)[f]
      PROVE  RunnerOK(fixed, [cmd[p] EXCEPT !.pc = "protection"], later)
  <2>1. /\ later.baseProtection = Own(p).baseProtection /\ later.range = Own(p).range
        /\ later.executed = Own(p).executed /\ later.ui # {}
    BY <1>3 DEF RowFields
  <2> QED BY <1>1, <1>3, <2>1 DEF RunnerOK, SameRun, CommandFields
<1>5. Store(p, "ui", document, "protection") /\ UNCHANGED memories
  BY DEF StoreUi
<1> HIDE DEF IInv, document
<1> QED BY <1>1, <1>2, <1>3, <1>5, StoreKeeps DEF RunPcs

LEMMA StoreProtectionKeeps ==
  ASSUME IInv, NEW p \in Proc, StoreProtection(p)
  PROVE  IInv'
<1> DEFINE document == HeadSnapshot(Own(p))
           next == IF Facts[Own(p).content].programs THEN "triangle" ELSE "failures"
<1>1. /\ DOMAIN cmd[p] = CommandFields /\ cmd[p].pc = "protection"
      /\ RunnerOK(fixed, cmd[p], Own(p))
  BY RunnerHas DEF StoreProtection, RunPcs
<1>2. Stored(fixed, Own(p), "protection", document)
  BY DEF Stored
<1>3. ASSUME NEW later, SameRun(Own(p), later), later["protection"] = document, ~ later.whole,
             \A f \in RowFields : f # "protection" => later[f] = Own(p)[f]
      PROVE  RunnerOK(fixed, [cmd[p] EXCEPT !.pc = next], later)
  <2>1. /\ later.baseProtection = Own(p).baseProtection /\ later.range = Own(p).range
        /\ later.executed = Own(p).executed /\ later.ui = Own(p).ui
        /\ later.content = Own(p).content
    BY <1>3 DEF RowFields
  <2>2. later.protection = HeadSnapshot(later)
    BY <1>3, SameRunSaysTheSame
  <2> HIDE DEF document
  <2> QED BY <1>1, <1>3, <2>1, <2>2 DEF RunnerOK, SameRun, CommandFields
<1>4. next \in RunPcs \ {"base", "proposal"}
  BY DEF RunPcs
<1>5. Store(p, "protection", document, next) /\ UNCHANGED memories
  BY DEF StoreProtection
<1> HIDE DEF IInv, document, next
<1> QED BY <1>1, <1>2, <1>3, <1>4, <1>5, StoreKeeps DEF RunPcs

LEMMA StoreTriangleKeeps ==
  ASSUME IInv, NEW p \in Proc, StoreTriangle(p)
  PROVE  IInv'
<1> DEFINE document == {TriangleOf(Own(p))}
<1>1. /\ DOMAIN cmd[p] = CommandFields /\ cmd[p].pc = "triangle"
      /\ RunnerOK(fixed, cmd[p], Own(p))
  BY RunnerHas DEF StoreTriangle, RunPcs
<1>2. Stored(fixed, Own(p), "triangle", document)
  BY DEF Stored
<1>3. ASSUME NEW later, SameRun(Own(p), later), later["triangle"] = document, ~ later.whole,
             \A f \in RowFields : f # "triangle" => later[f] = Own(p)[f]
      PROVE  RunnerOK(fixed, [cmd[p] EXCEPT !.pc = "failures"], later)
  <2>1. /\ later.baseProtection = Own(p).baseProtection /\ later.range = Own(p).range
        /\ later.executed = Own(p).executed /\ later.ui = Own(p).ui
        /\ later.content = Own(p).content /\ later.protection = Own(p).protection
        /\ later.triangle # {}
    BY <1>3 DEF RowFields
  <2>2. HeadSnapshot(later) = HeadSnapshot(Own(p))
    BY <1>3, SameRunSaysTheSame
  <2> HIDE DEF document
  <2> QED BY <1>1, <1>3, <2>1, <2>2 DEF RunnerOK, SameRun, CommandFields
<1>5. Store(p, "triangle", document, "failures") /\ UNCHANGED memories
  BY DEF StoreTriangle, TriangleOf
<1> HIDE DEF IInv, document
<1> QED BY <1>1, <1>2, <1>3, <1>5, StoreKeeps DEF RunPcs

LEMMA StoreAnalyticsKeeps ==
  ASSUME IInv, NEW p \in Proc, StoreAnalytics(p)
  PROVE  IInv'
<1> DEFINE document == {cmd[p].kept}
<1>1. /\ DOMAIN cmd[p] = CommandFields /\ cmd[p].pc = "analytics"
      /\ RunnerOK(fixed, cmd[p], Own(p))
  BY RunnerHas DEF StoreAnalytics, RunPcs
<1>2. Stored(fixed, Own(p), "analytics", document)
  BY <1>1 DEF Stored, RunnerOK
<1>3. ASSUME NEW later, SameRun(Own(p), later), later["analytics"] = document, ~ later.whole,
             \A f \in RowFields : f # "analytics" => later[f] = Own(p)[f]
      PROVE  RunnerOK(fixed, [cmd[p] EXCEPT !.pc = "finish"], later)
  <2>1. /\ later.baseProtection = Own(p).baseProtection /\ later.range = Own(p).range
        /\ later.executed = Own(p).executed /\ later.ui = Own(p).ui
        /\ later.content = Own(p).content /\ later.protection = Own(p).protection
        /\ later.triangle = Own(p).triangle /\ later.analytics # {}
    BY <1>3 DEF RowFields
  <2>2. HeadSnapshot(later) = HeadSnapshot(Own(p))
    BY <1>3, SameRunSaysTheSame
  <2> HIDE DEF document
  <2> QED BY <1>1, <1>3, <2>1, <2>2 DEF RunnerOK, SameRun, CommandFields
<1>5. Store(p, "analytics", document, "finish") /\ UNCHANGED memories
  BY DEF StoreAnalytics
<1> HIDE DEF IInv, document
<1> QED BY <1>1, <1>2, <1>3, <1>5, StoreKeeps DEF RunPcs

-----------------------------------------------------------------------------
(* Whole numbers. *)

\* A finite set of whole numbers that has a member has a least and a greatest one.
LEMMA FiniteHasEnds ==
  ASSUME NEW S, IsFiniteSet(S), S \subseteq Int, S # {}
  PROVE  /\ Min(S) \in S /\ \A k \in S : Min(S) <= k
         /\ Max(S) \in S /\ \A k \in S : k <= Max(S)
<1> DEFINE Ended(T) == /\ \E x \in T : \A y \in T : x <= y
                       /\ \E x \in T : \A y \in T : x >= y
           Endless == {n \in Nat : \E T \in SUBSET S :
                          T # {} /\ Cardinality(T) = n /\ ~Ended(T)}
<1>1. ASSUME Endless # {} PROVE FALSE
  <2>1. PICK n \in Endless : \A m \in Endless : n <= m
    BY <1>1, LeastOfNaturals
  <2>2. PICK T \in SUBSET S : T # {} /\ Cardinality(T) = n /\ ~Ended(T)
    BY <2>1
  <2>3. PICK x \in T : TRUE
    BY <2>2
  <2> DEFINE U == T \ {x}
  <2>4. IsFiniteSet(T) /\ x \in Int /\ T \subseteq Int
    BY <2>3, FS_Subset
  <2>5. IsFiniteSet(U) /\ Cardinality(U) = n - 1 /\ Cardinality(U) \in Nat
    BY <2>2, <2>3, <2>4, FS_RemoveElement, FS_CardinalityType
  <2>6. CASE U = {}
    <3>1. \A y \in T : y = x
      BY <2>6
    <3> QED BY <2>2, <2>3, <2>4, <3>1
  <2>7. CASE U # {}
    <3>1. Ended(U)
      <4>1. n - 1 \notin Endless
        BY <2>1
      <4> HIDE DEF Ended
      <4> QED BY <2>5, <2>7, <4>1
    <3>2. PICK low \in U : \A y \in U : low <= y
      BY <3>1
    <3>3. PICK high \in U : \A y \in U : high >= y
      BY <3>1
    <3>4. \A y \in T : y = x \/ y \in U
      OBVIOUS
    <3>5. \E l \in T : \A y \in T : l <= y
      <4>1. CASE x <= low
        BY <2>3, <2>4, <3>2, <3>4, <4>1
      <4>2. CASE low <= x
        BY <2>4, <3>2, <3>4, <4>2
      <4> QED BY <2>4, <3>2, <4>1, <4>2
    <3>6. \E h \in T : \A y \in T : h >= y
      <4>1. CASE x >= high
        BY <2>3, <2>4, <3>3, <3>4, <4>1
      <4>2. CASE high >= x
        BY <2>4, <3>3, <3>4, <4>2
      <4> QED BY <2>4, <3>3, <4>1, <4>2
    <3> QED BY <2>2, <3>5, <3>6
  <2> QED BY <2>6, <2>7
<1>2. Ended(S)
  <2>1. Cardinality(S) \in Nat /\ S \in SUBSET S
    BY FS_CardinalityType
  <2> HIDE DEF Ended
  <2> QED BY <1>1, <2>1
<1>3. \A x, y \in S : x >= y <=> y <= x
  OBVIOUS
<1> QED BY <1>2, <1>3 DEF Min, Max

\* What a function makes of a finite set has ends, and they are taken.
LEMMA MeasuresHaveEnds ==
  ASSUME NEW S, IsFiniteSet(S), S # {}, NEW f \in [S -> Int]
  PROVE  /\ Min({f[r] : r \in S}) \in Int
         /\ Max({f[r] : r \in S}) \in Int
         /\ \E r \in S : f[r] = Max({f[q] : q \in S})
<1> DEFINE T == {f[r] : r \in S}
<1>1. f \in Surjection(S, T)
  BY DEF Surjection
<1>2. IsFiniteSet(T) /\ T \subseteq Int /\ T # {}
  BY <1>1, FS_Surjection
<1> HIDE DEF T
<1>3. Min(T) \in T /\ Max(T) \in T
  BY <1>2, FiniteHasEnds
<1> QED BY <1>2, <1>3 DEF T

-----------------------------------------------------------------------------
(* The search for widths. *)

\* The plan is of finitely many widths of the range.
LEMMA SeedsAreWidths ==
  ASSUME NEW content, PolicyIsSound(Sections[Facts[content].ui]), NEW breakpoints
  PROVE  LET plan == Seeds(UiPolicy(content).responsive, breakpoints)
         IN  plan \subseteq Int /\ IsFiniteSet(plan)
<1> DEFINE responsive == UiPolicy(content).responsive
           range == responsive.min..responsive.max
           plan == Seeds(responsive, breakpoints)
<1>1. responsive.min \in 1..MaxWidth /\ responsive.max \in 1..MaxWidth
      /\ responsive.min < responsive.max
  BY DEF UiPolicy, Policy, PolicyIsSound
<1>2. responsive.min \in Int /\ responsive.max \in Int /\ {responsive.min, responsive.max} \subseteq range
  BY <1>1
<1> HIDE DEF responsive
<1>3. plan \subseteq range
  BY <1>2 DEF Seeds
<1>4. IsFiniteSet(range) /\ range \subseteq Int
  BY <1>2, FS_Interval
<1> HIDE DEF plan, range
<1>5. plan \subseteq Int /\ IsFiniteSet(plan)
  BY <1>3, <1>4, FS_Subset
<1> QED BY <1>5 DEF plan, responsive

\* What is asked for next is a whole number.
LEMMA NextProbeIsNumber ==
  ASSUME NEW limit, NEW probes, IsFiniteSet(DOMAIN probes), DOMAIN probes \subseteq Int
  PROVE  NextProbe(limit, probes) \subseteq Int
<1> DEFINE gaps == Open(probes)
           size == [g \in gaps |-> g[2] - g[1]]
           sizes == {g[2] - g[1] : g \in gaps}
           chosen == {h \in gaps : h[2] - h[1] = Max(sizes)}
           left == [g \in chosen |-> g[1]]
           lefts == {g[1] : g \in chosen}
<1>1. SUFFICES ASSUME gaps # {} PROVE Min(lefts) + Max(sizes) \div 2 \in Int
  BY DEF NextProbe
<1>2. IsFiniteSet(gaps) /\ \A g \in gaps : g[1] \in Int /\ g[2] \in Int
  <2>1. gaps \subseteq (DOMAIN probes) \X (DOMAIN probes)
    BY DEF Open, Neighbours
  <2>2. IsFiniteSet((DOMAIN probes) \X (DOMAIN probes))
    BY FS_Product
  <2> HIDE DEF gaps
  <2> QED BY <2>1, <2>2, FS_Subset
<1> HIDE DEF gaps
<1>3. IsFiniteSet(sizes) /\ sizes \subseteq Int /\ sizes # {}
  <2>1. size \in Surjection(gaps, sizes)
    BY DEF Surjection
  <2> QED BY <1>1, <1>2, <2>1, FS_Surjection
<1>4. Max(sizes) \in Int /\ \E g \in gaps : g[2] - g[1] = Max(sizes)
  <2> HIDE DEF sizes
  <2>1. Max(sizes) \in sizes
    BY <1>3, FiniteHasEnds
  <2> QED BY <1>3, <2>1 DEF sizes
<1> HIDE DEF sizes
<1>5. chosen # {} /\ IsFiniteSet(chosen)
  BY <1>2, <1>4, FS_Subset
<1>6. IsFiniteSet(lefts) /\ lefts \subseteq Int /\ lefts # {}
  <2>1. left \in Surjection(chosen, lefts)
    BY DEF Surjection
  <2>2. chosen \subseteq gaps
    OBVIOUS
  <2> QED BY <1>2, <1>5, <2>1, <2>2, FS_Surjection
<1> HIDE DEF lefts
<1>7. Min(lefts) \in Int
  BY <1>6, FiniteHasEnds
<1> QED BY <1>4, <1>7

\* Nothing is asked for only when every gap is shut or the number of probes is spent.
LEMMA NothingLeftToProbe ==
  ASSUME NEW limit, NEW probes, NextProbe(limit, probes) = {}
  PROVE  Cardinality(DOMAIN probes) >= limit \/ Open(probes) = {}
<1> DEFINE widest == Max({g[2] - g[1] : g \in Open(probes)})
           middle == Min({g[1] : g \in {h \in Open(probes) : h[2] - h[1] = widest}})
                       + widest \div 2
<1>1. NextProbe(limit, probes) = IF Cardinality(DOMAIN probes) >= limit \/ Open(probes) = {}
                                 THEN {} ELSE {middle}
  BY DEF NextProbe
<1> HIDE DEF middle
<1> QED BY <1>1

LEMMA NextWidthIsNumber ==
  ASSUME NEW p, cmd[p].kept.plan \subseteq Int, IsFiniteSet(cmd[p].kept.plan),
         ProbesOK(Own(p), cmd[p].kept)
  PROVE  NextWidth(p) \subseteq Int
<1> DEFINE left == cmd[p].kept.plan \ DOMAIN cmd[p].kept.probes
<1>1. CASE left # {}
  <2>1. IsFiniteSet(left) /\ left \subseteq Int
    BY FS_Subset
  <2> HIDE DEF left
  <2>2. Min(left) \in Int
    BY <1>1, <2>1, FiniteHasEnds
  <2> QED BY <1>1, <2>2 DEF NextWidth, left
<1>2. CASE left = {}
  BY <1>2, NextProbeIsNumber DEF NextWidth, ProbesOK
<1> QED BY <1>1, <1>2

\* A comparison with a side nobody could measure is incomplete.
LEMMA NothingIsIncomplete ==
  ASSUME NEW from, NEW old, NEW policy
  PROVE  Incomplete(Delta(from, NothingSeen, old, policy))
BY DEF Incomplete, Delta, NothingSeen

-----------------------------------------------------------------------------
(* The run compares base and head. *)

\* A run in progress that leaves its row alone.
LEMMA RunningQuietly ==
  ASSUME IInv, NEW p \in Proc, cmd[p].pc \in RunPcs,
         NEW c, cmd' = [cmd EXCEPT ![p] = c],
         UNCHANGED <<head, base, bases, runs, observed, history, approved>>,
         fixed \subseteq fixed',
         DOMAIN c = CommandFields, c.pc \in RunPcs, c.run = cmd[p].run,
         RunnerOK(fixed', c, Own(p))
  PROVE  IInv'
<1> DEFINE row == Own(p)
<1>1. RowOK(history, fixed, row) /\ cmd[p].run \in DOMAIN runs
  BY RunnerHas
<1>2. RowOK(history', fixed', row)
  BY <1>1, RowGrows
<1>3. \A t \in Loose : history[t] \subseteq {"pass", "fail"}
  BY DEF IInv, MemoriesOK
<1>4. runs \in Seq({runs[s] : s \in DOMAIN runs})
  BY DEF IInv, RowsOK
<1>5. runs' = [runs EXCEPT ![cmd[p].run] = row]
  BY <1>1, <1>4 DEF Own
<1>6. RowExtends(runs[cmd[p].run], row)
  BY RowExtendsItself DEF Own
<1> HIDE DEF IInv, row
<1> QED BY <1>2, <1>3, <1>5, <1>6, RunningStep DEF row

\* The document of the comparison is made, and what it saw fixed is remembered.
LEMMA RatchetedKeeps ==
  ASSUME IInv, NEW p \in Proc, cmd[p].pc \in {"ratchet", "probe"},
         NEW delta, IsDelta(fixed, Own(p), delta),
         NEW search, Keyed(search.intervals), SearchOK(Own(p), search),
         Ratcheted(p, delta, search)
  PROVE  IInv'
<1> DEFINE kept == [ui |-> Document(delta, search.intervals, search.cut), search |-> search]
           c == [cmd[p] EXCEPT !.pc = "ui", !.kept = kept]
<1>1. /\ DOMAIN cmd[p] = CommandFields /\ cmd[p].pc \in RunPcs
      /\ RunnerOK(fixed, cmd[p], Own(p))
  BY RunnerHas DEF RunPcs
<1>2. /\ cmd' = [cmd EXCEPT ![p] = c] /\ fixed \subseteq fixed'
      /\ UNCHANGED <<head, base, bases, runs, observed, history, approved>>
  BY DEF Ratcheted, tree
<1>3. /\ DOMAIN c = CommandFields /\ c.pc = "ui" /\ c.kept = kept
      /\ c.run = cmd[p].run /\ c.from = cmd[p].from
  BY <1>1 DEF CommandFields
<1>4. UiSays(fixed', Own(p), kept.ui)
  <2>1. UiSays(fixed, Own(p), Document(delta, search.intervals, search.cut))
    BY DocumentSays
  <2> QED BY <1>2, <2>1, UiSaysGrows
<1>6. SearchOK(Own(p), kept.search)
  OBVIOUS
<1> HIDE DEF kept, c
<1>5. RunnerOK(fixed', c, Own(p))
  BY <1>1, <1>3, <1>4, <1>6 DEF RunnerOK
<1> QED BY <1>1, <1>2, <1>3, <1>5, RunningQuietly DEF RunPcs

LEMMA DefaultDeltaIsDelta ==
  ASSUME NEW run, NEW from \in BaseAt(run, DefaultWidth),
         NEW to \in HeadAt(run, run.content, DefaultWidth)
  PROVE  IsDelta(fixed, run, DefaultDelta(run, from, to))
<1>1. \A f \in BaseAt(run, DefaultWidth), t \in HeadAt(run, run.content, DefaultWidth) :
        f = from /\ t = to
  BY DEF BaseAt, HeadAt
<1>2. \A f \in BaseAt(run, DefaultWidth), t \in HeadAt(run, run.content, DefaultWidth) :
        DefaultDelta(run, from, to) = Delta(f, t, fixed, UiPolicy(run.content))
  BY <1>1 DEF DefaultDelta
<1> QED BY <1>2 DEF IsDelta

LEMMA NoSearchIsKeyed == Keyed(NoSearch.intervals) /\ \A run : SearchOK(run, NoSearch)
BY DEF Keyed, NoSearch, SearchOK

LEMMA RatchetKeeps ==
  ASSUME IInv, NEW p \in Proc, Ratchet(p)
  PROVE  IInv'
<1>1. PICK from \in BaseAt(Own(p), DefaultWidth),
           to \in HeadAt(Own(p), Own(p).content, DefaultWidth) :
        Ratcheted(p, DefaultDelta(Own(p), from, to), NoSearch)
  BY DEF Ratchet
<1>2. IsDelta(fixed, Own(p), DefaultDelta(Own(p), from, to))
  BY DefaultDeltaIsDelta
<1> HIDE DEF IInv
<1> QED BY <1>1, <1>2, NoSearchIsKeyed, RatchetedKeeps DEF Ratchet

LEMMA StartSearchKeeps ==
  ASSUME IInv, NEW p \in Proc, StartSearch(p)
  PROVE  IInv'
<1>1. PICK from \in BaseAt(Own(p), DefaultWidth),
           to \in HeadAt(Own(p), Own(p).content, DefaultWidth) :
     \E breakpoints \in {from.breakpoints \cup to.breakpoints},
        responsive \in {UiPolicy(Own(p).content).responsive} :
       cmd' = [cmd EXCEPT ![p].pc = "probe",
                 ![p].kept = [delta |-> DefaultDelta(Own(p), from, to), fixed |-> fixed,
                              plan |-> Seeds(responsive, breakpoints),
                              cut |-> \/ PlanIsCut(responsive, breakpoints)
                                      \/ from.blind \/ to.blind,
                              probes |-> << >>, trees |-> {}]]
  BY DEF StartSearch
<1>2. PICK plan, cut :
        /\ plan \subseteq Int /\ IsFiniteSet(plan)
        /\ cmd' = [cmd EXCEPT ![p].pc = "probe",
                     ![p].kept = [delta |-> DefaultDelta(Own(p), from, to), fixed |-> fixed,
                                  plan |-> plan, cut |-> cut, probes |-> << >>, trees |-> {}]]
  <2> DEFINE plan == Seeds(UiPolicy(Own(p).content).responsive, from.breakpoints \cup to.breakpoints)
  <2>1. plan \subseteq Int /\ IsFiniteSet(plan)
    BY SeedsAreWidths, RunnerHas DEF RowOK, RunPcs, StartSearch
  <2> HIDE DEF plan
  <2> QED BY <1>1, <2>1 DEF plan
<1> DEFINE kept == [delta |-> DefaultDelta(Own(p), from, to), fixed |-> fixed,
                    plan |-> plan, cut |-> cut, probes |-> << >>, trees |-> {}]
           c == [cmd[p] EXCEPT !.pc = "probe", !.kept = kept]
<1>3. /\ DOMAIN cmd[p] = CommandFields /\ cmd[p].pc = "ratchet"
      /\ RunnerOK(fixed, cmd[p], Own(p))
  BY RunnerHas DEF RunPcs, StartSearch
<1>4. cmd' = [cmd EXCEPT ![p] = c]
  BY <1>2
<1>5. /\ DOMAIN c = CommandFields /\ c.pc = "probe" /\ c.kept = kept
      /\ c.run = cmd[p].run /\ c.from = cmd[p].from
  BY <1>3 DEF CommandFields
<1>6. IsDelta(fixed, Own(p), kept.delta)
  BY DefaultDeltaIsDelta
<1>7. DOMAIN kept = SearchFields /\ kept.plan \subseteq Int /\ IsFiniteSet(kept.plan)
  BY <1>2 DEF SearchFields
<1>10. ProbesOK(Own(p), kept)
  BY FS_EmptySet DEF ProbesOK
<1> HIDE DEF kept, c
<1>8. RunnerOK(fixed, c, Own(p))
  BY <1>3, <1>5, <1>6, <1>7, <1>10 DEF RunnerOK
<1>9. UNCHANGED <<head, base, bases, runs, observed, history, approved, fixed>>
  BY DEF StartSearch, tree, memories
<1> QED BY <1>3, <1>4, <1>5, <1>8, <1>9, RunningQuietly DEF RunPcs

LEMMA ProbeKeeps ==
  ASSUME IInv, NEW p \in Proc, Probe(p)
  PROVE  IInv'
<1> DEFINE run == Own(p)
           old == cmd[p].kept
<1>1. /\ DOMAIN cmd[p] = CommandFields /\ cmd[p].pc = "probe"
      /\ RunnerOK(fixed, cmd[p], run)
  BY RunnerHas DEF RunPcs, Probe
<1>2. /\ DOMAIN old = SearchFields /\ IsDelta(fixed, run, old.delta)
      /\ old.plan \subseteq Int /\ IsFiniteSet(old.plan) /\ ProbesOK(run, old)
  BY <1>1 DEF RunnerOK
<1>3. NextWidth(p) \subseteq Int
  BY <1>2, NextWidthIsNumber
<1>4. PICK width, value :
        /\ width \in Int
        /\ cmd' = [cmd EXCEPT ![p].kept.probes = Probed(@, width, value),
                              ![p].kept.trees = @ \cup {head}]
        /\ \/ Incomplete(value)
           \/ \E from \in BaseAt(run, width), to \in HeadAt(run, head, width) :
                value = Delta(from, to, old.fixed, UiPolicy(run.content))
  <2> DEFINE Attempt(from, to, failed, k) ==
               Delta(from, IF k <= failed THEN NothingSeen ELSE to,
                     cmd[p].kept.fixed, UiPolicy(Own(p).content))
  <2>1. PICK w \in NextWidth(p) :
          \E failed \in Wobbles[w], from \in BaseAt(Own(p), w), to \in HeadAt(Own(p), head, w) :
             cmd' = [cmd EXCEPT
               ![p].kept.probes = Probed(@, w, Retried(Attempt(from, to, failed, 1),
                                                     Attempt(from, to, failed, 2))),
               ![p].kept.trees = @ \cup {head}]
    BY DEF Probe
  <2>2. \A from, to, failed, k :
          \/ Incomplete(Attempt(from, to, failed, k))
          \/ Attempt(from, to, failed, k) = Delta(from, to, old.fixed, UiPolicy(run.content))
    BY NothingIsIncomplete
  <2> HIDE DEF Attempt
  <2>3. PICK failed \in Wobbles[w], from \in BaseAt(Own(p), w), to \in HeadAt(Own(p), head, w) :
             cmd' = [cmd EXCEPT
               ![p].kept.probes = Probed(@, w, Retried(Attempt(from, to, failed, 1),
                                                     Attempt(from, to, failed, 2))),
               ![p].kept.trees = @ \cup {head}]
    BY <2>1
  <2> DEFINE value == Retried(Attempt(from, to, failed, 1), Attempt(from, to, failed, 2))
  <2>4. Incomplete(value) \/ value = Delta(from, to, old.fixed, UiPolicy(run.content))
    <3>1. value = Attempt(from, to, failed, 1) \/ value = Attempt(from, to, failed, 2)
      BY DEF Retried
    <3> HIDE DEF value
    <3> QED BY <2>2, <3>1
  <2> HIDE DEF value
  <2>5. cmd' = [cmd EXCEPT ![p].kept.probes = Probed(@, w, value), ![p].kept.trees = @ \cup {head}]
    BY <2>3 DEF value
  <2> QED BY <1>3, <2>4, <2>5
<1> DEFINE kept == [old EXCEPT !.probes = Probed(@, width, value), !.trees = @ \cup {head}]
           c == [cmd[p] EXCEPT !.kept = kept]
<1>5. /\ DOMAIN kept = DOMAIN old /\ kept.delta = old.delta /\ kept.plan = old.plan
      /\ kept.fixed = old.fixed /\ kept.trees = old.trees \cup {head}
      /\ kept.probes = Probed(old.probes, width, value)
  BY <1>2 DEF SearchFields
<1>6. /\ DOMAIN c = CommandFields /\ c.pc = "probe" /\ c.kept = kept
      /\ c.run = cmd[p].run /\ c.from = cmd[p].from
  BY <1>1 DEF CommandFields
<1>7. cmd' = [cmd EXCEPT ![p] = c]
  BY <1>4, <1>1 DEF IInv, CommandsOK, CommandFields
<1> HIDE DEF kept
<1>8. ProbesOK(run, kept)
  <2>1. /\ DOMAIN kept.probes = DOMAIN old.probes \cup {width}
        /\ \A w \in DOMAIN old.probes : w # width => kept.probes[w] = old.probes[w]
        /\ kept.probes[width] = value
    BY <1>5 DEF Probed
  <2>2. /\ IsFiniteSet(DOMAIN kept.probes) /\ DOMAIN kept.probes \subseteq Int
        /\ IsFiniteSet(kept.trees)
    <3>1. IsFiniteSet(DOMAIN old.probes) /\ DOMAIN old.probes \subseteq Int /\ IsFiniteSet(old.trees)
      BY <1>2 DEF ProbesOK
    <3>2. IsFiniteSet(DOMAIN kept.probes) /\ IsFiniteSet(kept.trees)
      BY <1>5, <2>1, <3>1, FS_AddElement
    <3>3. DOMAIN kept.probes \subseteq Int
      BY <1>4, <2>1, <3>1
    <3> QED BY <3>2, <3>3
  <2>3. ASSUME NEW w \in DOMAIN kept.probes
        PROVE  \/ Incomplete(kept.probes[w])
               \/ \E t \in kept.trees : \E from \in BaseAt(run, w), to \in HeadAt(run, t, w) :
                    kept.probes[w] = Delta(from, to, kept.fixed, UiPolicy(run.content))
    <3>1. CASE w # width
      BY <1>2, <1>5, <2>1, <3>1 DEF ProbesOK
    <3>2. CASE w = width
      <4>1. w = width /\ kept.probes[w] = value /\ head \in kept.trees
        BY <1>5, <2>1, <2>3, <3>2
      <4> QED BY <1>4, <1>5, <4>1
    <3> QED BY <3>1, <3>2
  <2> QED BY <2>2, <2>3 DEF ProbesOK
<1> HIDE DEF c
<1>9. RunnerOK(fixed, c, run)
  BY <1>1, <1>2, <1>5, <1>6, <1>8 DEF RunnerOK
<1>10. UNCHANGED <<head, base, bases, runs, observed, history, approved, fixed>>
  BY DEF Probe, tree, memories
<1> HIDE DEF IInv
<1> QED BY <1>1, <1>6, <1>7, <1>9, <1>10, RunningQuietly DEF RunPcs

LEMMA EndSearchKeeps ==
  ASSUME IInv, NEW p \in Proc, EndSearch(p) \/ CancelSearch(p)
  PROVE  IInv'
<1>1. /\ cmd[p].pc = "probe"
      /\ IsDelta(fixed, Own(p), cmd[p].kept.delta)
      /\ ProbesOK(Own(p), cmd[p].kept)
  BY RunnerHas DEF RunPcs, EndSearch, CancelSearch, RunnerOK
<1>2. PICK search : /\ Keyed(search.intervals) /\ SearchOK(Own(p), search)
                    /\ Ratcheted(p, cmd[p].kept.delta, search)
  <2>1. CASE CancelSearch(p)
    BY <2>1, NoSearchIsKeyed DEF CancelSearch
  <2>2. CASE EndSearch(p)
    <3> DEFINE probes == cmd[p].kept.probes
               search == [trees |-> cmd[p].kept.trees, fixed |-> cmd[p].kept.fixed,
                          probes |-> probes,
                          intervals |-> Intervals(UiPolicy(Own(p).content).responsive, probes),
                          cut |-> cmd[p].kept.cut \/ SearchIsCut(probes)]
    <3>1. Ratcheted(p, cmd[p].kept.delta, search)
      BY <2>2 DEF EndSearch
    <3>2. Keyed(search.intervals)
      BY IntervalsKeyed
    <3>3. SearchOK(Own(p), search)
      <4>1. ProbesOK(Own(p), search)
        BY <1>1 DEF ProbesOK
      <4>2. CASE SearchIsCut(probes)
        BY <4>2 DEF SearchOK
      <4>3. CASE ~SearchIsCut(probes)
        BY <4>1, <4>3 DEF SearchOK, SearchIsCut
      <4> QED BY <4>2, <4>3
    <3> HIDE DEF search
    <3> QED BY <3>1, <3>2, <3>3
  <2> QED BY <2>1, <2>2
<1> HIDE DEF IInv
<1> QED BY <1>1, <1>2, RatchetedKeeps

LEMMA RecordFailuresKeeps ==
  ASSUME IInv, NEW p \in Proc, RecordFailures(p)
  PROVE  IInv'
<1> DEFINE run == Own(p)
           after == [t \in Loose |-> IF t \in Facts[run.content].loose
                                     THEN history[t] \cup {CaseStatus(run, t)}
                                     ELSE history[t]]
           kept == [unknown |-> run.failing \ known,
                    flaky |-> {t \in Facts[run.content].loose : after[t] = {"pass", "fail"}}]
           c == [cmd[p] EXCEPT !.pc = "analytics", !.kept = kept]
<1>1. /\ DOMAIN cmd[p] = CommandFields /\ cmd[p].pc = "failures" /\ cmd[p].run \in DOMAIN runs
      /\ RunnerOK(fixed, cmd[p], run) /\ RowOK(history, fixed, run)
  BY RunnerHas DEF RunPcs, RecordFailures
<1>2. /\ cmd' = [cmd EXCEPT ![p] = c] /\ history' = after
      /\ UNCHANGED <<head, base, bases, runs, observed, fixed, approved>>
  BY DEF RecordFailures, tree
<1>3. /\ DOMAIN c = CommandFields /\ c.pc = "analytics" /\ c.kept = kept
      /\ c.run = cmd[p].run /\ c.from = cmd[p].from
  BY <1>1 DEF CommandFields
<1>4. \A t \in Loose : /\ history[t] \subseteq after[t]
                       /\ after[t] \subseteq {"pass", "fail"}
  BY DEF IInv, MemoriesOK, CaseStatus
<1>5. ASSUME Flakes(run)
      PROVE  kept.flaky # {}
  <2>1. PICK t \in Facts[run.content].loose : run.before[t] \ {CaseStatus(run, t)} # {}
    BY <1>5 DEF Flakes
  <2>2. t \in Loose
    BY <1>1, <2>1 DEF Loose, RowOK
  <2>3. PICK result \in run.before[t] : result # CaseStatus(run, t)
    BY <2>1
  <2>4. result \in after[t] /\ CaseStatus(run, t) \in after[t]
    BY <1>1, <1>4, <2>1, <2>2, <2>3 DEF RowOK
  <2>5. after[t] = {"pass", "fail"}
    BY <1>4, <2>2, <2>3, <2>4
  <2> HIDE DEF after, run
  <2>6. t \in kept.flaky
    BY <2>1, <2>5
  <2> QED BY <2>6
<1> HIDE DEF after, run, kept, c
<1>6. RunnerOK(fixed', c, run)
  BY <1>1, <1>2, <1>3, <1>5 DEF RunnerOK
<1>7. \A t \in Loose : history[t] \subseteq history'[t] /\ history'[t] \subseteq {"pass", "fail"}
  BY <1>2, <1>4
<1>8. RowOK(history', fixed', run)
  BY <1>1, <1>2, <1>7, RowGrows
<1>9. runs' = [runs EXCEPT ![cmd[p].run] = run]
  <2>1. runs \in Seq({runs[s] : s \in DOMAIN runs})
    BY DEF IInv, RowsOK
  <2> QED BY <1>1, <1>2, <2>1 DEF run, Own
<1>10. RowExtends(runs[cmd[p].run], run)
  BY RowExtendsItself DEF run, Own
<1> HIDE DEF IInv
<1> QED BY <1>1, <1>2, <1>3, <1>6, <1>7, <1>8, <1>9, <1>10, RunningStep DEF RunPcs

\* The run is whole: everything there was to measure has been stored.
LEMMA FinishRunKeeps ==
  ASSUME IInv, NEW p \in Proc, FinishRun(p)
  PROVE  IInv'
<1> DEFINE run == Own(p)
           row == [run EXCEPT !.whole = TRUE]
<1>1. /\ DOMAIN cmd[p] = CommandFields /\ cmd[p].pc = "finish" /\ cmd[p].run \in DOMAIN runs
      /\ RunnerOK(fixed, cmd[p], run) /\ RowOK(history, fixed, run)
  BY RunnerHas DEF RunPcs, FinishRun
<1>2. PICK c : /\ cmd' = [cmd EXCEPT ![p] = c]
               /\ c = Idle \/ c = [cmd[p] EXCEPT !.pc = "base", !.kept = None]
  BY DEF FinishRun
<1>3. /\ DOMAIN row = RowFields /\ row.whole = TRUE
      /\ \A f \in RowFields : f # "whole" => row[f] = run[f]
  BY <1>1 DEF RowOK, RowFields
<1> HIDE DEF row
<1>4. /\ SameRun(run, row) /\ row.protection = run.protection
      /\ row.baseProtection = run.baseProtection /\ row.ui = run.ui
      /\ row.triangle = run.triangle /\ row.analytics = run.analytics
      /\ row.range = run.range /\ row.executed = run.executed /\ row.content = run.content
      /\ row.from = run.from /\ row.outcome = run.outcome /\ row.before = run.before
      /\ row.replayed = run.replayed
  BY <1>3 DEF SameRun, RowFields
<1>5. RowExtends(run, row)
  BY <1>3, <1>4 DEF RowExtends
<1>6. /\ HeadSnapshot(row) = HeadSnapshot(run) /\ Flakes(row) = Flakes(run)
      /\ TriangleOf(row) = TriangleOf(run)
  BY <1>4, SameRunSaysTheSame
<1>7. \A fx, doc : UiSays(fx, row, doc) = UiSays(fx, run, doc)
  BY <1>4, SameRunSaysTheSame
<1>8. Complete(row)
  BY <1>1, <1>4, <1>6 DEF RunnerOK, Complete
<1>9. RowOK(history, fixed, row)
  BY <1>1, <1>3, <1>4, <1>6, <1>7, <1>8 DEF RowOK
<1>10. /\ DOMAIN c = CommandFields
       /\ \/ c.pc = "base" /\ c.run = cmd[p].run /\ c.from = cmd[p].from
          \/ c.pc = "idle"
  <2>1. CASE c = Idle
    BY <2>1 DEF CommandFields, Idle, Command
  <2>2. CASE c = [cmd[p] EXCEPT !.pc = "base", !.kept = None]
    BY <1>1, <2>2 DEF CommandFields
  <2> QED BY <1>2, <2>1, <2>2
<1>11. c.pc = "base" => RunnerOK(fixed, c, row)
  BY <1>1, <1>4, <1>10 DEF RunnerOK
<1>12. /\ runs' = [runs EXCEPT ![cmd[p].run] = row]
       /\ UNCHANGED <<head, base, bases, fixed, observed, history, approved>>
  BY DEF FinishRun, tree, memories, row, Own
<1>13. \A t \in Loose : history[t] \subseteq {"pass", "fail"}
  BY DEF IInv, MemoriesOK
<1>14. cmd[p].pc \in RunPcs /\ "base" \in RunPcs
  BY <1>1 DEF RunPcs
<1> HIDE DEF IInv
<1> QED BY <1>1, <1>2, <1>5, <1>9, <1>10, <1>11, <1>12, <1>13, <1>14, RunningStep DEF Own

\* The base's snapshot is the base's.
LEMMA StoreBaseKeeps ==
  ASSUME IInv, NEW p \in Proc, StoreBase(p)
  PROVE  IInv'
<1> DEFINE run == Own(p)
           snapshot == SnapshotOf(cmd[p].from, Touched(cmd[p].from, cmd[p].asked), {})
           row == [run EXCEPT !.baseProtection = snapshot]
           c == [cmd[p] EXCEPT !.pc = "proposal"]
<1>1. /\ DOMAIN cmd[p] = CommandFields /\ cmd[p].pc = "base" /\ cmd[p].run \in DOMAIN runs
      /\ RunnerOK(fixed, cmd[p], run) /\ RowOK(history, fixed, run)
  BY RunnerHas DEF RunPcs, StoreBase
<1>2. CASE snapshot = None
  <2>1. cmd' = [cmd EXCEPT ![p] = Idle] /\ UNCHANGED <<head, base, bases, runs, memories>>
    BY <1>2 DEF StoreBase, tree
  <2> HIDE DEF IInv
  <2> QED BY <2>1, QuietStep DEF Idle
<1>3. CASE snapshot # None
  <2>1. /\ cmd' = [cmd EXCEPT ![p] = c] /\ runs' = [runs EXCEPT ![cmd[p].run] = row]
        /\ UNCHANGED <<head, base, bases, fixed, observed, history, approved>>
    BY <1>3 DEF StoreBase, Store, Goto, tree, memories, Own
  <2>2. \A f \in FlowsOf(snapshot) : snapshot.flows[f] = Facts[run.from].flows[f]
    <3>1. run.from = cmd[p].from
      BY <1>1 DEF RunnerOK
    <3> QED BY <1>3, <3>1 DEF SnapshotOf, FlowsOf
  <2>3. run.baseProtection = None
    BY <1>1 DEF RunnerOK
  <2>4. /\ DOMAIN c = CommandFields /\ c.pc = "proposal" /\ c.run = cmd[p].run
        /\ c.from = cmd[p].from
    BY <1>1 DEF CommandFields
  <2> HIDE DEF snapshot, c
  <2>5. /\ DOMAIN row = RowFields /\ row.baseProtection = snapshot
        /\ \A f \in RowFields : f # "baseProtection" => row[f] = run[f]
    BY <1>1 DEF RowOK, RowFields
  <2> HIDE DEF row
  <2>6. /\ SameRun(run, row) /\ row.protection = run.protection
        /\ row.whole = run.whole /\ row.ui = run.ui
        /\ row.triangle = run.triangle /\ row.analytics = run.analytics
        /\ row.range = run.range /\ row.executed = run.executed /\ row.content = run.content
        /\ row.from = run.from /\ row.outcome = run.outcome /\ row.before = run.before
        /\ row.replayed = run.replayed
    BY <2>5 DEF SameRun, RowFields
  <2>7. RowExtends(run, row)
    BY <2>3, <2>6 DEF RowExtends
  <2>8. /\ HeadSnapshot(row) = HeadSnapshot(run) /\ Flakes(row) = Flakes(run)
        /\ TriangleOf(row) = TriangleOf(run)
    BY <2>6, SameRunSaysTheSame
  <2>9. \A fx, doc : UiSays(fx, row, doc) = UiSays(fx, run, doc)
    BY <2>6, SameRunSaysTheSame
  <2>10. row.whole => Complete(row)
    BY <1>1, <2>6, <2>8 DEF RowOK, Complete
  <2>11. RowOK(history, fixed, row)
    BY <1>1, <2>2, <2>5, <2>6, <2>8, <2>9, <2>10 DEF RowOK
  <2>12. RunnerOK(fixed, c, row)
    BY <1>1, <2>4, <2>6 DEF RunnerOK
  <2>13. \A t \in Loose : history[t] \subseteq {"pass", "fail"}
    BY DEF IInv, MemoriesOK
  <2>14. cmd[p].pc \in RunPcs /\ c.pc \in RunPcs
    BY <1>1, <2>4 DEF RunPcs
  <2> HIDE DEF IInv
  <2> QED BY <1>1, <2>1, <2>4, <2>7, <2>11, <2>12, <2>13, <2>14, RunningStep DEF Own
<1> QED BY <1>2, <1>3

LEMMA StoreProposalKeeps ==
  ASSUME IInv, NEW p \in Proc, StoreProposal(p)
  PROVE  IInv'
<1> DEFINE run == Own(p)
           proposal == Proposal(cmd[p].from, cmd[p].asked)
           row == [run EXCEPT !.proposal = proposal]
<1>1. /\ cmd[p].pc = "proposal" /\ cmd[p].run \in DOMAIN runs
      /\ RowOK(history, fixed, run)
  BY RunnerHas DEF RunPcs, StoreProposal
<1>2. CASE Seal(cmd[p].from) = Seal(cmd[p].asked)
  <2>1. cmd' = [cmd EXCEPT ![p] = Idle] /\ UNCHANGED <<head, base, bases, runs, memories>>
    BY <1>2 DEF StoreProposal, tree
  <2> HIDE DEF IInv
  <2> QED BY <2>1, QuietStep DEF Idle
<1>3. CASE Seal(cmd[p].from) # Seal(cmd[p].asked)
  <2>1. /\ cmd' = [cmd EXCEPT ![p] = Idle] /\ runs' = [runs EXCEPT ![cmd[p].run] = row]
        /\ UNCHANGED <<head, base, bases, fixed, observed, history, approved>>
    BY <1>3 DEF StoreProposal, tree, memories, Own
  <2> HIDE DEF proposal
  <2>5. /\ DOMAIN row = RowFields
        /\ \A f \in RowFields : f # "proposal" => row[f] = run[f]
    BY <1>1 DEF RowOK, RowFields
  <2> HIDE DEF row
  <2>6. /\ SameRun(run, row) /\ row.protection = run.protection
        /\ row.baseProtection = run.baseProtection
        /\ row.whole = run.whole /\ row.ui = run.ui
        /\ row.triangle = run.triangle /\ row.analytics = run.analytics
        /\ row.range = run.range /\ row.executed = run.executed /\ row.content = run.content
        /\ row.from = run.from /\ row.outcome = run.outcome /\ row.before = run.before
        /\ row.replayed = run.replayed
    BY <2>5 DEF SameRun, RowFields
  <2>7. RowExtends(run, row)
    BY <2>6 DEF RowExtends
  <2>8. /\ HeadSnapshot(row) = HeadSnapshot(run) /\ Flakes(row) = Flakes(run)
        /\ TriangleOf(row) = TriangleOf(run)
    BY <2>6, SameRunSaysTheSame
  <2>9. \A fx, doc : UiSays(fx, row, doc) = UiSays(fx, run, doc)
    BY <2>6, SameRunSaysTheSame
  <2>10. row.whole => Complete(row)
    BY <1>1, <2>6, <2>8 DEF RowOK, Complete
  <2>11. RowOK(history, fixed, row)
    BY <1>1, <2>5, <2>6, <2>8, <2>9, <2>10 DEF RowOK
  <2>12. DOMAIN Idle = CommandFields /\ Idle.pc = "idle"
    BY DEF Idle, Command, CommandFields
  <2>13. \A t \in Loose : history[t] \subseteq {"pass", "fail"}
    BY DEF IInv, MemoriesOK
  <2>14. cmd[p].pc \in RunPcs
    BY <1>1 DEF RunPcs
  <2> HIDE DEF IInv
  <2> QED BY <1>1, <2>1, <2>7, <2>11, <2>12, <2>13, <2>14, RunningStep DEF Own
<1> QED BY <1>2, <1>3

-----------------------------------------------------------------------------
(* verify. *)

\* A command of verify with all its parts.
Reading(c) ==
  /\ DOMAIN c = CommandFields
  /\ DOMAIN c.kept = {"in", "verdict", "whole", "audit"}
  /\ DOMAIN c.kept.in = InputFields

\* The reader's command and its row, as the invariant has them.
LEMMA ReaderHas ==
  ASSUME IInv, NEW p \in Proc, cmd[p].pc \in ReadPcs
  PROVE  /\ cmd[p].run \in DOMAIN runs /\ Reading(cmd[p])
         /\ ReaderOK(bases, fixed, approved, cmd[p], Own(p))
         /\ RowOK(history, fixed, Own(p))
BY DEF IInv, CommandsOK, CommandOK, RowsOK, Own, ReadPcs, Reading

\* Command d is c after it has gathered one more axis.
Gathers(c, d, axis, value, next) ==
  /\ Reading(d)
  /\ d.pc = next /\ d.run = c.run /\ d.content = c.content
  /\ d.kept.whole = c.kept.whole /\ d.kept.audit = c.kept.audit
  /\ d.kept.in[axis] = value
  /\ \A a \in InputFields : a # axis => d.kept.in[a] = c.kept.in[a]

LEMMA GatheredCommand ==
  ASSUME NEW c, Reading(c),
         NEW axis \in InputFields, NEW value, NEW next,
         NEW d, d = [c EXCEPT !.kept.in[axis] = value, !.pc = next]
  PROVE  Gathers(c, d, axis, value, next)
<1> DEFINE in == [c.kept.in EXCEPT ![axis] = value]
           kept == [c.kept EXCEPT !.in = in]
<1>1. d = [c EXCEPT !.kept = kept, !.pc = next]
  OBVIOUS
<1>2. /\ DOMAIN in = InputFields /\ in[axis] = value
      /\ \A a \in InputFields : a # axis => in[a] = c.kept.in[a]
  BY DEF Reading
<1> HIDE DEF in
<1>3. /\ DOMAIN kept = {"in", "verdict", "whole", "audit"} /\ kept.in = in
      /\ kept.whole = c.kept.whole /\ kept.audit = c.kept.audit
  BY DEF Reading
<1> HIDE DEF kept
<1>4. /\ DOMAIN d = CommandFields /\ d.kept = kept
      /\ d.pc = next /\ d.run = c.run /\ d.content = c.content
  BY <1>1 DEF CommandFields, Reading
<1> QED BY <1>2, <1>3, <1>4 DEF Gathers, Reading

\* The reader goes on with the same run.
LEMMA ReaderStep ==
  ASSUME IInv, NEW p \in Proc, cmd[p].pc \in ReadPcs, NEW d,
         cmd' = [cmd EXCEPT ![p] = d], UNCHANGED <<tree, runs, memories>>,
         Reading(d), d.pc \in ReadPcs, d.run = cmd[p].run,
         ReaderOK(bases, fixed, approved, d, Own(p))
  PROVE  IInv'
<1>1. cmd[p].run \in DOMAIN runs
  BY ReaderHas
<1>2. CommandOK(bases, fixed, approved, runs, d)
  BY <1>1 DEF CommandOK, ReadPcs, RunPcs, Own, Reading
<1>3. d.pc \notin RunPcs
  BY DEF ReadPcs, RunPcs
<1>4. UNCHANGED <<head, base, bases, runs, observed, history, approved, fixed>>
  BY DEF tree, memories
<1> HIDE DEF IInv
<1> QED BY <1>2, <1>3, <1>4, ReadingStep

\* verify starts: it knows its run and the proofs.
LEMMA VerifyKeeps ==
  ASSUME IInv, NEW p \in Proc, Verify(p)
  PROVE  IInv'
<1> DEFINE r  == LatestRun(head)
           in == [NoInputs EXCEPT !.proofs =
                    Proofs(head, IF r # 0 /\ runs[r].executed THEN runs[r].outcome ELSE "absent")]
           kept == Gathered(in, IF r = 0 THEN Compose(in) ELSE None, r # 0 /\ runs[r].whole)
           c == Command(IF r = 0 THEN "replied" ELSE "v_protection", head, None, None, r, kept)
<1>1. /\ cmd' = [cmd EXCEPT ![p] = c]
      /\ UNCHANGED <<head, base, bases, runs, observed, history, approved, fixed>>
  BY DEF Verify, tree, memories
<1>2. r # 0 => r \in DOMAIN runs /\ runs[r].content = head
  BY LatestRunIsThere DEF IInv, RowsOK
<1>3. DOMAIN in = InputFields
      /\ in.proofs = Proofs(head, IF r # 0 /\ runs[r].executed THEN runs[r].outcome ELSE "absent")
  BY DEF NoInputs, InputFields
<1> HIDE DEF in
<1>4. /\ DOMAIN kept = {"in", "verdict", "whole", "audit"} /\ kept.in = in
      /\ kept.audit = None
      /\ r # 0 => (kept.whole <=> runs[r].whole)
      /\ r = 0 => kept.verdict = Compose(in)
  BY DEF Gathered
<1> HIDE DEF kept
<1>5. /\ DOMAIN c = CommandFields /\ c.kept = kept /\ c.run = r /\ c.content = head
      /\ r = 0 => c.pc = "replied"
      /\ r # 0 => c.pc = "v_protection"
  BY DEF Command, CommandFields
<1> HIDE DEF c, r
<1>6. ASSUME r # 0
      PROVE  ReaderOK(bases, fixed, approved, c, runs[r])
  <2>1. runs[r].whole => runs[r].executed
    BY <1>2, <1>6 DEF IInv, RowsOK, RowOK, Complete
  <2> QED BY <1>2, <1>3, <1>4, <1>5, <1>6, <2>1 DEF ReaderOK
<1>7. CommandOK(bases, fixed, approved, runs, c) /\ c.pc \notin RunPcs
  BY <1>2, <1>3, <1>4, <1>5, <1>6 DEF CommandOK, RunPcs, ReadPcs
<1> HIDE DEF IInv
<1> QED BY <1>1, <1>7, ReadingStep

\* The protection axis of the row that is there.
LEMMA ReadProtectionKeeps ==
  ASSUME IInv, NEW p \in Proc, ReadProtection(p)
  PROVE  IInv'
<1> DEFINE run == Own(p)
           proposed == run.proposal # None
           changed == IF proposed THEN ExpectationChanged(Facts[run.proposal[1]].obligations,
                                         Facts[run.proposal[2]].obligations, TRUE) ELSE {}
           replacements == IF proposed THEN ObligationReplacements(Facts[run.proposal[1]].obligations,
                                              Facts[run.proposal[2]].obligations) ELSE {}
           agreed == proposed /\ run.proposal \in approved
           risky == Mandatory(cmd[p].content)
           value == IF run.protection = None THEN NoProtection
                    ELSE IF run.baseProtection = None
                    THEN [NoProtection EXCEPT !.state = "unmeasured"]
                    ELSE ProtectionAxis(run.baseProtection, run.protection, changed, replacements,
                                        agreed, risky)
           d == [cmd[p] EXCEPT !.kept.in["protection"] = value, !.pc = "v_debt"]
<1>1. /\ Reading(cmd[p]) /\ cmd[p].pc = "v_protection" /\ cmd[p].run \in DOMAIN runs
      /\ ReaderOK(bases, fixed, approved, cmd[p], run) /\ RowOK(history, fixed, run)
  BY ReaderHas DEF ReadProtection, ReadPcs
<1>2. /\ ProposalFits(run, head) /\ cmd' = [cmd EXCEPT ![p] = d]
      /\ UNCHANGED <<tree, runs, memories>>
  BY DEF ReadProtection, Gather
<1>3. /\ run.protection = None => value.state = "not_applicable"
      /\ run.protection # None /\ run.baseProtection = None => value.state = "unmeasured"
  BY DEF NoProtection
<1>4. ASSUME run.protection # None, run.baseProtection # None, risky, LostFlows(run) # {},
             Proposal(run.from, run.content) \notin approved
      PROVE  \E x \in value.findings : x.severity = "error" /\ x.check # "006"
  <2>1. agreed = FALSE
    BY <1>2, <1>4 DEF ProposalFits
  <2>2. risky = TRUE
    BY <1>4 DEF Mandatory
  <2>3. value = ProtectionAxis(run.baseProtection, run.protection, changed, replacements, FALSE, TRUE)
    BY <1>4, <2>1, <2>2
  <2>4. PICK f \in FlowsOf(run.baseProtection) :
          /\ IsProtected(Facts[run.from].flows[f])
          /\ f \in DOMAIN Facts[run.content].flows => ~IsProtected(Facts[run.content].flows[f])
          /\ Signature[f] = NoSignature
    BY <1>4 DEF LostFlows
  <2>5. IsProtected(run.baseProtection.flows[f])
    BY <1>1, <1>4, <2>4 DEF RowOK
  <2>6. run.protection = HeadSnapshot(run)
    BY <1>1, <1>4 DEF RowOK
  <2>7. f \in FlowsOf(run.protection) => ~ IsProtected(run.protection.flows[f])
    BY <1>4, <2>4, <2>6 DEF HeadSnapshot, SnapshotOf, FlowsOf
  <2> HIDE DEF value, changed, replacements, run
  <2> QED BY <2>3, <2>4, <2>5, <2>7, LostIsFound
<1> HIDE DEF value, d, run
<1>5. Gathers(cmd[p], d, "protection", value, "v_debt")
  <2>1. "protection" \in InputFields
    BY DEF InputFields
  <2> QED BY <1>1, <2>1, GatheredCommand DEF d
<1>6. d.kept.in.proofs = cmd[p].kept.in.proofs
  BY <1>5 DEF InputFields, Gathers
<1>7. ProtectionSays(approved, d, run)
  BY <1>3, <1>4, <1>5 DEF ProtectionSays, Gathers
<1>8. ReaderOK(bases, fixed, approved, d, run)
  BY <1>1, <1>5, <1>6, <1>7 DEF ReaderOK, Gathers
<1> HIDE DEF IInv
<1> QED BY <1>1, <1>2, <1>5, <1>8, ReaderStep DEF ReadPcs, run, Gathers

\* A step that does not gather.
LEMMA SkippedCommand ==
  ASSUME NEW c, Reading(c), NEW next, NEW d, d = [c EXCEPT !.pc = next]
  PROVE  /\ Reading(d) /\ d.pc = next /\ d.run = c.run /\ d.content = c.content /\ d.kept = c.kept
BY DEF Reading, CommandFields

\* The debt axis: none without a range, unmeasured when the audit is unavailable, or what
\* the audit answers.
LEMMA ReadDebtKeeps ==
  ASSUME IInv, NEW p \in Proc, ReadDebt(p)
  PROVE  IInv'
<1> DEFINE run == Own(p)
<1>1. /\ Reading(cmd[p]) /\ cmd[p].pc = "v_debt" /\ cmd[p].run \in DOMAIN runs
      /\ ReaderOK(bases, fixed, approved, cmd[p], run) /\ RowOK(history, fixed, run)
  BY ReaderHas DEF ReadDebt, ReadPcs
<1>2. /\ ProtectionSays(approved, cmd[p], run) /\ cmd[p].kept.audit = None
      /\ run.content = cmd[p].content
      /\ cmd[p].kept.whole => run.whole /\ cmd[p].kept.in.proofs = Proofs(run.content, run.outcome)
  BY <1>1 DEF ReaderOK
<1> HIDE DEF run
<1>3. CASE ~ run.range /\ Goto(p, "v_stability") /\ UNCHANGED fixed
  <2> DEFINE d == [cmd[p] EXCEPT !.pc = "v_stability"]
  <2>1. cmd' = [cmd EXCEPT ![p] = d] /\ UNCHANGED <<tree, runs, memories>>
    BY <1>3 DEF Goto, ReadDebt, memories
  <2>2. /\ Reading(d) /\ d.pc = "v_stability" /\ d.run = cmd[p].run
        /\ d.content = cmd[p].content /\ d.kept = cmd[p].kept
    BY <1>1, SkippedCommand
  <2> HIDE DEF d
  <2>3. ~ run.whole
    BY <1>1, <1>3 DEF RowOK, Complete
  <2>4. ProtectionSays(approved, d, run)
    BY <1>2, <2>2 DEF ProtectionSays
  <2>5. ReaderOK(bases, fixed, approved, d, run)
    BY <1>2, <2>2, <2>3, <2>4 DEF ReaderOK
  <2> HIDE DEF IInv
  <2> QED BY <1>1, <2>1, <2>2, <2>5, ReaderStep DEF ReadPcs, run
<1>4. CASE /\ run.range
           /\ Gather(p, "debt", [NoDebt EXCEPT !.state = "unmeasured"], "v_stability")
           /\ UNCHANGED fixed
  <2> DEFINE value == [NoDebt EXCEPT !.state = "unmeasured"]
             d == [cmd[p] EXCEPT !.kept.in["debt"] = value, !.pc = "v_stability"]
  <2>1. cmd' = [cmd EXCEPT ![p] = d] /\ UNCHANGED <<tree, runs, memories>>
    BY <1>4 DEF Gather, ReadDebt, memories
  <2>2. value.state = "unmeasured"
    BY DEF NoDebt
  <2> HIDE DEF value
  <2>3. Gathers(cmd[p], d, "debt", value, "v_stability")
    <3>1. "debt" \in InputFields
      BY DEF InputFields
    <3> HIDE DEF d
    <3> QED BY <1>1, <3>1, GatheredCommand DEF d
  <2> HIDE DEF d
  <2>4. d.kept.in.proofs = cmd[p].kept.in.proofs /\ d.kept.in.protection = cmd[p].kept.in.protection
    BY <2>3 DEF InputFields, Gathers
  <2>5. ProtectionSays(approved, d, run)
    BY <1>2, <2>3, <2>4 DEF ProtectionSays, Gathers
  <2>6. ReaderOK(bases, fixed, approved, d, run)
    BY <1>2, <2>2, <2>3, <2>4, <2>5 DEF ReaderOK, Gathers
  <2> HIDE DEF IInv
  <2> QED BY <1>1, <2>1, <2>3, <2>6, ReaderStep DEF ReadPcs, run, Gathers
<1>5. CASE /\ cmd' = [cmd EXCEPT ![p].kept = [@ EXCEPT !.in.debt = DebtAxis,
                        !.audit = <<base, head>>],
                      ![p].pc = "v_stability"]
           /\ fixed' = fixed \cup (Facts[base].debt \ Facts[head].debt)
  <2> DEFINE in == [cmd[p].kept.in EXCEPT !.debt = DebtAxis]
             kept == [cmd[p].kept EXCEPT !.in = in, !.audit = <<base, head>>]
             d == [cmd[p] EXCEPT !.kept = kept, !.pc = "v_stability"]
  <2>1. cmd' = [cmd EXCEPT ![p] = d]
    BY <1>5
  <2>2. /\ UNCHANGED <<head, base, bases, runs, observed, history, approved>>
        /\ fixed \subseteq fixed'
    BY <1>5 DEF ReadDebt, tree
  <2>3. /\ DOMAIN in = InputFields /\ in.debt = DebtAxis
        /\ in.proofs = cmd[p].kept.in.proofs /\ in.protection = cmd[p].kept.in.protection
    BY <1>1 DEF Reading, InputFields
  <2> HIDE DEF in
  <2>4. /\ DOMAIN kept = {"in", "verdict", "whole", "audit"} /\ kept.in = in
        /\ kept.whole = cmd[p].kept.whole /\ kept.audit = <<base, head>>
    BY <1>1 DEF Reading
  <2> HIDE DEF kept
  <2>5. /\ Reading(d) /\ d.kept = kept
        /\ d.pc = "v_stability" /\ d.run = cmd[p].run /\ d.content = cmd[p].content
    BY <1>1, <2>3, <2>4 DEF Reading, CommandFields
  <2> HIDE DEF d
  <2>6. MemoriesOK /\ base \in Content /\ head \in Content
    BY DEF IInv, MemoriesOK
  <2>7. DebtSays(bases, fixed', DebtAxis, base, head)
    <3>1. DebtSays(bases, fixed, DebtAxis, base, head)
      BY <2>6, AuditSays
    <3> QED BY <2>2, <3>1, DebtSaysGrows
  <2>8. <<base, head>> # None /\ <<base, head>>[1] = base /\ <<base, head>>[2] = head
    <3>1. <<base, head>> \in Content \X Content
      BY <2>6
    <3> QED BY <3>1, GateAssumption DEF GateAssumption
  <2>9. DebtSays(bases, fixed', d.kept.in.debt, d.kept.audit[1], d.kept.audit[2])
          /\ d.kept.audit # None
    BY <2>3, <2>4, <2>5, <2>7, <2>8
  <2>10. ProtectionSays(approved, d, run)
    BY <1>2, <2>3, <2>4, <2>5 DEF ProtectionSays
  <2>11. d.kept.whole = cmd[p].kept.whole /\ d.kept.in.proofs = cmd[p].kept.in.proofs
    BY <2>3, <2>4, <2>5
  <2>12. ReaderOK(bases, fixed', approved, d, run)
    BY <1>2, <2>5, <2>9, <2>10, <2>11 DEF ReaderOK
  <2>13. CommandOK(bases, fixed', approved, runs, d) /\ d.pc \notin RunPcs
    BY <1>1, <2>5, <2>12 DEF CommandOK, ReadPcs, RunPcs, Own, Reading, run
  <2> HIDE DEF IInv
  <2> QED BY <2>1, <2>2, <2>13, ReadingStep
<1> QED BY <1>3, <1>4, <1>5 DEF ReadDebt, run

\* The documents of a whole run are there, and say what they have to.
LEMMA ReadStabilityKeeps ==
  ASSUME IInv, NEW p \in Proc, ReadStability(p)
  PROVE  IInv'
<1> DEFINE run == Own(p)
<1>1. /\ Reading(cmd[p]) /\ cmd[p].pc = "v_stability" /\ cmd[p].run \in DOMAIN runs
      /\ ReaderOK(bases, fixed, approved, cmd[p], run) /\ RowOK(history, fixed, run)
  BY ReaderHas DEF ReadStability, ReadPcs
<1>2. UNCHANGED <<tree, runs, memories>>
  BY DEF ReadStability
<1>3. CASE run.analytics = {} /\ Goto(p, "v_ui")
  <2> DEFINE d == [cmd[p] EXCEPT !.pc = "v_ui"]
  <2>1. cmd' = [cmd EXCEPT ![p] = d]
    BY <1>3 DEF Goto
  <2>2. /\ Reading(d) /\ d.pc = "v_ui" /\ d.run = cmd[p].run
        /\ d.content = cmd[p].content /\ d.kept = cmd[p].kept
    BY <1>1, SkippedCommand
  <2> HIDE DEF d, run
  <2>3. ~ run.whole
    BY <1>1, <1>3 DEF RowOK, Complete
  <2>4. ProtectionSays(approved, d, run)
    BY <1>1, <2>2 DEF ProtectionSays, ReaderOK
  <2>5. ReaderOK(bases, fixed, approved, d, run)
    BY <1>1, <2>2, <2>3, <2>4 DEF ReaderOK
  <2> HIDE DEF IInv
  <2> QED BY <1>1, <1>2, <2>1, <2>2, <2>5, ReaderStep DEF ReadPcs, run
<1>4. ASSUME NEW doc \in run.analytics, NEW value, value.flaky = (doc.flaky # {}),
             Gather(p, "stability", value, "v_ui")
      PROVE  IInv'
  <2> DEFINE d == [cmd[p] EXCEPT !.kept.in["stability"] = value, !.pc = "v_ui"]
  <2>1. cmd' = [cmd EXCEPT ![p] = d]
    BY <1>4 DEF Gather
  <2> HIDE DEF d, run
  <2>2. Gathers(cmd[p], d, "stability", value, "v_ui")
    <3>1. "stability" \in InputFields
      BY DEF InputFields
    <3> QED BY <1>1, <3>1, GatheredCommand DEF d
  <2>3. /\ d.kept.in.proofs = cmd[p].kept.in.proofs /\ d.kept.in.protection = cmd[p].kept.in.protection
        /\ d.kept.in.debt = cmd[p].kept.in.debt
    BY <2>2 DEF InputFields, Gathers
  <2>4. ProtectionSays(approved, d, run)
    BY <1>1, <2>2, <2>3 DEF ProtectionSays, Gathers, ReaderOK
  <2>5. Flakes(run) => value.flaky
    BY <1>1, <1>4 DEF RowOK
  <2>6. ReaderOK(bases, fixed, approved, d, run)
    BY <1>1, <2>2, <2>3, <2>4, <2>5 DEF ReaderOK, Gathers
  <2> HIDE DEF IInv
  <2> QED BY <1>1, <1>2, <2>1, <2>2, <2>6, ReaderStep DEF ReadPcs, run, Gathers
<1>5. ASSUME NEW doc \in run.analytics, NEW urgent, NEW state,
             Gather(p, "stability", [state |-> state, flaky |-> doc.flaky # {},
                                     unresolved |-> urgent], "v_ui")
      PROVE  IInv'
  BY <1>4, <1>5
<1> QED BY <1>3, <1>5 DEF ReadStability

LEMMA ReadUiKeeps ==
  ASSUME IInv, NEW p \in Proc, ReadUi(p)
  PROVE  IInv'
<1> DEFINE run == Own(p)
<1>1. /\ Reading(cmd[p]) /\ cmd[p].pc = "v_ui" /\ cmd[p].run \in DOMAIN runs
      /\ ReaderOK(bases, fixed, approved, cmd[p], run) /\ RowOK(history, fixed, run)
  BY ReaderHas DEF ReadUi, ReadPcs
<1>2. UNCHANGED <<tree, runs, memories>>
  BY DEF ReadUi
<1>3. CASE run.ui = {} /\ Goto(p, "v_delta")
  <2> DEFINE d == [cmd[p] EXCEPT !.pc = "v_delta"]
  <2>1. cmd' = [cmd EXCEPT ![p] = d]
    BY <1>3 DEF Goto
  <2>2. /\ Reading(d) /\ d.pc = "v_delta" /\ d.run = cmd[p].run
        /\ d.content = cmd[p].content /\ d.kept = cmd[p].kept
    BY <1>1, SkippedCommand
  <2> HIDE DEF d, run
  <2>3. run.whole => ~ HasUi(run.content)
    BY <1>1, <1>3 DEF RowOK, Complete
  <2>4. ProtectionSays(approved, d, run)
    BY <1>1, <2>2 DEF ProtectionSays, ReaderOK
  <2>5. ReaderOK(bases, fixed, approved, d, run)
    BY <1>1, <2>2, <2>3, <2>4 DEF ReaderOK
  <2> HIDE DEF IInv
  <2> QED BY <1>1, <1>2, <2>1, <2>2, <2>5, ReaderStep DEF ReadPcs, run
<1>4. ASSUME NEW doc \in run.ui, Gather(p, "ui", doc, "v_delta")
      PROVE  IInv'
  <2> DEFINE d == [cmd[p] EXCEPT !.kept.in["ui"] = doc, !.pc = "v_delta"]
  <2>1. cmd' = [cmd EXCEPT ![p] = d]
    BY <1>4 DEF Gather
  <2> HIDE DEF d, run
  <2>2. Gathers(cmd[p], d, "ui", doc, "v_delta")
    <3>1. "ui" \in InputFields
      BY DEF InputFields
    <3> QED BY <1>1, <3>1, GatheredCommand DEF d
  <2>3. /\ d.kept.in.proofs = cmd[p].kept.in.proofs /\ d.kept.in.protection = cmd[p].kept.in.protection
        /\ d.kept.in.debt = cmd[p].kept.in.debt /\ d.kept.in.stability = cmd[p].kept.in.stability
    BY <2>2 DEF InputFields, Gathers
  <2>4. ProtectionSays(approved, d, run)
    BY <1>1, <2>2, <2>3 DEF ProtectionSays, Gathers, ReaderOK
  <2>5. UiSays(fixed, run, d.kept.in.ui)
    BY <1>1, <1>4, <2>2 DEF RowOK, Gathers
  <2>6. ReaderOK(bases, fixed, approved, d, run)
    BY <1>1, <2>2, <2>3, <2>4, <2>5 DEF ReaderOK, Gathers
  <2> HIDE DEF IInv
  <2> QED BY <1>1, <1>2, <2>1, <2>2, <2>6, ReaderStep DEF ReadPcs, run, Gathers
<1> QED BY <1>3, <1>4 DEF ReadUi

\* The last axis, and the composition of what was gathered.
LEMMA ReadTriangleKeeps ==
  ASSUME IInv, NEW p \in Proc, ReadTriangle(p)
  PROVE  IInv'
<1> DEFINE run == Own(p)
           old == cmd[p].kept
<1>1. /\ Reading(cmd[p]) /\ cmd[p].pc = "v_delta" /\ cmd[p].run \in DOMAIN runs
      /\ ReaderOK(bases, fixed, approved, cmd[p], run) /\ RowOK(history, fixed, run)
  BY ReaderHas DEF ReadTriangle, ReadPcs
<1>2. PICK in \in IF run.triangle = {} THEN {old.in}
                  ELSE {[old.in EXCEPT !.delta = doc] : doc \in run.triangle} :
        cmd' = [cmd EXCEPT ![p].kept.in = in, ![p].kept.verdict = Compose(in), ![p].pc = "replied"]
  BY DEF ReadTriangle
<1> DEFINE verdict == Compose(in)
           kept == [old EXCEPT !.in = in, !.verdict = verdict]
           d == [cmd[p] EXCEPT !.kept = kept, !.pc = "replied"]
<1>3. cmd' = [cmd EXCEPT ![p] = d]
  BY <1>2
<1>4. /\ DOMAIN in = InputFields /\ in.proofs = old.in.proofs /\ in.protection = old.in.protection
      /\ in.debt = old.in.debt /\ in.stability = old.in.stability /\ in.ui = old.in.ui
      /\ run.triangle # {} => in.delta = TriangleOf(run)
  <2>1. CASE run.triangle = {}
    BY <1>1, <1>2, <2>1 DEF Reading
  <2>2. CASE run.triangle # {}
    <3>1. PICK doc \in run.triangle : in = [old.in EXCEPT !.delta = doc]
      BY <1>2, <2>2
    <3>2. doc = TriangleOf(run)
      BY <1>1 DEF RowOK
    <3> HIDE DEF run, old
    <3>3. DOMAIN old.in = InputFields
      BY <1>1 DEF Reading, old
    <3> QED BY <3>1, <3>2, <3>3 DEF InputFields
  <2> QED BY <2>1, <2>2
<1> HIDE DEF verdict
<1>5. /\ DOMAIN kept = {"in", "verdict", "whole", "audit"} /\ kept.in = in /\ kept.verdict = verdict
      /\ kept.whole = old.whole /\ kept.audit = old.audit
  BY <1>1 DEF Reading
<1> HIDE DEF kept
<1>6. /\ DOMAIN d = CommandFields /\ d.kept = kept
      /\ d.pc = "replied" /\ d.run = cmd[p].run /\ d.content = cmd[p].content
  BY <1>1 DEF Reading, CommandFields
<1> HIDE DEF d, run
<1>7. ProtectionSays(approved, d, run)
  BY <1>1, <1>4, <1>5, <1>6 DEF ProtectionSays, ReaderOK
<1>8. run.whole /\ Facts[run.content].programs => run.triangle # {}
  BY <1>1 DEF RowOK, Complete
<1>9. ReaderOK(bases, fixed, approved, d, run)
  BY <1>1, <1>4, <1>5, <1>6, <1>7, <1>8 DEF ReaderOK
<1>10. cmd[p].run # 0
  <2>1. runs \in Seq({runs[r] : r \in DOMAIN runs})
    BY DEF IInv, RowsOK
  <2> QED BY <1>1, <2>1
<1>11. CommandOK(bases, fixed, approved, runs, d) /\ d.pc \notin RunPcs
  BY <1>1, <1>4, <1>5, <1>6, <1>9, <1>10 DEF CommandOK, ReadPcs, RunPcs, Own, verdict, run
<1>12. UNCHANGED <<head, base, bases, runs, observed, history, approved, fixed>>
  BY DEF ReadTriangle, tree, memories
<1> HIDE DEF IInv
<1> QED BY <1>3, <1>11, <1>12, ReadingStep

LEMMA LookerEnds ==
  ASSUME IInv, NEW p \in Proc, RefuseProposal(p) \/ Acknowledge(p)
  PROVE  IInv'
<1>1. cmd' = [cmd EXCEPT ![p] = Idle] /\ UNCHANGED <<head, base, bases, runs, memories>>
  BY DEF RefuseProposal, Acknowledge, tree
<1> HIDE DEF IInv
<1> QED BY <1>1, QuietStep DEF Idle

-----------------------------------------------------------------------------
(* The invariant holds. *)

LEMMA InitIsGood == Init => IInv
<1> SUFFICES ASSUME Init
             PROVE  IInv
  OBVIOUS
<1>1. MemoriesOK
  BY GateAssumption DEF Init, MemoriesOK, GateAssumption
<1>2. RowsOK
  BY DEF Init, RowsOK
<1>3. CommandOK(bases, fixed, approved, runs, Idle) /\ Idle.pc \notin RunPcs
  BY QuietCommand DEF Idle, Command, RunPcs
<1>4. CommandsOK /\ RunsApart
  BY <1>3 DEF Init, CommandsOK, RunsApart
<1> QED BY <1>1, <1>2, <1>4 DEF IInv

LEMMA RunKeeps ==
  ASSUME IInv, NEW p \in Proc, Run(p)
  PROVE  IInv'
<1> HIDE DEF IInv
<1> QED BY QuietKeeps, PutRunKeeps, StoreRangeKeeps, StoreExecutionKeeps, RatchetKeeps,
           StartSearchKeeps, ProbeKeeps, EndSearchKeeps, StoreUiKeeps, StoreProtectionKeeps,
           StoreTriangleKeeps, RecordFailuresKeeps, StoreAnalyticsKeeps, FinishRunKeeps,
           StoreBaseKeeps, StoreProposalKeeps DEF Run

LEMMA LookKeeps ==
  ASSUME IInv, NEW p \in Proc, Look(p)
  PROVE  IInv'
<1> HIDE DEF IInv
<1> QED BY VerifyKeeps, ReadProtectionKeeps, LookerEnds, ReadDebtKeeps, ReadStabilityKeeps,
           ReadUiKeeps, ReadTriangleKeeps DEF Look

LEMMA StutterKeeps ==
  ASSUME IInv, UNCHANGED vars
  PROVE  IInv'
<1>1. MemoriesOK'
  BY DEF IInv, MemoriesOK, vars
<1> QED BY <1>1, MemoryStep DEF vars

\* In every reachable state rows, memories and commands say what the argument needs:
\* rows and memories only grow, a whole run has stored everything, and what verify has
\* gathered is true of its row.
THEOREM GateInvariant == Spec => []IInv
<1>1. IInv /\ [Next]_vars => IInv'
  <2> SUFFICES ASSUME IInv, [Next]_vars
               PROVE  IInv'
    OBVIOUS
  <2>1. CASE Edit \/ Merge \/ Approve \/ Debt \/ Baseline
    BY <2>1, EditKeeps, MergeKeeps, ApproveKeeps, DebtKeeps, BaselineKeeps
  <2>2. ASSUME NEW p \in Runner, Run(p) \/ Die(p)
        PROVE  IInv'
    BY <2>2, RunKeeps, QuietKeeps DEF Proc
  <2>3. ASSUME NEW p \in Looker, Look(p)
        PROVE  IInv'
    BY <2>3, LookKeeps DEF Proc
  <2>4. CASE UNCHANGED vars
    BY <2>4, StutterKeeps
  <2> QED BY <2>1, <2>2, <2>3, <2>4 DEF Next
<1> QED BY <1>1, InitIsGood, PTL DEF Spec

-----------------------------------------------------------------------------
(* What a reply may say. *)

\* The reply of a verify that found a run is the composition of what it gathered of it.
LEMMA ReplyOnRun ==
  ASSUME IInv, NEW p \in Proc, Replied(p), cmd[p].run # 0
  PROVE  /\ Verdict(p) = Compose(cmd[p].kept.in)
         /\ ReaderOK(bases, fixed, approved, cmd[p], Own(p))
         /\ RowOK(history, fixed, Own(p))
BY DEF IInv, CommandsOK, CommandOK, RowsOK, Replied, Verdict, Own

\* Debt that only the tree has is reported, and blocks where its rule does, whatever
\* debt and baseline commands remembered and whatever the base branch and the tree
\* became in the meantime (remember_observed_baseline, debt_axis_from).
THEOREM IntroducedDebt == Spec => []IntroducedDebtIsReported
<1>1. IInv => IntroducedDebtIsReported
  <2> SUFFICES ASSUME IInv, NEW p \in Proc, Replied(p), cmd[p].kept.audit # None,
                      NEW from, from = cmd[p].kept.audit[1], NEW to, to = cmd[p].kept.audit[2],
                      NEW merged, merged = UNION {Facts[c].debt : c \in bases},
                      NEW foreign, foreign = Facts[to].debt \ (merged \cup Facts[to].exceptions)
               PROVE  /\ foreign # {} => Verdict(p) # "PASS"
                      /\ (\E d \in foreign \ fixed : DebtRuleBlocks(RuleOf[d]))
                            => Verdict(p) = "BLOCKED"
    BY DEF IntroducedDebtIsReported
  <2> DEFINE in == cmd[p].kept.in
  <2>1. /\ Verdict(p) = Compose(in)
        /\ DebtSays(bases, fixed, in.debt, from, to)
    BY DEF IInv, CommandsOK, CommandOK, Replied, Verdict, ReaderOK
  <2>2. \A d \in foreign :
          /\ \E i \in in.debt.new \cup in.debt.returned : i.id = d
          /\ d \notin fixed /\ DebtRuleBlocks(RuleOf[d]) => \E i \in in.debt.new : i.id = d /\ i.blocking
    BY <2>1 DEF DebtSays
  <2> HIDE DEF in, IInv
  <2>3. ASSUME NEW d \in foreign
        PROVE  Verdict(p) # "PASS"
    <3>1. PICK i \in in.debt.new \cup in.debt.returned : i.id = d
      BY <2>2, <2>3
    <3>2. CASE i.blocking
      <4>1. <<3, "debt", i.id>> \in Reasons(in) \/ <<5, "debt", i.id>> \in Reasons(in)
        BY <3>1, <3>2, AxesFire
      <4> QED BY <2>1, <4>1, ComposeReports
    <3>3. CASE ~ i.blocking
      <4>1. <<9, "debt", i.id>> \in Reasons(in)
        BY <3>1, <3>3, AxesFire
      <4> QED BY <2>1, <4>1, ComposeReports
    <3> QED BY <3>2, <3>3
  <2>4. ASSUME NEW d \in foreign \ fixed, DebtRuleBlocks(RuleOf[d])
        PROVE  Verdict(p) = "BLOCKED"
    <3>1. PICK i \in in.debt.new : i.id = d /\ i.blocking
      BY <2>2, <2>4
    <3>2. <<3, "debt", i.id>> \in Reasons(in)
      BY <3>1, AxesFire
    <3>3. <<3, "debt", i.id>>[1] \in 1..3
      OBVIOUS
    <3> QED BY <2>1, <3>2, <3>3, ComposeReports
  <2> QED BY <2>3, <2>4
<1> QED BY <1>1, GateInvariant, PTL

\* A test seen to fail and to pass warns at least, whoever ran it and whatever became of
\* that run (persist_test_analytics reads back every result; rank 9).
THEOREM FlakesAreReported == Spec => []FlakeIsReported
<1>1. IInv => FlakeIsReported
  <2> SUFFICES ASSUME IInv, NEW p \in Proc, OnRun(p), cmd[p].kept.whole, Flakes(Own(p))
               PROVE  Verdict(p) # "PASS"
    BY DEF FlakeIsReported, Flakes
  <2> DEFINE in == cmd[p].kept.in
  <2>1. Verdict(p) = Compose(in) /\ in.stability.flaky
    BY ReplyOnRun DEF OnRun, Replied, ReaderOK
  <2> HIDE DEF in
  <2>2. <<9, "stability", "test-history">> \in Reasons(in)
    BY <2>1, AxesFire
  <2> QED BY <2>1, <2>2, ComposeReports
<1> QED BY <1>1, GateInvariant, PTL

\* A change of high risk that loses the last guard of a flow is blocked unless somebody
\* approved exactly this pair of seals (rank_2_lost_protection, check_lost).
THEOREM LostProtection == Spec => []LostProtectionBlocks
<1>1. IInv => LostProtectionBlocks
  <2> SUFFICES ASSUME IInv, NEW p \in Proc, OnRun(p), Own(p).content = cmd[p].content,
                      Mandatory(cmd[p].content),
                      cmd[p].kept.in.protection.state \notin {"not_applicable", "unmeasured"},
                      LostFlows(Own(p)) # {},
                      Proposal(Own(p).from, Own(p).content) \notin approved
               PROVE  Verdict(p) = "BLOCKED"
    BY DEF LostProtectionBlocks
  <2> DEFINE in == cmd[p].kept.in
  <2>1. Verdict(p) = Compose(in) /\ ProtectionSays(approved, cmd[p], Own(p))
    BY ReplyOnRun DEF OnRun, Replied, ReaderOK
  <2>2. PICK x \in in.protection.findings : x.severity = "error" /\ x.check # "006"
    BY <2>1 DEF ProtectionSays
  <2> HIDE DEF in
  <2>3. <<2, "protection", x.subject>> \in Reasons(in)
    BY <2>2, AxesFire
  <2>4. <<2, "protection", x.subject>>[1] \in 1..3
    OBVIOUS
  <2> QED BY <2>1, <2>3, <2>4, ComposeReports
<1> QED BY <1>1, GateInvariant, PTL

\* An error of an axis and its rank.
LEMMA ErrorsHold ==
  ASSUME NEW in
  PROVE  /\ HasError(in.ui.new \cup in.ui.returned) => ~ Passes(Compose(in)) /\ Compose(in) # "PASS"
         /\ HasError(in.ui.new) => Compose(in) = "BLOCKED"
         /\ HasError(in.delta.findings) => Compose(in) = "BLOCKED"
<1>1. ASSUME NEW f \in in.ui.new, f.severity = "error"
      PROVE  Compose(in) = "BLOCKED" /\ ~ Passes(Compose(in)) /\ Compose(in) # "PASS"
  <2>1. <<3, "ui_integrity", f.subject>> \in Reasons(in)
    BY <1>1, AxesFire
  <2>2. <<3, "ui_integrity", f.subject>>[1] = 3
    OBVIOUS
  <2> QED BY <2>1, <2>2, ComposeReports
<1>2. ASSUME NEW f \in in.ui.returned, f.severity = "error"
      PROVE  ~ Passes(Compose(in)) /\ Compose(in) # "PASS"
  <2>1. <<5, "ui_integrity", f.subject>> \in Reasons(in)
    BY <1>2, AxesFire
  <2>2. <<5, "ui_integrity", f.subject>>[1] = 5
    OBVIOUS
  <2> QED BY <2>1, <2>2, ComposeReports
<1>3. ASSUME NEW f \in in.delta.findings, f.severity = "error"
      PROVE  Compose(in) = "BLOCKED"
  <2>1. <<3, "delta_triangle", f.subject>> \in Reasons(in)
    BY <1>3, AxesFire
  <2>2. <<3, "delta_triangle", f.subject>>[1] = 3
    OBVIOUS
  <2> QED BY <2>1, <2>2, ComposeReports
<1> QED BY <1>1, <1>2, <1>3 DEF HasError

\* A new interface error and unauthorized drift block, an error that is back holds the
\* change at least, once both replays were made (ratchet, join_triangle, ranks 3 and 5).
THEOREM RuntimeRegressions == Spec => []RuntimeRegressionsBlock
<1>1. IInv => RuntimeRegressionsBlock
  <2> SUFFICES ASSUME IInv, NEW p \in Proc, OnRun(p), cmd[p].kept.whole, Own(p).replayed,
                      NEW errors, errors = IF HasUi(Own(p).content) THEN NewUiErrors(Own(p)) ELSE {}
               PROVE  /\ errors # {} => ~ Passes(Verdict(p))
                      /\ errors \ fixed # {} \/ Drifts(Own(p)) => Verdict(p) = "BLOCKED"
    BY DEF RuntimeRegressionsBlock
  <2> DEFINE in == cmd[p].kept.in
             run == Own(p)
  <2>1. /\ Verdict(p) = Compose(in) /\ RowOK(history, fixed, run)
        /\ HasUi(run.content) => UiSays(fixed, run, in.ui)
        /\ Facts[run.content].programs => in.delta = TriangleOf(run)
        /\ run.whole
    BY ReplyOnRun DEF OnRun, Replied, ReaderOK
  <2> HIDE DEF in, run
  <2>2. /\ errors # {} => HasError(in.ui.new \cup in.ui.returned)
        /\ errors \ fixed # {} => HasError(in.ui.new)
    BY <2>1 DEF UiSays, run
  <2>3. run.replayed /\ run.protection = HeadSnapshot(run) /\ Facts[run.content].programs
    BY <2>1 DEF RowOK, Complete, run
  <2>4. Drifts(run) => HasError(in.delta.findings)
    BY <2>1, <2>3, TriangleSays DEF HasError
  <2> QED BY <2>1, <2>2, <2>4, ErrorsHold DEF run
<1> QED BY <1>1, GateInvariant, PTL

\* A whole run passes without a remark only if everything it touches was measured
\* (module comment of change_verdict.rs; spec "Unmeasured Never Clean").
THEOREM PassIsMeasured == Spec => []PassOfWholeRunIsMeasured
<1>1. IInv => PassOfWholeRunIsMeasured
  <2> SUFFICES ASSUME IInv, NEW p \in Proc, OnRun(p), cmd[p].kept.whole, Verdict(p) = "PASS"
               PROVE  Measured(p)
    BY DEF PassOfWholeRunIsMeasured
  <2> DEFINE in == cmd[p].kept.in
             run == Own(p)
  <2>1. /\ Verdict(p) = Compose(in) /\ RowOK(history, fixed, run)
        /\ ReaderOK(bases, fixed, approved, cmd[p], run)
    BY ReplyOnRun DEF OnRun, Replied
  <2>2. /\ run.content = cmd[p].content /\ in.proofs = Proofs(run.content, run.outcome)
        /\ run.protection # None /\ in.protection.state # "unmeasured" => run.baseProtection # None
        /\ cmd[p].kept.audit = None => in.debt.state = "unmeasured"
        /\ HasUi(run.content) => UiSays(fixed, run, in.ui)
        /\ Facts[run.content].programs => in.delta = TriangleOf(run)
    BY <2>1 DEF ReaderOK, OnRun, Replied, ProtectionSays
  <2> HIDE DEF in, run, IInv
  <2>3. /\ ProofState(in.proofs) # "unmeasured" /\ in.protection.state # "unmeasured"
        /\ in.debt.state # "unmeasured" /\ in.ui.state # "unmeasured"
        /\ in.delta.state # "unmeasured"
        /\ \A q \in in.proofs : q.verdict # "CONTRADICTED"
        /\ \A f \in in.ui.new \cup in.ui.returned : f.severity # "error"
    BY <2>1, PassIsClean
  <2>4. \A o \in Facts[run.content].obligations : run.outcome = "passed"
    <3>1. run.outcome \in Outcome
      BY <2>1 DEF RowOK
    <3> QED BY <2>2, <2>3, <3>1, ProofsPass
  <2>5. Facts[run.content].programs => run.replayed
    BY <2>2, <2>3, TriangleSays
  <2>6. HasUi(run.content) =>
          \A from \in BaseAt(run, DefaultWidth), to \in HeadAt(run, run.content, DefaultWidth) :
             ~to.truncated /\ ~from.truncated /\ to.states = from.states
    BY <2>2, <2>3 DEF UiSays, HasError
  <2>7. run.protection # None => run.baseProtection # None
    BY <2>2, <2>3
  <2>8. cmd[p].kept.audit # None
    BY <2>2, <2>3
  <2> QED BY <2>2, <2>4, <2>5, <2>6, <2>7, <2>8 DEF Measured, run
<1> QED BY <1>1, GateInvariant, PTL

\* Where an interval claims an exact boundary, the width beyond it was measured and has
\* no regression of its kind.
LEMMA BoundariesAreMeasured ==
  ASSUME NEW responsive, NEW probes, DOMAIN probes \subseteq Int,
         NEW i \in Intervals(responsive, probes)
  PROVE  /\ i.lower => \/ i.first = responsive.min
                       \/ /\ i.first - 1 \in DOMAIN probes
                          /\ i.key \notin Regressed(probes[i.first - 1])
         /\ i.upper => \/ i.last = responsive.max
                       \/ /\ i.last + 1 \in DOMAIN probes
                          /\ i.key \notin Regressed(probes[i.last + 1])
<1> DEFINE widths == DOMAIN probes
           Beside(pair, first, last, key) ==
             /\ pair[2] = first => key \notin Regressed(probes[pair[1]])
             /\ pair[1] = last => key \notin Regressed(probes[pair[2]])
<1>1. PICK first, last, key :
        /\ first \in widths /\ last \in widths
        /\ \A pair \in Neighbours(probes) : Beside(pair, first, last, key)
        /\ i.key = key /\ i.first = first /\ i.last = last
        /\ i.lower = (first = responsive.min \/ first - 1 \in widths)
        /\ i.upper = (last = responsive.max \/ last + 1 \in widths)
  BY DEF Intervals
<1>2. first \in Int /\ last \in Int
  BY <1>1
<1>3. ASSUME first - 1 \in widths PROVE key \notin Regressed(probes[first - 1])
  <2>1. <<first - 1, first>> \in Neighbours(probes)
    BY <1>1, <1>2, <1>3 DEF Neighbours
  <2> QED BY <1>1, <2>1
<1>4. ASSUME last + 1 \in widths PROVE key \notin Regressed(probes[last + 1])
  <2>1. <<last, last + 1>> \in Neighbours(probes)
    BY <1>1, <1>2, <1>4 DEF Neighbours
  <2> QED BY <1>1, <2>1
<1> QED BY <1>1, <1>3, <1>4

\* A search that calls itself whole may be believed: its probes are what base and head
\* are at their widths, whatever failed and was retried, and beyond a boundary it calls
\* exact there is no regression of that kind (measure_responsive_ui,
\* responsive_failure_intervals).
THEOREM SearchesAreExact == Spec => []ResponsiveIsExact
<1>1. IInv => ResponsiveIsExact
  <2> SUFFICES ASSUME IInv, NEW p \in Proc, cmd[p].pc = "ui", ~cmd[p].kept.search.cut,
                      NEW run, run = Own(p), NEW search, search = cmd[p].kept.search,
                      NEW range, range = UiPolicy(run.content).responsive
               PROVE  /\ Cardinality(DOMAIN search.probes) < MaxProbes => Open(search.probes) = {}
                      /\ Cardinality(search.trees) = 1 =>
                           /\ \A w \in DOMAIN search.probes :
                                Regressed(search.probes[w]) = Truth(run, search, w)
                           /\ \A i \in search.intervals :
                                /\ i.lower => \/ i.first = range.min
                                              \/ i.key \notin Truth(run, search, i.first - 1)
                                /\ i.upper => \/ i.last = range.max
                                              \/ i.key \notin Truth(run, search, i.last + 1)
    BY DEF ResponsiveIsExact
  <2>1. SearchOK(run, search)
    BY RunnerHas DEF RunPcs, RunnerOK
  <2>2. CASE search = NoSearch
    <3>1. DOMAIN search.probes = {} /\ search.trees = {} /\ search.intervals = {}
      BY <2>2 DEF NoSearch
    <3>2. Open(search.probes) = {}
      BY <3>1 DEF Open, Neighbours
    <3> QED BY <3>1, <3>2
  <2>3. CASE search # NoSearch
    <3>1. /\ ProbesOK(run, search)
          /\ \A w \in DOMAIN search.probes : ~Incomplete(search.probes[w])
          /\ NextProbe(MaxProbes, search.probes) = {}
          /\ search.intervals = Intervals(range, search.probes)
      BY <2>1, <2>3 DEF SearchOK
    <3>2. ASSUME Cardinality(DOMAIN search.probes) < MaxProbes
          PROVE  Open(search.probes) = {}
      <4>1. Cardinality(DOMAIN search.probes) \in Nat /\ MaxProbes \in Nat
        BY <3>1, FS_CardinalityType, WidthAssumption DEF ProbesOK
      <4> QED BY <3>1, <3>2, <4>1, NothingLeftToProbe
    <3>3. ASSUME Cardinality(search.trees) = 1, NEW w \in DOMAIN search.probes
          PROVE  Regressed(search.probes[w]) = Truth(run, search, w)
      <4>1. PICK t \in search.trees : \E from \in BaseAt(run, w), to \in HeadAt(run, t, w) :
              search.probes[w] = Delta(from, to, search.fixed, UiPolicy(run.content))
        BY <3>1 DEF ProbesOK
      <4>2. search.trees = {t}
        BY <3>1, <3>3, <4>1, FS_Singleton DEF ProbesOK
      <4>3. PICK from \in BaseAt(run, w), to \in HeadAt(run, t, w) :
              search.probes[w] = Delta(from, to, search.fixed, UiPolicy(run.content))
        BY <4>1
      <4>4. BaseAt(run, w) = {from} /\ UNION {HeadAt(run, u, w) : u \in search.trees} = {to}
        BY <4>2 DEF BaseAt, HeadAt
      <4> QED BY <4>3, <4>4 DEF Truth
    <3>4. ASSUME Cardinality(search.trees) = 1, NEW i \in search.intervals
          PROVE  /\ i.lower => \/ i.first = range.min
                               \/ i.key \notin Truth(run, search, i.first - 1)
                 /\ i.upper => \/ i.last = range.max
                               \/ i.key \notin Truth(run, search, i.last + 1)
      <4>1. DOMAIN search.probes \subseteq Int
        BY <3>1 DEF ProbesOK
      <4> QED BY <3>1, <3>3, <3>4, <4>1, BoundariesAreMeasured
    <3> QED BY <3>2, <3>3, <3>4
  <2> QED BY <2>2, <2>3
<1> QED BY <1>1, GateInvariant, PTL

-----------------------------------------------------------------------------
(* The sweep over the left edges. *)

\* The part two rectangles share is one rectangle, or none.
LEMMA IntersectionShape ==
  ASSUME NEW a \in Rectangle, NEW b \in Rectangle
  PROVE  Intersection(a, b) = {} \/ \E r \in Rectangle : Intersection(a, b) = {r}
<1> DEFINE x == Larger(a.x, b.x)
           y == Larger(a.y, b.y)
           w == Smaller(Right(a), Right(b)) - x
           h == Smaller(Bottom(a), Bottom(b)) - y
<1>1. x \in Int /\ y \in Int /\ w \in Int /\ h \in Int
  BY DEF Larger, Smaller, Right, Bottom, Rectangle
<1>2. [x |-> x, y |-> y, w |-> w, h |-> h] \in Rectangle
  BY <1>1 DEF Rectangle
<1> QED BY <1>2 DEF Intersection

\* A node has one box, or none.
LEMMA OneBox ==
  ASSUME NEW node, NodeIsMeasured(node)
  PROVE  VisibleBounds(node) = {} \/ \E r \in Rectangle : VisibleBounds(node) = {r}
<1> DEFINE solid == {r \in node.rects : ~Hollow(r)}
<1>1. Bounds(node) = {} \/ \E r \in Rectangle : Bounds(node) = {r}
  <2>1. CASE solid = {}
    BY <2>1 DEF Bounds
  <2>2. CASE solid # {}
    <3> DEFINE fx == [r \in solid |-> r.x]
               fy == [r \in solid |-> r.y]
               fr == [r \in solid |-> Right(r)]
               fb == [r \in solid |-> Bottom(r)]
    <3>1. IsFiniteSet(solid) /\ solid \subseteq Rectangle
      BY FS_Subset DEF NodeIsMeasured
    <3>2. /\ fx \in [solid -> Int] /\ fy \in [solid -> Int]
          /\ fr \in [solid -> Int] /\ fb \in [solid -> Int]
      BY <3>1 DEF Rectangle, Right, Bottom
    <3>3. /\ {r.x : r \in solid} = {fx[r] : r \in solid}
          /\ {r.y : r \in solid} = {fy[r] : r \in solid}
          /\ {Right(r) : r \in solid} = {fr[r] : r \in solid}
          /\ {Bottom(r) : r \in solid} = {fb[r] : r \in solid}
      OBVIOUS
    <3> HIDE DEF fx, fy, fr, fb
    <3>4. /\ Min({r.x : r \in solid}) \in Int
          /\ Min({r.y : r \in solid}) \in Int
          /\ Max({Right(r) : r \in solid}) \in Int
          /\ Max({Bottom(r) : r \in solid}) \in Int
      <4> HIDE DEF solid
      <4>1. Min({fx[r] : r \in solid}) \in Int /\ Min({fy[r] : r \in solid}) \in Int
        BY <2>2, <3>1, <3>2, MeasuresHaveEnds
      <4>2. Max({fr[r] : r \in solid}) \in Int /\ Max({fb[r] : r \in solid}) \in Int
        BY <2>2, <3>1, <3>2, MeasuresHaveEnds
      <4> QED BY <3>3, <4>1, <4>2
    <3> DEFINE x == Min({r.x : r \in solid})
               y == Min({r.y : r \in solid})
               w == Max({Right(r) : r \in solid}) - x
               h == Max({Bottom(r) : r \in solid}) - y
               box == [x |-> x, y |-> y, w |-> w, h |-> h]
    <3>5. Bounds(node) = {box}
      BY <2>2 DEF Bounds
    <3>6. x \in Int /\ y \in Int /\ w \in Int /\ h \in Int
      BY <3>4
    <3> HIDE DEF x, y, w, h
    <3>7. box \in Rectangle
      BY <3>6 DEF Rectangle
    <3> QED BY <3>5, <3>7
  <2> QED BY <2>1, <2>2
<1>2. CASE node.clip = {}
  BY <1>1, <1>2 DEF VisibleBounds
<1>3. CASE node.clip # {}
  <2>1. PICK c \in Rectangle : node.clip = {c}
    BY <1>3 DEF NodeIsMeasured
  <2>2. VisibleBounds(node) = UNION {Intersection(b, c) : b \in Bounds(node)}
    BY <2>1 DEF VisibleBounds
  <2>3. CASE Bounds(node) = {}
    BY <2>2, <2>3
  <2>4. ASSUME NEW r \in Rectangle, Bounds(node) = {r}
        PROVE  VisibleBounds(node) = Intersection(r, c)
    BY <2>2, <2>4
  <2> QED BY <1>1, <2>1, <2>3, <2>4, IntersectionShape
<1> QED BY <1>2, <1>3

\* Rectangles that lie on each other have an extent, and each begins before the other ends.
LEMMA OverlapSpans ==
  ASSUME NEW a \in Rectangle, NEW b \in Rectangle, Intersection(a, b) # {}
  PROVE  /\ ~Hollow(a) /\ ~Hollow(b)
         /\ Right(a) > b.x /\ Right(b) > a.x
         /\ Intersection(b, a) # {}
<1>1. /\ Smaller(Right(a), Right(b)) > Larger(a.x, b.x)
      /\ Smaller(Bottom(a), Bottom(b)) > Larger(a.y, b.y)
  BY DEF Intersection, Rectangle, Smaller, Larger, Right, Bottom
<1>2. ~Hollow(a) /\ ~Hollow(b) /\ Right(a) > b.x /\ Right(b) > a.x
  BY <1>1 DEF Rectangle, Smaller, Larger, Right, Bottom, Hollow
<1>3. /\ Smaller(Right(b), Right(a)) > Larger(b.x, a.x)
      /\ Smaller(Bottom(b), Bottom(a)) > Larger(b.y, a.y)
  BY <1>1 DEF Rectangle, Smaller, Larger, Right, Bottom
<1>4. Intersection(b, a) # {}
  BY <1>3 DEF Intersection, Rectangle, Smaller, Larger, Right, Bottom
<1> QED BY <1>2, <1>4

\* No two nodes of a sound snapshot have one id.
LEMMA IdsAreApart ==
  ASSUME NEW s, Sound(s), IsFiniteSet(s.nodes), NEW m \in s.nodes, NEW n \in s.nodes,
         m.id = n.id
  PROVE  m = n
<1> DEFINE ids == {k.id : k \in s.nodes}
           f == [k \in s.nodes |-> k.id]
<1>1. Cardinality(ids) = Cardinality(s.nodes)
  BY DEF Sound
<1>2. f \in Surjection(s.nodes, ids)
  BY DEF Surjection
<1>3. f \in Injection(s.nodes, ids)
  <2> HIDE DEF f, ids
  <2> QED BY <1>1, <1>2, FS_Surjection
<1>4. \A a, b \in s.nodes : f[a] = f[b] => a = b
  <2> HIDE DEF f, ids
  <2> QED BY <1>3 DEF Injection, IsInjective
<1>5. f[m] = f[n]
  OBVIOUS
<1> QED BY <1>4, <1>5

\* The pairs the sweep compares are those of two controls that lie on each other.
LEMMA SweepIsExact ==
  ASSUME NEW s, Sound(s), IsFiniteSet(s.nodes), \A n \in s.nodes : NodeIsMeasured(n)
  PROVE  {{pair[1][1], pair[2][1]} : pair \in Sweep(s)}
           = {{pair[1], pair[2]} : pair \in
                {both \in Controls(s) \X Controls(s) :
                   /\ both[1] # both[2]
                   /\ \E a \in VisibleBounds(both[1]), b \in VisibleBounds(both[2]) :
                        Intersection(a, b) # {}}}
<1> DEFINE Meeting == {both \in Controls(s) \X Controls(s) :
                         /\ both[1] # both[2]
                         /\ \E a \in VisibleBounds(both[1]), b \in VisibleBounds(both[2]) :
                              Intersection(a, b) # {}}
           Box(n) == {r \in VisibleBounds(n) : ~Hollow(r)}
           boxed == UNION {{n} \X Box(n) : n \in Controls(s)}
           Before(a, b) == \/ a[2].x < b[2].x
                           \/ a[2].x = b[2].x /\ a[1].id < b[1].id
<1>1. \A n \in Controls(s) : n \in s.nodes /\ NodeIsMeasured(n) /\ n.id \in Nat
  BY DEF Controls, NodeIsMeasured
<1>2. ASSUME NEW n \in Controls(s), NEW r \in VisibleBounds(n)
      PROVE  r \in Rectangle /\ r.x \in Int /\ \A q \in VisibleBounds(n) : q = r
  <2>1. PICK t \in Rectangle : VisibleBounds(n) = {t}
    BY <1>1, <1>2, OneBox
  <2> QED BY <1>2, <2>1 DEF Rectangle
<1>3. Sweep(s) = {pair \in boxed \X boxed :
                    /\ Before(pair[1], pair[2])
                    /\ Right(pair[1][2]) > pair[2][2].x
                    /\ Intersection(pair[1][2], pair[2][2]) # {}}
  BY DEF Sweep
<1>4. ASSUME NEW pair \in Sweep(s)
      PROVE  <<pair[1][1], pair[2][1]>> \in Meeting
  <2>1. /\ pair[1] \in boxed /\ pair[2] \in boxed /\ Before(pair[1], pair[2])
        /\ Intersection(pair[1][2], pair[2][2]) # {}
    BY <1>3, <1>4
  <2>2. PICK m \in Controls(s) : \E a \in Box(m) : pair[1] = <<m, a>>
    BY <2>1
  <2>3. PICK n \in Controls(s) : \E b \in Box(n) : pair[2] = <<n, b>>
    BY <2>1
  <2>4. PICK a \in Box(m) : pair[1] = <<m, a>>
    BY <2>2
  <2>5. PICK b \in Box(n) : pair[2] = <<n, b>>
    BY <2>3
  <2>6. m # n
    <3> SUFFICES ASSUME m = n PROVE FALSE
      OBVIOUS
    <3>1. a = b /\ a.x \in Int /\ m.id \in Nat
      BY <1>1, <1>2, <2>1, <2>4, <2>5
    <3> QED BY <2>1, <2>4, <2>5, <3>1
  <2> QED BY <2>1, <2>4, <2>5, <2>6
<1>5. ASSUME NEW both \in Meeting
      PROVE  \E pair \in Sweep(s) : {pair[1][1], pair[2][1]} = {both[1], both[2]}
  <2>1. PICK m \in Controls(s), n \in Controls(s) : both = <<m, n>>
    BY <1>5
  <2>2. PICK a \in VisibleBounds(m), b \in VisibleBounds(n) : Intersection(a, b) # {}
    BY <1>5, <2>1
  <2>3. m # n /\ m.id # n.id /\ m.id \in Nat /\ n.id \in Nat
    BY <1>1, <1>5, <2>1, IdsAreApart
  <2>4. a \in Rectangle /\ b \in Rectangle /\ a.x \in Int /\ b.x \in Int
    BY <1>2
  <2>5. /\ ~Hollow(a) /\ ~Hollow(b) /\ Right(a) > b.x /\ Right(b) > a.x
        /\ Intersection(b, a) # {}
    BY <2>2, <2>4, OverlapSpans
  <2>6. <<m, a>> \in boxed /\ <<n, b>> \in boxed
    BY <2>5
  <2>7. Before(<<m, a>>, <<n, b>>) \/ Before(<<n, b>>, <<m, a>>)
    BY <2>3, <2>4
  <2> HIDE DEF Before, boxed
  <2>8. CASE Before(<<m, a>>, <<n, b>>)
    <3>1. <<<<m, a>>, <<n, b>>>> \in Sweep(s)
      BY <1>3, <2>2, <2>5, <2>6, <2>8
    <3> QED BY <2>1, <3>1
  <2>9. CASE Before(<<n, b>>, <<m, a>>)
    <3>1. <<<<n, b>>, <<m, a>>>> \in Sweep(s)
      BY <1>3, <2>5, <2>6, <2>9
    <3> QED BY <2>1, <3>1
  <2> QED BY <2>7, <2>8, <2>9
<1> HIDE DEF Meeting
<1>6. \A x : x \in {{pair[1][1], pair[2][1]} : pair \in Sweep(s)}
               <=> x \in {{pair[1], pair[2]} : pair \in Meeting}
  BY <1>4, <1>5
<1> QED BY <1>6 DEF Meeting

\* Two controls of a sound page that lie on each other are compared, and only such two,
\* whatever left edges coincide and whatever clips them (overlapping_pairs).
THEOREM EveryOverlapIsFound == Spec => []SweepFindsEveryOverlap
<1>1. IInv => SweepFindsEveryOverlap
  <2> SUFFICES ASSUME IInv, NEW p \in Proc, cmd[p].pc = "running", NEW w \in Width,
                      NEW page, page = Facts[cmd[p].content].layout,
                      NEW s \in Layouts(Pages[page][w]), Sound(s)
               PROVE  {{pair[1][1], pair[2][1]} : pair \in Sweep(s)}
                        = {{pair[1], pair[2]} : pair \in
                             {both \in Controls(s) \X Controls(s) :
                                /\ both[1] # both[2]
                                /\ \E a \in VisibleBounds(both[1]),
                                      b \in VisibleBounds(both[2]) : Intersection(a, b) # {}}}
    BY DEF SweepFindsEveryOverlap
  <2>1. cmd[p].content \in Content
    BY DEF IInv, CommandsOK, CommandOK
  <2>2. IsFiniteSet(s.nodes) /\ \A n \in s.nodes : NodeIsMeasured(n)
    BY <2>1, PagesAssumption
  <2> QED BY <2>2, SweepIsExact
<1> QED BY <1>1, GateInvariant, PTL

=============================================================================
