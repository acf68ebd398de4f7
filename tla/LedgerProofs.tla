---------------------------- MODULE LedgerProofs ----------------------------
(***************************************************************************)
(* Proofs about the evidence store: the ledger of runs, proofs and         *)
(* verdicts, and the content-addressed objects its rows point to, for      *)
(* every set of processes, obligations and contents and every bound.       *)
(***************************************************************************)
EXTENDS RunLedger, Cas, TLAPS

(***************************************************************************)
(* RunLedger, for every set of processes and obligations and               *)
(* every bound.  The argument: what verify sees of a run is a Snapshot, a  *)
(* prefix of the order in which the run stores its artifacts; the map that *)
(* comes first holds every status, and what comes later only adds evidence *)
(* or clears "unmeasured"; so a verdict from a snapshot is admissible for  *)
(* the verdict from everything.                                            *)
(***************************************************************************)

(* The verdict functions. *)

\* With the same execution, more evidence and no more weak mutants move a
\* verdict only upwards: UNPROVEN, PARTIAL, PROVEN.
LEMMA AssembleMonotone ==
  ASSUME NEW e \in ExecutionEvidence, NEW req, NEW P, NEW Q,
         P \subseteq Q,
         NEW w1 \in BOOLEAN, NEW w2 \in BOOLEAN, w2 => w1
  PROVE  Admissible(Assemble(e, req, P, FALSE, w1), Assemble(e, req, Q, FALSE, w2))
<1>1. CASE e = "passed"
  BY <1>1 DEF Assemble, DecideVerdict, Admissible
<1>2. CASE e = "failed"
  BY <1>2 DEF Assemble, DecideVerdict, Admissible
<1>3. CASE e = "contradicted"
  BY <1>3 DEF Assemble, DecideVerdict, Admissible
<1>4. CASE e = "absent"
  BY <1>4 DEF Assemble, DecideVerdict, Admissible
<1> QED
  BY <1>1, <1>2, <1>3, <1>4 DEF ExecutionEvidence

\* Absent execution is unproven, whatever evidence or mutants there are.
LEMMA AssembleAbsent ==
  ASSUME NEW req, NEW P, NEW w
  PROVE  Assemble("absent", req, P, FALSE, w) = "UNPROVEN"
BY DEF Assemble, DecideVerdict

\* The status fold yields one of the four kinds of execution evidence.
LEMMA ExecutionType ==
  ASSUME NEW S PROVE Execution(S) \in ExecutionEvidence
BY DEF Execution, ExecutionEvidence

\* assemble yields one of the five verdicts.
LEMMA AssembleType ==
  ASSUME NEW e \in ExecutionEvidence, NEW req, NEW P,
         NEW a \in BOOLEAN, NEW w \in BOOLEAN
  PROVE  Assemble(e, req, P, a, w) \in ProofVerdict
BY DEF Assemble, DecideVerdict, ProofVerdict, ExecutionEvidence

\* VerdictFrom is a verdict.
LEMMA VerdictFromType ==
  ASSUME NEW run, NEW o, NEW seen
  PROVE  VerdictFrom(run, o, seen) \in ProofVerdict
<1>1. WeakMutation(run, o, seen) \in BOOLEAN
  BY DEF WeakMutation
<1> QED
  BY <1>1, ExecutionType, AssembleType DEF VerdictFrom

\* Statuses that repeat or are outranked do not change the status fold.
LEMMA ExecutionOutranked ==
  ASSUME NEW M, NEW S, M \subseteq S,
         "contradicted" \in S => "contradicted" \in M,
         "failed" \in S => "failed" \in M,
         "passed" \in S => "passed" \in M \/ "failed" \in M
  PROVE  Execution(S) = Execution(M)
<1>1. CASE "contradicted" \in S
  BY <1>1 DEF Execution
<1>2. CASE "contradicted" \notin S /\ "failed" \in S
  BY <1>2 DEF Execution
<1>3. CASE "contradicted" \notin S /\ "failed" \notin S
  BY <1>3 DEF Execution
<1> QED BY <1>1, <1>2, <1>3

\* Once the execution map is seen the browser evidence changes no execution
\* status: what passed in a program that did not is already failed in the map.
LEMMA MapDecides ==
  ASSUME NEW run \in RunRecord, NEW o \in Obligation, NEW seen, "map" \in seen
  PROVE  Execution(SeenStatuses(run, o, seen)) = Execution(MapStatuses(run, o))
<1> DEFINE M == MapStatuses(run, o)
           S == SeenStatuses(run, o, seen)
<1>1. M \subseteq S
  BY DEF SeenStatuses
<1>2. "contradicted" \in S => "contradicted" \in M
  BY DEF SeenStatuses, MapStatuses, BrowserStatuses
<1>3. "failed" \in S => "failed" \in M
  BY DEF SeenStatuses, MapStatuses, BrowserStatuses
<1>4. "passed" \in S => "passed" \in M \/ "failed" \in M
  BY DEF SeenStatuses, MapStatuses, BrowserStatuses
<1> QED BY <1>1, <1>2, <1>3, <1>4, ExecutionOutranked

\* Nothing is proven, contradicted or partial before the execution map is
\* stored, and after it the later artifacts only strengthen the verdict.
LEMMA SnapshotAdmissible ==
  ASSUME NEW run \in RunRecord, NEW o \in Obligation, NEW seen,
         WellFormed(run), Snapshot(run, seen)
  PROVE  Admissible(VerdictFrom(run, o, seen), VerdictFrom(run, o, run.yields))
<1>1. CASE "map" \notin seen
  <2>1. "browser" \notin seen
    BY <1>1 DEF Snapshot, WellFormed, Earlier
  <2>2. SeenStatuses(run, o, seen) = {}
    BY <1>1, <2>1 DEF SeenStatuses
  <2>3. Execution(SeenStatuses(run, o, seen)) = "absent"
    BY <2>2 DEF Execution
  <2>4. VerdictFrom(run, o, seen) = "UNPROVEN"
    BY <2>3, AssembleAbsent DEF VerdictFrom
  <2> QED BY <2>4 DEF Admissible
<1>2. CASE "map" \in seen
  <2>1. Execution(SeenStatuses(run, o, seen))
          = Execution(SeenStatuses(run, o, run.yields))
    <3>1. "map" \in run.yields
      BY DEF WellFormed
    <3>2. Execution(SeenStatuses(run, o, seen)) = Execution(MapStatuses(run, o))
      BY <1>2, MapDecides
    <3>3. Execution(SeenStatuses(run, o, run.yields)) = Execution(MapStatuses(run, o))
      BY <3>1, MapDecides
    <3> QED BY <3>2, <3>3
  <2>2. SeenEvidence(run, o, seen) \subseteq SeenEvidence(run, o, run.yields)
    BY DEF SeenEvidence, Snapshot
  <2>3. WeakMutation(run, o, run.yields) => WeakMutation(run, o, seen)
    BY DEF WeakMutation, Snapshot
  <2>4. /\ WeakMutation(run, o, run.yields) \in BOOLEAN
        /\ WeakMutation(run, o, seen) \in BOOLEAN
    BY DEF WeakMutation
  <2> QED
    BY <2>1, <2>2, <2>3, <2>4, ExecutionType, AssembleMonotone DEF VerdictFrom
<1> QED BY <1>1, <1>2
-----------------------------------------------------------------------------
(* Types. *)

\* A sequence stays one of its type when it grows by an element of the type.
LEMMA AppendType ==
  ASSUME NEW S, NEW s \in Seq(S), NEW x \in S
  PROVE  Append(s, x) \in Seq(S)
OBVIOUS

\* The constructors of local state build local state.
LEMMA JobType ==
  ASSUME NEW oracle \in Revision, NEW b \in Revision, NEW saw \in SUBSET Revision,
         NEW todo \in SUBSET Obligation,
         NEW tested \in [Obligation -> SUBSET Status],
         NEW asserted \in [Obligation -> SUBSET AssertStatus], NEW run \in Nat
  PROVE  Job(oracle, b, saw, todo, tested, asserted, run) \in JobRecord
BY DEF Job, JobRecord

LEMMA LookType ==
  ASSUME NEW seal \in Revision, NEW rev \in Revision, NEW run \in Nat,
         NEW seen \in SUBSET Kind, NEW todo \in SUBSET Obligation,
         NEW missing \in SUBSET Obligation
  PROVE  Look(seal, rev, run, seen, todo, missing) \in LookRecord
BY DEF Look, LookRecord

LEMMA IdleType == NoJob \in JobRecord /\ NoLook \in LookRecord
<1>1. /\ 0 \in Revision
      /\ NoStatus \in [Obligation -> SUBSET Status]
      /\ NoStatus \in [Obligation -> SUBSET AssertStatus]
  BY ConstantsAssumption DEF Revision, NoStatus, ConstantsAssumption
<1> QED BY <1>1, JobType, LookType DEF NoJob, NoLook

\* The initial state is well typed.
LEMMA TypeInit == Init => TypeOK
<1> SUFFICES ASSUME Init PROVE TypeOK
  OBVIOUS
<1>1. tree \in Revision
  BY ConstantsAssumption DEF Init, Revision, ConstantsAssumption
<1>2. /\ runs \in Seq(RunRecord)
      /\ attached \in Seq(SUBSET Kind)
      /\ proofs \in Seq(ProofRecord)
  BY DEF Init
<1>3. /\ pc \in [Proc -> PC]
      /\ job \in [Proc -> JobRecord]
      /\ look \in [Proc -> LookRecord]
  BY IdleType DEF Init, PC
<1> QED BY <1>1, <1>2, <1>3 DEF TypeOK

\* Every step keeps every variable in its type; that the rows a process works
\* on exist is what makes the lookups in `attached` typed.
LEMMA TypeStep == TypeOK /\ RunsInv /\ LookInv /\ [Next]_vars => TypeOK'
<1> SUFFICES ASSUME TypeOK, RunsInv, LookInv, [Next]_vars PROVE TypeOK'
  OBVIOUS
<1>0. /\ 0 \in Revision
      /\ NoStatus \in [Obligation -> SUBSET Status]
      /\ NoStatus \in [Obligation -> SUBSET AssertStatus]
  BY ConstantsAssumption DEF Revision, NoStatus, ConstantsAssumption
<1>1. CASE Edit
  BY <1>1 DEF TypeOK, Edit
<1>2. ASSUME NEW p \in Proc, StartRun(p) PROVE TypeOK'
  <2>1. Job(tree, 0, {}, {}, NoStatus, NoStatus, 0) \in JobRecord
    BY <1>0, JobType DEF TypeOK
  <2> QED BY <1>2, <2>1 DEF TypeOK, StartRun, PC
<1>2a. ASSUME NEW p \in Proc, PinRun(p) PROVE TypeOK'
  <2>1. job[p].oracle \in Revision
    BY DEF TypeOK, JobRecord
  <2>2. Job(job[p].oracle, tree, {}, Obligation, NoStatus, NoStatus, 0) \in JobRecord
    BY <1>0, <2>1, JobType DEF TypeOK
  <2> QED BY <1>2a, <2>2 DEF TypeOK, PinRun, PC
<1>3. ASSUME NEW p \in Proc, NEW o \in Obligation, Invoke(p, o) PROVE TypeOK'
  <2> DEFINE j == job[p]
  <2>1. PICK t \in TestOutcomes, a \in Programs(p) :
          job' = [job EXCEPT ![p] =
                    Job(j.oracle, j.before, j.saw \cup {tree}, j.todo \ {o},
                        [j.tested EXCEPT ![o] = t], [j.asserted EXCEPT ![o] = a], 0)]
    BY <1>3 DEF Invoke
  <2>2. t \in SUBSET Status /\ a \in SUBSET AssertStatus
    BY ConstantsAssumption DEF ConstantsAssumption, Programs, Status
  <2>3. j \in JobRecord
    BY DEF TypeOK
  <2>4. /\ j.oracle \in Revision /\ j.before \in Revision
        /\ j.saw \cup {tree} \in SUBSET Revision
        /\ j.todo \ {o} \in SUBSET Obligation
    BY <2>3 DEF TypeOK, JobRecord
  <2>5. [j.tested EXCEPT ![o] = t] \in [Obligation -> SUBSET Status]
    BY <2>2, <2>3 DEF JobRecord
  <2>6. [j.asserted EXCEPT ![o] = a] \in [Obligation -> SUBSET AssertStatus]
    BY <2>2, <2>3 DEF JobRecord
  <2>7. Job(j.oracle, j.before, j.saw \cup {tree}, j.todo \ {o},
            [j.tested EXCEPT ![o] = t], [j.asserted EXCEPT ![o] = a], 0) \in JobRecord
    BY <2>4, <2>5, <2>6, JobType
  <2>8. job' \in [Proc -> JobRecord]
    BY <2>1, <2>7 DEF TypeOK
  <2> QED BY <1>3, <2>8 DEF TypeOK, Invoke
<1>4. ASSUME NEW p \in Proc, CheckRevision(p) PROVE TypeOK'
  <2>1. job' \in [Proc -> JobRecord]
    BY <1>4, IdleType DEF TypeOK, CheckRevision
  <2>2. pc' \in [Proc -> PC]
    BY <1>4 DEF TypeOK, CheckRevision, PC
  <2> QED BY <1>4, <2>1, <2>2 DEF TypeOK, CheckRevision
<1>5. ASSUME NEW p \in Proc, PutRun(p) PROVE TypeOK'
  <2>1. PICK w \in WeakOutcomes(job[p]), c \in SUBSET {"coverage"}, d \in BOOLEAN :
          runs' = Append(runs,
            [rev |-> job[p].before, oracle |-> job[p].oracle, saw |-> job[p].saw,
             tested |-> job[p].tested, asserted |-> job[p].asserted,
             weak |-> w, digests |-> d, yields |-> Yields(job[p], c)])
    BY <1>5 DEF PutRun
  <2>2. w \in SUBSET Obligation
    BY ConstantsAssumption DEF WeakOutcomes, ConstantsAssumption
  <2>3. runs' \in Seq(RunRecord)
    BY <2>1, <2>2 DEF TypeOK, RunRecord, JobRecord, Kind, Yields
  <2>4. attached' \in Seq(SUBSET Kind)
    BY <1>5 DEF TypeOK, PutRun
  <2>5. Job(0, 0, {}, {}, NoStatus, NoStatus, Len(runs) + 1) \in JobRecord
    <3>1. Len(runs) + 1 \in Nat
      BY DEF TypeOK
    <3> QED BY <1>0, <3>1, JobType
  <2>6. job' \in [Proc -> JobRecord]
    BY <1>5, <2>5 DEF TypeOK, PutRun
  <2> QED BY <1>5, <2>3, <2>4, <2>6 DEF TypeOK, PutRun, PC
<1>6. ASSUME NEW p \in Proc, NEW k \in Kind, PutArtifact(p, k) PROVE TypeOK'
  <2>1. job[p].run \in 1..Len(attached)
    BY <1>6 DEF RunsInv, PutArtifact
  <2>2. attached' = [attached EXCEPT ![job[p].run] = attached[job[p].run] \cup {k}]
    BY <1>6 DEF PutArtifact
  <2>3. attached' \in Seq(SUBSET Kind)
    BY <2>1, <2>2 DEF TypeOK
  <2> QED BY <1>6, <2>3 DEF TypeOK, PutArtifact
<1>7. ASSUME NEW p \in Proc, FinishRun(p) PROVE TypeOK'
  BY <1>7, IdleType DEF TypeOK, FinishRun, PC
<1>8. ASSUME NEW p \in Proc, VerifyCompile(p) PROVE TypeOK'
  <2>1. Look(tree, 0, 0, {}, {}, {}) \in LookRecord
    BY <1>0, LookType DEF TypeOK
  <2> QED BY <1>8, <2>1 DEF TypeOK, VerifyCompile, PC
<1>9. ASSUME NEW p \in Proc, VerifyRevision(p) PROVE TypeOK'
  <2>1. Look(look[p].seal, tree, 0, {}, {}, {}) \in LookRecord
    BY LookType DEF TypeOK, LookRecord
  <2> QED BY <1>9, <2>1 DEF TypeOK, VerifyRevision, PC
<1>10. ASSUME NEW p \in Proc, VerifyRun(p) PROVE TypeOK'
  <2>1. PICK r \in 0..Len(runs) :
          look' = [look EXCEPT ![p] = Look(look[p].seal, look[p].rev, r, {}, {}, {})]
    BY <1>10 DEF VerifyRun
  <2>2. r \in Nat
    BY DEF TypeOK
  <2>3. Look(look[p].seal, look[p].rev, r, {}, {}, {}) \in LookRecord
    BY <2>2, LookType DEF TypeOK, LookRecord
  <2> QED BY <1>10, <2>1, <2>3 DEF TypeOK, VerifyRun, PC
<1>11. ASSUME NEW p \in Proc, VerifyArtifacts(p) PROVE TypeOK'
  <2> DEFINE seen == IF look[p].run = 0 THEN {} ELSE attached[look[p].run]
  <2>1. look' = [look EXCEPT ![p] = Look(look[p].seal, look[p].rev, look[p].run,
                                         seen, Obligation, {})]
    BY <1>11 DEF VerifyArtifacts
  <2>2. seen \in SUBSET Kind
    <3>1. CASE look[p].run = 0
      BY <3>1
    <3>2. CASE look[p].run # 0
      <4>1. look[p].run \in 1..Len(attached)
        BY <1>11, <3>2 DEF LookInv, RunsInv, VerifyArtifacts
      <4> QED BY <3>2, <4>1 DEF TypeOK
    <3> QED BY <3>1, <3>2
  <2>3. Look(look[p].seal, look[p].rev, look[p].run, seen, Obligation, {})
          \in LookRecord
    BY <2>2, LookType DEF TypeOK, LookRecord
  <2> QED BY <1>11, <2>1, <2>3 DEF TypeOK, VerifyArtifacts, PC
<1>12. ASSUME NEW p \in Proc, NEW o \in Obligation, SkipProof(p, o) PROVE TypeOK'
  <2>1. Look(look[p].seal, look[p].rev, look[p].run, look[p].seen,
             look[p].todo \ {o}, {}) \in LookRecord
    BY LookType DEF TypeOK, LookRecord
  <2> QED BY <1>12, <2>1 DEF TypeOK, SkipProof, Done
<1>13. ASSUME NEW p \in Proc, NEW o \in Obligation, MissProof(p, o) PROVE TypeOK'
  <2>1. Look(look[p].seal, look[p].rev, look[p].run, look[p].seen,
             look[p].todo, {o}) \in LookRecord
    BY LookType DEF TypeOK, LookRecord
  <2> QED BY <1>13, <2>1 DEF TypeOK, MissProof
<1>14. ASSUME NEW p \in Proc, NEW o \in Obligation, PutProof(p, o) PROVE TypeOK'
  <2>1. Look(look[p].seal, look[p].rev, look[p].run, look[p].seen,
             look[p].todo \ {o}, {}) \in LookRecord
    BY LookType DEF TypeOK, LookRecord
  <2>2. look' \in [Proc -> LookRecord]
    BY <1>14, <2>1, IdleType DEF TypeOK, PutProof, Done
  <2>3. pc' \in [Proc -> PC]
    BY <1>14 DEF TypeOK, PutProof, PC
  <2>4. Verdict(p, o) \in ProofVerdict
    BY VerdictFromType DEF Verdict, ProofVerdict
  <2>5. NewProof(p, o) \in ProofRecord
    BY <2>4 DEF TypeOK, LookRecord, ProofRecord, NewProof
  <2>6. proofs' \in Seq(ProofRecord)
    <3>1. CASE HasProof(look[p].run, o)
      BY <1>14, <3>1 DEF TypeOK, PutProof
    <3>2. CASE ~HasProof(look[p].run, o)
      <4>1. proofs' = Append(proofs, NewProof(p, o))
        BY <1>14, <3>2 DEF PutProof
      <4> QED BY <2>5, <4>1, AppendType DEF TypeOK
    <3> QED BY <3>1, <3>2
  <2> QED BY <1>14, <2>2, <2>3, <2>6 DEF TypeOK, PutProof
<1>15. ASSUME NEW p \in Proc, ReplyVerify(p) PROVE TypeOK'
  BY <1>15, IdleType DEF TypeOK, ReplyVerify, PC
<1>16. ASSUME NEW p \in Proc, Abandon(p) PROVE TypeOK'
  BY <1>16, IdleType DEF TypeOK, Abandon, PC
<1>17. CASE UNCHANGED vars
  BY <1>17 DEF TypeOK, vars
<1> QED
  BY <1>1, <1>2, <1>2a, <1>3, <1>4, <1>5, <1>6, <1>7, <1>8, <1>9, <1>10, <1>11,
     <1>12, <1>13, <1>14, <1>15, <1>16, <1>17
  DEF Next, RunStep, VerifyStep
-----------------------------------------------------------------------------
(* Rows of runs: they are only appended, and their artifacts arrive in order. *)

\* No step changes or removes a row of runs.
LEMMA RunsGrow ==
  ASSUME TypeOK, [Next]_vars
  PROVE  \A r \in 1..Len(runs) : r \in 1..Len(runs') /\ runs'[r] = runs[r]
<1>1. ASSUME NEW p \in Proc, PutRun(p)
      PROVE  \A r \in 1..Len(runs) : r \in 1..Len(runs') /\ runs'[r] = runs[r]
  <2>1. PICK x : runs' = Append(runs, x)
    BY <1>1 DEF PutRun
  <2> QED BY <2>1 DEF TypeOK
<1>2. CASE UNCHANGED runs
  BY <1>2 DEF TypeOK
<1>3. UNCHANGED runs \/ \E p \in Proc : PutRun(p)
  BY DEF Next, RunStep, VerifyStep, vars, Edit, StartRun, PinRun, Invoke, CheckRevision,
     PutArtifact, FinishRun, VerifyCompile, VerifyRevision, VerifyRun,
     VerifyArtifacts, SkipProof, MissProof, PutProof, Done, ReplyVerify, Abandon
<1> QED BY <1>1, <1>2, <1>3

\* A step that leaves runs, their artifacts and the persisting processes alone
\* keeps RunsInv.
LEMMA RunsKept ==
  ASSUME RunsInv, UNCHANGED <<runs, attached>>,
         \A p \in Proc : pc'[p] = "persisting" =>
           pc[p] = "persisting" /\ job'[p] = job[p]
  PROVE  RunsInv'
BY DEF RunsInv, Snapshot, WellFormed

\* Rows and their artifacts stay in step, whatever process moves.
LEMMA RunsStep == TypeOK /\ RunsInv /\ [Next]_vars => RunsInv'
<1> SUFFICES ASSUME TypeOK, RunsInv, [Next]_vars PROVE RunsInv'
  OBVIOUS
<1>1. CASE Edit
  BY <1>1, RunsKept DEF Edit
<1>2. ASSUME NEW p \in Proc, StartRun(p) PROVE RunsInv'
  BY <1>2, RunsKept DEF StartRun, TypeOK
<1>2a. ASSUME NEW p \in Proc, PinRun(p) PROVE RunsInv'
  BY <1>2a, RunsKept DEF PinRun, TypeOK
<1>3. ASSUME NEW p \in Proc, NEW o \in Obligation, Invoke(p, o) PROVE RunsInv'
  BY <1>3, RunsKept DEF Invoke, TypeOK
<1>4. ASSUME NEW p \in Proc, CheckRevision(p) PROVE RunsInv'
  BY <1>4, RunsKept DEF CheckRevision, TypeOK
<1>5. ASSUME NEW p \in Proc, PutRun(p) PROVE RunsInv'
  <2>1. PICK w \in WeakOutcomes(job[p]), c \in SUBSET {"coverage"}, d \in BOOLEAN :
          runs' = Append(runs,
            [rev |-> job[p].before, oracle |-> job[p].oracle, saw |-> job[p].saw,
             tested |-> job[p].tested, asserted |-> job[p].asserted,
             weak |-> w, digests |-> d, yields |-> Yields(job[p], c)])
    BY <1>5 DEF PutRun
  <2> DEFINE n == Len(runs) + 1
  <2>2. /\ attached' = Append(attached, {})
        /\ pc' = [pc EXCEPT ![p] = "persisting"]
        /\ job' = [job EXCEPT ![p] = Job(0, 0, {}, {}, NoStatus, NoStatus, n)]
    BY <1>5 DEF PutRun
  <2>3. /\ Len(runs') = n /\ Len(attached') = n
        /\ attached'[n] = {}
        /\ \A r \in 1..Len(runs) : runs'[r] = runs[r] /\ attached'[r] = attached[r]
    BY <2>1, <2>2 DEF TypeOK, RunsInv
  <2>4. WellFormed(runs'[n])
    <3>1. /\ runs'[n].asserted = job[p].asserted
          /\ "map" \in runs'[n].yields
          /\ job[p].asserted # NoStatus => "browser" \in runs'[n].yields
          /\ MutationObligation # {} => "mutation" \in runs'[n].yields
      BY <2>1 DEF TypeOK, Yields
    <3>2. \A o \in Obligation : job[p].asserted[o] # {} => job[p].asserted # NoStatus
      BY DEF NoStatus
    <3> QED BY <3>1, <3>2 DEF WellFormed
  <2>5. Snapshot(runs'[n], attached'[n])
    BY <2>3 DEF Snapshot
  <2>6. ASSUME NEW r \in 1..Len(runs')
        PROVE  WellFormed(runs'[r]) /\ Snapshot(runs'[r], attached'[r])
    <3>1. CASE r = n
      BY <2>4, <2>5, <3>1
    <3>2. CASE r # n
      <4>1. r \in 1..Len(runs)
        BY <2>3, <3>2 DEF TypeOK
      <4> QED BY <2>3, <4>1 DEF RunsInv
    <3> QED BY <3>1, <3>2
  <2>7. ASSUME NEW q \in Proc, pc'[q] = "persisting"
        PROVE  job'[q].run \in 1..Len(runs')
    <3>1. CASE q = p
      <4>1. job'[q].run = n
        BY <2>2, <3>1 DEF TypeOK, Job
      <4> QED BY <2>3, <4>1 DEF TypeOK
    <3>2. CASE q # p
      <4>1. pc[q] = "persisting" /\ job'[q] = job[q]
        BY <2>2, <2>7, <3>2 DEF TypeOK
      <4> QED BY <2>3, <4>1 DEF RunsInv, TypeOK
    <3> QED BY <3>1, <3>2
  <2> QED BY <2>3, <2>6, <2>7 DEF RunsInv
<1>6. ASSUME NEW p \in Proc, NEW k \in Kind, PutArtifact(p, k) PROVE RunsInv'
  <2> DEFINE r == job[p].run
  <2>1. /\ r \in 1..Len(attached)
        /\ attached' = [attached EXCEPT ![r] = attached[r] \cup {k}]
        /\ k \in runs[r].yields
        /\ Earlier[k] \cap runs[r].yields \subseteq attached[r]
        /\ UNCHANGED <<runs, pc, job>>
    BY <1>6 DEF PutArtifact, RunsInv
  <2>2. Len(attached') = Len(attached)
    BY <2>1 DEF TypeOK
  <2>3. ASSUME NEW s \in 1..Len(runs) PROVE WellFormed(runs[s])
    BY DEF RunsInv
  <2>4. ASSUME NEW s \in 1..Len(runs) PROVE Snapshot(runs[s], attached'[s])
    <3>0. Snapshot(runs[s], attached[s])
      BY DEF RunsInv
    <3>1. CASE s = r
      <4>1. attached'[s] = attached[s] \cup {k}
        BY <2>1, <3>1 DEF TypeOK
      <4> QED BY <2>1, <3>0, <3>1, <4>1 DEF Snapshot
    <3>2. CASE s # r
      <4>1. attached'[s] = attached[s]
        BY <2>1, <3>2 DEF TypeOK, RunsInv
      <4> QED BY <3>0, <4>1
    <3> QED BY <3>1, <3>2
  <2>5. \A q \in Proc : pc'[q] = "persisting" => job'[q].run \in 1..Len(runs')
    BY <2>1 DEF RunsInv
  <2> QED BY <2>1, <2>2, <2>3, <2>4, <2>5 DEF RunsInv
<1>7. ASSUME NEW p \in Proc, FinishRun(p) PROVE RunsInv'
  BY <1>7, RunsKept DEF FinishRun, TypeOK
<1>8. ASSUME NEW p \in Proc, VerifyStep(p) PROVE RunsInv'
  <2>1. /\ UNCHANGED <<runs, attached, job>>
        /\ \A q \in Proc : pc'[q] = "persisting" => pc[q] = "persisting"
    BY <1>8 DEF VerifyStep, VerifyCompile, VerifyRevision, VerifyRun,
       VerifyArtifacts, SkipProof, MissProof, PutProof, Done, ReplyVerify, TypeOK
  <2> QED BY <2>1, RunsKept
<1>9. ASSUME NEW p \in Proc, Abandon(p) PROVE RunsInv'
  BY <1>9, RunsKept DEF Abandon, TypeOK
<1>10. CASE UNCHANGED vars
  BY <1>10, RunsKept DEF vars
<1> QED
  BY <1>1, <1>2, <1>2a, <1>3, <1>4, <1>5, <1>6, <1>7, <1>8, <1>9, <1>10
  DEF Next, RunStep
-----------------------------------------------------------------------------
(* What verify looks at. *)

\* A step that keeps the runs and the verifying processes keeps LookInv.
LEMMA LookKept ==
  ASSUME TypeOK, LookInv, [Next]_vars,
         \A p \in Proc : pc'[p] \in {"selected", "proving"} =>
           pc'[p] = pc[p] /\ look'[p] = look[p]
  PROVE  LookInv'
BY RunsGrow DEF LookInv, Snapshot

\* The run a verify selected exists and is of the revision it pinned, and what
\* it has seen of the run's artifacts is a snapshot.
LEMMA LookStep == TypeOK /\ RunsInv /\ LookInv /\ [Next]_vars => LookInv'
<1> SUFFICES ASSUME TypeOK, RunsInv, LookInv, [Next]_vars PROVE LookInv'
  OBVIOUS
<1>1. CASE Edit
  BY <1>1, LookKept DEF Edit
<1>2. ASSUME NEW p \in Proc, RunStep(p) PROVE LookInv'
  <2>1. /\ UNCHANGED look
        /\ \A q \in Proc : pc'[q] \in {"selected", "proving"} => pc'[q] = pc[q]
    BY <1>2 DEF RunStep, StartRun, PinRun, Invoke, CheckRevision, PutRun, PutArtifact,
       FinishRun, TypeOK
  <2> QED BY <2>1, LookKept
<1>3. ASSUME NEW p \in Proc, VerifyCompile(p) PROVE LookInv'
  BY <1>3, LookKept DEF VerifyCompile, TypeOK
<1>4. ASSUME NEW p \in Proc, VerifyRevision(p) PROVE LookInv'
  BY <1>4, LookKept DEF VerifyRevision, TypeOK
<1>5. ASSUME NEW p \in Proc, VerifyRun(p) PROVE LookInv'
  <2>1. PICK r \in 0..Len(runs) :
          /\ LatestRun(look[p].rev, r)
          /\ look' = [look EXCEPT ![p] = Look(look[p].seal, look[p].rev, r, {}, {}, {})]
    BY <1>5 DEF VerifyRun
  <2>2. /\ pc' = [pc EXCEPT ![p] = "selected"]
        /\ UNCHANGED runs
    BY <1>5 DEF VerifyRun
  <2>3. r # 0 => r \in 1..Len(runs) /\ runs[r].rev = look[p].rev
    BY <2>1 DEF LatestRun
  <2>4. /\ look'[p].run = r /\ look'[p].rev = look[p].rev
        /\ pc'[p] = "selected"
    BY <2>1, <2>2 DEF TypeOK, Look
  <2>5. \A q \in Proc : q # p => pc'[q] = pc[q] /\ look'[q] = look[q]
    BY <2>1, <2>2 DEF TypeOK
  <2> QED BY <2>2, <2>3, <2>4, <2>5 DEF LookInv, Snapshot
<1>6. ASSUME NEW p \in Proc, VerifyArtifacts(p) PROVE LookInv'
  <2> DEFINE seen == IF look[p].run = 0 THEN {} ELSE attached[look[p].run]
  <2>1. /\ look' = [look EXCEPT ![p] = Look(look[p].seal, look[p].rev, look[p].run,
                                            seen, Obligation, {})]
        /\ pc[p] = "selected"
        /\ pc' = [pc EXCEPT ![p] = "proving"]
        /\ UNCHANGED runs
    BY <1>6 DEF VerifyArtifacts
  <2>2. /\ look'[p].run = look[p].run /\ look'[p].rev = look[p].rev
        /\ look'[p].seen = seen /\ look'[p].missing = {}
        /\ pc'[p] = "proving"
    BY <2>1 DEF TypeOK, Look
  <2>3. look[p].run # 0 =>
          /\ look[p].run \in 1..Len(runs)
          /\ runs[look[p].run].rev = look[p].rev
          /\ Snapshot(runs[look[p].run], seen)
    BY <2>1 DEF LookInv, RunsInv
  <2>4. \A q \in Proc : q # p => pc'[q] = pc[q] /\ look'[q] = look[q]
    BY <2>1 DEF TypeOK
  <2> HIDE DEF seen
  <2> QED BY <2>1, <2>2, <2>3, <2>4 DEF LookInv, Snapshot
<1>7. ASSUME NEW p \in Proc, NEW o \in Obligation,
             SkipProof(p, o) \/ MissProof(p, o) \/ PutProof(p, o)
      PROVE  LookInv'
  <2>1. /\ UNCHANGED runs
        /\ pc[p] = "proving"
        /\ \A q \in Proc : q # p => pc'[q] = pc[q] /\ look'[q] = look[q]
    BY <1>7 DEF SkipProof, MissProof, PutProof, Done, TypeOK
  <2>2. \/ pc'[p] = "idle"
        \/ /\ pc'[p] = "proving"
           /\ look'[p].run = look[p].run /\ look'[p].rev = look[p].rev
           /\ look'[p].seen = look[p].seen
           /\ look'[p].missing # {} => look[p].run # 0
    <3>1. CASE SkipProof(p, o)
      BY <3>1 DEF SkipProof, Done, TypeOK, Look
    <3>2. CASE MissProof(p, o)
      BY <3>2 DEF MissProof, TypeOK, Look
    <3>3. CASE PutProof(p, o) /\ HasProof(look[p].run, o)
      BY <3>3 DEF PutProof, TypeOK
    <3>4. CASE PutProof(p, o) /\ ~HasProof(look[p].run, o)
      BY <3>4 DEF PutProof, Done, TypeOK, Look
    <3> QED BY <1>7, <3>1, <3>2, <3>3, <3>4
  <2> QED BY <2>1, <2>2 DEF LookInv, Snapshot
<1>8. ASSUME NEW p \in Proc, ReplyVerify(p) PROVE LookInv'
  BY <1>8, LookKept DEF ReplyVerify, TypeOK
<1>9. ASSUME NEW p \in Proc, Abandon(p) PROVE LookInv'
  BY <1>9, LookKept DEF Abandon, TypeOK
<1>10. CASE UNCHANGED vars
  BY <1>10, LookKept DEF vars
<1> QED
  BY <1>1, <1>2, <1>3, <1>4, <1>5, <1>6, <1>7, <1>8, <1>9, <1>10
  DEF Next, VerifyStep
-----------------------------------------------------------------------------
(* Proofs: only appended, each a function of the run and the snapshot seen. *)

\* A step that keeps the proofs keeps ProofsInv: the rows they name stay.
LEMMA ProofsKept ==
  ASSUME TypeOK, ProofsInv, [Next]_vars, UNCHANGED proofs
  PROVE  ProofsInv'
<1>1. ASSUME NEW i \in 1..Len(proofs)
      PROVE  /\ proofs[i].run \in 1..Len(runs')
             /\ runs'[proofs[i].run] = runs[proofs[i].run]
  BY RunsGrow DEF ProofsInv
<1> QED BY <1>1 DEF ProofsInv

\* Only PutProof, and only where get_proof still finds nothing, adds a proof.
LEMMA OnlyPutProof ==
  ASSUME [Next]_vars, proofs' # proofs
  PROVE  \E p \in Proc, o \in Obligation :
           PutProof(p, o) /\ ~HasProof(look[p].run, o)
<1>1. PICK p \in Proc, o \in Obligation : PutProof(p, o)
  BY DEF Next, RunStep, VerifyStep, vars, Edit, StartRun, PinRun, Invoke, CheckRevision,
     PutRun, PutArtifact, FinishRun, VerifyCompile, VerifyRevision, VerifyRun,
     VerifyArtifacts, SkipProof, MissProof, ReplyVerify, Abandon
<1>2. ~HasProof(look[p].run, o)
  BY <1>1 DEF PutProof
<1> QED BY <1>1, <1>2

\* The row is a sound claim about an existing run, which had no proof yet.
LEMMA NewProofSound ==
  ASSUME IInv, NEW p \in Proc, NEW o \in Obligation, PutProof(p, o),
         ~HasProof(look[p].run, o)
  PROVE  /\ proofs' = Append(proofs, NewProof(p, o))
         /\ look[p].run \in 1..Len(runs)
         /\ runs[look[p].run].rev = look[p].rev
         /\ Snapshot(runs[look[p].run], look[p].seen)
         /\ Verdict(p, o) = VerdictFrom(runs[look[p].run], o, look[p].seen)
<1>1. pc[p] = "proving" /\ look[p].missing # {}
  BY DEF PutProof
<1>2. look[p].run # 0
  BY <1>1 DEF IInv, LookInv
<1> QED BY <1>1, <1>2 DEF IInv, LookInv, PutProof, NewProof, Verdict

\* Every step keeps ProofsInv.
LEMMA ProofsStep == IInv /\ [Next]_vars => ProofsInv'
<1> SUFFICES ASSUME IInv, [Next]_vars PROVE ProofsInv'
  OBVIOUS
<1>1. ASSUME NEW p \in Proc, NEW o \in Obligation, PutProof(p, o),
             ~HasProof(look[p].run, o)
      PROVE  ProofsInv'
  <2> DEFINE n == Len(proofs) + 1
             x == NewProof(p, o)
  <2>1. /\ proofs' = Append(proofs, x)
        /\ runs' = runs
    BY <1>1, NewProofSound DEF PutProof
  <2>2. /\ proofs \in Seq(ProofRecord)
        /\ Len(proofs') = n
        /\ proofs'[n] = x
        /\ \A i \in 1..Len(proofs) : proofs'[i] = proofs[i]
    BY <2>1 DEF IInv, TypeOK
  <2>3. /\ x.run \in 1..Len(runs)
        /\ x.rev = runs[x.run].rev
        /\ Snapshot(runs[x.run], x.artifacts)
        /\ x.verdict = VerdictFrom(runs[x.run], x.obligation, x.artifacts)
    BY <1>1, NewProofSound DEF NewProof
  <2>4. \A i \in 1..Len(proofs) : ~(proofs[i].run = x.run /\ proofs[i].obligation = x.obligation)
    BY <1>1 DEF HasProof, NewProof
  <2>5. ASSUME NEW i \in 1..Len(proofs')
        PROVE  /\ proofs'[i].run \in 1..Len(runs)
               /\ proofs'[i].rev = runs[proofs'[i].run].rev
               /\ Snapshot(runs[proofs'[i].run], proofs'[i].artifacts)
               /\ proofs'[i].verdict =
                    VerdictFrom(runs[proofs'[i].run], proofs'[i].obligation,
                                proofs'[i].artifacts)
    <3>1. i = n \/ i \in 1..Len(proofs)
      BY <2>2
    <3>2. CASE i = n
      BY <2>2, <2>3, <3>2
    <3>3. CASE i \in 1..Len(proofs)
      BY <2>2, <3>3 DEF IInv, ProofsInv
    <3> QED BY <3>1, <3>2, <3>3
  <2>6. ASSUME NEW i \in 1..Len(proofs'), NEW j \in 1..Len(proofs'),
               proofs'[i].run = proofs'[j].run,
               proofs'[i].obligation = proofs'[j].obligation
        PROVE  i = j
    <3>1. (i = n \/ i \in 1..Len(proofs)) /\ (j = n \/ j \in 1..Len(proofs))
      BY <2>2
    <3>2. CASE i \in 1..Len(proofs) /\ j \in 1..Len(proofs)
      BY <2>2, <2>6, <3>2 DEF IInv, ProofsInv
    <3>3. CASE i = n /\ j \in 1..Len(proofs)
      BY <2>2, <2>4, <2>6, <3>3
    <3>4. CASE i \in 1..Len(proofs) /\ j = n
      BY <2>2, <2>4, <2>6, <3>4
    <3> QED BY <3>1, <3>2, <3>3, <3>4
  <2> HIDE DEF x
  <2> QED BY <2>1, <2>5, <2>6 DEF ProofsInv
<1>2. CASE UNCHANGED proofs
  BY <1>2, ProofsKept DEF IInv
<1> QED BY <1>1, <1>2, OnlyPutProof

\* The initial state satisfies the inductive invariant.
LEMMA IInvInit == Init => IInv
<1> SUFFICES ASSUME Init PROVE IInv
  OBVIOUS
<1>1. TypeOK
  BY TypeInit
<1>2. RunsInv
  BY DEF Init, RunsInv
<1>3. LookInv
  BY DEF Init, LookInv
<1>4. ProofsInv
  BY DEF Init, ProofsInv
<1> QED BY <1>1, <1>2, <1>3, <1>4 DEF IInv

\* The inductive invariant is inductive.
LEMMA IInvStep == IInv /\ [Next]_vars => IInv'
BY TypeStep, RunsStep, LookStep, ProofsStep DEF IInv
-----------------------------------------------------------------------------
(* Theorems. *)

\* Every reachable state satisfies the inductive invariant.
THEOREM LedgerInvariant == Spec => []IInv
<1>1. Init => IInv
  BY IInvInit
<1>2. IInv /\ [Next]_vars => IInv'
  BY IInvStep
<1> QED BY <1>1, <1>2, PTL DEF Spec

\* The variables keep their types: no process ever works on a row that is not
\* there.
THEOREM TypeCorrect == Spec => []TypeOK
<1>1. IInv => TypeOK
  BY DEF IInv
<1> QED BY <1>1, LedgerInvariant, PTL

\* A PROVEN or CONTRADICTED, stored or about to be replied, is what the
\* complete evidence of its run shows, although verify may read a run while
\* its artifacts are still being stored.
THEOREM DecisiveVerdicts == Spec => []DecisiveVerdictsAreFinal
<1>1. ASSUME IInv, NEW c \in Claims, c.verdict \in {"PROVEN", "CONTRADICTED"}
      PROVE  c.verdict = FinalVerdict(c.run, c.obligation)
  <2>1. CASE \E i \in DOMAIN proofs : c = Stored(i)
    <3>1. PICK i \in 1..Len(proofs) : c = Stored(i)
      BY <1>1, <2>1 DEF IInv, TypeOK
    <3> DEFINE run == runs[proofs[i].run]
               o   == proofs[i].obligation
    <3>2. /\ c.run = proofs[i].run /\ c.obligation = o
          /\ c.verdict = proofs[i].verdict
      BY <3>1 DEF Stored
    <3>3. /\ proofs[i].run \in 1..Len(runs)
          /\ Snapshot(run, proofs[i].artifacts)
          /\ c.verdict = VerdictFrom(run, o, proofs[i].artifacts)
      BY <1>1, <3>2 DEF IInv, ProofsInv
    <3>4. run \in RunRecord /\ o \in Obligation /\ WellFormed(run)
      <4>1. proofs[i] \in ProofRecord /\ run \in RunRecord
        BY <1>1, <3>3 DEF IInv, TypeOK
      <4> QED BY <1>1, <3>3, <4>1 DEF IInv, RunsInv, ProofRecord
    <3>5. Admissible(c.verdict, VerdictFrom(run, o, run.yields))
      BY <3>3, <3>4, SnapshotAdmissible
    <3> QED BY <1>1, <3>2, <3>5 DEF Admissible, FinalVerdict
  <2>2. CASE \E p \in Proc, o \in Obligation :
               /\ Answering(p)
               /\ c = [run |-> look[p].run, obligation |-> o, verdict |-> Verdict(p, o)]
    <3>1. PICK p \in Proc, o \in Obligation :
            /\ Answering(p)
            /\ c = [run |-> look[p].run, obligation |-> o, verdict |-> Verdict(p, o)]
      BY <2>2
    <3> DEFINE run == runs[look[p].run]
    <3>2. /\ c.run = look[p].run /\ c.obligation = o
          /\ c.verdict = VerdictFrom(run, o, look[p].seen)
      BY <3>1 DEF Answering, Verdict
    <3>3. /\ look[p].run \in 1..Len(runs)
          /\ Snapshot(run, look[p].seen)
      BY <1>1, <3>1 DEF IInv, LookInv, Answering
    <3>4. run \in RunRecord /\ WellFormed(run)
      BY <1>1, <3>3 DEF IInv, TypeOK, RunsInv
    <3>5. Admissible(c.verdict, VerdictFrom(run, o, run.yields))
      BY <3>2, <3>3, <3>4, SnapshotAdmissible
    <3> QED BY <1>1, <3>2, <3>5 DEF Admissible, FinalVerdict
  <2> QED BY <1>1, <2>1, <2>2 DEF Claims
<1>2. IInv => DecisiveVerdictsAreFinal
  BY <1>1 DEF DecisiveVerdictsAreFinal
<1> QED BY <1>2, LedgerInvariant, PTL

\* Two verify commands that both found no proof still leave one.
THEOREM OneProof == Spec => []OneProofPerObligation
<1>1. IInv => OneProofPerObligation
  <2>1. IInv => DOMAIN proofs = 1..Len(proofs)
    BY DEF IInv, TypeOK
  <2> QED BY <2>1 DEF IInv, ProofsInv, OneProofPerObligation
<1> QED BY <1>1, LedgerInvariant, PTL

\* No step changes or removes a stored proof.
THEOREM WriteOnce == Spec => ProofsWriteOnce
<1>1. IInv /\ [Next]_vars =>
        [/\ DOMAIN proofs \subseteq DOMAIN proofs'
         /\ \A i \in DOMAIN proofs : proofs'[i] = proofs[i]]_proofs
  <2> SUFFICES ASSUME IInv, [Next]_vars, proofs' # proofs
               PROVE  /\ DOMAIN proofs \subseteq DOMAIN proofs'
                      /\ \A i \in DOMAIN proofs : proofs'[i] = proofs[i]
    OBVIOUS
  <2>1. PICK p \in Proc, o \in Obligation : PutProof(p, o) /\ ~HasProof(look[p].run, o)
    BY OnlyPutProof
  <2>2. proofs' = Append(proofs, NewProof(p, o)) /\ proofs \in Seq(ProofRecord)
    BY <2>1, NewProofSound DEF IInv, TypeOK
  <2> QED BY <2>2
<1> QED BY <1>1, LedgerInvariant, PTL DEF Spec, ProofsWriteOnce

-----------------------------------------------------------------------------
(* What a verdict says of the run. *)

\* PROVEN takes passing execution, every required kind and no weak mutant.
LEMMA AssembleProven ==
  ASSUME NEW e \in ExecutionEvidence, NEW req, NEW P, NEW w \in BOOLEAN,
         Assemble(e, req, P, FALSE, w) = "PROVEN"
  PROVE  e = "passed" /\ req \subseteq P /\ ~w
<1>1. e = "passed"
  BY DEF Assemble, DecideVerdict, ExecutionEvidence
<1>2. ~w
  BY DEF Assemble
<1>3. req \subseteq P
  BY <1>1 DEF Assemble, DecideVerdict
<1> QED BY <1>1, <1>2, <1>3

\* A contradicted expectation is contradicted whatever else was seen.
LEMMA AssembleContradicted ==
  ASSUME NEW req, NEW P, NEW w
  PROVE  Assemble("contradicted", req, P, FALSE, w) = "CONTRADICTED"
BY DEF Assemble, DecideVerdict

\* What a run and a snapshot of its artifacts must show for PROVEN.
LEMMA ProvenShows ==
  ASSUME NEW run \in RunRecord, NEW o \in Obligation, NEW seen,
         WellFormed(run), Snapshot(run, seen),
         VerdictFrom(run, o, seen) = "PROVEN"
  PROVE  /\ run.tested[o] \cup run.asserted[o] = {"passed"}
         /\ "coverage" \in Required[o] => "coverage" \in seen
         /\ "dom" \in Required[o] => "browser" \in seen /\ run.asserted[o] # {} /\ run.digests
         /\ o \in MutationObligation => "mutation" \in seen /\ o \notin run.weak
<1> DEFINE S == SeenStatuses(run, o, seen)
<1>1. WeakMutation(run, o, seen) \in BOOLEAN
  BY DEF WeakMutation
<1>2. /\ Execution(S) = "passed"
      /\ Required[o] \subseteq SeenEvidence(run, o, seen)
      /\ ~WeakMutation(run, o, seen)
  BY <1>1, ExecutionType, AssembleProven DEF VerdictFrom
<1>3. "passed" \in S /\ S \cap {"contradicted", "failed"} = {}
  BY <1>2 DEF Execution
<1>4. "map" \in seen
  BY <1>3 DEF SeenStatuses, Snapshot, WellFormed, Earlier
<1>5. Execution(MapStatuses(run, o)) = "passed"
  BY <1>2, <1>4, MapDecides
<1>6. /\ run.tested[o] \subseteq {"passed", "failed", "contradicted"}
      /\ run.asserted[o] \subseteq {"passed", "failed", "contradicted", "spoiled"}
  BY DEF RunRecord, Status, AssertStatus
<1>7. run.tested[o] \cup run.asserted[o] = {"passed"}
  BY <1>5, <1>6 DEF Execution, MapStatuses, Status
<1>8. "coverage" \in Required[o] => "coverage" \in seen
  BY <1>2 DEF SeenEvidence
<1>9. "dom" \in Required[o] => "browser" \in seen /\ run.asserted[o] # {} /\ run.digests
  BY <1>2 DEF SeenEvidence
<1>10. o \in MutationObligation => "mutation" \in seen /\ o \notin run.weak
  BY <1>2 DEF WeakMutation
<1> QED BY <1>7, <1>8, <1>9, <1>10

\* A stored PROVEN rests on passing execution, on every required kind of
\* evidence and on a clean mutation measurement where one is requested.
THEOREM ProvenEarned == Spec => []ProvenIsEarned
<1>1. ASSUME IInv, NEW i \in DOMAIN proofs, proofs[i].verdict = "PROVEN"
      PROVE  LET proof == proofs[i]
                 o     == proof.obligation
                 run   == runs[proof.run]
             IN  /\ run.tested[o] \cup run.asserted[o] = {"passed"}
                 /\ "coverage" \in Required[o] => "coverage" \in proof.artifacts
                 /\ "dom" \in Required[o] =>
                      "browser" \in proof.artifacts /\ run.asserted[o] # {} /\ run.digests
                 /\ o \in MutationObligation =>
                      "mutation" \in proof.artifacts /\ o \notin run.weak
  <2>1. i \in 1..Len(proofs) /\ proofs[i] \in ProofRecord
    BY <1>1 DEF IInv, TypeOK
  <2>2. /\ proofs[i].run \in 1..Len(runs)
        /\ Snapshot(runs[proofs[i].run], proofs[i].artifacts)
        /\ VerdictFrom(runs[proofs[i].run], proofs[i].obligation,
                       proofs[i].artifacts) = "PROVEN"
    BY <1>1, <2>1 DEF IInv, ProofsInv
  <2>3. runs[proofs[i].run] \in RunRecord /\ WellFormed(runs[proofs[i].run])
    BY <1>1, <2>2 DEF IInv, TypeOK, RunsInv
  <2>4. proofs[i].obligation \in Obligation
    BY <2>1 DEF ProofRecord
  <2> QED BY <2>2, <2>3, <2>4, ProvenShows
<1>2. IInv => ProvenIsEarned
  BY <1>1 DEF ProvenIsEarned
<1> QED BY <1>2, LedgerInvariant, PTL

\* A proof that cites the execution map of a contradicting run says
\* CONTRADICTED.
THEOREM ContradictionKept == Spec => []ContradictionNeverSoftened
<1>1. ASSUME IInv, NEW i \in DOMAIN proofs, "map" \in proofs[i].artifacts,
             "contradicted" \in runs[proofs[i].run].asserted[proofs[i].obligation]
      PROVE  proofs[i].verdict = "CONTRADICTED"
  <2> DEFINE run == runs[proofs[i].run]
             o   == proofs[i].obligation
             S   == SeenStatuses(run, o, proofs[i].artifacts)
  <2>0. i \in 1..Len(proofs)
    BY <1>1 DEF IInv, TypeOK
  <2>1. proofs[i].verdict = VerdictFrom(run, o, proofs[i].artifacts)
    BY <1>1, <2>0 DEF IInv, ProofsInv
  <2>2. "contradicted" \in S
    BY <1>1 DEF SeenStatuses, MapStatuses, Status
  <2>3. Execution(S) = "contradicted"
    BY <2>2 DEF Execution
  <2> QED BY <2>1, <2>3, AssembleContradicted DEF VerdictFrom
<1>2. IInv => ContradictionNeverSoftened
  BY <1>1 DEF ContradictionNeverSoftened
<1> QED BY <1>2, LedgerInvariant, PTL
-----------------------------------------------------------------------------
(* Revisions.  They only rise when no edit restores an earlier content.      *)

\* Every step keeps RevisionInv.
LEMMA RevisionStep ==
  RestoreAllowed = FALSE /\ TypeOK /\ RevisionInv /\ [Next]_vars => RevisionInv'
<1> SUFFICES ASSUME RestoreAllowed = FALSE, TypeOK, RevisionInv, [Next]_vars
             PROVE  RevisionInv'
  OBVIOUS
<1>0. /\ tree \in Nat
      /\ \A p \in Proc : job[p].before \in Nat /\ job[p].saw \subseteq Nat
  BY DEF TypeOK, JobRecord, Revision
<1>1. CASE Edit
  <2>1. tree' \in Nat /\ tree' > tree /\ UNCHANGED <<runs, pc, job>>
    BY <1>1 DEF Edit, Revision
  <2>2. ASSUME NEW p \in Proc, pc[p] = "executing",
               NEW v \in job[p].saw \cup {job[p].before}
        PROVE  job[p].before <= v /\ v <= tree'
    <3>1. v \in Nat /\ job[p].before <= v /\ v <= tree
      BY <1>0, <2>2 DEF RevisionInv
    <3> QED BY <1>0, <2>1, <3>1
  <2> QED BY <2>1, <2>2 DEF RevisionInv
<1>2. ASSUME NEW p \in Proc, PinRun(p) PROVE RevisionInv'
  <2>1. /\ pc'[p] = "executing" /\ job'[p].saw = {} /\ job'[p].before = tree
        /\ \A q \in Proc : q # p => pc'[q] = pc[q] /\ job'[q] = job[q]
        /\ UNCHANGED <<tree, runs>>
    BY <1>2 DEF PinRun, TypeOK, Job
  <2> QED BY <1>0, <2>1 DEF RevisionInv
<1>3. ASSUME NEW p \in Proc, NEW o \in Obligation, Invoke(p, o) PROVE RevisionInv'
  <2>1. /\ pc[p] = "executing" /\ UNCHANGED <<tree, runs, pc>>
        /\ job'[p].saw = job[p].saw \cup {tree} /\ job'[p].before = job[p].before
        /\ \A q \in Proc : q # p => job'[q] = job[q]
    BY <1>3 DEF Invoke, TypeOK, Job
  <2>2. job[p].before <= tree /\ tree <= tree
    BY <1>0, <2>1 DEF RevisionInv
  <2> QED BY <2>1, <2>2 DEF RevisionInv
<1>4. ASSUME NEW p \in Proc, CheckRevision(p) PROVE RevisionInv'
  <2>1. /\ pc[p] = "executing" /\ UNCHANGED <<tree, runs>>
        /\ \A q \in Proc : q # p => pc'[q] = pc[q] /\ job'[q] = job[q]
        /\ \/ tree = job[p].before /\ pc'[p] = "recording" /\ job'[p] = job[p]
           \/ pc'[p] = "idle"
    BY <1>4 DEF CheckRevision, TypeOK
  <2>2. tree = job[p].before => job[p].saw \subseteq {job[p].before}
    <3>1. SUFFICES ASSUME tree = job[p].before, NEW v \in job[p].saw
                   PROVE  v = job[p].before
      OBVIOUS
    <3>2. v \in Nat /\ job[p].before <= v /\ v <= tree
      BY <1>0, <2>1 DEF RevisionInv
    <3> QED BY <1>0, <3>1, <3>2
  <2> QED BY <2>1, <2>2 DEF RevisionInv
<1>5. ASSUME NEW p \in Proc, PutRun(p) PROVE RevisionInv'
  <2>1. PICK w, d, y :
          runs' = Append(runs,
                [rev |-> job[p].before, oracle |-> job[p].oracle, saw |-> job[p].saw,
                 tested |-> job[p].tested, asserted |-> job[p].asserted,
                 weak |-> w, digests |-> d, yields |-> y])
    BY <1>5 DEF PutRun
  <2>2. /\ pc[p] = "recording" /\ pc'[p] = "persisting" /\ UNCHANGED tree
        /\ \A q \in Proc : q # p => pc'[q] = pc[q] /\ job'[q] = job[q]
    BY <1>5 DEF PutRun, TypeOK
  <2>3. ASSUME NEW r \in 1..Len(runs') PROVE runs'[r].saw \subseteq {runs'[r].rev}
    <3>1. CASE r = Len(runs) + 1
      <4>1. runs'[r].saw = job[p].saw /\ runs'[r].rev = job[p].before
        BY <2>1, <3>1 DEF TypeOK
      <4> QED BY <2>2, <4>1 DEF RevisionInv
    <3>2. CASE r # Len(runs) + 1
      <4>1. r \in 1..Len(runs) /\ runs'[r] = runs[r]
        BY <2>1, <3>2 DEF TypeOK
      <4> QED BY <4>1 DEF RevisionInv
    <3> QED BY <3>1, <3>2
  <2> QED BY <2>2, <2>3 DEF RevisionInv
<1>6. ASSUME NEW p \in Proc,
             \/ \E k \in Kind : PutArtifact(p, k)
             \/ StartRun(p) \/ FinishRun(p) \/ VerifyStep(p) \/ Abandon(p)
      PROVE  RevisionInv'
  <2>1. /\ UNCHANGED <<tree, runs>>
        /\ \A q \in Proc : pc'[q] \in {"executing", "recording"} =>
             pc'[q] = pc[q] /\ job'[q] = job[q]
    BY <1>6 DEF StartRun, PutArtifact, FinishRun, Abandon, VerifyStep, VerifyCompile,
       VerifyRevision, VerifyRun, VerifyArtifacts, SkipProof, MissProof,
       PutProof, ReplyVerify, TypeOK
  <2> QED BY <2>1 DEF RevisionInv
<1>7. CASE UNCHANGED vars
  BY <1>7 DEF vars, RevisionInv
<1> QED
  BY <1>1, <1>2, <1>3, <1>4, <1>5, <1>6, <1>7 DEF Next, RunStep

\* As long as no edit restores an earlier content, a run observed only the
\* revision it is filed under, and a proof is bound to the revision of its run.
THEOREM EvidenceBound ==
  ASSUME RestoreAllowed = FALSE PROVE Spec => []EvidenceOfItsRevision
<1>1. Init => RevisionInv
  BY DEF Init, RevisionInv
<1>2. TypeOK /\ RevisionInv /\ [Next]_vars => RevisionInv'
  BY RevisionStep
<1>3. IInv => TypeOK
  BY DEF IInv
<1>4. IInv /\ RevisionInv => EvidenceOfItsRevision
  <2>1. TypeOK => DOMAIN runs = 1..Len(runs) /\ DOMAIN proofs = 1..Len(proofs)
    BY DEF TypeOK
  <2> QED BY <2>1 DEF IInv, ProofsInv, RevisionInv, EvidenceOfItsRevision
<1>5. Spec => []RevisionInv
  BY <1>1, <1>2, <1>3, LedgerInvariant, PTL DEF Spec
<1> QED BY <1>4, <1>5, LedgerInvariant, PTL

-----------------------------------------------------------------------------
(***************************************************************************)
(* The ledger implements the book of proofs: recording a run fixes a       *)
(* truth, inserting a proof row enters an admissible claim, every other    *)
(* step of every process is invisible in the book.                         *)
(***************************************************************************)

\* A function that extends a sequence by one element is what Append yields.
LEMMA AppendFunction ==
  ASSUME NEW T, NEW n \in Nat, NEW f \in [1..n -> T], NEW g \in [1..(n+1) -> T],
         \A i \in 1..n : g[i] = f[i]
  PROVE  g = Append(f, g[n+1])
<1>1. f \in Seq(T) /\ g \in Seq(T) /\ Len(f) = n /\ Len(g) = n + 1
  OBVIOUS
<1>2. Append(f, g[n+1]) \in Seq(T) /\ Len(Append(f, g[n+1])) = n + 1
  BY <1>1
<1>3. \A i \in 1..(n+1) : Append(f, g[n+1])[i] = g[i]
  BY <1>1
<1> QED BY <1>1, <1>2, <1>3

\* The truth has one row of verdicts per run.
LEMMA TruthType ==
  ASSUME TypeOK
  PROVE  /\ Truth \in [1..Len(runs) -> [Obligation -> ProofVerdict]]
         /\ Len(Truth) = Len(runs)
         /\ \A r \in 1..Len(runs), o \in Obligation : Truth[r][o] = FinalVerdict(r, o)
<1>1. DOMAIN runs = 1..Len(runs) /\ Len(runs) \in Nat
  BY DEF TypeOK
<1>2. \A r, o : FinalVerdict(r, o) \in ProofVerdict
  BY VerdictFromType DEF FinalVerdict
<1> QED BY <1>1, <1>2 DEF Truth

\* Recording a run appends to the truth and leaves the book alone.
LEMMA PutRunObserves ==
  ASSUME IInv, NEW p \in Proc, PutRun(p), TypeOK'
  PROVE  /\ \E t \in [Obligation -> ProofVerdict] : Truth' = Append(Truth, t)
         /\ Page' = Page
<1>1. PICK x : runs' = Append(runs, x)
  BY DEF PutRun
<1>2. TypeOK
  BY DEF IInv
<1> DEFINE n == Len(runs)
<1>3. /\ n \in Nat /\ Len(runs') = n + 1
      /\ \A r \in 1..n : runs'[r] = runs[r]
  BY <1>1, <1>2 DEF TypeOK
<1>4. Truth \in [1..n -> [Obligation -> ProofVerdict]]
  BY <1>2, TruthType
<1>5. Truth' \in [1..(n+1) -> [Obligation -> ProofVerdict]]
  <2>1. \A r, o : FinalVerdict(r, o)' \in ProofVerdict
    BY VerdictFromType DEF FinalVerdict
  <2>2. DOMAIN (runs') = 1..(n+1)
    BY <1>3 DEF TypeOK
  <2> QED BY <2>1, <2>2 DEF Truth
<1>6. ASSUME NEW r \in 1..n PROVE Truth'[r] = Truth[r]
  <2>1. \A o \in Obligation : FinalVerdict(r, o)' = FinalVerdict(r, o)
    BY <1>3 DEF FinalVerdict
  <2>2. r \in DOMAIN runs /\ r \in DOMAIN (runs')
    BY <1>2, <1>3 DEF TypeOK
  <2> QED BY <2>1, <2>2 DEF Truth
<1>7. Truth' = Append(Truth, Truth'[n+1])
  BY <1>3, <1>4, <1>5, <1>6, AppendFunction
<1>8. Truth'[n+1] \in [Obligation -> ProofVerdict]
  BY <1>3, <1>5
<1>9. Page' = Page
  BY DEF PutRun, Page, Stored
<1> QED BY <1>7, <1>8, <1>9

\* Inserting a proof row is a claim.
LEMMA PutProofClaims ==
  ASSUME IInv, NEW p \in Proc, NEW o \in Obligation, PutProof(p, o),
         ~HasProof(look[p].run, o)
  PROVE  Book!Claim
<1> DEFINE r == look[p].run
           v == Verdict(p, o)
<1>0. TypeOK
  BY DEF IInv
<1>1. /\ proofs' = Append(proofs, NewProof(p, o))
      /\ r \in 1..Len(runs)
      /\ v = VerdictFrom(runs[r], o, look[p].seen)
      /\ Snapshot(runs[r], look[p].seen)
  BY NewProofSound
<1>2. v \in ProofVerdict
  BY <1>1, VerdictFromType
<1>3. ~\E c \in Page : c.run = r /\ c.obligation = o
  BY <1>0 DEF Page, Stored, HasProof, TypeOK
<1>4. Book!Admissible(v, Truth[r][o])
  <2>1. runs[r] \in RunRecord /\ WellFormed(runs[r])
    BY <1>0, <1>1 DEF IInv, RunsInv, TypeOK
  <2>2. Admissible(v, FinalVerdict(r, o))
    BY <1>1, <2>1, SnapshotAdmissible DEF FinalVerdict
  <2> QED BY <1>0, <1>1, <2>2, TruthType DEF Admissible, Book!Admissible
<1>5. Page' = Page \cup {[run |-> r, obligation |-> o, verdict |-> v]}
  <2>0. PICK n \in Nat : n = Len(proofs)
    BY <1>0 DEF TypeOK
  <2>1. /\ DOMAIN proofs = 1..n /\ DOMAIN (proofs') = 1..(n+1) 
        /\ proofs'[n+1] = NewProof(p, o)
        /\ \A i \in 1..n : proofs'[i] = proofs[i]
    BY <1>0, <1>1, <2>0 DEF TypeOK
  <2>2. Stored(n+1)' = [run |-> r, obligation |-> o, verdict |-> v]
    BY <2>1 DEF Stored, NewProof
  <2>3. \A i \in 1..n : Stored(i)' = Stored(i)
    BY <2>1 DEF Stored
  <2>4. Page' = {Stored(i)' : i \in 1..(n+1)} /\ Page = {Stored(i) : i \in 1..n}
    BY <2>1 DEF Page
  <2> QED BY <2>1, <2>2, <2>3, <2>4
<1>6. Truth' = Truth
  BY DEF PutProof, Truth, FinalVerdict
<1>7. r \in 1..Len(Truth)
  BY <1>0, <1>1, TruthType
<1>8. v \in Book!ProofVerdict
  BY <1>2 DEF ProofVerdict, Book!ProofVerdict
<1> HIDE DEF r, v
<1> QED
  BY <1>3, <1>4, <1>5, <1>6, <1>7, <1>8 DEF Book!Claim

\* Every other step leaves truth and book alone.
LEMMA OthersStutter ==
  ASSUME [Next]_vars, ~\E p \in Proc : PutRun(p), proofs' = proofs
  PROVE  Truth' = Truth /\ Page' = Page
<1>1. UNCHANGED runs
  BY DEF Next, RunStep, VerifyStep, vars, Edit, StartRun, PinRun, Invoke, CheckRevision,
     PutArtifact, FinishRun, VerifyCompile, VerifyRevision, VerifyRun,
     VerifyArtifacts, SkipProof, MissProof, PutProof, ReplyVerify, Abandon
<1> QED BY <1>1 DEF Truth, Page, Stored, FinalVerdict

\* The ledger implements the book of proofs: whatever the interleaving of runs,
\* verifications, edits and crashes, its proofs are write-once claims, one per
\* run and obligation, none of which says more than the evidence of its run.
THEOREM LedgerImplementsBook == Spec => ImplementsBook
<1>1. Init => Book!Init
  BY DEF Init, Book!Init, Truth, Page
<1>2. IInv /\ IInv' /\ [Next]_vars => [Book!Next]_<<Truth, Page>>
  <2> SUFFICES ASSUME IInv, IInv', [Next]_vars PROVE [Book!Next]_<<Truth, Page>>
    OBVIOUS
  <2>1. ASSUME NEW p \in Proc, PutRun(p) PROVE Book!Observe
    <3>1. /\ \E t \in [Obligation -> ProofVerdict] : Truth' = Append(Truth, t)
          /\ Page' = Page
      BY <2>1, PutRunObserves DEF IInv
    <3>2. ProofVerdict = Book!ProofVerdict
      BY DEF ProofVerdict, Book!ProofVerdict
    <3> QED BY <3>1, <3>2 DEF Book!Observe
  <2>2. CASE proofs' # proofs
    BY <2>2, OnlyPutProof, PutProofClaims DEF Book!Next
  <2>3. CASE proofs' = proofs
    BY <2>1, <2>3, OthersStutter DEF Book!Next
  <2> QED BY <2>2, <2>3
<1> QED
  BY <1>1, <1>2, LedgerInvariant, PTL DEF Spec, ImplementsBook, Book!Spec

-----------------------------------------------------------------------------
(***************************************************************************)
(* Writers that share no content cannot tear an object, whatever fails and *)
(* whenever: the file a temporary name points to is known to one writer    *)
(* only, the one that wants the content, and it gets its object name when  *)
(* it is whole.                                                            *)
(***************************************************************************)

\* No content is wanted by two writers.
SharesNothing ==
  \A v, w \in Writer : v # w => Wants[v] \cap Wants[w] = {}

\* No writer works, every name is free: the invariant holds.
LEMMA CasInitSound == CasInit => CasInv
<1> SUFFICES ASSUME CasInit PROVE CasInv
  OBVIOUS
<1>1. 0 \in 0..Size
  BY CasAssumption DEF CasAssumption
<1>2. CasTypeOK
  BY <1>1, CasAssumption DEF CasInit, CasTypeOK, File, CasAssumption
<1> QED BY <1>2 DEF CasInit, CasInv

\* A wanted content is nobody else's.
LEMMA OneWriter ==
  ASSUME SharesNothing, CasInv, NEW v \in Writer, NEW w \in Writer, v # w,
         at[v] # "idle", NEW c, c \in Wants[w]
  PROVE  blob[v] # c
BY DEF SharesNothing, CasInv

\* The step in which a writer looks for the object.
LEMMA LookUpStep ==
  ASSUME SharesNothing, CasInv, NEW w \in Writer, NEW c \in Content, LookUp(w, c)
  PROVE  CasInv'
<1>1. CasTypeOK /\ UNCHANGED <<disk, tmp, obj, rows, fd, done>>
  BY DEF CasInv, LookUp
<1>2. /\ at' \in [Writer -> {"idle", "create", "write", "record"}]
      /\ blob' \in [Writer -> Content \cup {None}]
  BY <1>1 DEF CasTypeOK, LookUp
<1>3. CasTypeOK'
  BY <1>1, <1>2 DEF CasTypeOK
<1>4. /\ blob'[w] = c /\ c \in Wants[w]
      /\ at'[w] = IF obj[c] = None THEN "create" ELSE "record"
      /\ \A v \in Writer : v # w => blob'[v] = blob[v] /\ at'[v] = at[v]
  BY <1>1 DEF CasTypeOK, LookUp
<1> QED BY <1>1, <1>3, <1>4 DEF CasInv, Whole

\* The step in which a writer opens the temporary file.
LEMMA CreateStep ==
  ASSUME SharesNothing, CasInv, NEW w \in Writer, Create(w)
  PROVE  CasInv'
<1> DEFINE c == blob[w]
<1>0. /\ CasTypeOK /\ at[w] = "create" /\ c \in Wants[w] /\ c \in Content
      /\ obj[c] = None
      /\ UNCHANGED <<obj, rows, blob>>
  BY CasAssumption DEF CasInv, CasTypeOK, Create, CasAssumption
<1>1. /\ at' = [at EXCEPT ![w] = "write"] /\ done' = [done EXCEPT ![w] = 0]
  BY DEF Create
<1>2. \A v \in Writer : v # w /\ at[v] = "write" =>
        blob[v] # c /\ blob[v] \in Content /\ tmp[blob[v]] = fd[v] /\ fd[v] # None
  BY <1>0, OneWriter, CasAssumption DEF CasInv, CasAssumption
<1>3. CASE tmp[c] # None /\ disk' = [disk EXCEPT ![tmp[c]] = {}]
           /\ fd' = [fd EXCEPT ![w] = tmp[c]] /\ UNCHANGED tmp
  <2>1. tmp[c] \in 1..Len(disk)
    BY <1>0, <1>3 DEF CasInv
  <2>2. /\ Len(disk') = Len(disk) /\ disk' \in Seq(SUBSET Part)
        /\ disk'[tmp[c]] = {}
        /\ \A f \in 1..Len(disk) : f # tmp[c] => disk'[f] = disk[f]
    BY <1>0, <1>3, <2>1 DEF CasTypeOK
  <2>3. CasTypeOK'
    BY <1>0, <1>1, <1>3, <2>2, CasAssumption DEF CasTypeOK, CasAssumption
  <2>4. \A d \in Content :
          /\ tmp[d] # None => tmp[d] \in 1..Len(disk)
          /\ obj[d] # None => obj[d] \in 1..Len(disk) /\ disk'[obj[d]] = disk[obj[d]]
    BY <1>0, <1>3, <2>2 DEF CasInv
  <2>5. /\ fd'[w] = tmp[c] /\ at'[w] = "write" /\ done'[w] = 0
        /\ \A v \in Writer : v # w => fd'[v] = fd[v] /\ at'[v] = at[v] /\ done'[v] = done[v]
    BY <1>0, <1>1, <1>3 DEF CasTypeOK
  <2>6. \A v \in Writer : v # w /\ at[v] = "write" =>
          fd[v] \in 1..Len(disk) /\ disk'[fd[v]] = disk[fd[v]]
    BY <1>0, <1>2, <1>3, <2>2, <2>4 DEF CasInv
  <2>7. disk'[fd'[w]] = 1..done'[w]
    BY <2>2, <2>5
  <2> HIDE DEF c
  <2>8. ASSUME NEW v \in Writer, at'[v] = "write"
        PROVE  /\ obj[blob[v]] = None
               /\ tmp[blob[v]] = fd'[v] /\ fd'[v] # None
               /\ disk'[fd'[v]] = 1..done'[v]
    BY <1>0, <1>3, <2>5, <2>6, <2>7, <2>8 DEF CasInv, c
  <2> QED BY <1>0, <1>3, <2>2, <2>3, <2>4, <2>5, <2>8 DEF CasInv, Whole
<1>4. CASE tmp[c] = None /\ Len(disk) < MaxFiles /\ disk' = Append(disk, {})
           /\ tmp' = [tmp EXCEPT ![c] = Len(disk) + 1]
           /\ fd' = [fd EXCEPT ![w] = Len(disk) + 1]
  <2> DEFINE n == Len(disk) + 1
  <2>1. /\ Len(disk) \in Nat /\ Len(disk') = n /\ disk' \in Seq(SUBSET Part)
        /\ disk'[n] = {}
        /\ \A f \in 1..Len(disk) : f \in 1..n /\ f # n /\ disk'[f] = disk[f]
        /\ n \in 1..MaxFiles /\ n \in 1..n
    BY <1>0, <1>4, CasAssumption DEF CasTypeOK, CasAssumption
  <2>2. /\ tmp'[c] = n
        /\ \A d \in Content : d # c => tmp'[d] = tmp[d]
    BY <1>0, <1>4 DEF CasTypeOK
  <2>3. /\ fd'[w] = n /\ at'[w] = "write" /\ done'[w] = 0
        /\ \A v \in Writer : v # w => fd'[v] = fd[v] /\ at'[v] = at[v] /\ done'[v] = done[v]
    BY <1>0, <1>1, <1>4 DEF CasTypeOK
  <2>4. CasTypeOK'
    <3>1. /\ tmp' \in [Content -> File \cup {None}]
          /\ fd' \in [Writer -> File \cup {None}]
      BY <1>0, <1>4, <2>1 DEF CasTypeOK, File
    <3>2. /\ done' \in [Writer -> 0..Size]
          /\ at' \in [Writer -> {"idle", "create", "write", "record"}]
      BY <1>0, <1>1, CasAssumption DEF CasTypeOK, CasAssumption
    <3>3. Len(disk') <= MaxFiles
      BY <1>4, <2>1, CasAssumption DEF CasAssumption
    <3> QED BY <1>0, <2>1, <3>1, <3>2, <3>3 DEF CasTypeOK
  <2>5. n # None
    BY <2>1, CasAssumption DEF CasAssumption
  <2> HIDE DEF n
  <2>6. \A d \in Content :
          /\ tmp'[d] # None => tmp'[d] \in 1..n
          /\ obj[d] # None => obj[d] \in 1..n /\ obj[d] \in 1..Len(disk)
                               /\ disk'[obj[d]] = Part
    BY <1>0, <2>1, <2>2 DEF CasInv, Whole
  <2>7. \A d, e \in Content :
          /\ tmp'[d] # None => tmp'[d] # obj[e]
          /\ tmp'[d] # None /\ tmp'[d] = tmp'[e] => d = e
    <3>1. \A d \in Content : d # c => tmp'[d] # n
      BY <2>1, <2>2, <2>5 DEF CasInv
    <3>2. \A d \in Content : obj[d] # n
      BY <2>1, <2>5 DEF CasInv
    <3> QED BY <2>2, <3>1, <3>2 DEF CasInv
  <2>8. ASSUME NEW v \in Writer, at'[v] = "write"
        PROVE  /\ obj[blob[v]] = None
               /\ tmp'[blob[v]] = fd'[v] /\ fd'[v] # None
               /\ disk'[fd'[v]] = 1..done'[v]
    <3>1. CASE v = w
      <4>1. blob[v] = c /\ fd'[v] = n /\ done'[v] = 0
        BY <2>3, <3>1
      <4>2. disk'[n] = 1..0
        BY <2>1
      <4>3. obj[blob[v]] = None /\ tmp'[blob[v]] = n
        BY <1>0, <2>2, <4>1
      <4> QED BY <2>5, <4>1, <4>2, <4>3
    <3>2. CASE v # w
      <4>1. at[v] = "write" /\ blob[v] # c /\ blob[v] \in Content
        BY <1>2, <2>3, <2>8, <3>2
      <4>2. /\ tmp[blob[v]] = fd[v] /\ fd[v] # None /\ disk[fd[v]] = 1..done[v]
            /\ obj[blob[v]] = None /\ fd[v] \in 1..Len(disk)
        BY <4>1 DEF CasInv
      <4> QED BY <2>1, <2>2, <2>3, <3>2, <4>1, <4>2
    <3> QED BY <3>1, <3>2
  <2> QED BY <1>0, <2>1, <2>3, <2>4, <2>6, <2>7, <2>8 DEF CasInv, Whole
<1> QED BY <1>3, <1>4 DEF Create

\* The step in which a writer writes a part.
LEMMA WriteStep ==
  ASSUME SharesNothing, CasInv, NEW w \in Writer, Write(w)
  PROVE  CasInv'
<1> DEFINE f == fd[w]
<1>0. /\ CasTypeOK /\ at[w] = "write" /\ done[w] \in 0..Size /\ done[w] < Size
      /\ Size \in Nat
      /\ UNCHANGED <<tmp, obj, rows, at, blob, fd>>
      /\ blob[w] \in Content /\ blob[w] \in Wants[w]
  BY CasAssumption DEF CasInv, CasTypeOK, Write, CasAssumption
<1>1. /\ tmp[blob[w]] = f /\ f # None /\ f \in 1..Len(disk)
      /\ disk[f] = 1..done[w]
  BY <1>0 DEF CasInv
<1>2. /\ disk' = [disk EXCEPT ![f] = disk[f] \cup {done[w] + 1}]
      /\ done' = [done EXCEPT ![w] = done[w] + 1]
  BY DEF Write
<1>3. done[w] + 1 \in Part /\ done[w] + 1 \in 0..Size
      /\ (1..done[w]) \cup {done[w] + 1} = 1..(done[w] + 1)
  BY <1>0 DEF Part
<1>4. /\ Len(disk') = Len(disk) /\ disk' \in Seq(SUBSET Part)
      /\ disk'[f] = 1..(done[w] + 1)
      /\ \A g \in 1..Len(disk) : g # f => disk'[g] = disk[g]
  <2>1. disk[f] \cup {done[w] + 1} \in SUBSET Part
    BY <1>0, <1>1, <1>3 DEF CasTypeOK
  <2>2. Len(disk') = Len(disk) /\ disk' \in Seq(SUBSET Part)
    BY <1>0, <1>1, <1>2, <2>1 DEF CasTypeOK
  <2>3. disk'[f] = disk[f] \cup {done[w] + 1}
    BY <1>0, <1>1, <1>2 DEF CasTypeOK
  <2>4. \A g \in 1..Len(disk) : g # f => disk'[g] = disk[g]
    BY <1>0, <1>2 DEF CasTypeOK
  <2> QED BY <1>1, <1>3, <2>2, <2>3, <2>4
<1>5. CasTypeOK'
  <2>1. done' \in [Writer -> 0..Size]
    BY <1>0, <1>2, <1>3 DEF CasTypeOK
  <2> QED BY <1>0, <1>4, <2>1 DEF CasTypeOK
<1>6. \A d \in Content : obj[d] # None => obj[d] # f
  BY <1>0, <1>1 DEF CasInv
<1>7. ASSUME NEW v \in Writer, at[v] = "write"
      PROVE  disk'[fd[v]] = 1..done'[v]
  <2>1. CASE v = w
    BY <1>0, <1>2, <1>4, <2>1 DEF CasTypeOK
  <2>2. CASE v # w
    <3>1. blob[v] # blob[w] /\ blob[v] \in Content
      BY <1>0, <1>7, <2>2, OneWriter, CasAssumption DEF CasInv, CasAssumption
    <3>2. fd[v] # f /\ fd[v] \in 1..Len(disk) /\ disk[fd[v]] = 1..done[v]
      BY <1>0, <1>1, <1>7, <3>1 DEF CasInv
    <3> QED BY <1>0, <1>2, <1>4, <2>2, <3>2 DEF CasTypeOK
  <2> QED BY <2>1, <2>2
<1> HIDE DEF f
<1> QED BY <1>0, <1>4, <1>5, <1>6, <1>7 DEF CasInv, Whole

\* The step in which a file gets its object name.
LEMMA RenameStep ==
  ASSUME SharesNothing, CasInv, NEW w \in Writer, Rename(w)
  PROVE  CasInv'
<1> DEFINE c == blob[w]
<1>0. /\ CasTypeOK /\ at[w] = "write" /\ done[w] = Size /\ c \in Content
      /\ c \in Wants[w]
      /\ UNCHANGED <<disk, rows, blob, fd, done>>
  BY CasAssumption DEF CasInv, CasTypeOK, Rename, CasAssumption
<1>1. /\ tmp[c] = fd[w] /\ fd[w] # None /\ tmp[c] \in 1..Len(disk)
      /\ disk[tmp[c]] = Part
  BY <1>0 DEF CasInv, Part
<1>2. /\ obj' = [obj EXCEPT ![c] = tmp[c]]
      /\ tmp' = [tmp EXCEPT ![c] = None]
      /\ at' = [at EXCEPT ![w] = "record"]
  BY <1>1 DEF Rename
<1>3. CasTypeOK'
  BY <1>0, <1>2 DEF CasTypeOK
<1>4. /\ obj'[c] = tmp[c] /\ tmp'[c] = None /\ at'[w] = "record"
      /\ \A d \in Content : d # c => obj'[d] = obj[d] /\ tmp'[d] = tmp[d]
      /\ \A v \in Writer : v # w => at'[v] = at[v]
  BY <1>0, <1>2 DEF CasTypeOK
<1>5. \A v \in Writer : v # w /\ at[v] # "idle" => blob[v] # c /\ blob[v] \in Content
  BY <1>0, OneWriter, CasAssumption DEF CasInv, CasAssumption
<1> HIDE DEF c
<1>6. \A d \in Content :
        /\ tmp'[d] # None => tmp'[d] \in 1..Len(disk)
        /\ obj'[d] # None => obj'[d] \in 1..Len(disk) /\ disk[obj'[d]] = Part
        /\ \A e \in Content :
             /\ tmp'[d] # None => tmp'[d] # obj'[e]
             /\ tmp'[d] # None /\ tmp'[d] = tmp'[e] => d = e
  BY <1>1, <1>4, <1>0 DEF CasInv, Whole
<1>7. ASSUME NEW v \in Writer
      PROVE  /\ at'[v] # "idle" => blob[v] \in Wants[v]
             /\ at'[v] = "create" => obj'[blob[v]] = None
             /\ at'[v] = "write" =>
                  /\ obj'[blob[v]] = None
                  /\ tmp'[blob[v]] = fd[v] /\ fd[v] # None
                  /\ disk[fd[v]] = 1..done[v]
             /\ at'[v] = "record" => obj'[blob[v]] # None
  <2>1. CASE v = w
    BY <1>0, <1>1, <1>4, <2>1 DEF c
  <2>2. CASE v # w
    BY <1>4, <1>5, <2>2 DEF CasInv
  <2> QED BY <2>1, <2>2
<1>8. \A d \in rows : obj'[d] # None
  BY <1>0, <1>1, <1>4 DEF CasInv, CasTypeOK
<1> QED BY <1>0, <1>3, <1>6, <1>7, <1>8 DEF CasInv, Whole

\* Every step keeps the invariant.
LEMMA CasStep == SharesNothing /\ CasInv /\ [CasNext]_casVars => CasInv'
<1> SUFFICES ASSUME SharesNothing, CasInv, [CasNext]_casVars PROVE CasInv'
  OBVIOUS
<1>1. ASSUME NEW w \in Writer, Record(w) PROVE CasInv'
  <2>1. /\ CasTypeOK /\ at[w] = "record" /\ blob[w] \in Content
        /\ obj[blob[w]] # None
        /\ UNCHANGED <<disk, tmp, obj, blob, fd, done>>
        /\ rows' = rows \cup {blob[w]} /\ at' = [at EXCEPT ![w] = "idle"]
    BY <1>1, CasAssumption DEF CasInv, Record, CasAssumption
  <2>2. CasTypeOK'
    BY <2>1 DEF CasTypeOK
  <2>3. at'[w] = "idle" /\ \A v \in Writer : v # w => at'[v] = at[v]
    BY <2>1 DEF CasTypeOK
  <2> QED BY <2>1, <2>2, <2>3 DEF CasInv, Whole
<1>2. ASSUME NEW w \in Writer, Fail(w) PROVE CasInv'
  <2>1. /\ CasTypeOK
        /\ UNCHANGED <<disk, tmp, obj, rows, blob, fd, done>>
        /\ at' = [at EXCEPT ![w] = "idle"]
    BY <1>2 DEF CasInv, Fail
  <2>2. CasTypeOK'
    BY <2>1 DEF CasTypeOK
  <2>3. at'[w] = "idle" /\ \A v \in Writer : v # w => at'[v] = at[v]
    BY <2>1 DEF CasTypeOK
  <2> QED BY <2>1, <2>2, <2>3 DEF CasInv, Whole
<1>3. CASE UNCHANGED casVars
  BY <1>3 DEF casVars, CasInv, CasTypeOK, Whole
<1> QED
  BY <1>1, <1>2, <1>3, LookUpStep, CreateStep, WriteStep, RenameStep DEF CasNext

\* The invariant of writers that share no content.
LEMMA CasInvariant == ASSUME SharesNothing PROVE CasSpec => []CasInv
<1>1. CasInv /\ [CasNext]_casVars => CasInv'
  BY CasStep
<1> QED BY <1>1, CasInitSound, PTL DEF CasSpec

\* Processes that put different blobs, and fail at any point, leave behind
\* nothing that a row refers to and that is not whole.
THEOREM RowsWhole == ASSUME SharesNothing PROVE CasSpec => []RowsAreWhole
<1>1. CasInv => RowsAreWhole
  BY DEF CasInv, CasTypeOK, RowsAreWhole
<1> QED BY <1>1, CasInvariant, PTL

=============================================================================
