------------------------ MODULE SourceMutationProofs ------------------------
(***************************************************************************)
(* Proofs about SourceMutation, for any plan, any test cases and any       *)
(* ceilings, and about the plan that MutationOfChange makes of a change.   *)
(*                                                                         *)
(* The invariant of the phase has four parts: the types with what the plan *)
(* is (PlanInv), what the workspace holds while a mutant is judged         *)
(* (WorkspaceInv), what the results are earned by (EarnedInv), and how far *)
(* the loop came when it was left (LoopInv).                               *)
(*                                                                         *)
(* Of the plan: the mask is exactly the code, up to the first lexeme it is *)
(* not meant for (MaskIsExact), every operator stays in the mask and       *)
(* changes the text (EditsSound), and the mutants are edits so proposed    *)
(* (PlannedIs).                                                            *)
(***************************************************************************)
EXTENDS MutationOfChange, SequenceFacts, FiniteSetTheorems, TLAPS

Cut == limits \cap {"wall", "decisions"} # {}
Recorded(m, o) == \E r \in results : r.mutant = m /\ r.obligation = o

\* The plan is made once, and is there from then on.
PlanInv ==
  /\ mutants \in Seq({mutants[i] : i \in DOMAIN mutants})
  /\ \A i \in DOMAIN mutants : mutants[i].path \in File
  /\ \A i, j \in DOMAIN mutants : mutants[i] = mutants[j] => i = j
  /\ pc = "start" => mutants = << >>
  /\ pc \in {"copying", "mutants", "judging", "counting"} => mutants # << >>

\* While nobody edits, the workspace holds the text the run began with; while a
\* mutant is judged it is applied, and nothing else.
WorkspaceInv ==
  /\ revision = 0 => \A f \in File : text[f] \in {0, NotCopied}
  /\ pc \in {"mutants", "judging"} => \A f \in File : text[f] # NotCopied
  /\ pc = "judging" =>
       /\ next \in DOMAIN mutants
       /\ applied = [f \in File |-> IF f = Current.path THEN {Current} ELSE {}]
       /\ owners \subseteq Owners(Current)

\* What is recorded of a mutant and an obligation.
Earned(r) ==
  /\ r.status \in {"killed", "survived", "invalid"}
  /\ revision = 0 => r.version = 0
  /\ r.status = "killed" => \E b \in Judges(r.mutant, r.obligation) : Notices(b, r.mutant)
  /\ r.status = "survived" =>
       /\ Judges(r.mutant, r.obligation) # {}
       /\ \A b \in Judges(r.mutant, r.obligation) : ~Notices(b, r.mutant)

\* Results are of mutants whose turn has come, one for each that owns them.
OfTurn(r) ==
  \E i \in DOMAIN mutants :
    /\ r.mutant = mutants[i] /\ r.obligation \in Owners(mutants[i])
    /\ i < next \/ (pc = "judging" /\ i = next /\ r.obligation \notin owners)

EarnedInv ==
  /\ IsFiniteSet(results)
  /\ \A r \in results : Earned(r) /\ OfTurn(r)
  /\ \A r, s \in results : r.mutant = s.mutant /\ r.obligation = s.obligation => r = s

\* Before a limit is hit, every owner of a mutant that is passed has a result.
LoopInv ==
  /\ ~Cut => \A i \in DOMAIN mutants :
               i < next => \A o \in Owners(mutants[i]) : Recorded(mutants[i], o)
  /\ pc = "judging" => \A o \in Owners(Current) \ owners : Recorded(Current, o)
  /\ pc \in {"counting", "done", "stored", "refused"} => Cut \/ next > Len(mutants)
  /\ results = {} => elapsed = 0 /\ ~Cut
  /\ pc \in {"start", "copying"} => results = {} /\ next = 1

\* The document says what was recorded, and is stored at the revision it is for.
DocumentInv ==
  /\ pc \in {"done", "stored", "refused"} =>
       \/ mutants = << >> /\ results = {} /\ document = Doc("unmeasured", Obligation, 0, {})
       \/ mutants = << >> /\ results = {} /\ document = Doc("not_applicable", {}, 0, {})
       \/ /\ mutants # << >>
          /\ document = Doc(StateOfResults(results), Applicable, Len(mutants), results)
  /\ pc = "stored" => revision = 0

IInv == TypeOK /\ PlanInv /\ WorkspaceInv /\ EarnedInv /\ LoopInv /\ DocumentInv
-----------------------------------------------------------------------------
\* The bounds are numbers.
LEMMA Bounds ==
  /\ MaxDecisions \in Nat /\ MaxWall \in Nat /\ MaxStep \in Nat /\ MaxEdits \in Nat
  /\ MaxDecisions > 0 /\ MaxWall > 0 /\ Obligation # {}
  /\ NotCopied \in Nat /\ NotCopied \notin 0..MaxEdits
  /\ 0..MaxEdits \subseteq 0..NotCopied
BY MutationAssumption DEF MutationAssumption, NotCopied

\* One more result, and no more than there may be.
LEMMA OneMoreResult ==
  ASSUME IsFiniteSet(results), NEW x, Cardinality(results) < MaxDecisions
  PROVE  IsFiniteSet(results \cup {x}) /\ Cardinality(results \cup {x}) <= MaxDecisions
<1>1. Cardinality(results) \in Nat
  BY FS_CardinalityType
<1>2. /\ IsFiniteSet(results \cup {x})
      /\ Cardinality(results \cup {x}) =
           IF x \in results THEN Cardinality(results) ELSE Cardinality(results) + 1
  BY FS_AddElement
<1> QED BY <1>1, <1>2, Bounds

\* Who owns a mutant depends on the surfaces alone.
LEMMA OwnersKept ==
  ASSUME UNCHANGED plan
  PROVE  /\ \A m : Owners(m)' = Owners(m)
         /\ Applicable' = Applicable
BY DEF plan, Owners, Applicable

\* The first state.
LEMMA InitIInv == Init => IInv
<1> SUFFICES ASSUME Init PROVE IInv
  OBVIOUS
<1> USE Bounds DEF Init
<1>1. IsFiniteSet({}) /\ Cardinality({}) = 0
  BY FS_EmptySet
<1>2. TypeOK
  <2>1. next \in 1..(Len(mutants) + 1) /\ elapsed \in 0..MaxWall /\ planAt \in 0..MaxEdits
    OBVIOUS
  <2>2. text \in [File -> 0..NotCopied] /\ Cardinality(results) <= MaxDecisions
    BY <1>1
  <2> QED BY <2>1, <2>2 DEF TypeOK
<1>3. PlanInv
  BY DEF PlanInv
<1>4. WorkspaceInv
  BY DEF WorkspaceInv
<1>5. EarnedInv
  BY <1>1 DEF EarnedInv
<1>6. LoopInv
  BY DEF LoopInv, Cut
<1>7. DocumentInv
  BY DEF DocumentInv
<1> QED BY <1>2, <1>3, <1>4, <1>5, <1>6, <1>7 DEF IInv
-----------------------------------------------------------------------------
(* The types and the plan. *)

\* Every action but Plan leaves the plan alone, and pc decides the rest.
LEMMA PlanStep ==
  ASSUME IInv, [Next]_vars
  PROVE  PlanInv'
<1> USE DEF IInv, PlanInv
<1>1. CASE Plan
  <2>1. PICK planned \in Plans : mutants' = planned.mutants
    BY <1>1 DEF Plan
  <2> QED BY <1>1, <2>1, PlansAssumption DEF PlansAssumption, Plan
<1>2. CASE SuiteFailed
  BY <1>2 DEF SuiteFailed, plan
<1>3. CASE Copy
  BY <1>3 DEF Copy, plan
<1>4. CASE Apply \/ SourceChanged \/ SkipUnowned
  BY <1>4 DEF Apply, SourceChanged, SkipUnowned, Turn, plan
<1>5. CASE OutOfTime \/ Exhausted
  BY <1>5 DEF OutOfTime, Exhausted, Stop, plan
<1>6. CASE \E o \in Obligation : Judge(o)
  BY <1>6 DEF Judge, plan
<1>7. CASE Restore \/ Count
  BY <1>7 DEF Restore, Count, plan
<1>8. CASE Edit \/ Cancel \/ Finish \/ Done \/ UNCHANGED vars
  BY <1>8 DEF Edit, Cancel, Finish, Done, vars, plan
<1> QED BY <1>1, <1>2, <1>3, <1>4, <1>5, <1>6, <1>7, <1>8 DEF Next

\* A sequence has a length, and its domain.
LEMMA Lengths ==
  ASSUME PlanInv
  PROVE  Len(mutants) \in Nat /\ DOMAIN mutants = 1..Len(mutants)
BY DEF PlanInv

\* The next mutant is one of the plan.
LEMMA CurrentPlanned ==
  ASSUME TypeOK, PlanInv, next <= Len(mutants)
  PROVE  /\ next \in DOMAIN mutants
         /\ Current \in {mutants[i] : i \in DOMAIN mutants}
         /\ Current.path \in File
BY Lengths DEF TypeOK, PlanInv, Current

LEMMA TypeStep ==
  ASSUME IInv, [Next]_vars
  PROVE  TypeOK'
<1> USE Bounds DEF IInv, TypeOK
<1>1. Len(mutants) \in Nat /\ DOMAIN mutants = 1..Len(mutants)
  BY Lengths
<1>2. CASE Edit
  <2>1. revision' \in 0..MaxEdits /\ Current' = Current
    BY <1>2 DEF Edit, plan, loop, Current
  <2> QED BY <1>2, <2>1 DEF Edit, plan, workspace, loop
<1>3. CASE Cancel \/ SuiteFailed
  <2>1. Current' = Current /\ cancelled' \in BOOLEAN
    BY <1>3 DEF Cancel, SuiteFailed, plan, loop, Current
  <2>2. UNCHANGED <<revision, plan, workspace, loop, limits>>
    BY <1>3 DEF Cancel, SuiteFailed
  <2>3. pc' = pc \/ (pc = "start" /\ pc' = "done")
    BY <1>3 DEF Cancel, SuiteFailed
  <2> QED BY <2>1, <2>2, <2>3 DEF plan, workspace, loop
<1>4. CASE Plan
  <2>1. PICK planned \in Plans, truncated \in SUBSET Binding :
          /\ mutants' = planned.mutants
          /\ limits' = IF planned.cut THEN {"mutants"} ELSE {}
          /\ surfaces' = SurfacesWithout(truncated)
    BY <1>4 DEF Plan
  <2>2. surfaces' \in [Obligation -> SUBSET File]
    BY <2>1 DEF SurfacesWithout
  <2>3. Len(mutants') \in Nat
    BY PlanStep, Lengths, <1>4 DEF PlanInv, Next
  <2>4. next' = 1 /\ applied' = [f \in File |-> {}]
    BY <1>4 DEF Plan, workspace, loop, LoopInv
  <2>5. next' \in 1..(Len(mutants') + 1)
    BY <2>3, <2>4
  <2> QED BY <1>4, <2>1, <2>2, <2>4, <2>5 DEF Plan, workspace, loop
<1>5. CASE Copy
  BY <1>5 DEF Copy, plan, loop, Current
<1>6. CASE OutOfTime \/ Exhausted
  BY <1>6 DEF OutOfTime, Exhausted, Stop, plan, workspace, loop, Current
<1>7. CASE SkipUnowned
  BY <1>7, <1>1 DEF SkipUnowned, Turn, plan, workspace, Current
<1>8. CASE Apply
  <2>1. Current.path \in File /\ Current \in {mutants[i] : i \in DOMAIN mutants}
    BY <1>8, CurrentPlanned DEF Apply, Turn
  <2>2. /\ applied' \in [File -> SUBSET {mutants[i] : i \in DOMAIN mutants}]
        /\ \A f \in File : applied'[f] # {} => applied'[f] = {Current}
    BY <1>8, <2>1 DEF Apply, Turn
  <2> QED BY <1>8, <2>2 DEF Apply, Turn, plan, Owners, Wanted, Current
<1>9. CASE SourceChanged
  BY <1>9 DEF SourceChanged, Turn, plan, workspace, loop, Current
<1>10. CASE \E o \in Obligation : Judge(o)
  <2>1. PICK o \in Obligation : Judge(o)
    BY <1>10
  <2>2. Cardinality(results') <= MaxDecisions
    BY <2>1, OneMoreResult DEF Judge, EarnedInv
  <2>3. elapsed' \in 0..MaxWall
    BY <2>1 DEF Judge
  <2> QED BY <2>1, <2>2, <2>3 DEF Judge, plan, workspace, Current
<1>11. CASE Restore
  <2>1. next' \in 1..(Len(mutants) + 1)
    BY <1>11, <1>1 DEF Restore, WorkspaceInv
  <2>2. /\ applied' \in [File -> SUBSET {mutants[i] : i \in DOMAIN mutants}]
        /\ \A f \in File : applied'[f] = {}
    BY <1>11, CurrentPlanned, <1>1 DEF Restore, Restored, WorkspaceInv
  <2>3. limits' \subseteq {"mutants", "wall", "decisions"} /\ pc' \in {"mutants", "counting"}
    BY <1>11 DEF Restore
  <2> QED BY <1>11, <2>1, <2>2, <2>3 DEF Restore, plan
<1>12. CASE Count
  <2>1. /\ text' \in [File -> 0..NotCopied]
        /\ applied' \in [File -> SUBSET {mutants[i] : i \in DOMAIN mutants}]
        /\ \A f \in File : applied'[f] = {}
    BY <1>12 DEF Count
  <2>2. UNCHANGED <<revision, cancelled, surfaces, mutants, planAt, next, owners, elapsed,
                    results, limits>>
    BY <1>12 DEF Count, plan, loop
  <2>3. pc' = "done"
    BY <1>12 DEF Count
  <2> QED BY <2>1, <2>2, <2>3
<1>13. CASE Finish \/ Done \/ UNCHANGED vars
  <2>1. UNCHANGED <<revision, cancelled, surfaces, mutants, planAt, text, applied, next,
                    owners, elapsed, results, limits, Current>>
    BY <1>13 DEF Finish, Done, vars, plan, workspace, loop, Current
  <2>2. pc' = pc \/ (pc = "done" /\ pc' \in {"stored", "refused"})
    BY <1>13 DEF Finish, Done, vars
  <2> QED BY <2>1, <2>2
<1> QED BY <1>2, <1>3, <1>4, <1>5, <1>6, <1>7, <1>8, <1>9, <1>10, <1>11, <1>12, <1>13 DEF Next
-----------------------------------------------------------------------------
(* The workspace. *)

LEMMA WorkspaceStep ==
  ASSUME IInv, [Next]_vars
  PROVE  WorkspaceInv'
<1> USE DEF IInv, WorkspaceInv
<1>1. revision \in Nat /\ NotCopied \notin 0..MaxEdits /\ revision \in 0..MaxEdits
  BY Bounds DEF TypeOK
<1>2. CASE Edit
  <2>1. revision' # 0 /\ Current' = Current /\ Owners(Current)' = Owners(Current)
    BY <1>1, <1>2, OwnersKept DEF Edit, plan, loop, Current
  <2> QED BY <1>2, <2>1 DEF Edit, plan, workspace, loop
<1>3. CASE Cancel \/ Finish \/ Done \/ UNCHANGED vars
  <2>1. Current' = Current /\ Owners(Current)' = Owners(Current)
    BY <1>3, OwnersKept DEF Cancel, Finish, Done, vars, plan, loop, Current
  <2>2. UNCHANGED <<revision, text, applied, next, owners, mutants>>
    BY <1>3 DEF Cancel, Finish, Done, vars, plan, workspace, loop
  <2>3. pc' = pc \/ pc' \in {"stored", "refused"}
    BY <1>3 DEF Cancel, Finish, Done, vars
  <2> QED BY <2>1, <2>2, <2>3
<1>4. CASE SuiteFailed \/ Plan
  BY <1>4 DEF SuiteFailed, Plan, workspace
<1>5. CASE Copy
  <2>1. PICK f \in File :
          /\ text[f] = NotCopied /\ text' = [text EXCEPT ![f] = revision]
          /\ pc' = IF \A g \in File \ {f} : text[g] # NotCopied THEN "mutants" ELSE pc
    BY <1>5 DEF Copy
  <2>2. \A g \in File : text'[g] = IF g = f THEN revision ELSE text[g]
    BY <2>1 DEF TypeOK
  <2> QED BY <1>1, <1>5, <2>1, <2>2 DEF Copy
<1>6. CASE OutOfTime \/ Exhausted \/ SourceChanged
  BY <1>6 DEF OutOfTime, Exhausted, SourceChanged, Stop, Turn, workspace
<1>7. CASE SkipUnowned
  BY <1>7 DEF SkipUnowned, Turn, workspace
<1>8. CASE Apply
  <2>1. next \in DOMAIN mutants /\ Current.path \in File
    BY <1>8, CurrentPlanned DEF Apply, Turn
  <2>2. Current' = Current /\ Owners(Current)' = Owners(Current)
    BY <1>8, OwnersKept DEF Apply, plan, Current
  <2>3. \A f \in File : applied[f] = {}
    BY <1>8 DEF Apply, Turn, TypeOK
  <2>4. applied' = [f \in File |-> IF f = Current.path THEN {Current} ELSE {}]
    BY <1>8, <2>1, <2>3 DEF Apply, TypeOK
  <2> QED BY <1>8, <2>1, <2>2, <2>4 DEF Apply, Turn, plan
<1>9. CASE \E o \in Obligation : Judge(o)
  <2>1. PICK o \in Obligation : Judge(o)
    BY <1>9
  <2>2. Current' = Current /\ Owners(Current)' = Owners(Current)
    BY <2>1, OwnersKept DEF Judge, plan, Current
  <2> QED BY <2>1, <2>2 DEF Judge, plan, workspace
<1>10. CASE Restore
  BY <1>10 DEF Restore
<1>11. CASE Count
  BY <1>11 DEF Count
<1> QED BY <1>2, <1>3, <1>4, <1>5, <1>6, <1>7, <1>8, <1>9, <1>10, <1>11 DEF Next
-----------------------------------------------------------------------------
(* The results. *)

\* What a judgement adds is earned.
LEMMA JudgedEarned ==
  ASSUME IInv, NEW o \in Obligation, Judge(o)
  PROVE  \E new : /\ results' = results \cup {new}
                  /\ new.mutant = Current /\ new.obligation = o
                  /\ Earned(new)
<1> USE DEF IInv
<1>1. PICK reports \in [Judges(Current, o) -> {"pass", "fail", "unclear"}] :
        /\ \A b \in Judges(Current, o) : reports[b] \in Report(b)
        /\ results' = results \cup
             {[mutant |-> Current, obligation |-> o,
               status |-> StatusOf({reports[b] : b \in Judges(Current, o)}),
               version |-> text[Current.path]]}
  BY DEF Judge
<1> DEFINE said == {reports[b] : b \in Judges(Current, o)}
           new == [mutant |-> Current, obligation |-> o, status |-> StatusOf(said),
                   version |-> text[Current.path]]
<1>2. pc = "judging" /\ Current.path \in File
  BY CurrentPlanned, Lengths DEF Judge, WorkspaceInv, TypeOK
<1>3. UNION {applied[f] : f \in File} = {Current}
  BY <1>2 DEF WorkspaceInv
<1>4. \A b : Fails(b) <=> Notices(b, Current)
  BY <1>3 DEF Fails, Notices
<1>5. new.status \in {"killed", "survived", "invalid"}
  BY DEF StatusOf
<1>6. revision = 0 => new.version = 0
  BY <1>2 DEF WorkspaceInv
<1>7. ASSUME new.status = "killed"
      PROVE  \E b \in Judges(Current, o) : Notices(b, Current)
  <2>1. PICK b \in Judges(Current, o) : reports[b] = "fail"
    BY <1>7 DEF StatusOf
  <2>2. Fails(b)
    BY <1>1, <2>1 DEF Report
  <2> QED BY <2>2, <1>4
<1>8. ASSUME new.status = "survived"
      PROVE  Judges(Current, o) # {} /\ \A b \in Judges(Current, o) : ~Notices(b, Current)
  <2>1. said = {"pass"}
    BY <1>8 DEF StatusOf
  <2>2. \A b \in Judges(Current, o) : reports[b] = "pass"
    BY <2>1
  <2>3. \A b \in Judges(Current, o) : ~Fails(b)
    BY <1>1, <2>2 DEF Report
  <2> QED BY <2>1, <2>3, <1>4
<1>9. Earned(new)
  BY <1>5, <1>6, <1>7, <1>8 DEF Earned
<1> QED BY <1>1, <1>9

\* A turn only passes on to the next mutant.
LEMMA TurnsKept ==
  ASSUME PlanInv, next \in Nat, UNCHANGED plan,
         \/ next' = next /\ (pc = "judging" => pc' = pc /\ owners' \subseteq owners)
         \/ next' = next + 1
  PROVE  \A r : OfTurn(r) => OfTurn(r)'
<1> SUFFICES ASSUME NEW r, OfTurn(r) PROVE OfTurn(r)'
  OBVIOUS
<1>1. PICK i \in DOMAIN mutants :
        /\ r.mutant = mutants[i] /\ r.obligation \in Owners(mutants[i])
        /\ i < next \/ (pc = "judging" /\ i = next /\ r.obligation \notin owners)
  BY DEF OfTurn
<1>2. i \in Nat
  BY Lengths
<1>3. i \in DOMAIN mutants' /\ mutants'[i] = mutants[i] /\ surfaces' = surfaces
  BY DEF plan
<1>4. i < next' \/ (pc' = "judging" /\ i = next' /\ r.obligation \notin owners')
  BY <1>1, <1>2
<1> QED BY <1>1, <1>3, <1>4 DEF OfTurn, Owners

\* What was earned stays earned, and an edit refuses the whole document.
LEMMA EarnedKept ==
  ASSUME EarnedInv, results' = results, revision' = revision \/ revision' # 0,
         \A r : OfTurn(r) => OfTurn(r)'
  PROVE  EarnedInv'
<1>1. \A r \in results : Earned(r)'
  BY DEF EarnedInv, Earned, Judges, Notices
<1> QED BY <1>1 DEF EarnedInv

LEMMA EarnedStep ==
  ASSUME IInv, [Next]_vars
  PROVE  EarnedInv'
<1> USE DEF IInv
<1>1. next \in Nat /\ revision \in Nat
  BY Lengths, Bounds DEF TypeOK
<1>2. CASE Plan
  <2>1. results = {} /\ results' = {}
    BY <1>2 DEF Plan, LoopInv, loop
  <2> QED BY <2>1 DEF EarnedInv
<1>3. CASE Edit
  <2>1. \A r : OfTurn(r) => OfTurn(r)'
    BY <1>1, <1>3, TurnsKept DEF Edit, loop
  <2>2. results' = results /\ revision' # 0
    BY <1>1, <1>3 DEF Edit, loop
  <2> QED BY <2>1, <2>2, EarnedKept
<1>4. CASE Cancel \/ Finish \/ Done \/ UNCHANGED vars
  <2>1. UNCHANGED <<results, revision, plan, next, owners>>
    BY <1>4 DEF Cancel, Finish, Done, vars, loop, plan
  <2>2. pc = "judging" => pc' = pc
    BY <1>4 DEF Cancel, Finish, Done, vars
  <2> QED BY <1>1, <2>1, <2>2, TurnsKept, EarnedKept
<1>5. CASE SuiteFailed \/ Copy \/ OutOfTime \/ Exhausted \/ SourceChanged \/ Count
  <2>1. UNCHANGED <<results, revision, plan, next>>
    BY <1>5 DEF SuiteFailed, Copy, OutOfTime, Exhausted, SourceChanged, Count, loop
  <2>2. pc # "judging"
    BY <1>5 DEF SuiteFailed, Copy, OutOfTime, Exhausted, SourceChanged, Count, Turn
  <2> QED BY <1>1, <2>1, <2>2, TurnsKept, EarnedKept
<1>6. CASE SkipUnowned \/ Apply
  <2>1. /\ UNCHANGED <<results, revision, plan>> /\ pc # "judging"
        /\ next' = next \/ next' = next + 1
    BY <1>6 DEF SkipUnowned, Apply, Turn
  <2> QED BY <1>1, <2>1, TurnsKept, EarnedKept
<1>7. CASE Restore
  <2>1. UNCHANGED <<results, revision, plan>> /\ next' = next + 1
    BY <1>7 DEF Restore
  <2> QED BY <1>1, <2>1, TurnsKept, EarnedKept
<1>8. CASE \E o \in Obligation : Judge(o)
  <2>1. PICK o \in Obligation : Judge(o)
    BY <1>8
  <2>2. PICK new : results' = results \cup {new} /\ new.mutant = Current
                   /\ new.obligation = o /\ Earned(new)
    BY <2>1, JudgedEarned
  <2>3. /\ UNCHANGED <<plan, next, revision>> /\ pc = "judging" /\ pc' = pc
        /\ o \in owners /\ owners' = owners \ {o}
    BY <2>1 DEF Judge
  <2>4. \A r : OfTurn(r) => OfTurn(r)'
    BY <1>1, <2>3, TurnsKept
  <2>5. \A r \in results' : Earned(r)'
    BY <2>2, <2>3 DEF EarnedInv, Earned, Judges, Notices
  <2>6. OfTurn(new)'
    <3>1. next' \in DOMAIN mutants' /\ mutants'[next'] = Current /\ surfaces' = surfaces
      BY <2>3 DEF WorkspaceInv, plan, Current
    <3>2. o \in Owners(Current) /\ o \notin owners'
      BY <2>3 DEF WorkspaceInv
    <3> QED BY <2>2, <2>3, <3>1, <3>2 DEF OfTurn, Owners
  <2>7. \A s \in results : ~(s.mutant = Current /\ s.obligation = o)
    <3>1. SUFFICES ASSUME NEW s \in results, s.mutant = Current, s.obligation = o
                   PROVE FALSE
      OBVIOUS
    <3>2. PICK i \in DOMAIN mutants :
            /\ s.mutant = mutants[i]
            /\ i < next \/ (pc = "judging" /\ i = next /\ s.obligation \notin owners)
      BY <3>1 DEF EarnedInv, OfTurn
    <3>3. i = next
      BY <2>3, <3>1, <3>2 DEF PlanInv, WorkspaceInv, Current
    <3> QED BY <1>1, <2>3, <3>1, <3>2, <3>3
  <2>8. IsFiniteSet(results')
    BY <2>2, FS_AddElement DEF EarnedInv
  <2>9. \A r \in results' : OfTurn(r)'
    BY <2>2, <2>4, <2>6 DEF EarnedInv
  <2>10. \A r, s \in results' :
           r.mutant = s.mutant /\ r.obligation = s.obligation => r = s
    BY <2>2, <2>7 DEF EarnedInv
  <2> QED BY <2>5, <2>8, <2>9, <2>10 DEF EarnedInv
<1> QED BY <1>2, <1>3, <1>4, <1>5, <1>6, <1>7, <1>8 DEF Next
-----------------------------------------------------------------------------
(* How far the loop came. *)

\* What is recorded stays so.
LEMMA RecordedKept ==
  ASSUME results \subseteq results', NEW m, NEW o, Recorded(m, o)
  PROVE  \E r \in results' : r.mutant = m /\ r.obligation = o
BY DEF Recorded

\* A step that leaves the plan and the loop alone.
LEMMA LoopKept ==
  ASSUME LoopInv, UNCHANGED <<plan, loop, limits>>,
         pc' = "judging" => pc = "judging",
         pc' \in {"counting", "done", "stored", "refused"} =>
           pc \in {"counting", "done", "stored", "refused"} \/ next > Len(mutants),
         pc' \in {"start", "copying"} => pc \in {"start", "copying"}
  PROVE  LoopInv'
<1>1. UNCHANGED <<surfaces, mutants, next, owners, elapsed, results, Current>>
  BY DEF plan, loop, Current
<1>2. Cut' = Cut
  BY DEF Cut
<1>3. Owners(Current)' = Owners(Current)
  BY <1>1 DEF Owners
<1>4. \A i \in DOMAIN mutants : Owners(mutants[i])' = Owners(mutants[i])
  BY <1>1 DEF Owners
<1>5. \A o : Recorded(Current, o)' = Recorded(Current, o)
  BY <1>1 DEF Recorded
<1> QED BY <1>1, <1>2, <1>3, <1>4, <1>5 DEF LoopInv, Recorded

LEMMA LoopStep ==
  ASSUME IInv, [Next]_vars
  PROVE  LoopInv'
<1> USE DEF IInv
<1>1. /\ next \in Nat /\ Len(mutants) \in Nat /\ DOMAIN mutants = 1..Len(mutants)
      /\ elapsed \in Nat
  BY Lengths, Bounds DEF TypeOK
<1>2. CASE Plan
  <2>1. results' = {} /\ elapsed' = 0 /\ next' = 1
    BY <1>2 DEF Plan, LoopInv, loop
  <2>2. ~Cut' /\ pc' \in {"done", "copying"}
    BY <1>2 DEF Plan, Cut
  <2>3. pc' = "done" => Len(mutants') = 0
    BY <1>2 DEF Plan
  <2>4. PlanInv'
    BY <1>2, PlanStep DEF Next
  <2>5. \A i \in DOMAIN mutants' : ~(i < 1)
    BY <2>4 DEF PlanInv
  <2> QED BY <2>1, <2>2, <2>3, <2>5 DEF LoopInv
<1>3. CASE Edit \/ Cancel \/ Finish \/ Done \/ UNCHANGED vars \/ SourceChanged \/ Count
  <2>1. UNCHANGED <<plan, loop, limits>>
    BY <1>3 DEF Edit, Cancel, Finish, Done, vars, SourceChanged, Count, plan, loop
  <2>2. \/ pc' = pc
        \/ pc' = "failed"
        \/ pc \in {"counting", "done"} /\ pc' \in {"done", "stored", "refused"}
    BY <1>3 DEF Edit, Cancel, Finish, Done, vars, SourceChanged, Count
  <2> QED BY <2>1, <2>2, LoopKept
<1>4. CASE SuiteFailed \/ Exhausted
  <2>1. UNCHANGED <<plan, loop, limits>>
    BY <1>4 DEF SuiteFailed, Exhausted, Stop
  <2>2. pc' \in {"done", "counting"} /\ next > Len(mutants)
    BY <1>1, <1>4 DEF SuiteFailed, Exhausted, Stop, LoopInv, PlanInv
  <2> QED BY <2>1, <2>2, LoopKept
<1>5. CASE Copy
  <2>1. UNCHANGED <<plan, loop, limits>> /\ pc' \in {"copying", "mutants"} /\ pc = "copying"
    BY <1>5 DEF Copy
  <2> QED BY <2>1, LoopKept
<1>6. CASE OutOfTime
  <2>1. Cut' /\ pc' = "counting" /\ results' = results
    BY <1>6 DEF OutOfTime, Stop, Cut, loop
  <2>2. results # {}
    BY <1>6, Bounds DEF OutOfTime, LoopInv
  <2> QED BY <2>1, <2>2 DEF LoopInv
<1>7. CASE SkipUnowned
  <2>1. /\ UNCHANGED <<plan, elapsed, results, limits, pc>> /\ next' = next + 1
        /\ pc = "mutants" /\ Owners(Current) = {}
    BY <1>7 DEF SkipUnowned, Turn
  <2>2. Cut' = Cut
    BY <2>1 DEF Cut
  <2>3. \A i \in DOMAIN mutants : i < next' => i < next \/ i = next
    BY <1>1, <2>1
  <2>4. \A i \in DOMAIN mutants : Owners(mutants[i])' = Owners(mutants[i])
    BY <2>1 DEF Owners, plan
  <2>5. ~Cut => \A i \in DOMAIN mutants :
                  i < next' => \A o \in Owners(mutants[i]) : Recorded(mutants[i], o)
    BY <2>1, <2>3 DEF LoopInv, Current
  <2> QED BY <2>1, <2>2, <2>4, <2>5 DEF LoopInv, Recorded, plan
<1>8. CASE Apply
  <2>1. /\ UNCHANGED <<plan, next, elapsed, results, limits>> /\ owners' = Owners(Current)
        /\ pc' = "judging" /\ pc = "mutants"
    BY <1>8 DEF Apply, Turn
  <2>2. Cut' = Cut /\ Current' = Current /\ Owners(Current)' = Owners(Current)
    BY <2>1 DEF Cut, Current, Owners, plan
  <2>3. \A i \in DOMAIN mutants : Owners(mutants[i])' = Owners(mutants[i])
    BY <2>1 DEF Owners, plan
  <2> QED BY <2>1, <2>2, <2>3 DEF LoopInv, Recorded, plan
<1>9. CASE \E o \in Obligation : Judge(o)
  <2>1. PICK o \in Obligation : Judge(o)
    BY <1>9
  <2>2. PICK new : results' = results \cup {new} /\ new.mutant = Current
                   /\ new.obligation = o
    BY <2>1, JudgedEarned
  <2>3. /\ UNCHANGED <<plan, next, limits, pc>> /\ pc = "judging"
        /\ o \in owners /\ owners' = owners \ {o}
    BY <2>1 DEF Judge
  <2>4. Cut' = Cut /\ Current' = Current /\ Owners(Current)' = Owners(Current)
    BY <2>3 DEF Cut, Current, Owners, plan
  <2>5. \A i \in DOMAIN mutants : Owners(mutants[i])' = Owners(mutants[i])
    BY <2>3 DEF Owners, plan
  <2>6. \A m, p : Recorded(m, p) => \E r \in results' : r.mutant = m /\ r.obligation = p
    BY <2>2 DEF Recorded
  <2>7. \A p \in Owners(Current) \ owners' :
          \E r \in results' : r.mutant = Current /\ r.obligation = p
    BY <2>2, <2>3, <2>6 DEF LoopInv
  <2> QED BY <2>2, <2>3, <2>4, <2>5, <2>6, <2>7 DEF LoopInv, Recorded, plan
<1>10. CASE Restore
  <2>1. /\ UNCHANGED <<plan, elapsed, results>> /\ next' = next + 1 /\ pc = "judging"
    BY <1>10 DEF Restore
  <2>2. \A i \in DOMAIN mutants : Owners(mutants[i])' = Owners(mutants[i])
    BY <2>1 DEF Owners, plan
  <2>3. \A i \in DOMAIN mutants : i < next' => i < next \/ i = next
    BY <1>1, <2>1
  <2>4. CASE owners = {}
    <3>1. limits' = limits /\ pc' = "mutants"
      BY <1>10, <2>4 DEF Restore
    <3>2. Cut' = Cut
      BY <3>1 DEF Cut
    <3>3. ~Cut => \A i \in DOMAIN mutants :
                    i < next' => \A o \in Owners(mutants[i]) : Recorded(mutants[i], o)
      BY <2>1, <2>3, <2>4 DEF LoopInv, Current
    <3> QED BY <2>1, <2>2, <3>1, <3>2, <3>3 DEF LoopInv, Recorded, plan
  <2>5. CASE owners # {}
    <3>1. Cut' /\ pc' = "counting"
      BY <1>10, <2>5 DEF Restore, Cut
    <3>2. elapsed >= MaxWall \/ Cardinality(results) >= MaxDecisions
      BY <1>10, <2>5 DEF Restore
    <3>3. results # {}
      BY <3>2, Bounds, FS_EmptySet DEF LoopInv
    <3> QED BY <2>1, <3>1, <3>3 DEF LoopInv
  <2> QED BY <2>4, <2>5
<1> QED BY <1>2, <1>3, <1>4, <1>5, <1>6, <1>7, <1>8, <1>9, <1>10 DEF Next
-----------------------------------------------------------------------------
(* The document. *)

LEMMA DocumentStep ==
  ASSUME IInv, [Next]_vars
  PROVE  DocumentInv'
<1> USE DEF IInv
<1>1. CASE SuiteFailed
  BY <1>1 DEF SuiteFailed, DocumentInv, LoopInv, PlanInv, plan, loop
<1>2. CASE Plan
  BY <1>2 DEF Plan, DocumentInv, LoopInv, loop
<1>3. CASE Count
  <2>1. Applicable' = Applicable
    BY <1>3, OwnersKept DEF Count
  <2> QED BY <1>3, <2>1 DEF Count, DocumentInv, PlanInv, plan, loop
<1>4. CASE Edit \/ Cancel \/ Finish \/ Done \/ UNCHANGED vars
  <2>1. Applicable' = Applicable
    BY <1>4, OwnersKept DEF Edit, Cancel, Finish, Done, vars, plan
  <2>2. UNCHANGED <<mutants, results, document>>
    BY <1>4 DEF Edit, Cancel, Finish, Done, vars, plan, loop
  <2>3. /\ pc' \in {"done", "stored", "refused"} => pc \in {"done", "stored", "refused"}
        /\ pc' = "stored" => revision' = 0
    BY <1>4 DEF Edit, Cancel, Finish, Done, vars, DocumentInv
  <2> QED BY <2>1, <2>2, <2>3 DEF DocumentInv
<1>5. ASSUME Copy \/ OutOfTime \/ Exhausted \/ SkipUnowned \/ Apply \/ SourceChanged
             \/ (\E o \in Obligation : Judge(o)) \/ Restore
      PROVE  DocumentInv'
  <2>1. pc' \notin {"done", "stored", "refused"}
    BY <1>5 DEF Copy, OutOfTime, Exhausted, Stop, SkipUnowned, Apply, SourceChanged, Judge,
                Restore, Turn
  <2> QED BY <2>1 DEF DocumentInv
<1> QED BY <1>1, <1>2, <1>3, <1>4, <1>5 DEF Next
-----------------------------------------------------------------------------
(* The theorems. *)

LEMMA Step == IInv /\ [Next]_vars => IInv'
<1> SUFFICES ASSUME IInv, [Next]_vars PROVE IInv'
  OBVIOUS
<1>1. TypeOK' /\ PlanInv' /\ WorkspaceInv'
  BY TypeStep, PlanStep, WorkspaceStep
<1>2. EarnedInv' /\ LoopInv' /\ DocumentInv'
  BY EarnedStep, LoopStep, DocumentStep
<1> QED BY <1>1, <1>2 DEF IInv

\* The inductive invariant holds in every state of the phase.
THEOREM MutationInvariant == Spec => []IInv
BY InitIInv, Step, PTL DEF Spec

\* Cursors, clock and counters stay within their bounds, and no more than the
\* mutant that is being judged is ever in the workspace.
THEOREM MutationTypes == Spec => []TypeOK
<1>1. IInv => TypeOK
  BY DEF IInv
<1> QED BY <1>1, MutationInvariant, PTL

\* A kill or a survival that is stored was earned by judges whose word counts, on
\* the text of the revision it is stored for, whatever was cancelled, cut short or
\* edited meanwhile.
THEOREM KillsEarned == Spec => []KillsAreEarned
<1>1. IInv => KillsAreEarned
  <2> SUFFICES ASSUME IInv, pc = "stored", NEW r \in document.results
               PROVE  /\ r.status # "invalid" => r.version = 0
                      /\ r.status = "killed" =>
                           \E b \in Judges(r.mutant, r.obligation) : Notices(b, r.mutant)
                      /\ r.status = "survived" =>
                           /\ Judges(r.mutant, r.obligation) # {}
                           /\ \A b \in Judges(r.mutant, r.obligation) : ~Notices(b, r.mutant)
    BY DEF KillsAreEarned
  <2>1. r \in results
    BY DEF IInv, DocumentInv, Doc
  <2>2. Earned(r) /\ revision = 0
    BY <2>1 DEF IInv, EarnedInv, DocumentInv
  <2> QED BY <2>2 DEF Earned
<1> QED BY <1>1, MutationInvariant, PTL

\* A nonempty finite set is counted.
LEMMA Counted ==
  ASSUME NEW S, IsFiniteSet(S)
  PROVE  Cardinality(S) \in Nat /\ (S # {} <=> Cardinality(S) > 0)
BY FS_EmptySet, FS_CardinalityType

\* Mutation evidence that does not weaken a proof is complete, or the document
\* names the ceiling that cut it short.
THEOREM StrongEvidence == Spec => []StrongEvidenceIsComplete
<1>1. IInv => StrongEvidenceIsComplete
  <2> SUFFICES ASSUME IInv, pc = "stored", NEW o \in document.applicable,
                      ~Weak(Summary(document, o)), ~Cut
               PROVE  /\ \E r \in document.results : r.obligation = o
                      /\ \A i \in DOMAIN mutants :
                           o \in Owners(mutants[i]) =>
                             \E r \in document.results :
                               /\ r.mutant = mutants[i] /\ r.obligation = o
                               /\ r.status = "killed"
    BY DEF StrongEvidenceIsComplete, Cut
  <2>1. /\ document.results = results
        /\ \E r \in document.results : r.obligation = o
        /\ ~(Cardinality(Of(document, o, "survived")) > 0)
        /\ ~(Cardinality(Of(document, o, "invalid")) > 0)
    <3>1. document.results = results
      <4>1. \E state, applicable, planned : document = Doc(state, applicable, planned, results)
        BY DEF IInv, DocumentInv
      <4> QED BY <4>1 DEF Doc
    <3>2. o \in document.applicable /\ ~Weak(Summary(document, o))
      OBVIOUS
    <3>3. Summary(document, o).required
      BY <3>2 DEF Summary
    <3>4. ~Summary(document, o).unmeasured
      BY <3>2, <3>3 DEF Weak
    <3>5. /\ ~(Summary(document, o).survived > 0)
          /\ ~(Summary(document, o).invalid > 0)
      BY <3>2, <3>3 DEF Weak
    <3> QED BY <3>1, <3>2, <3>4, <3>5 DEF Summary
  <2>2. IsFiniteSet(results)
    BY DEF IInv, EarnedInv
  <2>3. \A i \in DOMAIN mutants : i < next
    BY Lengths DEF IInv, LoopInv, TypeOK
  <2>4. ASSUME NEW i \in DOMAIN mutants, o \in Owners(mutants[i])
        PROVE  \E r \in document.results :
                 r.mutant = mutants[i] /\ r.obligation = o /\ r.status = "killed"
    <3>1. PICK r \in results : r.mutant = mutants[i] /\ r.obligation = o
      BY <2>3, <2>4 DEF IInv, LoopInv, Recorded
    <3>2. r.status \in {"killed", "survived", "invalid"}
      BY DEF IInv, EarnedInv, Earned
    <3>3. ASSUME NEW k \in {"survived", "invalid"}, r.status = k
          PROVE  FALSE
      <4>1. r \in Of(document, o, k) /\ Of(document, o, k) \subseteq results
        BY <2>1, <3>1, <3>3 DEF Of
      <4>2. IsFiniteSet(Of(document, o, k))
        BY <2>2, <4>1, FS_Subset
      <4>3. Cardinality(Of(document, o, k)) > 0
        BY <4>1, <4>2, Counted
      <4> QED BY <2>1, <4>3
    <3> QED BY <2>1, <3>1, <3>2, <3>3
  <2> QED BY <2>1, <2>4
<1> QED BY <1>1, MutationInvariant, PTL

\* Whatever cuts the phase short, the document it makes is one that verify accepts.
THEOREM DocumentValid == Spec => []DocumentIsValid
<1>1. IInv => DocumentIsValid
  <2> SUFFICES ASSUME IInv, pc \in {"done", "stored"} PROVE Valid(document)
    BY DEF DocumentIsValid
  <2>1. IsFiniteSet({}) /\ Cardinality({}) = 0
    BY FS_EmptySet
  <2>2. CASE document = Doc("unmeasured", Obligation, 0, {})
    <3>1. /\ document.applicable = Obligation /\ document.results = {}
          /\ document.state = "unmeasured" /\ document.planned = 0
          /\ document.killed = 0 /\ document.survived = 0 /\ document.invalid = 0
      BY <2>1, <2>2 DEF Doc
    <3>2. \A k \in {"killed", "survived", "invalid"} :
            document[k] = Cardinality({r \in document.results : r.status = k})
      BY <2>1, <3>1
    <3> QED BY <3>1, <3>2, Bounds DEF Valid
  <2>3. CASE document = Doc("not_applicable", {}, 0, {})
    <3>1. /\ document.applicable = {} /\ document.results = {}
          /\ document.state = "not_applicable" /\ document.planned = 0
          /\ document.killed = 0 /\ document.survived = 0 /\ document.invalid = 0
      BY <2>1, <2>3 DEF Doc
    <3>2. \A k \in {"killed", "survived", "invalid"} :
            document[k] = Cardinality({r \in document.results : r.status = k})
      BY <2>1, <3>1
    <3> QED BY <3>1, <3>2 DEF Valid
  <2>4. CASE /\ mutants # << >>
             /\ document = Doc(StateOfResults(results), Applicable, Len(mutants), results)
    <3> DEFINE With(k) == {r \in results : r.status = k}
    <3>1. /\ document.applicable = Applicable /\ document.results = results
          /\ document.state = StateOfResults(results) /\ document.planned = Len(mutants)
          /\ document.killed = Cardinality(With("killed"))
          /\ document.survived = Cardinality(With("survived"))
          /\ document.invalid = Cardinality(With("invalid"))
      BY <2>4 DEF Doc
    <3>2. \A k \in {"killed", "survived", "invalid"} :
            document[k] = Cardinality({r \in document.results : r.status = k})
      BY <3>1
    <3>3. Applicable \subseteq Obligation
      BY DEF Applicable, Owners, Wanted
    <3>4. \A r \in results : r.obligation \in Applicable /\ r.obligation \in Wanted(r.mutant)
      BY DEF IInv, EarnedInv, OfTurn, Applicable, Owners
    <3>5. \A r, s \in results :
            r.mutant = s.mutant /\ r.obligation = s.obligation => r = s
      BY DEF IInv, EarnedInv
    <3>6. Len(mutants) > 0
      BY <2>4, Lengths DEF IInv, PlanInv
    <3>7. \A k : /\ IsFiniteSet(With(k)) /\ Cardinality(With(k)) \in Nat
                 /\ With(k) # {} <=> Cardinality(With(k)) > 0
      <4>1. \A k : With(k) \subseteq results
        OBVIOUS
      <4>2. \A k : IsFiniteSet(With(k))
        BY <4>1, FS_Subset DEF IInv, EarnedInv
      <4> HIDE DEF With
      <4> QED BY <4>2, Counted
    <3> HIDE DEF With
    <3>8. CASE \A r \in results : r.status = "invalid"
      <4>1. With("killed") = {} /\ With("survived") = {}
        BY <3>8 DEF With
      <4>2. document.state = "unmeasured"
        BY <3>1, <3>8 DEF StateOfResults
      <4>3. document.killed + document.survived = 0
        <5>1. Cardinality(With("killed")) = 0 /\ Cardinality(With("survived")) = 0
          BY <2>1, <4>1
        <5>2. document.killed = 0 /\ document.survived = 0
          BY <3>1, <5>1
        <5> QED BY <5>2
      <4>4. CASE results = {}
        <5>1. ~Cut /\ \A i \in DOMAIN mutants : i < next
          BY <4>4, Lengths DEF IInv, LoopInv, TypeOK
        <5>2. \A i \in DOMAIN mutants : Owners(mutants[i]) = {}
          BY <4>4, <5>1 DEF IInv, LoopInv, Recorded
        <5>3. Applicable = {}
          BY <5>2 DEF Applicable
        <5> QED BY <3>1, <3>2, <3>6, <4>2, <4>3, <4>4, <5>3 DEF Valid
      <4>5. CASE results # {}
        <5>1. With("invalid") # {}
          BY <3>8, <4>5 DEF With
        <5>2. document.invalid > 0
          BY <3>1, <3>7, <5>1
        <5>3. Applicable # {}
          BY <3>4, <4>5
        <5> QED BY <3>1, <3>2, <3>3, <3>4, <3>5, <4>2, <4>3, <5>2, <5>3 DEF Valid
      <4> QED BY <4>4, <4>5
    <3>9. CASE ~\A r \in results : r.status = "invalid"
      <4>1. With("killed") # {} \/ With("survived") # {}
        BY <3>9 DEF IInv, EarnedInv, Earned, With
      <4>2. document.killed + document.survived > 0
        BY <3>1, <3>7, <4>1
      <4>3. document.state = "measured"
        BY <3>1, <3>9 DEF StateOfResults
      <4> QED BY <3>1, <3>2, <3>3, <3>4, <3>5, <3>6, <4>2, <4>3 DEF Valid
    <3> QED BY <3>8, <3>9
  <2> QED BY <2>2, <2>3, <2>4 DEF IInv, DocumentInv
<1> QED BY <1>1, MutationInvariant, PTL
-----------------------------------------------------------------------------
(* The mask: after each symbol the scanner is where the lexeme of the next one *)
(* says it should be.                                                          *)

\* Where the scanner may be, its states, and all of them.
In == {"code", "//", "/*"} \cup Quote
State(in, escaped, skip) == [in |-> in, escaped |-> escaped, skip |-> skip]
ScanState == [in : In, escaped : BOOLEAN, skip : BOOLEAN]

\* The scanner goes from state to state.
LEMMA ScanShape ==
  ASSUME NEW s \in ScanState, NEW symbol, NEW ahead
  PROVE  Scan(s, symbol, ahead) \in ScanState
<1>1. s.in \in In /\ s.escaped \in BOOLEAN /\ s.skip \in BOOLEAN
  BY DEF ScanState
<1>2. Enters(symbol, ahead) \in In
  BY DEF Enters, In
<1>3. CASE s.skip
  BY <1>3 DEF Scan, ScanState
<1>4. CASE ~s.skip
  <2> DEFINE in == IF s.in = "code" THEN Enters(symbol, ahead)
                   ELSE IF Leaves(s, symbol, ahead) THEN "code" ELSE s.in
             escaped == s.in \in Quote /\ symbol = "\\" /\ ~s.escaped
             skip == \/ s.in = "code" /\ Enters(symbol, ahead) \in {"//", "/*"}
                     \/ s.in = "/*" /\ symbol = "*" /\ ahead = "/"
  <2>1. Scan(s, symbol, ahead) = State(in, escaped, skip)
    BY <1>4 DEF Scan, State
  <2>2. in \in In
    BY <1>1, <1>2 DEF In
  <2>3. escaped \in BOOLEAN /\ skip \in BOOLEAN
    OBVIOUS
  <2> HIDE DEF in, escaped, skip
  <2> QED BY <2>1, <2>2, <2>3 DEF State, ScanState
<1> QED BY <1>3, <1>4

\* The scanner's state before each place, one step at a time.
LEMMA ScannedIs ==
  ASSUME NEW T, NEW symbols \in Seq(T)
  PROVE  /\ Scanned(symbols)[0] = Start
         /\ \A k \in 1..Len(symbols) :
              Scanned(symbols)[k] = Scan(Scanned(symbols)[k - 1], symbols[k], At(symbols, k + 1))
<1> DEFINE n == Len(symbols)
           step == [k \in 1..n |-> [s \in ScanState |-> Scan(s, symbols[k], At(symbols, k + 1))]]
<1>1. n \in Nat
  OBVIOUS
<1>2. Start \in ScanState
  BY DEF Start, ScanState, In
<1>3. step \in [1..n -> [ScanState -> ScanState]]
  BY ScanShape
<1> HIDE DEF step, n
<1>4. PICK f : Iterates(f, ScanState, Start, n, step)
  BY <1>1, <1>2, <1>3, Recursion
<1> USE DEF Iterates
<1> USE DEF step, n
<1>5. ASSUME NEW k \in 1..n PROVE f[k] = Scan(f[k - 1], symbols[k], At(symbols, k + 1))
  <2>1. k - 1 \in 0..n /\ f[k - 1] \in ScanState
    BY <1>1, <1>4
  <2>3. step[k][f[k - 1]] = Scan(f[k - 1], symbols[k], At(symbols, k + 1))
    BY <2>1
  <2> QED BY <1>4, <2>3
<1> HIDE DEF step
<1> DEFINE scan == CHOOSE g : g = [k \in 0..n |-> IF k = 0 THEN Start
                                    ELSE Scan(g[k - 1], symbols[k], At(symbols, k + 1))]
<1>6. f = [k \in 0..n |-> IF k = 0 THEN Start ELSE Scan(f[k - 1], symbols[k], At(symbols, k + 1))]
  BY <1>1, <1>4, <1>5
<1>7. scan = [k \in 0..n |-> IF k = 0 THEN Start ELSE Scan(scan[k - 1], symbols[k], At(symbols, k + 1))]
  BY <1>6
<1>8. Scanned(symbols) = scan
  BY DEF Scanned
<1> HIDE DEF scan
<1>9. scan[0] = Start /\ \A k \in 1..n : scan[k] = Scan(scan[k - 1], symbols[k], At(symbols, k + 1))
  BY <1>1, <1>7
<1> QED BY <1>8, <1>9

\* Escapes are counted as the scanner counts them: one symbol at a time.
LEMMA EscapedSteps ==
  ASSUME NEW T, NEW symbols \in Seq(T), NEW a \in 1..Len(symbols), NEW k \in (a + 1)..Len(symbols)
  PROVE  Escaped(symbols, a, k + 1) <=> symbols[k] = "\\" /\ ~Escaped(symbols, a, k)
<1> DEFINE slash(i) == symbols[i] = "\\"
           Begins(j) == j = a + 1 \/ ~slash(j - 1)
           Run(j, e) == (\A i \in j..(e - 1) : slash(i)) /\ Begins(j)
<1>1. a \in Nat /\ k \in Nat /\ a < k
  OBVIOUS
<1>2. \A e : Escaped(symbols, a, e) <=> \E j \in (a + 1)..e : (e - j) % 2 = 1 /\ Run(j, e)
  BY DEF Escaped
<1> HIDE DEF slash
<1>3. ASSUME Escaped(symbols, a, k + 1) PROVE slash(k) /\ ~Escaped(symbols, a, k)
  <2>1. PICK j \in (a + 1)..(k + 1) : (k + 1 - j) % 2 = 1 /\ Run(j, k + 1)
    BY <1>2, <1>3
  <2>2. j # k + 1
    BY <1>1, <2>1
  <2>3. j \in (a + 1)..k
    BY <1>1, <2>2
  <2>4. slash(k)
    BY <1>1, <2>1, <2>3
  <2>5. ASSUME NEW i \in (a + 1)..k, (k - i) % 2 = 1, Run(i, k) PROVE FALSE
    <3>1. i <= k - 1
      BY <1>1, <2>5
    <3>2. CASE i = j
      BY <1>1, <2>1, <2>3, <2>5, <3>2
    <3>3. CASE i < j
      <4>1. j - 1 \in i..(k - 1) /\ j # a + 1
        BY <1>1, <2>3, <3>3
      <4> QED BY <2>1, <2>5, <4>1
    <3>4. CASE i > j
      <4>1. i - 1 \in j..k /\ i # a + 1
        BY <1>1, <2>3, <3>1, <3>4
      <4> QED BY <2>1, <2>5, <4>1
    <3> QED BY <1>1, <2>3, <3>2, <3>3, <3>4
  <2> QED BY <1>2, <2>4, <2>5
<1>4. ASSUME slash(k), ~Escaped(symbols, a, k) PROVE Escaped(symbols, a, k + 1)
  <2> DEFINE S == {j \in (a + 1)..k : \A i \in j..k : slash(i)}
  <2>1. S \in SUBSET Nat /\ k \in S
    BY <1>1, <1>4
  <2>2. PICK j \in S : \A l \in S : j <= l
    BY <2>1, LeastNumber
  <2>3. j \in (a + 1)..k /\ \A i \in j..k : slash(i)
    BY <2>2
  <2>4. Begins(j)
    <3> SUFFICES ASSUME j # a + 1, slash(j - 1) PROVE FALSE
      OBVIOUS
    <3>1. j - 1 \in (a + 1)..k /\ \A i \in (j - 1)..k : i = j - 1 \/ i \in j..k
      BY <1>1, <2>3
    <3>2. j - 1 \in S
      BY <2>3, <3>1
    <3>3. ~(j <= j - 1)
      BY <1>1, <2>3
    <3> QED BY <2>2, <3>2, <3>3
  <2>5. (k - j) % 2 # 1
    <3>1. Run(j, k)
      BY <1>1, <2>3, <2>4
    <3> HIDE DEF Run
    <3> QED BY <1>2, <1>4, <2>3, <3>1
  <2>6. (k + 1 - j) % 2 = 1
    BY <1>1, <2>3, <2>5
  <2>7. j \in (a + 1)..(k + 1) /\ (k + 1) - 1 = k
    BY <1>1, <2>3
  <2>8. Run(j, k + 1)
    BY <1>1, <2>3, <2>4, <2>7
  <2> HIDE DEF Run
  <2> QED BY <1>2, <2>6, <2>7, <2>8
<1> QED BY <1>3, <1>4 DEF slash

\* The fields of the state after a symbol that was not skipped.
Goes(in, escaped, symbol, ahead) ==
  IF in = "code" THEN Enters(symbol, ahead)
  ELSE IF \/ in = "//" /\ symbol = "\n"
          \/ in = "/*" /\ symbol = "*" /\ ahead = "/"
          \/ in \in Quote /\ in = symbol /\ ~escaped THEN "code" ELSE in
\* Does the symbol escape the next one?
Escapes(in, escaped, symbol) == in \in Quote /\ symbol = "\\" /\ ~escaped
\* Is the next symbol consumed with this one?
Skips(in, symbol, ahead) ==
  \/ in = "code" /\ Enters(symbol, ahead) \in {"//", "/*"}
  \/ in = "/*" /\ symbol = "*" /\ ahead = "/"

\* One step of the scanner, spelled out for a state that is given by its parts.
LEMMA ScanGoes ==
  ASSUME NEW in, NEW escaped, NEW symbol, NEW ahead
  PROVE  Scan(State(in, escaped, FALSE), symbol, ahead) =
           State(Goes(in, escaped, symbol, ahead), Escapes(in, escaped, symbol),
                 Skips(in, symbol, ahead))
<1> DEFINE s == State(in, escaped, FALSE)
<1>1. s.in = in /\ s.escaped = escaped /\ s.skip = FALSE
  BY DEF State
<1> HIDE DEF s
<1>2. (IF s.in = "code" THEN Enters(symbol, ahead)
       ELSE IF Leaves(s, symbol, ahead) THEN "code" ELSE s.in) = Goes(in, escaped, symbol, ahead)
  BY <1>1 DEF Leaves, Goes
<1> QED BY <1>1, <1>2 DEF s, Scan, State, Escapes, Skips

\* A symbol that was consumed with the one before it changes nothing.
LEMMA ScanSkips ==
  ASSUME NEW in, NEW escaped, NEW symbol, NEW ahead
  PROVE  Scan(State(in, escaped, TRUE), symbol, ahead) = State(in, escaped, FALSE)
BY DEF Scan, State

\* Code goes on.
LEMMA CodeGoesOn ==
  ASSUME NEW symbol, NEW ahead, symbol \notin Quote,
         symbol = "/" => ahead \notin {"/", "*"}
  PROVE  Scan(State("code", FALSE, FALSE), symbol, ahead) = State("code", FALSE, FALSE)
<1>1. Goes("code", FALSE, symbol, ahead) = "code"
  BY DEF Goes, Enters
<1>2. Escapes("code", FALSE, symbol) = FALSE
  BY DEF Escapes, Quote
<1>3. Skips("code", symbol, ahead) = FALSE
  BY DEF Skips, Enters
<1>4. Scan(State("code", FALSE, FALSE), symbol, ahead) =
        State(Goes("code", FALSE, symbol, ahead), Escapes("code", FALSE, symbol),
              Skips("code", symbol, ahead))
  BY ScanGoes, Zenon
<1> QED BY <1>1, <1>2, <1>3, <1>4, Zenon

\* A line comment ends before the line break.
LEMMA LineEnds ==
  ASSUME NEW ahead
  PROVE  Scan(State("//", FALSE, FALSE), "\n", ahead) = State("code", FALSE, FALSE)
<1>1. Goes("//", FALSE, "\n", ahead) = "code"
  BY DEF Goes, Quote
<1>2. Escapes("//", FALSE, "\n") = FALSE
  BY DEF Escapes, Quote
<1>3. Skips("//", "\n", ahead) = FALSE
  BY DEF Skips
<1>4. Scan(State("//", FALSE, FALSE), "\n", ahead) =
        State(Goes("//", FALSE, "\n", ahead), Escapes("//", FALSE, "\n"),
              Skips("//", "\n", ahead))
  BY ScanGoes, Zenon
<1> QED BY <1>1, <1>2, <1>3, <1>4, Zenon

\* A line comment begins.
LEMMA LineBegins ==
  Scan(State("code", FALSE, FALSE), "/", "/") = State("//", FALSE, TRUE)
<1>1. Goes("code", FALSE, "/", "/") = "//"
  BY DEF Goes, Enters
<1>2. Escapes("code", FALSE, "/") = FALSE
  BY DEF Escapes, Quote
<1>3. Skips("code", "/", "/") = TRUE
  BY DEF Skips, Enters
<1>4. Scan(State("code", FALSE, FALSE), "/", "/") =
        State(Goes("code", FALSE, "/", "/"), Escapes("code", FALSE, "/"),
              Skips("code", "/", "/"))
  BY ScanGoes, Zenon
<1> QED BY <1>1, <1>2, <1>3, <1>4, Zenon

\* A line comment goes on.
LEMMA LineGoesOn ==
  ASSUME NEW symbol, NEW ahead, symbol # "\n"
  PROVE  Scan(State("//", FALSE, FALSE), symbol, ahead) = State("//", FALSE, FALSE)
<1>1. Goes("//", FALSE, symbol, ahead) = "//"
  BY DEF Goes, Quote
<1>2. Escapes("//", FALSE, symbol) = FALSE
  BY DEF Escapes, Quote
<1>3. Skips("//", symbol, ahead) = FALSE
  BY DEF Skips
<1>4. Scan(State("//", FALSE, FALSE), symbol, ahead) =
        State(Goes("//", FALSE, symbol, ahead), Escapes("//", FALSE, symbol),
              Skips("//", symbol, ahead))
  BY ScanGoes, Zenon
<1> QED BY <1>1, <1>2, <1>3, <1>4, Zenon

\* A block comment begins.
LEMMA BlockBegins ==
  Scan(State("code", FALSE, FALSE), "/", "*") = State("/*", FALSE, TRUE)
<1>1. Goes("code", FALSE, "/", "*") = "/*"
  BY DEF Goes, Enters
<1>2. Escapes("code", FALSE, "/") = FALSE
  BY DEF Escapes, Quote
<1>3. Skips("code", "/", "*") = TRUE
  BY DEF Skips, Enters
<1>4. Scan(State("code", FALSE, FALSE), "/", "*") =
        State(Goes("code", FALSE, "/", "*"), Escapes("code", FALSE, "/"),
              Skips("code", "/", "*"))
  BY ScanGoes, Zenon
<1> QED BY <1>1, <1>2, <1>3, <1>4, Zenon

\* A block comment goes on.
LEMMA BlockGoesOn ==
  ASSUME NEW symbol, NEW ahead, ~(symbol = "*" /\ ahead = "/")
  PROVE  Scan(State("/*", FALSE, FALSE), symbol, ahead) = State("/*", FALSE, FALSE)
<1>1. Goes("/*", FALSE, symbol, ahead) = "/*"
  BY DEF Goes, Quote
<1>2. Escapes("/*", FALSE, symbol) = FALSE
  BY DEF Escapes, Quote
<1>3. Skips("/*", symbol, ahead) = FALSE
  BY DEF Skips
<1>4. Scan(State("/*", FALSE, FALSE), symbol, ahead) =
        State(Goes("/*", FALSE, symbol, ahead), Escapes("/*", FALSE, symbol),
              Skips("/*", symbol, ahead))
  BY ScanGoes, Zenon
<1> QED BY <1>1, <1>2, <1>3, <1>4, Zenon

\* A block comment ends.
LEMMA BlockEnds ==
  Scan(State("/*", FALSE, FALSE), "*", "/") = State("code", FALSE, TRUE)
<1>1. Goes("/*", FALSE, "*", "/") = "code"
  BY DEF Goes, Quote
<1>2. Escapes("/*", FALSE, "*") = FALSE
  BY DEF Escapes, Quote
<1>3. Skips("/*", "*", "/") = TRUE
  BY DEF Skips
<1>4. Scan(State("/*", FALSE, FALSE), "*", "/") =
        State(Goes("/*", FALSE, "*", "/"), Escapes("/*", FALSE, "*"),
              Skips("/*", "*", "/"))
  BY ScanGoes, Zenon
<1> QED BY <1>1, <1>2, <1>3, <1>4, Zenon

\* A literal begins.
LEMMA LiteralBegins ==
  ASSUME NEW q \in Quote, NEW ahead
  PROVE  Scan(State("code", FALSE, FALSE), q, ahead) = State(q, FALSE, FALSE)
<1>1. Goes("code", FALSE, q, ahead) = q
  BY DEF Goes, Enters, Quote
<1>2. Escapes("code", FALSE, q) = FALSE
  BY DEF Escapes, Quote
<1>3. Skips("code", q, ahead) = FALSE
  BY DEF Skips, Enters, Quote
<1>4. Scan(State("code", FALSE, FALSE), q, ahead) =
        State(Goes("code", FALSE, q, ahead), Escapes("code", FALSE, q),
              Skips("code", q, ahead))
  BY ScanGoes, Zenon
<1> QED BY <1>1, <1>2, <1>3, <1>4, Zenon

\* A literal goes on.
LEMMA LiteralGoesOn ==
  ASSUME NEW q \in Quote, NEW symbol, NEW ahead, symbol # "\\" /\ symbol # q
  PROVE  Scan(State(q, FALSE, FALSE), symbol, ahead) = State(q, FALSE, FALSE)
<1>1. Goes(q, FALSE, symbol, ahead) = q
  BY DEF Goes, Quote
<1>2. Escapes(q, FALSE, symbol) = FALSE
  BY DEF Escapes
<1>3. Skips(q, symbol, ahead) = FALSE
  BY DEF Skips, Quote
<1>4. Scan(State(q, FALSE, FALSE), symbol, ahead) =
        State(Goes(q, FALSE, symbol, ahead), Escapes(q, FALSE, symbol),
              Skips(q, symbol, ahead))
  BY ScanGoes, Zenon
<1> QED BY <1>1, <1>2, <1>3, <1>4, Zenon

\* A backslash escapes the ahead symbol of a literal.
LEMMA EscapeBegins ==
  ASSUME NEW q \in Quote, NEW symbol, NEW ahead, symbol = "\\"
  PROVE  Scan(State(q, FALSE, FALSE), symbol, ahead) = State(q, TRUE, FALSE)
<1>1. Goes(q, FALSE, symbol, ahead) = q
  BY DEF Goes, Quote
<1>2. Escapes(q, FALSE, symbol) = TRUE
  BY DEF Escapes
<1>3. Skips(q, symbol, ahead) = FALSE
  BY DEF Skips, Quote
<1>4. Scan(State(q, FALSE, FALSE), symbol, ahead) =
        State(Goes(q, FALSE, symbol, ahead), Escapes(q, FALSE, symbol),
              Skips(q, symbol, ahead))
  BY ScanGoes, Zenon
<1> QED BY <1>1, <1>2, <1>3, <1>4, Zenon

\* An escaped symbol neither escapes nor closes.
LEMMA EscapeEnds ==
  ASSUME NEW q \in Quote, NEW symbol, NEW ahead
  PROVE  Scan(State(q, TRUE, FALSE), symbol, ahead) = State(q, FALSE, FALSE)
<1>1. Goes(q, TRUE, symbol, ahead) = q
  BY DEF Goes, Quote
<1>2. Escapes(q, TRUE, symbol) = FALSE
  BY DEF Escapes
<1>3. Skips(q, symbol, ahead) = FALSE
  BY DEF Skips, Quote
<1>4. Scan(State(q, TRUE, FALSE), symbol, ahead) =
        State(Goes(q, TRUE, symbol, ahead), Escapes(q, TRUE, symbol),
              Skips(q, symbol, ahead))
  BY ScanGoes, Zenon
<1> QED BY <1>1, <1>2, <1>3, <1>4, Zenon

\* A literal ends.
LEMMA LiteralEnds ==
  ASSUME NEW q \in Quote, NEW ahead
  PROVE  Scan(State(q, FALSE, FALSE), q, ahead) = State("code", FALSE, FALSE)
<1>1. Goes(q, FALSE, q, ahead) = "code"
  BY DEF Goes, Quote
<1>2. Escapes(q, FALSE, q) = FALSE
  BY DEF Escapes, Quote
<1>3. Skips(q, q, ahead) = FALSE
  BY DEF Skips, Quote
<1>4. Scan(State(q, FALSE, FALSE), q, ahead) =
        State(Goes(q, FALSE, q, ahead), Escapes(q, FALSE, q),
              Skips(q, q, ahead))
  BY ScanGoes, Zenon
<1> QED BY <1>1, <1>2, <1>3, <1>4, Zenon

\* What a lexeme from a to b is, by its kind.
Shaped(symbols, kind, a, b) ==
  \/ kind = "code" /\ IsCode(symbols, a, b)
  \/ kind = "comment" /\ (IsLineComment(symbols, a, b) \/ IsBlockComment(symbols, a, b))
  \/ kind = "literal" /\ IsLiteral(symbols, a, b)

\* In a comment that starts at a, whose second symbol is skipped.
Inside(in, a, k) == IF k = a + 1 THEN State(in, FALSE, TRUE) ELSE State(in, FALSE, FALSE)

\* In a literal that starts at a.
Behind(symbols, a, k) ==
  IF Escaped(symbols, a, k) THEN State(symbols[a], TRUE, FALSE) ELSE State(symbols[a], FALSE, FALSE)

\* What the scanner is to be in before the place k of that lexeme.
Fits(symbols, kind, a, b, k, s) ==
  \/ k = a /\ s = Start
  \/ kind = "code" /\ s = Start
  \/ kind = "code" /\ k = a /\ symbols[k] = "\n" /\ s = State("//", FALSE, FALSE)
  \/ /\ kind = "comment" /\ IsLineComment(symbols, a, b)
     /\ k > a /\ s = Inside("//", a, k)
  \/ /\ kind = "comment" /\ IsBlockComment(symbols, a, b)
     /\ k > a /\ k < b /\ s = Inside("/*", a, k)
  \/ /\ kind = "comment" /\ IsBlockComment(symbols, a, b)
     /\ k = b /\ s = State("code", FALSE, TRUE)
  \/ /\ kind = "literal" /\ IsLiteral(symbols, a, b)
     /\ k > a /\ s = Behind(symbols, a, k)

\* How the scanner leaves a lexeme, with this symbol to come.
Left(ahead, s) == s = Start \/ (ahead = "\n" /\ s = State("//", FALSE, FALSE))

\* The scanner goes through a lexeme from what it is to be in to what it is to be in.
LEMMA CodeScanned ==
  ASSUME NEW symbols, NEW a \in Int, NEW b \in Int, NEW k \in a..b, IsCode(symbols, a, b),
         NEW s, Fits(symbols, "code", a, b, k, s)
  PROVE  Scan(s, symbols[k], At(symbols, k + 1)) = Start
<1>1. symbols[k] \notin Quote /\ (symbols[k] = "/" => At(symbols, k + 1) \notin {"/", "*"})
  BY DEF IsCode
<1>2. s = Start \/ (symbols[k] = "\n" /\ s = State("//", FALSE, FALSE))
  BY DEF Fits
<1>3. Start = State("code", FALSE, FALSE)
  BY DEF Start, State
<1>4. Scan(State("code", FALSE, FALSE), symbols[k], At(symbols, k + 1)) = State("code", FALSE, FALSE)
  BY <1>1, CodeGoesOn
<1>5. Scan(State("//", FALSE, FALSE), "\n", At(symbols, k + 1)) = State("code", FALSE, FALSE)
  BY LineEnds
<1> QED BY <1>2, <1>3, <1>4, <1>5, Zenon

\* ... of a comment up to the end of its line ...
LEMMA LineCommentScanned ==
  ASSUME NEW symbols, NEW n \in Nat, DOMAIN symbols = 1..n, NEW a \in 1..n, NEW b \in 1..n,
         NEW k \in a..b, IsLineComment(symbols, a, b),
         NEW s, Fits(symbols, "comment", a, b, k, s)
  PROVE  Scan(s, symbols[k], At(symbols, k + 1)) = Inside("//", a, k + 1)
<1>1. a < b /\ symbols[a] = "/" /\ symbols[a + 1] = "/" /\ symbols[k] # "\n"
  BY DEF IsLineComment
<1>2. (k = a /\ s = Start) \/ (k > a /\ s = Inside("//", a, k))
  <2>1. ~IsBlockComment(symbols, a, b)
    BY <1>1 DEF IsBlockComment
  <2> QED BY <2>1 DEF Fits
<1>3. Start = State("code", FALSE, FALSE)
  BY DEF Start, State
<1>4. CASE k = a
  <2>1. k + 1 \in 1..n /\ symbols[k + 1] = "/"
    BY <1>1, <1>4
  <2>2. At(symbols, k + 1) = "/" /\ symbols[k] = "/" /\ ~(k > a)
    BY <1>1, <1>4, <2>1 DEF At
  <2>3. s = State("code", FALSE, FALSE)
    BY <1>2, <1>3, <2>2, Zenon
  <2>4. Inside("//", a, k + 1) = State("//", FALSE, TRUE)
    BY <1>4 DEF Inside
  <2> QED BY <2>2, <2>3, <2>4, LineBegins, Zenon
<1>5. CASE k > a
  <2>1. s = Inside("//", a, k)
    <3>1. k # a
      BY <1>5
    <3> QED BY <1>2, <3>1, Zenon
  <2>2. Inside("//", a, k + 1) = State("//", FALSE, FALSE)
    <3>1. k + 1 # a + 1
      BY <1>5
    <3> QED BY <3>1, Zenon DEF Inside
  <2>3. Scan(State("//", FALSE, TRUE), symbols[k], At(symbols, k + 1)) = State("//", FALSE, FALSE)
    BY ScanSkips
  <2>4. Scan(State("//", FALSE, FALSE), symbols[k], At(symbols, k + 1)) = State("//", FALSE, FALSE)
    BY <1>1, LineGoesOn
  <2> QED BY <2>1, <2>2, <2>3, <2>4, Zenon DEF Inside
<1>6. k = a \/ k > a
  OBVIOUS
<1> QED BY <1>4, <1>5, <1>6, Zenon

\* ... of a comment up to its mark ...
LEMMA BlockCommentScanned ==
  ASSUME NEW T, NEW symbols \in Seq(T), NEW a \in 1..Len(symbols), NEW b \in 1..Len(symbols),
         NEW k \in a..b, IsBlockComment(symbols, a, b),
         NEW s, Fits(symbols, "comment", a, b, k, s)
  PROVE  LET then == Scan(s, symbols[k], At(symbols, k + 1))
         IN  /\ k = b => then = Start
             /\ k = b - 1 => then = State("code", FALSE, TRUE)
             /\ k < b - 1 => then = Inside("/*", a, k + 1)
<1>1. /\ a + 3 <= b /\ symbols[a] = "/" /\ symbols[a + 1] = "*"
      /\ symbols[b - 1] = "*" /\ symbols[b] = "/"
      /\ \A i \in (a + 2)..(b - 2) : symbols[i] = "*" => symbols[i + 1] # "/"
  BY DEF IsBlockComment
<1>2. \/ k = a /\ s = Start
      \/ k > a /\ k < b /\ s = Inside("/*", a, k)
      \/ k = b /\ s = State("code", FALSE, TRUE)
  <2>1. ~IsLineComment(symbols, a, b)
    BY <1>1 DEF IsLineComment
  <2> QED BY <1>1, <2>1 DEF Fits
<1>3. k < b => At(symbols, k + 1) = symbols[k + 1]
  <2>1. k < b => k + 1 \in DOMAIN symbols
    OBVIOUS
  <2> QED BY <2>1 DEF At
<1>4. Start = State("code", FALSE, FALSE)
  BY DEF Start, State
<1> DEFINE symbol == symbols[k]
           ahead == At(symbols, k + 1)
<1>5. CASE k = a
  <2>1. symbol = "/" /\ ahead = "*" /\ k # b /\ k # b - 1 /\ ~(k > a)
    BY <1>1, <1>3, <1>5
  <2>2. s = State("code", FALSE, FALSE)
    BY <1>2, <1>4, <2>1, Zenon
  <2>3. Scan(s, symbol, ahead) = State("/*", FALSE, TRUE)
    BY <2>1, <2>2, BlockBegins, Zenon
  <2>4. Inside("/*", a, k + 1) = State("/*", FALSE, TRUE)
    BY <1>5 DEF Inside
  <2> QED BY <2>1, <2>3, <2>4, Zenon
<1>6. CASE k = a + 1
  <2>1. k # b /\ k # b - 1 /\ k # a /\ k + 1 # a + 1
    BY <1>1, <1>6
  <2>2. s = State("/*", FALSE, TRUE)
    BY <1>2, <1>6, <2>1, Zenon DEF Inside
  <2>3. Scan(s, symbol, ahead) = State("/*", FALSE, FALSE)
    BY <2>2, ScanSkips, Zenon
  <2>4. Inside("/*", a, k + 1) = State("/*", FALSE, FALSE)
    BY <2>1, Zenon DEF Inside
  <2> QED BY <2>1, <2>3, <2>4, Zenon
<1>7. CASE k > a + 1 /\ k < b - 1
  <2>1. k # b /\ k # b - 1 /\ k # a /\ k # a + 1 /\ k + 1 # a + 1
    BY <1>7
  <2>2. s = State("/*", FALSE, FALSE)
    BY <1>2, <2>1, Zenon DEF Inside
  <2>3. ~(symbol = "*" /\ ahead = "/")
    BY <1>1, <1>3, <1>7
  <2>4. Scan(s, symbol, ahead) = State("/*", FALSE, FALSE)
    BY <2>2, <2>3, BlockGoesOn, Zenon
  <2>5. Inside("/*", a, k + 1) = State("/*", FALSE, FALSE)
    BY <2>1, Zenon DEF Inside
  <2> QED BY <2>1, <2>4, <2>5, Zenon
<1>8. CASE k = b - 1
  <2>1. k # a /\ k # a + 1 /\ k # b /\ ~(k < b - 1) /\ symbol = "*" /\ ahead = "/"
    BY <1>1, <1>3, <1>8
  <2>2. s = State("/*", FALSE, FALSE)
    BY <1>2, <2>1, Zenon DEF Inside
  <2>3. Scan(s, symbol, ahead) = State("code", FALSE, TRUE)
    BY <2>1, <2>2, BlockEnds, Zenon
  <2> QED BY <1>8, <2>1, <2>3, Zenon
<1>9. CASE k = b
  <2>1. k # a /\ ~(k < b) /\ ~(k < b - 1) /\ k # b - 1
    BY <1>1, <1>9
  <2>2. s = State("code", FALSE, TRUE)
    BY <1>2, <2>1, Zenon
  <2> QED BY <1>4, <1>9, <2>1, <2>2, ScanSkips, Zenon
<1>10. k = a \/ k = a + 1 \/ (k > a + 1 /\ k < b - 1) \/ k = b - 1 \/ k = b
  OBVIOUS
<1> QED BY <1>5, <1>6, <1>7, <1>8, <1>9, <1>10, Zenon

\* ... and of a literal, up to the quote that no backslash escapes.
LEMMA LiteralScanned ==
  ASSUME NEW T, NEW symbols \in Seq(T), NEW a \in 1..Len(symbols), NEW b \in 1..Len(symbols),
         NEW k \in a..b, IsLiteral(symbols, a, b),
         NEW s, Fits(symbols, "literal", a, b, k, s)
  PROVE  LET then == Scan(s, symbols[k], At(symbols, k + 1))
         IN  /\ k = b => then = Start
             /\ k < b => then = Behind(symbols, a, k + 1)
<1>1. /\ a < b /\ symbols[a] \in Quote /\ symbols[b] = symbols[a]
      /\ \A i \in (a + 1)..b : symbols[i] = symbols[a] => (i = b <=> ~Escaped(symbols, a, i))
  BY DEF IsLiteral
<1>2. (k = a /\ s = Start) \/ (k > a /\ s = Behind(symbols, a, k))
  BY DEF Fits
<1>3. Start = State("code", FALSE, FALSE)
  BY DEF Start, State
<1>4. CASE k = a
  <2>1. ~Escaped(symbols, a, k + 1)
    BY <1>4 DEF Escaped
  <2>2. symbols[k] = symbols[a] /\ k # b /\ ~(k > a)
    BY <1>1, <1>4
  <2>3. s = State("code", FALSE, FALSE)
    BY <1>2, <1>3, <2>2, Zenon
  <2>4. Scan(s, symbols[k], At(symbols, k + 1)) = State(symbols[a], FALSE, FALSE)
    BY <1>1, <2>2, <2>3, LiteralBegins, Zenon
  <2> QED BY <2>1, <2>2, <2>4, Zenon DEF Behind
<1>5. CASE k > a
  <2>1. s = Behind(symbols, a, k)
    <3>1. k # a
      BY <1>5
    <3> QED BY <1>2, <3>1, Zenon
  <2>2. Escaped(symbols, a, k + 1) <=> symbols[k] = "\\" /\ ~Escaped(symbols, a, k)
    <3>1. k \in (a + 1)..Len(symbols)
      BY <1>5
    <3> QED BY <3>1, EscapedSteps
  <2>3. symbols[k] = symbols[a] => (k = b <=> ~Escaped(symbols, a, k))
    BY <1>1, <1>5
  <2>4. k = b => symbols[k] = symbols[a] /\ ~(k < b)
    BY <1>1
  <2>5. k < b => k # b
    OBVIOUS
  <2>6. CASE Escaped(symbols, a, k)
    <3>1. Scan(State(symbols[a], TRUE, FALSE), symbols[k], At(symbols, k + 1)) = State(symbols[a], FALSE, FALSE)
      BY <1>1, EscapeEnds
    <3> QED BY <2>1, <2>2, <2>3, <2>4, <2>6, <3>1, Zenon DEF Behind
  <2>7. CASE ~Escaped(symbols, a, k)
    <3>1. s = State(symbols[a], FALSE, FALSE)
      BY <2>1, <2>7, Zenon DEF Behind
    <3>2. CASE symbols[k] = symbols[a]
      BY <1>1, <1>3, <2>3, <2>5, <2>7, <3>1, <3>2, LiteralEnds, Zenon
    <3>3. CASE symbols[k] = "\\" /\ symbols[k] # symbols[a]
      <4>1. Scan(s, symbols[k], At(symbols, k + 1)) = State(symbols[a], TRUE, FALSE)
        BY <1>1, <3>1, <3>3, EscapeBegins, Zenon
      <4> QED BY <2>2, <2>4, <2>7, <3>3, <4>1, Zenon DEF Behind
    <3>4. CASE symbols[k] # "\\" /\ symbols[k] # symbols[a]
      <4>1. Scan(s, symbols[k], At(symbols, k + 1)) = State(symbols[a], FALSE, FALSE)
        BY <1>1, <3>1, <3>4, LiteralGoesOn, Zenon
      <4> QED BY <2>2, <2>4, <3>4, <4>1, Zenon DEF Behind
    <3> QED BY <3>2, <3>3, <3>4, Zenon
  <2> QED BY <2>6, <2>7, Zenon
<1>6. k = a \/ k > a
  OBVIOUS
<1> QED BY <1>4, <1>5, <1>6, Zenon

\* The same for every kind.
LEMMA FitsOn ==
  ASSUME NEW T, NEW symbols \in Seq(T), NEW a \in 1..Len(symbols), NEW b \in 1..Len(symbols),
         NEW k \in a..b, NEW kind, Shaped(symbols, kind, a, b),
         NEW s, Fits(symbols, kind, a, b, k, s),
         NEW then, then = Scan(s, symbols[k], At(symbols, k + 1))
  PROVE  /\ k < b => Fits(symbols, kind, a, b, k + 1, then)
         /\ k = b /\ b < Len(symbols) => Left(symbols[b + 1], then)
<1>1. /\ Len(symbols) \in Nat /\ DOMAIN symbols = 1..Len(symbols)
      /\ a \in Int /\ b \in Int /\ k \in Int /\ a <= k /\ k <= b
  OBVIOUS
<1>2. CASE kind = "code" /\ IsCode(symbols, a, b)
  <2>1. Fits(symbols, "code", a, b, k, s)
    BY <1>2, Zenon
  <2>2. then = Start
    BY <1>1, <1>2, <2>1, CodeScanned
  <2> QED BY <1>2, <2>2, Zenon DEF Fits, Left
<1>3. CASE kind = "comment" /\ IsLineComment(symbols, a, b)
  <2>1. Fits(symbols, "comment", a, b, k, s)
    BY <1>3, Zenon
  <2>2. Scan(s, symbols[k], At(symbols, k + 1)) = Inside("//", a, k + 1)
    BY <1>1, <1>3, <2>1, LineCommentScanned, Zenon
  <2>3. then = Inside("//", a, k + 1)
    BY <2>2, Zenon
  <2>4. k + 1 > a
    BY <1>1
  <2>5. k < b => Fits(symbols, kind, a, b, k + 1, then)
    BY <1>3, <2>3, <2>4, Zenon DEF Fits
  <2>6. ASSUME k = b, b < Len(symbols) PROVE Left(symbols[b + 1], then)
    <3>1. a < b /\ (b = Len(symbols) \/ symbols[b + 1] = "\n")
      BY <1>3, Zenon DEF IsLineComment
    <3>2. a < b
      BY <3>1
    <3>3. k + 1 # a + 1 /\ b # Len(symbols)
      BY <2>6, <3>2
    <3>4. then = State("//", FALSE, FALSE)
      BY <2>3, <3>3, Zenon DEF Inside
    <3> QED BY <3>1, <3>3, <3>4, Zenon DEF Left
  <2> QED BY <2>5, <2>6
<1>4. CASE kind = "comment" /\ IsBlockComment(symbols, a, b)
  <2>1. Fits(symbols, "comment", a, b, k, s)
    BY <1>4, Zenon
  <2>2. /\ k = b => then = Start
        /\ k = b - 1 => then = State("code", FALSE, TRUE)
        /\ k < b - 1 => then = Inside("/*", a, k + 1)
    BY <1>4, <2>1, BlockCommentScanned, Zenon
  <2>3. k < b => /\ k + 1 > a /\ k # b
                 /\ (k = b - 1 /\ k + 1 = b) \/ (k < b - 1 /\ k + 1 < b)
    BY <1>1
  <2>4. k < b => Fits(symbols, kind, a, b, k + 1, then)
    BY <1>4, <2>2, <2>3, Zenon DEF Fits
  <2>5. k = b => Left(symbols[b + 1], then)
    BY <2>2, Zenon DEF Left
  <2> QED BY <2>4, <2>5
<1>5. CASE kind = "literal" /\ IsLiteral(symbols, a, b)
  <2>1. Fits(symbols, "literal", a, b, k, s)
    BY <1>5, Zenon
  <2>2. /\ k = b => then = Start
        /\ k < b => then = Behind(symbols, a, k + 1)
    BY <1>5, <2>1, LiteralScanned, Zenon
  <2>3. k < b => k + 1 > a /\ k # b
    BY <1>1
  <2>4. k < b => Fits(symbols, kind, a, b, k + 1, then)
    BY <1>5, <2>2, <2>3, Zenon DEF Fits
  <2>5. k = b => Left(symbols[b + 1], then)
    BY <2>2, Zenon DEF Left
  <2> QED BY <2>4, <2>5
<1> QED BY <1>2, <1>3, <1>4, <1>5, Zenon DEF Shaped

\* A lexeme that starts where another ended finds the scanner as it is to be.
LEMMA FitsNext ==
  ASSUME NEW symbols, NEW a, NEW b, NEW kind, Shaped(symbols, kind, a, b),
         NEW s, Left(symbols[a], s)
  PROVE  Fits(symbols, kind, a, b, a, s)
<1>1. symbols[a] = "\n" => kind = "code"
  BY DEF Shaped, IsLineComment, IsBlockComment, IsLiteral, Quote
<1> QED BY <1>1, Zenon DEF Fits, Left

\* A place and its lexeme.
LEMMA LexemeOf ==
  ASSUME NEW source, NEW n \in Nat, LexedTo(source, n), NEW k \in DOMAIN source.text, k <= n,
         NEW T, source.text \in Seq(T), NEW l, l = source.lexeme[k]
  PROVE  /\ k \in 1..Len(source.text) /\ Len(source.text) \in Nat
         /\ l.start \in 1..k /\ l.end \in k..Len(source.text)
         /\ Shaped(source.text, l.kind, l.start, l.end)
         /\ k < l.end => k + 1 \in DOMAIN source.text /\ source.lexeme[k + 1] = l
         /\ k = l.end /\ k < n /\ k < Len(source.text) =>
              k + 1 \in DOMAIN source.text /\ source.lexeme[k + 1].start = k + 1
<1> DEFINE symbols == source.text
<1>1. k \in 1..Len(symbols) /\ Len(symbols) \in Nat /\ DOMAIN symbols = 1..Len(symbols)
  OBVIOUS
<1>2. \A i \in DOMAIN symbols : i <= n => LET m == source.lexeme[i] IN
        /\ m.start \in 1..i /\ m.end \in i..Len(symbols)
        /\ \A j \in m.start..m.end : source.lexeme[j] = m
  BY DEF LexedTo
<1>3. /\ l.start \in 1..k /\ l.end \in k..Len(symbols)
      /\ \A j \in l.start..l.end : source.lexeme[j] = l
  BY <1>2
<1>4. Shaped(symbols, l.kind, l.start, l.end)
  BY DEF LexedTo, Shaped
<1> HIDE DEF symbols
<1>5. ASSUME k < l.end PROVE k + 1 \in DOMAIN symbols /\ source.lexeme[k + 1] = l
  BY <1>1, <1>3, <1>5
<1>6. ASSUME k = l.end, k < n, k < Len(symbols)
      PROVE  k + 1 \in DOMAIN symbols /\ source.lexeme[k + 1].start = k + 1
  <2>1. k + 1 \in DOMAIN symbols /\ k + 1 <= n
    BY <1>1, <1>6
  <2> DEFINE m == source.lexeme[k + 1]
  <2>2. /\ m.start \in 1..(k + 1) /\ m.end \in (k + 1)..Len(symbols)
        /\ \A j \in m.start..m.end : source.lexeme[j] = m
    BY <1>2, <2>1
  <2>3. CASE m.start # k + 1
    <3>1. k \in m.start..m.end
      BY <1>1, <2>2, <2>3
    <3>2. m = l
      BY <2>2, <3>1
    <3> QED BY <1>1, <1>6, <2>2, <3>2
  <2> QED BY <2>1, <2>3
<1> QED BY <1>1, <1>3, <1>4, <1>5, <1>6 DEF symbols


\* The scanner is in each place as it is to be: the least place where it is not would
\* have a place before it where it is.
LEMMA FitsEverywhere ==
  ASSUME NEW T, NEW source, source.text \in Seq(T), NEW n \in Nat, LexedTo(source, n),
         NEW symbols, symbols = source.text, NEW k \in 1..Len(symbols), k <= n,
         NEW l, l = source.lexeme[k]
  PROVE  Fits(symbols, l.kind, l.start, l.end, k, Scanned(symbols)[k - 1])
<1> DEFINE FitsAt(i) ==
             LET m == source.lexeme[i]
             IN  Fits(symbols, m.kind, m.start, m.end, i, Scanned(symbols)[i - 1])
           Bad == {i \in 1..Len(symbols) : i <= n /\ ~FitsAt(i)}
<1>1. /\ Len(symbols) \in Nat /\ DOMAIN symbols = 1..Len(symbols) /\ symbols \in Seq(T)
      /\ Scanned(symbols)[0] = Start
      /\ \A i \in 1..Len(symbols) :
           Scanned(symbols)[i] = Scan(Scanned(symbols)[i - 1], symbols[i], At(symbols, i + 1))
  BY ScannedIs
<1> SUFFICES ASSUME Bad # {} PROVE FALSE
  OBVIOUS
<1>2. PICK b \in Bad : \A c \in Bad : b <= c
  <2>1. Bad \in SUBSET Nat
    OBVIOUS
  <2> QED BY <2>1, LeastNumber
<1>3. b \in 1..Len(symbols) /\ ~FitsAt(b) /\ b <= n
  BY <1>2
<1> DEFINE m == source.lexeme[b]
<1>4. /\ m.start \in 1..b /\ m.end \in b..Len(symbols)
      /\ Shaped(symbols, m.kind, m.start, m.end)
  BY <1>1, <1>3, LexemeOf
<1>5. CASE b = 1
  <2>1. b = m.start /\ b - 1 = 0
    BY <1>4, <1>5
  <2>2. Scanned(symbols)[b - 1] = Start
    BY <1>1, <2>1, Zenon
  <2> QED BY <1>3, <2>1, <2>2, Zenon DEF Fits
<1>6. CASE b # 1
  <2> DEFINE j == b - 1
             o == source.lexeme[j]
             s == Scanned(symbols)[j - 1]
             then == Scanned(symbols)[j]
  <2>1. j \in 1..Len(symbols) /\ j + 1 = b /\ ~(b <= j) /\ j < Len(symbols) /\ j < n /\ j <= n
    BY <1>1, <1>3, <1>6
  <2>2. Fits(symbols, o.kind, o.start, o.end, j, s)
    <3>1. j \notin Bad
      <4> HIDE DEF Bad, j
      <4> QED BY <1>2, <2>1
    <3> QED BY <2>1, <3>1
  <2>3. then = Scan(s, symbols[j], At(symbols, j + 1))
    BY <1>1, <2>1
  <2>4. /\ o.start \in 1..j /\ o.end \in j..Len(symbols)
        /\ Shaped(symbols, o.kind, o.start, o.end)
        /\ j < o.end => m = o
        /\ j = o.end => m.start = b
    <3> HIDE DEF j
    <3>1. j \in DOMAIN source.text /\ Len(source.text) = Len(symbols) /\ source.text \in Seq(T)
      BY <1>1, <2>1
    <3>2. /\ o.start \in 1..j /\ o.end \in j..Len(source.text)
          /\ Shaped(source.text, o.kind, o.start, o.end)
          /\ j < o.end => source.lexeme[j + 1] = o
          /\ j = o.end /\ j < n /\ j < Len(source.text) => source.lexeme[j + 1].start = j + 1
      BY <2>1, <3>1, LexemeOf
    <3> QED BY <2>1, <3>1, <3>2
  <2> DEFINE kind == o.kind
             a == o.start
             e == o.end
  <2>5. /\ a \in 1..Len(symbols) /\ e \in 1..Len(symbols) /\ j \in a..e
    <3> HIDE DEF j
    <3>1. \A x, y : x \in 1..j /\ y \in j..Len(symbols) =>
            x \in 1..Len(symbols) /\ y \in 1..Len(symbols) /\ j \in x..y
      BY <1>1, <2>1
    <3> QED BY <2>4, <3>1, Zenon
  <2> HIDE DEF j, kind, a, e, then, s
  <2>6. /\ j < e => Fits(symbols, kind, a, e, j + 1, then)
        /\ j = e /\ e < Len(symbols) => Left(symbols[e + 1], then)
    BY <1>1, <2>2, <2>3, <2>4, <2>5, FitsOn DEF kind, a, e
  <2>7. FitsAt(b)
    <3>1. CASE j < e
      BY <2>1, <2>4, <2>6, <3>1, Zenon DEF kind, a, e, then, j
    <3>2. CASE j = e
      <4>1. m.start = b /\ Left(symbols[m.start], then)
        BY <2>1, <2>4, <2>6, <3>2 DEF e
      <4>2. Fits(symbols, m.kind, m.start, m.end, m.start, then)
        BY <1>4, <4>1, FitsNext, Zenon
      <4> QED BY <4>1, <4>2, Zenon DEF then, j
    <3> QED BY <2>5, <3>1, <3>2
  <2> QED BY <1>3, <2>7
<1> QED BY <1>5, <1>6

\* The scanner keeps the places of code and no others.
LEMMA KeptIsCode ==
  ASSUME NEW T, NEW symbols \in Seq(T), NEW a \in 1..Len(symbols), NEW b \in 1..Len(symbols),
         NEW k \in a..b, NEW kind, Shaped(symbols, kind, a, b),
         NEW s, Fits(symbols, kind, a, b, k, s)
  PROVE  Kept(s, symbols[k], At(symbols, k + 1)) <=> kind = "code"
<1> DEFINE symbol == symbols[k]
           ahead == At(symbols, k + 1)
<1>1. k < b => ahead = symbols[k + 1]
  <2>1. k < b => k + 1 \in DOMAIN symbols
    OBVIOUS
  <2> QED BY <2>1 DEF At
<1>2. Start = State("code", FALSE, FALSE)
  BY DEF Start, State
<1>3. \A in, e : Kept(State(in, e, FALSE), symbol, ahead) <=>
        \/ in = "code" /\ Enters(symbol, ahead) = "code"
        \/ in = "//" /\ symbol = "\n"
  BY DEF Kept, State
<1>4. \A in, e : ~Kept(State(in, e, TRUE), symbol, ahead)
  BY DEF Kept, State
<1>5. CASE kind = "code" /\ IsCode(symbols, a, b)
  <2>1. symbol \notin Quote /\ (symbol = "/" => ahead \notin {"/", "*"})
    BY <1>5 DEF IsCode
  <2>2. Enters(symbol, ahead) = "code"
    BY <2>1 DEF Enters
  <2>3. s = Start \/ (symbol = "\n" /\ s = State("//", FALSE, FALSE))
    BY <1>5 DEF Fits
  <2> QED BY <1>2, <1>3, <1>5, <2>2, <2>3, Zenon
<1>6. CASE kind = "comment" /\ IsLineComment(symbols, a, b)
  <2>0. kind # "code" /\ "//" # "code" /\ "/*" # "code" /\ "/*" # "//"
    BY <1>6
  <2>1. a < b /\ symbols[a] = "/" /\ symbols[a + 1] = "/" /\ symbol # "\n"
    BY <1>6 DEF IsLineComment
  <2>2. (k = a /\ s = Start) \/ s = Inside("//", a, k)
    <3>1. ~IsBlockComment(symbols, a, b)
      BY <2>1 DEF IsBlockComment
    <3> QED BY <1>6, <3>1 DEF Fits
  <2>3. CASE k = a /\ s = Start
    <3>1. symbol = "/" /\ ahead = "/"
      BY <1>1, <2>1, <2>3
    <3>2. Enters(symbol, ahead) = "//"
      BY <3>1 DEF Enters
    <3> QED BY <1>2, <1>3, <2>0, <2>1, <2>3, <3>2, Zenon
  <2>4. CASE s = Inside("//", a, k)
    BY <1>3, <1>4, <2>0, <2>1, <2>4, Zenon DEF Inside
  <2> QED BY <2>2, <2>3, <2>4, Zenon
<1>7. CASE kind = "comment" /\ IsBlockComment(symbols, a, b)
  <2>0. kind # "code" /\ "//" # "code" /\ "/*" # "code" /\ "/*" # "//"
    BY <1>7
  <2>1. a + 3 <= b /\ symbols[a] = "/" /\ symbols[a + 1] = "*"
    BY <1>7 DEF IsBlockComment
  <2>2. (k = a /\ s = Start) \/ s = Inside("/*", a, k) \/ s = State("code", FALSE, TRUE)
    <3>1. ~IsLineComment(symbols, a, b)
      BY <2>1 DEF IsLineComment
    <3> QED BY <1>7, <3>1, Zenon DEF Fits
  <2>3. CASE k = a /\ s = Start
    <3>1. symbol = "/" /\ ahead = "*"
      BY <1>1, <2>1, <2>3
    <3>2. Enters(symbol, ahead) = "/*"
      BY <3>1 DEF Enters
    <3> QED BY <1>2, <1>3, <2>0, <2>3, <3>2, Zenon
  <2>4. CASE s = Inside("/*", a, k)
    BY <1>3, <1>4, <2>0, <2>4, Zenon DEF Inside
  <2>5. CASE s = State("code", FALSE, TRUE)
    BY <1>4, <2>0, <2>5, Zenon
  <2> QED BY <2>2, <2>3, <2>4, <2>5, Zenon
<1>8. CASE kind = "literal" /\ IsLiteral(symbols, a, b)
  <2>0. kind # "code" /\ "//" # "code" /\ "/*" # "code" /\ "/*" # "//"
    BY <1>8
  <2>1. symbols[a] \in Quote
    BY <1>8 DEF IsLiteral
  <2>2. (k = a /\ s = Start) \/ s = Behind(symbols, a, k)
    BY <1>8, Zenon DEF Fits
  <2>3. CASE k = a /\ s = Start
    <3>1. Enters(symbol, ahead) # "code"
      BY <2>1, <2>3 DEF Enters, Quote
    <3>2. "code" # "//"
      OBVIOUS
    <3> QED BY <1>2, <1>3, <2>0, <2>3, <3>1, <3>2, Zenon
  <2>4. CASE s = Behind(symbols, a, k)
    <3>1. symbols[a] \notin {"code", "//"}
      BY <2>1 DEF Quote
    <3>2. symbols[a] # "code" /\ symbols[a] # "//" /\ "literal" # "code"
      BY <3>1
    <3> QED BY <1>3, <2>0, <2>4, <3>2, Zenon DEF Behind
  <2> QED BY <2>2, <2>3, <2>4, Zenon
<1> QED BY <1>5, <1>6, <1>7, <1>8, Zenon DEF Shaped

\* The mask is exactly the code, up to the first lexeme it is not meant for: of every
\* source, as far as its lexemes are code without quotes, comments and literals in which
\* a backslash escapes (code_mask).
THEOREM MaskIsExact ==
  ASSUME NEW T, NEW source, source.text \in Seq(T), NEW n \in Nat, LexedTo(source, n)
  PROVE  \A k \in DOMAIN source.text :
           k <= n => (k \in CodeMask(source.text) <=> k \in CodeOf(source))
<1> DEFINE symbols == source.text
<1>1. ASSUME NEW k \in DOMAIN symbols, k <= n
      PROVE  Kept(Scanned(symbols)[k - 1], symbols[k], At(symbols, k + 1)) <=> source.lexeme[k].kind = "code"
  <2> DEFINE l == source.lexeme[k]
             kind == l.kind
             a == l.start
             b == l.end
             s == Scanned(symbols)[k - 1]
  <2>1. /\ k \in 1..Len(symbols) /\ Len(symbols) \in Nat
        /\ a \in 1..k /\ b \in k..Len(symbols) /\ Shaped(symbols, kind, a, b)
    BY <1>1, LexemeOf
  <2>2. Fits(symbols, kind, a, b, k, s)
    BY <1>1, <2>1, FitsEverywhere
  <2>3. a \in 1..Len(symbols) /\ b \in 1..Len(symbols) /\ k \in a..b /\ symbols \in Seq(T)
    BY <2>1
  <2> HIDE DEF symbols, kind, a, b, s
  <2>4. Kept(s, symbols[k], At(symbols, k + 1)) <=> kind = "code"
    BY <2>1, <2>2, <2>3, KeptIsCode
  <2> QED BY <2>4 DEF s, kind
<1> QED BY <1>1, Zenon DEF CodeMask, CodeOf
-----------------------------------------------------------------------------
(* The edits: what each operator proposes. *)

\* The first place that is no white space, and what lies before it.
LEMMA SolidIs ==
  ASSUME NEW T, NEW symbols \in Seq(T), NEW k \in 1..(Len(symbols) + 1)
  PROVE  /\ Solid(symbols, k) \in k..(Len(symbols) + 1)
         /\ At(symbols, Solid(symbols, k)) \notin Space
         /\ \A i \in k..(Solid(symbols, k) - 1) : At(symbols, i) \in Space
<1> DEFINE S == {j \in k..(Len(symbols) + 1) : At(symbols, j) \notin Space}
<1>1. Len(symbols) \in Nat /\ DOMAIN symbols = 1..Len(symbols)
  OBVIOUS
<1>2. S \in SUBSET Nat /\ Len(symbols) + 1 \in S
  <2>1. At(symbols, Len(symbols) + 1) = Nothing
    <3>1. Len(symbols) + 1 \notin DOMAIN symbols
      BY <1>1
    <3> QED BY <3>1 DEF At
  <2>2. Len(symbols) + 1 \in k..(Len(symbols) + 1)
    BY <1>1
  <2>3. S \in SUBSET Nat
    BY <1>1
  <2>4. Nothing \notin Space
    BY Zenon DEF Nothing, Space
  <2> QED BY <2>1, <2>2, <2>3, <2>4
<1>3. PICK j \in S : \A i \in S : j <= i
  BY <1>2, LeastNumber
<1>4. \A i \in k..(j - 1) : At(symbols, i) \in Space
  <2> SUFFICES ASSUME NEW i \in k..(j - 1), At(symbols, i) \notin Space PROVE FALSE
    OBVIOUS
  <2>1. i \in S /\ ~(j <= i)
    BY <1>1
  <2> QED BY <1>3, <2>1
<1>5. j \in k..(Len(symbols) + 1) /\ At(symbols, j) \notin Space
  BY <1>3
<1> QED BY <1>4, <1>5, Zenon DEF Solid

\* What follows code is code, unless a literal or a comment starts there.
LEMMA AfterCode ==
  ASSUME NEW T, NEW source, source.text \in Seq(T), NEW n \in Nat, LexedTo(source, n),
         NEW k \in CodeOf(source), k < n, k < Len(source.text),
         source.text[k + 1] \notin Quote \cup {"/"}
  PROVE  k + 1 \in CodeOf(source)
<1> DEFINE symbols == source.text
           l == source.lexeme[k]
           m == source.lexeme[k + 1]
<1>1. /\ k \in DOMAIN symbols /\ l.kind = "code" /\ k \in 1..Len(symbols) /\ Len(symbols) \in Nat
      /\ k <= n /\ k + 1 <= n
  BY DEF CodeOf
<1>2. /\ l.start \in 1..k /\ l.end \in k..Len(symbols)
      /\ k < l.end => k + 1 \in DOMAIN symbols /\ m = l
      /\ k = l.end /\ k < Len(symbols) => k + 1 \in DOMAIN symbols /\ m.start = k + 1
  BY <1>1, LexemeOf
<1>3. CASE k < l.end
  BY <1>1, <1>2, <1>3 DEF CodeOf
<1>4. CASE k = l.end
  <2>1. k + 1 \in DOMAIN symbols /\ m.start = k + 1
    BY <1>2, <1>4
  <2>2. Shaped(symbols, m.kind, m.start, m.end)
    BY <1>1, <2>1, LexemeOf
  <2>3. m.kind = "code"
    BY <2>1, <2>2 DEF Shaped, IsLineComment, IsBlockComment, IsLiteral
  <2> QED BY <2>1, <2>3 DEF CodeOf
<1> QED BY <1>1, <1>2, <1>3, <1>4

\* The white space after code is code, and so is what ends it, unless a literal or a
\* comment starts there.
LEMMA SolidAfterCode ==
  ASSUME NEW T, NEW source, source.text \in Seq(T), NEW n \in Nat, LexedTo(source, n),
         NEW k \in CodeOf(source), NEW s, s = Solid(source.text, k + 1), s - 1 <= n
  PROVE  /\ s \in (k + 1)..(Len(source.text) + 1) /\ s - 1 \in CodeOf(source)
         /\ s <= n /\ At(source.text, s) \notin Quote \cup {"/", Nothing} => s \in CodeOf(source)
<1> DEFINE symbols == source.text
<1>1. k \in 1..Len(symbols) /\ Len(symbols) \in Nat /\ DOMAIN symbols = 1..Len(symbols)
  BY DEF CodeOf
<1>2. s \in (k + 1)..(Len(symbols) + 1) /\ \A i \in (k + 1)..(s - 1) : At(symbols, i) \in Space
  BY <1>1, SolidIs
<1> DEFINE Bad == {i \in k..(s - 1) : i \notin CodeOf(source)}
<1>3. s - 1 \in CodeOf(source)
  <2> SUFFICES ASSUME Bad # {} PROVE FALSE
    BY <1>1, <1>2
  <2>1. PICK b \in Bad : \A i \in Bad : b <= i
    <3>1. Bad \in SUBSET Nat
      BY <1>1, <1>2
    <3> QED BY <3>1, LeastNumber
  <2>2. b \in (k + 1)..(s - 1) /\ b \notin CodeOf(source)
    BY <1>1, <1>2, <2>1
  <2>3. b - 1 \in CodeOf(source)
    <3>1. b - 1 \in k..(s - 1) /\ ~(b <= b - 1)
      BY <1>1, <1>2, <2>2
    <3>2. b - 1 \notin Bad
      <4> HIDE DEF Bad
      <4> QED BY <2>1, <3>1
    <3> QED BY <3>1, <3>2
  <2>4. b \in DOMAIN symbols /\ symbols[b] \in Space
    <3>1. b \in DOMAIN symbols
      BY <1>1, <1>2, <2>2
    <3> QED BY <1>2, <2>2, <3>1 DEF At
  <2>5. symbols[b] \notin Quote \cup {"/"}
    BY <2>4 DEF Space, Quote
  <2>6. (b - 1) + 1 = b /\ b - 1 < Len(symbols) /\ b - 1 < n
    BY <1>1, <1>2, <2>2, <2>4
  <2> HIDE DEF Bad
  <2> QED BY <2>2, <2>3, <2>5, <2>6, AfterCode
<1>4. ASSUME s <= n, At(symbols, s) \notin Quote \cup {"/", Nothing} PROVE s \in CodeOf(source)
  <2>1. s \in DOMAIN symbols /\ symbols[s] \notin Quote \cup {"/"}
    BY <1>4 DEF At
  <2>2. (s - 1) + 1 = s /\ s - 1 < Len(symbols) /\ s - 1 < n
    BY <1>1, <1>2, <1>4, <2>1
  <2> QED BY <1>3, <2>1, <2>2, AfterCode
<1> QED BY <1>2, <1>3, <1>4

\* What every edit is: it replaces symbols by others, or inserts some.
Proper(T, symbols, e) ==
  /\ e.start \in 1..(Len(symbols) + 1) /\ e.end \in e.start..(Len(symbols) + 1)
  /\ e.to \in Seq(T)
  /\ Len(e.to) = e.end - e.start =>
       \E i \in 1..Len(e.to) : e.to[i] # symbols[e.start + i - 1]

\* Such an edit changes the text.
LEMMA ProperChanges ==
  ASSUME NEW T, NEW symbols \in Seq(T), NEW e, Proper(T, symbols, e)
  PROVE  Mutated(symbols, e) # symbols
<1> DEFINE n == Len(symbols)
           a == e.start
           b == e.end
           to == e.to
           before == SubSeq(symbols, 1, a - 1)
           after == SubSeq(symbols, b, n)
<1>1. n \in Nat /\ a \in 1..(n + 1) /\ b \in a..(n + 1) /\ to \in Seq(T) /\ Len(to) \in Nat
  BY DEF Proper
<1>2. Len(to) = b - a => \E i \in 1..Len(to) : to[i] # symbols[a + i - 1]
  BY DEF Proper
<1>3. Mutated(symbols, e) = before \o to \o after
  BY DEF Mutated
<1> HIDE DEF n, a, b, to
<1>4. before \in Seq(T) /\ Len(before) = a - 1
  BY <1>1 DEF n
<1>5. after \in Seq(T) /\ Len(after) = n - b + 1
  BY <1>1 DEF n
<1> HIDE DEF before, after
<1>6. /\ before \o to \in Seq(T) /\ Len(before \o to) = Len(before) + Len(to)
      /\ \A i \in 1..Len(to) : (before \o to)[Len(before) + i] = to[i]
  BY <1>1, <1>4
<1>7. /\ Len((before \o to) \o after) = Len(before \o to) + Len(after)
      /\ \A i \in 1..Len(before \o to) : ((before \o to) \o after)[i] = (before \o to)[i]
  <2> DEFINE left == before \o to
  <2>1. left \in Seq(T)
    BY <1>6
  <2> HIDE DEF left
  <2>2. /\ Len(left \o after) = Len(left) + Len(after)
        /\ \A i \in 1..Len(left) : (left \o after)[i] = left[i]
    BY <1>5, <2>1
  <2> QED BY <2>2 DEF left
<1>8. CASE Len(to) # b - a
  <2>1. Len((before \o to) \o after) = ((a - 1) + Len(to)) + ((n - b) + 1)
    BY <1>4, <1>5, <1>6, <1>7
  <2>2. ((a - 1) + Len(to)) + ((n - b) + 1) # n
    BY <1>1, <1>8
  <2> QED BY <1>3, <2>1, <2>2 DEF n
<1>9. CASE Len(to) = b - a
  <2>1. PICK i \in 1..Len(to) : to[i] # symbols[a + i - 1]
    BY <1>2, <1>9
  <2>2. Len(before) + i = a + i - 1 /\ Len(before) + i \in 1..Len(before \o to)
    BY <1>1, <1>4, <1>6
  <2>3. ((before \o to) \o after)[a + i - 1] = to[i]
    BY <1>6, <1>7, <2>2
  <2> QED BY <1>3, <2>1, <2>3
<1> QED BY <1>8, <1>9

\* Where an edit is when it touches code only: what it replaces is code, and what it
\* inserts stands before or after code.
Among(places, e) ==
  IF e.start < e.end THEN e.start..(e.end - 1) \subseteq places
  ELSE e.start \in places \/ e.start - 1 \in places

\* An edit among the places of the code reaches into nothing else.
LEMMA AmongCode ==
  ASSUME NEW source, NEW e, Among(CodeOf(source), e), e.start \in Nat
  PROVE  ~Quoted(source, e)
<1>1. CASE e.start < e.end
  BY <1>1 DEF Among, Quoted
<1>2. CASE ~(e.start < e.end) /\ e.start \in CodeOf(source)
  BY <1>2 DEF Quoted
<1>3. CASE ~(e.start < e.end) /\ e.start - 1 \in CodeOf(source)
  <2>1. source.lexeme[e.start - 1].kind = "code"
    BY <1>3 DEF CodeOf
  <2>2. e.start \in DOMAIN source.text /\ source.lexeme[e.start] = source.lexeme[e.start - 1]
          => e.start \in CodeOf(source)
    BY <2>1 DEF CodeOf
  <2>3. Quoted(source, e) => /\ e.start \in 2..Len(source.text) /\ e.start \notin CodeOf(source)
                             /\ source.lexeme[e.start] = source.lexeme[e.start - 1]
    BY <1>3 DEF Quoted
  <2> QED BY <2>2, <2>3
<1> QED BY <1>1, <1>2, <1>3 DEF Among

\* A pattern and what is put for it.
IsPattern(T, p) ==
  /\ p[1] \in Seq(T) /\ p[2] \in Seq(T) /\ Len(p[1]) > 0
  /\ \A i \in 1..Len(p[1]) : p[1][i] # Nothing
  /\ Len(p[1]) = Len(p[2]) => \E i \in 1..Len(p[2]) : p[2][i] # p[1][i]

\* Patterns are put for what is there, among the places of the mask.
LEMMA ReplacedIs ==
  ASSUME NEW T, NEW symbols \in Seq(T), NEW mask, NEW operator, NEW patterns,
         \A p \in patterns : IsPattern(T, p), NEW e \in Replaced(operator, symbols, mask, patterns)
  PROVE  /\ Proper(T, symbols, e) /\ e.start < e.end /\ e.operator = operator
         /\ Among(mask, e)
         /\ \E p \in patterns : \A j \in 1..Len(p[1]) : At(symbols, e.start + j - 1) = p[1][j]
<1>1. PICK p \in patterns : \E k \in {j \in Found(symbols, p[1]) : InCode(mask, j, j + Len(p[1]))} :
        e = Replace(operator, k, k + Len(p[1]), p[2])
  BY DEF Replaced
<1>2. PICK k \in Found(symbols, p[1]) :
        InCode(mask, k, k + Len(p[1])) /\ e = Replace(operator, k, k + Len(p[1]), p[2])
  BY <1>1
<1>3. /\ p[1] \in Seq(T) /\ p[2] \in Seq(T) /\ Len(p[1]) > 0
      /\ \A i \in 1..Len(p[1]) : p[1][i] # Nothing
      /\ Len(p[1]) = Len(p[2]) => \E i \in 1..Len(p[2]) : p[2][i] # p[1][i]
  BY Zenon DEF IsPattern
<1> DEFINE w == p[1]
           to == p[2]
<1> HIDE DEF w, to
<1>4. /\ w \in Seq(T) /\ to \in Seq(T) /\ Len(w) > 0 /\ \A i \in 1..Len(w) : w[i] # Nothing
      /\ Len(w) = Len(to) => \E i \in 1..Len(to) : to[i] # w[i]
  BY <1>3, Zenon DEF w, to
<1>5. /\ k \in Found(symbols, w) /\ InCode(mask, k, k + Len(w))
      /\ e = Replace(operator, k, k + Len(w), to)
  BY <1>2 DEF w, to
<1> DEFINE m == Len(w)
<1>6. m \in Nat /\ m > 0 /\ Len(to) \in Nat /\ \A j \in 1..m : w[j] # Nothing
  BY <1>4
<1>7. m = Len(to) => \E i \in 1..Len(to) : to[i] # w[i]
  BY <1>4
<1> HIDE DEF m
<1>8. k \in DOMAIN symbols /\ \A j \in 1..m : At(symbols, k + j - 1) = w[j]
  BY <1>5 DEF Found, m
<1>9. e.start = k /\ e.end = k + m /\ e.to = to /\ e.operator = operator
  BY <1>5 DEF Replace, m
<1>10. DOMAIN symbols = 1..Len(symbols) /\ Len(symbols) \in Nat /\ k \in 1..Len(symbols)
  BY <1>8
<1>11. \A j \in 1..m : k + j - 1 \in DOMAIN symbols /\ symbols[k + j - 1] = w[j]
  BY <1>6, <1>8 DEF At
<1>12. k + m \in k..(Len(symbols) + 1)
  <2>1. m \in 1..m
    BY <1>6
  <2>2. k + m - 1 \in DOMAIN symbols
    BY <1>11, <2>1
  <2> QED BY <1>6, <1>10, <2>2
<1>13. Len(to) = (k + m) - k => \E i \in 1..Len(to) : to[i] # symbols[k + i - 1]
  <2> SUFFICES ASSUME Len(to) = (k + m) - k PROVE \E i \in 1..Len(to) : to[i] # symbols[k + i - 1]
    OBVIOUS
  <2>1. Len(to) = m
    BY <1>6, <1>10
  <2>2. PICK i \in 1..Len(to) : to[i] # w[i]
    BY <1>7, <2>1
  <2> QED BY <1>11, <2>1, <2>2
<1>14. Proper(T, symbols, e)
  <2>1. k \in 1..(Len(symbols) + 1)
    BY <1>10
  <2> QED BY <1>9, <1>12, <1>13, <1>4, <2>1 DEF Proper
<1>15. k < k + m /\ k..((k + m) - 1) \subseteq mask
  <2>1. k < k + m
    BY <1>6, <1>10
  <2>2. \A j \in k..((k + m) - 1) : j \in mask
    BY <1>5, Zenon DEF InCode, m
  <2> QED BY <2>1, <2>2
<1>16. \A j \in 1..m : At(symbols, e.start + j - 1) = w[j]
  BY <1>8, <1>9
<1> QED BY <1>9, <1>14, <1>15, <1>16, Zenon DEF Among, m, w

\* The symbols the operators look for or write.
Vocabulary ==
  {"=", "!", "&", "|", "+", "-", "1", ".", "sort", "slice", "is_ok", "is_err", "is_some",
   "is_none", "(", ")", "ctx", "context", "Err", "nil", "err", " ", "true", "false", "throw",
   "void", "0", "2", "3", "callback", "onComplete", "onSuccess", "onDone"}

\* What lies outside a text is no symbol of an operator.
LEMMA VocabularyIs == Nothing \notin Vocabulary
BY Zenon DEF Vocabulary, Nothing

\* Patterns of so many symbols.
LEMMA OneWord ==
  ASSUME NEW V, NEW x \in V
  PROVE  <<x>> \in Seq(V) /\ Len(<<x>>) = 1 /\ <<x>>[1] = x
OBVIOUS

LEMMA TwoWords ==
  ASSUME NEW V, NEW x \in V, NEW y \in V
  PROVE  <<x, y>> \in Seq(V) /\ Len(<<x, y>>) = 2 /\ <<x, y>>[1] = x
OBVIOUS

LEMMA ThreeWords ==
  ASSUME NEW V, NEW x \in V, NEW y \in V, NEW z \in V
  PROVE  <<x, y, z>> \in Seq(V) /\ Len(<<x, y, z>>) = 3 /\ <<x, y, z>>[1] = x
OBVIOUS

LEMMA SixWords ==
  ASSUME NEW V, NEW x \in V, NEW y \in V, NEW z \in V, NEW u \in V, NEW v \in V, NEW w \in V
  PROVE  /\ <<x, y, z, u, v, w>> \in Seq(V) /\ Len(<<x, y, z, u, v, w>>) = 6
         /\ <<x, y, z, u, v, w>>[3] = z
OBVIOUS

\* A pattern made of two.
LEMMA Joined ==
  ASSUME NEW V, NEW a \in Seq(V), NEW b \in Seq(V)
  PROVE  a \o b \in Seq(V) /\ Len(a \o b) = Len(a) + Len(b)
OBVIOUS

\* Patterns that differ, in length or in a symbol.
Differ(a, b) == Len(a) = Len(b) => \E i \in 1..Len(b) : b[i] # a[i]

\* Two different patterns of the vocabulary make a pair to replace ...
LEMMA PairIsPattern ==
  ASSUME NEW T, Vocabulary \subseteq T, NEW a \in Seq(Vocabulary), NEW b \in Seq(Vocabulary),
         Len(a) > 0, Differ(a, b)
  PROVE  IsPattern(T, <<a, b>>)
<1>1. a \in Seq(T) /\ b \in Seq(T) /\ \A i \in 1..Len(a) : a[i] # Nothing
  BY VocabularyIs
<1>2. <<a, b>>[1] = a /\ <<a, b>>[2] = b
  OBVIOUS
<1> QED BY <1>1, <1>2, Zenon DEF IsPattern, Differ

\* ... and two of the same length a pair to flip.
LEMMA FlipsArePatterns ==
  ASSUME NEW T, Vocabulary \subseteq T, NEW a \in Seq(Vocabulary), NEW b \in Seq(Vocabulary),
         Len(a) = Len(b), NEW i \in 1..Len(b), b[i] # a[i]
  PROVE  \A p \in Flip(a, b) : IsPattern(T, p)
<1>1. Len(a) \in Nat /\ Len(b) \in Nat /\ Len(a) > 0
  OBVIOUS
<1>2. Differ(a, b) /\ Differ(b, a)
  BY <1>1 DEF Differ
<1>3. IsPattern(T, <<a, b>>) /\ IsPattern(T, <<b, a>>)
  BY <1>1, <1>2, PairIsPattern
<1> QED BY <1>3, Zenon DEF Flip

\* A call is a pattern.
LEMMA CallIs ==
  ASSUME NEW name \in Vocabulary
  PROVE  Call(name) \in Seq(Vocabulary) /\ Len(Call(name)) = 4 /\ Call(name)[2] = name
<1>1. "." \in Vocabulary /\ "(" \in Vocabulary /\ ")" \in Vocabulary
  BY DEF Vocabulary
<1> QED BY <1>1 DEF Call

\* Every pair of the operators that only replace ...
LEMMA PatternsArePatterns ==
  ASSUME NEW T, Vocabulary \subseteq T, NEW operator \in DOMAIN Patterns
  PROVE  \A p \in Patterns[operator] : IsPattern(T, p)
<1>1. \A p \in Flip(<<"=", "=", "=">>, <<"!", "=", "=">>) : IsPattern(T, p)
  <2>1. "=" \in Vocabulary /\ "!" \in Vocabulary
    BY DEF Vocabulary
  <2>7. /\ <<"=", "=", "=">> \in Seq(Vocabulary) /\ <<"!", "=", "=">> \in Seq(Vocabulary)
        /\ Len(<<"=", "=", "=">>) = Len(<<"!", "=", "=">>)
    BY <2>1, OneWord, TwoWords, ThreeWords, SixWords
  <2>8. <<"=", "=", "=">>[1] # <<"!", "=", "=">>[1]
    OBVIOUS
  <2>9. 1 \in 1..Len(<<"!", "=", "=">>)
    OBVIOUS
  <2> QED BY <2>7, <2>8, <2>9, FlipsArePatterns
<1>2. \A p \in Flip(<<"&", "&">>, <<"|", "|">>) : IsPattern(T, p)
  <2>1. "&" \in Vocabulary /\ "|" \in Vocabulary
    BY DEF Vocabulary
  <2>7. /\ <<"&", "&">> \in Seq(Vocabulary) /\ <<"|", "|">> \in Seq(Vocabulary)
        /\ Len(<<"&", "&">>) = Len(<<"|", "|">>)
    BY <2>1, OneWord, TwoWords, ThreeWords, SixWords
  <2>8. <<"&", "&">>[1] # <<"|", "|">>[1]
    OBVIOUS
  <2>9. 1 \in 1..Len(<<"|", "|">>)
    OBVIOUS
  <2> QED BY <2>7, <2>8, <2>9, FlipsArePatterns
<1>3. \A p \in Flip(<<"+", "1">>, <<"-", "1">>) : IsPattern(T, p)
  <2>1. "+" \in Vocabulary /\ "-" \in Vocabulary /\ "1" \in Vocabulary
    BY DEF Vocabulary
  <2>7. /\ <<"+", "1">> \in Seq(Vocabulary) /\ <<"-", "1">> \in Seq(Vocabulary)
        /\ Len(<<"+", "1">>) = Len(<<"-", "1">>)
    BY <2>1, OneWord, TwoWords, ThreeWords, SixWords
  <2>8. <<"+", "1">>[1] # <<"-", "1">>[1]
    OBVIOUS
  <2>9. 1 \in 1..Len(<<"-", "1">>)
    OBVIOUS
  <2> QED BY <2>7, <2>8, <2>9, FlipsArePatterns
<1>4. \A p \in {<<Call("sort"), Call("slice")>>} : IsPattern(T, p)
  <2>1. "sort" \in Vocabulary /\ "slice" \in Vocabulary
    BY DEF Vocabulary
  <2>2. Differ(Call("sort"), Call("slice"))
    BY <2>1, CallIs DEF Differ
  <2>3. IsPattern(T, <<Call("sort"), Call("slice")>>)
    BY <2>1, <2>2, CallIs, PairIsPattern
  <2> QED BY <2>3
<1>5. \A p \in Flip(Call("is_ok"), Call("is_err")) : IsPattern(T, p)
  <2>1. "is_ok" \in Vocabulary /\ "is_err" \in Vocabulary
    BY DEF Vocabulary
  <2>2. Call("is_ok")[2] # Call("is_err")[2]
    BY <2>1, CallIs
  <2>3. /\ Call("is_ok") \in Seq(Vocabulary) /\ Call("is_err") \in Seq(Vocabulary)
        /\ Len(Call("is_ok")) = Len(Call("is_err")) /\ 2 \in 1..Len(Call("is_err"))
    BY <2>1, CallIs
  <2> QED BY <2>2, <2>3, FlipsArePatterns
<1>6. \A p \in Flip(Call("is_some"), Call("is_none")) : IsPattern(T, p)
  <2>1. "is_some" \in Vocabulary /\ "is_none" \in Vocabulary
    BY DEF Vocabulary
  <2>2. Call("is_some")[2] # Call("is_none")[2]
    BY <2>1, CallIs
  <2>3. /\ Call("is_some") \in Seq(Vocabulary) /\ Call("is_none") \in Seq(Vocabulary)
        /\ Len(Call("is_some")) = Len(Call("is_none")) /\ 2 \in 1..Len(Call("is_none"))
    BY <2>1, CallIs
  <2> QED BY <2>2, <2>3, FlipsArePatterns
<1>7. \A p \in {<<<<name>> \o Call("Err"), <<"nil">>>> : name \in {"ctx", "context"}} :
        IsPattern(T, p)
  <2> SUFFICES ASSUME NEW name \in {"ctx", "context"}
               PROVE  IsPattern(T, <<<<name>> \o Call("Err"), <<"nil">>>>)
    OBVIOUS
  <2>1. "Err" \in Vocabulary /\ "nil" \in Vocabulary /\ name \in Vocabulary
    BY DEF Vocabulary
  <2>2. Call("Err") \in Seq(Vocabulary) /\ Len(Call("Err")) = 4
    BY <2>1, CallIs
  <2>3. <<name>> \in Seq(Vocabulary) /\ Len(<<name>>) = 1
    BY <2>1
  <2>4. <<"nil">> \in Seq(Vocabulary) /\ Len(<<"nil">>) = 1
    BY <2>1
  <2> DEFINE w == <<name>> \o Call("Err")
  <2>5. w \in Seq(Vocabulary) /\ Len(w) = 5
    <3>1. w \in Seq(Vocabulary) /\ Len(w) = Len(<<name>>) + Len(Call("Err"))
      BY <2>2, <2>3, Joined, Zenon
    <3>2. \A i, j, l : i = j + l /\ j = 1 /\ l = 4 => i = 5
      OBVIOUS
    <3> QED BY <2>2, <2>3, <3>1, <3>2, Zenon
  <2> HIDE DEF w
  <2>6. Differ(w, <<"nil">>)
    BY <2>4, <2>5 DEF Differ
  <2>7. IsPattern(T, <<w, <<"nil">>>>)
    <3>1. Len(w) > 0
      BY <2>5
    <3> QED BY <2>4, <2>5, <2>6, <3>1, PairIsPattern, Zenon
  <2> QED BY <2>7 DEF w
<1>8. \A p \in Flip(<<"err", " ", "!", "=", " ", "nil">>, <<"err", " ", "=", "=", " ", "nil">>)
               \cup Flip(<<"nil", " ", "!", "=", " ", "err">>, <<"nil", " ", "=", "=", " ", "err">>) :
        IsPattern(T, p)
  <2>1. /\ "err" \in Vocabulary /\ "nil" \in Vocabulary /\ "!" \in Vocabulary
        /\ "=" \in Vocabulary /\ " " \in Vocabulary
    BY DEF Vocabulary
  <2>2. \A p \in Flip(<<"err", " ", "!", "=", " ", "nil">>, <<"err", " ", "=", "=", " ", "nil">>) :
          IsPattern(T, p)
    <3>7. /\ <<"err", " ", "!", "=", " ", "nil">> \in Seq(Vocabulary) /\ <<"err", " ", "=", "=", " ", "nil">> \in Seq(Vocabulary)
          /\ Len(<<"err", " ", "!", "=", " ", "nil">>) = Len(<<"err", " ", "=", "=", " ", "nil">>)
      BY <2>1, OneWord, TwoWords, ThreeWords, SixWords
    <3>8. <<"err", " ", "!", "=", " ", "nil">>[3] # <<"err", " ", "=", "=", " ", "nil">>[3]
      OBVIOUS
    <3>9. 3 \in 1..Len(<<"err", " ", "=", "=", " ", "nil">>)
      OBVIOUS
    <3> QED BY <3>7, <3>8, <3>9, FlipsArePatterns
  <2>3. \A p \in Flip(<<"nil", " ", "!", "=", " ", "err">>, <<"nil", " ", "=", "=", " ", "err">>) :
          IsPattern(T, p)
    <3>7. /\ <<"nil", " ", "!", "=", " ", "err">> \in Seq(Vocabulary) /\ <<"nil", " ", "=", "=", " ", "err">> \in Seq(Vocabulary)
          /\ Len(<<"nil", " ", "!", "=", " ", "err">>) = Len(<<"nil", " ", "=", "=", " ", "err">>)
      BY <2>1, OneWord, TwoWords, ThreeWords, SixWords
    <3>8. <<"nil", " ", "!", "=", " ", "err">>[3] # <<"nil", " ", "=", "=", " ", "err">>[3]
      OBVIOUS
    <3>9. 3 \in 1..Len(<<"nil", " ", "=", "=", " ", "err">>)
      OBVIOUS
    <3> QED BY <3>7, <3>8, <3>9, FlipsArePatterns
  <2> QED BY <2>2, <2>3
<1>9. operator \in {"equality_flip", "logical_flip", "off_by_one", "remove_sort", "is_ok_err_flip",
                    "is_some_none_flip", "ignore_context", "err_nil_flip"}
  BY DEF Patterns
<1>10. CASE operator = "equality_flip"
  BY <1>1, <1>10 DEF Patterns
<1>11. CASE operator = "logical_flip"
  BY <1>2, <1>11 DEF Patterns
<1>12. CASE operator = "off_by_one"
  BY <1>3, <1>12 DEF Patterns
<1>13. CASE operator = "remove_sort"
  BY <1>4, <1>13 DEF Patterns
<1>14. CASE operator = "is_ok_err_flip"
  BY <1>5, <1>14 DEF Patterns
<1>15. CASE operator = "is_some_none_flip"
  BY <1>6, <1>15 DEF Patterns
<1>16. CASE operator = "ignore_context"
  BY <1>7, <1>16 DEF Patterns
<1>17. CASE operator = "err_nil_flip"
  BY <1>8, <1>17 DEF Patterns
<1> QED BY <1>9, <1>10, <1>11, <1>12, <1>13, <1>14, <1>15, <1>16, <1>17

\* The other pairs.
LEMMA OtherPatterns ==
  ASSUME NEW T, Vocabulary \subseteq T
  PROVE  /\ \A p \in Flip(<<"true">>, <<"false">>) : IsPattern(T, p)
         /\ \A p \in {<<<<"throw">>, <<"void">>>>} : IsPattern(T, p)
         /\ \A p \in Flip(<<"=", "=">>, <<"!", "=">>) : IsPattern(T, p)
         /\ \A p \in {<<<<name, "(", ")">>, <<"void", " ", "0">>>> :
                        name \in {"callback", "onComplete", "onSuccess", "onDone"}} :
              IsPattern(T, p)
<1>1. /\ "true" \in Vocabulary /\ "false" \in Vocabulary /\ "throw" \in Vocabulary
      /\ "void" \in Vocabulary /\ "=" \in Vocabulary /\ "!" \in Vocabulary
      /\ "(" \in Vocabulary /\ ")" \in Vocabulary /\ " " \in Vocabulary /\ "0" \in Vocabulary
      /\ \A name \in {"callback", "onComplete", "onSuccess", "onDone"} :
           name \in Vocabulary /\ name # "void"
  BY DEF Vocabulary
<1>2. \A p \in Flip(<<"true">>, <<"false">>) : IsPattern(T, p)
  <2>7. /\ <<"true">> \in Seq(Vocabulary) /\ <<"false">> \in Seq(Vocabulary)
        /\ Len(<<"true">>) = Len(<<"false">>)
    BY <1>1, OneWord, TwoWords, ThreeWords, SixWords
  <2>8. <<"true">>[1] # <<"false">>[1]
    OBVIOUS
  <2>9. 1 \in 1..Len(<<"false">>)
    OBVIOUS
  <2> QED BY <2>7, <2>8, <2>9, FlipsArePatterns
<1>3. IsPattern(T, <<<<"throw">>, <<"void">>>>)
  <2>1. /\ <<"throw">> \in Seq(Vocabulary) /\ <<"void">> \in Seq(Vocabulary)
    BY <1>1, OneWord
  <2>3. Len(<<"throw">>) > 0 /\ Len(<<"void">>) = 1 /\ <<"void">>[1] # <<"throw">>[1]
    OBVIOUS
  <2>2. Differ(<<"throw">>, <<"void">>)
    BY <2>3 DEF Differ
  <2> QED BY <2>1, <2>2, <2>3, PairIsPattern, Zenon
<1>4. \A p \in Flip(<<"=", "=">>, <<"!", "=">>) : IsPattern(T, p)
  <2>7. /\ <<"=", "=">> \in Seq(Vocabulary) /\ <<"!", "=">> \in Seq(Vocabulary)
        /\ Len(<<"=", "=">>) = Len(<<"!", "=">>)
    BY <1>1, OneWord, TwoWords, ThreeWords, SixWords
  <2>8. <<"=", "=">>[1] # <<"!", "=">>[1]
    OBVIOUS
  <2>9. 1 \in 1..Len(<<"!", "=">>)
    OBVIOUS
  <2> QED BY <2>7, <2>8, <2>9, FlipsArePatterns
<1>5. ASSUME NEW name \in {"callback", "onComplete", "onSuccess", "onDone"}
      PROVE  IsPattern(T, <<<<name, "(", ")">>, <<"void", " ", "0">>>>)
  <2>1. /\ <<name, "(", ")">> \in Seq(Vocabulary) /\ <<"void", " ", "0">> \in Seq(Vocabulary)
    <3>1. name \in Vocabulary
      BY <1>1
    <3> QED BY <1>1, <3>1, ThreeWords
  <2>2. Len(<<name, "(", ")">>) > 0 /\ Len(<<"void", " ", "0">>) = 3
    OBVIOUS
  <2>3. <<"void", " ", "0">>[1] # <<name, "(", ")">>[1]
    OBVIOUS
  <2>4. Differ(<<name, "(", ")">>, <<"void", " ", "0">>)
    <3>1. 1 \in 1..Len(<<"void", " ", "0">>)
      OBVIOUS
    <3> QED BY <2>3, <3>1, Zenon DEF Differ
  <2> QED BY <2>1, <2>2, <2>4, PairIsPattern, Zenon
<1> QED BY <1>2, <1>3, <1>4, <1>5

\* The places of a text are numbers.
LEMMA InDomain ==
  ASSUME NEW T, NEW symbols \in Seq(T), NEW k \in DOMAIN symbols
  PROVE  k \in 1..Len(symbols) /\ Len(symbols) \in Nat
OBVIOUS

\* Where there is a symbol, there is a place.
LEMMA AtIs ==
  ASSUME NEW T, NEW symbols \in Seq(T), NEW k, At(symbols, k) # Nothing
  PROVE  /\ k \in 1..Len(symbols) /\ Len(symbols) \in Nat /\ k \in DOMAIN symbols
         /\ symbols[k] = At(symbols, k) /\ symbols[k] \in T
<1>1. k \in DOMAIN symbols /\ symbols[k] = At(symbols, k)
  BY DEF At
<1> QED BY <1>1

\* The symbols an operator looks at are none of those that start a literal or a comment.
LEMMA Distinct ==
  /\ \A w \in {"(", "=", "if", ",", "0", "1", "2", "3"} : w # Nothing /\ w \notin Quote \cup {"/"}
<1>1. \A w \in {"(", "=", "if", ",", "0", "1", "2", "3"} : w # Nothing
  BY Zenon DEF Nothing
<1>2. \A w \in {"(", "=", "if", ",", "0", "1", "2", "3"} : w \notin Quote \cup {"/"}
  BY DEF Quote
<1> QED BY <1>1, <1>2

\* Up to the n-th place, the lexemes are those the mask is meant for, and it holds code only.
Exact(source, mask, n) ==
  /\ LexedTo(source, n)
  /\ \A k \in mask : k <= n => k \in CodeOf(source)

\* What is shown of every edit an operator proposes.
Sound(T, source, mask, operator, e) ==
  /\ Proper(T, source.text, e) /\ e.operator = operator
  /\ Exact(source, mask, e.end) => Among(CodeOf(source), e)

\* An edit in the mask is one in the code, as far as the mask is exact.
LEMMA AmongMask ==
  ASSUME NEW T, NEW source, source.text \in Seq(T), NEW mask, NEW operator,
         NEW e, Proper(T, source.text, e), e.operator = operator, Among(mask, e)
  PROVE  Sound(T, source, mask, operator, e)
<1>1. e.start \in Nat /\ e.end \in Nat /\ e.start <= e.end
  <2>1. Len(source.text) \in Nat
    OBVIOUS
  <2> QED BY <2>1 DEF Proper
<1> SUFFICES ASSUME Exact(source, mask, e.end) PROVE Among(CodeOf(source), e)
  BY Zenon DEF Sound
<1>2. \A k \in mask : k <= e.end => k \in CodeOf(source)
  BY DEF Exact
<1>3. CASE e.start < e.end
  <2>1. \A k \in e.start..(e.end - 1) : k <= e.end
    BY <1>1
  <2>2. e.start..(e.end - 1) \subseteq mask
    BY <1>3 DEF Among
  <2> QED BY <1>2, <1>3, <2>1, <2>2 DEF Among
<1>4. CASE ~(e.start < e.end)
  <2>1. e.start <= e.end /\ e.start - 1 <= e.end
    BY <1>1
  <2>2. e.start \in mask \/ e.start - 1 \in mask
    BY <1>4 DEF Among
  <2> QED BY <1>2, <1>4, <2>1, <2>2 DEF Among
<1> QED BY <1>3, <1>4

\* An insertion.
LEMMA InsertionIsProper ==
  ASSUME NEW T, NEW symbols \in Seq(T), NEW k \in 1..(Len(symbols) + 1), NEW to \in Seq(T),
         Len(to) > 0, NEW operator, NEW e, e = Replace(operator, k, k, to)
  PROVE  Proper(T, symbols, e) /\ e.start = k /\ e.end = k /\ e.operator = operator
<1>1. /\ e.start = k /\ e.end = k /\ e.to = to /\ e.operator = operator
      /\ Len(symbols) \in Nat /\ k \in k..(Len(symbols) + 1) /\ Len(to) # k - k
  BY DEF Replace
<1> QED BY <1>1 DEF Proper

\* One symbol is replaced by another.
LEMMA OneForOne ==
  ASSUME NEW T, NEW symbols \in Seq(T), NEW k \in 1..Len(symbols), NEW w \in T,
         w # symbols[k], NEW operator, NEW e, e = Replace(operator, k, k + 1, <<w>>)
  PROVE  Proper(T, symbols, e) /\ e.start = k /\ e.end = k + 1 /\ e.operator = operator
<1>1. e.start = k /\ e.end = k + 1 /\ e.to = <<w>> /\ e.operator = operator
  BY DEF Replace
<1>2. /\ Len(symbols) \in Nat /\ k \in 1..(Len(symbols) + 1) /\ k + 1 \in k..(Len(symbols) + 1)
      /\ <<w>> \in Seq(T) /\ <<w>>[1] # symbols[k + 1 - 1] /\ 1 \in 1..Len(<<w>>)
  OBVIOUS
<1> QED BY <1>1, <1>2 DEF Proper

\* replace_patterns: what it proposes.
LEMMA ReplacedSound ==
  ASSUME NEW T, NEW source, source.text \in Seq(T), NEW mask, NEW operator, NEW patterns,
         \A p \in patterns : IsPattern(T, p),
         NEW e \in Replaced(operator, source.text, mask, patterns)
  PROVE  Sound(T, source, mask, operator, e)
<1> DEFINE symbols == source.text
<1> HIDE DEF symbols
<1>1. symbols \in Seq(T) /\ e \in Replaced(operator, symbols, mask, patterns)
  BY DEF symbols
<1>2. Proper(T, symbols, e) /\ e.operator = operator /\ Among(mask, e)
  BY <1>1, ReplacedIs
<1> QED BY <1>2, AmongMask, Zenon DEF symbols

\* comparison_edits.
LEMMA ComparisonsSound ==
  ASSUME NEW T, Vocabulary \subseteq T, NEW source, source.text \in Seq(T), NEW mask, NEW operator,
         NEW e \in Comparisons(operator, source.text, mask)
  PROVE  Sound(T, source, mask, operator, e)
<1> DEFINE symbols == source.text
<1>1. \/ \E k \in DOMAIN symbols : /\ At(symbols, k + 1) = "=" /\ InCode(mask, k, k + 2)
                                   /\ e = Replace(operator, k, k + 2, <<symbols[k]>>)
      \/ \E k \in DOMAIN symbols : /\ k \in mask
                                   /\ e = Replace(operator, k, k + 1, <<symbols[k], "=">>)
  BY DEF Comparisons
<1>2. symbols \in Seq(T)
  OBVIOUS
<1> HIDE DEF symbols
<1>3. "=" \in T
  BY DEF Vocabulary
<1>4. CASE \E k \in DOMAIN symbols : /\ At(symbols, k + 1) = "=" /\ InCode(mask, k, k + 2)
                                     /\ e = Replace(operator, k, k + 2, <<symbols[k]>>)
  <2>1. PICK k \in DOMAIN symbols : /\ At(symbols, k + 1) = "=" /\ InCode(mask, k, k + 2)
                                    /\ e = Replace(operator, k, k + 2, <<symbols[k]>>)
    BY <1>4
  <2>2. k + 1 \in 1..Len(symbols) /\ Len(symbols) \in Nat
    BY <1>2, <2>1, AtIs, Distinct
  <2>3. k \in 1..Len(symbols) /\ symbols[k] \in T
    BY <1>2
  <2>4. e.start = k /\ e.end = k + 2 /\ e.to = <<symbols[k]>> /\ e.operator = operator
    BY <2>1 DEF Replace
  <2>5. <<symbols[k]>> \in Seq(T) /\ Len(<<symbols[k]>>) = 1
    BY <2>3
  <2>6. k \in 1..(Len(symbols) + 1) /\ k + 2 \in k..(Len(symbols) + 1) /\ 1 # (k + 2) - k /\ k < k + 2
    BY <2>2, <2>3
  <2>7. Proper(T, symbols, e)
    BY <2>4, <2>5, <2>6 DEF Proper
  <2>8. Among(mask, e)
    BY <2>1, <2>4, <2>6 DEF Among, InCode
  <2> QED BY <2>4, <2>7, <2>8, AmongMask, Zenon DEF symbols
<1>5. CASE \E k \in DOMAIN symbols : /\ k \in mask
                                     /\ e = Replace(operator, k, k + 1, <<symbols[k], "=">>)
  <2>1. PICK k \in DOMAIN symbols : /\ k \in mask
                                    /\ e = Replace(operator, k, k + 1, <<symbols[k], "=">>)
    BY <1>5
  <2>3. k \in 1..Len(symbols) /\ symbols[k] \in T /\ Len(symbols) \in Nat
    BY <1>2
  <2>4. e.start = k /\ e.end = k + 1 /\ e.to = <<symbols[k], "=">> /\ e.operator = operator
    BY <2>1 DEF Replace
  <2>5. <<symbols[k], "=">> \in Seq(T) /\ Len(<<symbols[k], "=">>) = 2
    BY <1>3, <2>3
  <2>6. /\ k \in 1..(Len(symbols) + 1) /\ k + 1 \in k..(Len(symbols) + 1) /\ 2 # (k + 1) - k
        /\ k < k + 1 /\ k..((k + 1) - 1) = {k}
    BY <2>3
  <2>7. Proper(T, symbols, e)
    BY <2>4, <2>5, <2>6 DEF Proper
  <2>8. Among(mask, e)
    BY <2>1, <2>4, <2>6 DEF Among
  <2> QED BY <2>4, <2>7, <2>8, AmongMask, Zenon DEF symbols
<1> QED BY <1>1, <1>4, <1>5

\* A keyword stands at a place of the mask.
LEMMA KeywordIs ==
  ASSUME NEW T, NEW symbols \in Seq(T), NEW mask, NEW word, NEW k \in Keywords(symbols, mask, word)
  PROVE  k \in mask /\ k \in 1..Len(symbols) /\ Len(symbols) \in Nat
<1>1. k \in mask /\ k \in DOMAIN symbols
  BY DEF Keywords, Found
<1> QED BY <1>1

\* insert_after_keyword.
LEMMA BranchesRemovedSound ==
  ASSUME NEW T, Vocabulary \subseteq T, NEW source, source.text \in Seq(T), NEW mask, NEW operator,
         NEW e \in BranchesRemoved(operator, source.text, mask)
  PROVE  Sound(T, source, mask, operator, e)
<1> DEFINE symbols == source.text
<1>1. PICK k \in Keywords(symbols, mask, "if") :
        /\ At(symbols, Solid(symbols, k + 1)) = "("
        /\ e = Replace(operator, Solid(symbols, k + 1) + 1, Solid(symbols, k + 1) + 1,
                       <<"false", "&", "&">>)
  BY DEF BranchesRemoved
<1> DEFINE s == Solid(symbols, k + 1)
<1>2. k \in mask /\ k \in 1..Len(symbols) /\ Len(symbols) \in Nat
  BY KeywordIs
<1>3. s \in 1..Len(symbols)
  BY <1>1, AtIs, Distinct
<1>4. <<"false", "&", "&">> \in Seq(T) /\ Len(<<"false", "&", "&">>) > 0
  <2>1. "false" \in T /\ "&" \in T
    BY DEF Vocabulary
  <2> QED BY <2>1
<1>5. ASSUME Exact(source, mask, s + 1) PROVE s \in CodeOf(source)
  <2>1. s \in (k + 1)..(Len(symbols) + 1) /\ k <= s + 1 /\ s - 1 <= s + 1 /\ s <= s + 1 /\ s + 1 \in Nat
    <3>1. k + 1 \in 1..(Len(symbols) + 1)
      BY <1>2
    <3>2. s \in (k + 1)..(Len(symbols) + 1)
      BY <3>1, SolidIs
    <3> HIDE DEF s
    <3> QED BY <1>2, <3>2
  <2>2. k \in CodeOf(source) /\ LexedTo(source, s + 1)
    BY <1>2, <1>5, <2>1, Zenon DEF Exact
  <2> QED BY <1>1, <2>1, <2>2, SolidAfterCode, Distinct
<1> HIDE DEF s
<1>6. s + 1 \in 1..(Len(symbols) + 1) /\ (s + 1) - 1 = s
  BY <1>2, <1>3
<1>7. e = Replace(operator, s + 1, s + 1, <<"false", "&", "&">>)
  BY <1>1 DEF s
<1>8. Proper(T, symbols, e) /\ e.start = s + 1 /\ e.end = s + 1 /\ e.operator = operator
  <2>1. symbols \in Seq(T)
    OBVIOUS
  <2> DEFINE to == <<"false", "&", "&">>
  <2>2. to \in Seq(T) /\ Len(to) > 0 /\ e = Replace(operator, s + 1, s + 1, to)
    BY <1>4, <1>6, <1>7
  <2> HIDE DEF to, symbols
  <2> QED BY <1>6, <2>1, <2>2, InsertionIsProper
<1>9. Exact(source, mask, e.end) => Among(CodeOf(source), e)
  BY <1>5, <1>6, <1>8 DEF Among
<1> QED BY <1>8, <1>9, Zenon DEF Sound

\* insert_go_branch_skip.
LEMMA BranchesSkippedSound ==
  ASSUME NEW T, Vocabulary \subseteq T, NEW source, source.text \in Seq(T), NEW mask, NEW operator,
         NEW e \in BranchesSkipped(operator, source.text, mask)
  PROVE  Sound(T, source, mask, operator, e)
<1> DEFINE symbols == source.text
<1>1. PICK k \in Keywords(symbols, mask, "if") :
        e = Replace(operator, Solid(symbols, k + 1), Solid(symbols, k + 1), <<"false", "&", "&">>)
  BY DEF BranchesSkipped
<1> DEFINE s == Solid(symbols, k + 1)
<1>2. k \in mask /\ k \in 1..Len(symbols) /\ Len(symbols) \in Nat /\ k + 1 \in 1..(Len(symbols) + 1)
  BY KeywordIs
<1>3. s \in (k + 1)..(Len(symbols) + 1)
  BY <1>2, SolidIs
<1>4. <<"false", "&", "&">> \in Seq(T) /\ Len(<<"false", "&", "&">>) > 0
  <2>1. "false" \in T /\ "&" \in T
    BY DEF Vocabulary
  <2> QED BY <2>1
<1>5. ASSUME Exact(source, mask, s) PROVE s - 1 \in CodeOf(source)
  <2>1. k <= s /\ s - 1 <= s /\ s \in Nat
    <3> HIDE DEF s
    <3> QED BY <1>2, <1>3
  <2>2. k \in CodeOf(source) /\ LexedTo(source, s)
    BY <1>2, <1>5, <2>1, Zenon DEF Exact
  <2> QED BY <2>1, <2>2, SolidAfterCode
<1> HIDE DEF s
<1>6. s \in 1..(Len(symbols) + 1)
  BY <1>2, <1>3
<1>7. e = Replace(operator, s, s, <<"false", "&", "&">>)
  BY <1>1 DEF s
<1>8. Proper(T, symbols, e) /\ e.start = s /\ e.end = s /\ e.operator = operator
  <2>1. symbols \in Seq(T)
    OBVIOUS
  <2> DEFINE to == <<"false", "&", "&">>
  <2>2. to \in Seq(T) /\ Len(to) > 0 /\ e = Replace(operator, s, s, to)
    BY <1>4, <1>6, <1>7
  <2> HIDE DEF to, symbols
  <2> QED BY <1>6, <2>1, <2>2, InsertionIsProper
<1>9. Exact(source, mask, e.end) => Among(CodeOf(source), e)
  BY <1>5, <1>6, <1>8 DEF Among
<1> QED BY <1>8, <1>9, Zenon DEF Sound

\* insert_before_call.
LEMMA NegatedSound ==
  ASSUME NEW T, Vocabulary \subseteq T, NEW source, source.text \in Seq(T), NEW mask, NEW operator,
         NEW names, NEW e \in Negated(operator, source.text, mask, names)
  PROVE  Sound(T, source, mask, operator, e)
<1> DEFINE symbols == source.text
<1>1. PICK name \in names : \E k \in Keywords(symbols, mask, name) : e = Replace(operator, k, k, <<"!">>)
  BY DEF Negated
<1>2. PICK k \in Keywords(symbols, mask, name) : e = Replace(operator, k, k, <<"!">>)
  BY <1>1
<1>3. k \in mask /\ k \in 1..(Len(symbols) + 1)
  BY KeywordIs
<1>4. <<"!">> \in Seq(T) /\ Len(<<"!">>) > 0
  <2>1. "!" \in T
    BY DEF Vocabulary
  <2> QED BY <2>1
<1>5. Proper(T, symbols, e) /\ e.start = k /\ e.end = k /\ e.operator = operator
  <2>1. symbols \in Seq(T)
    OBVIOUS
  <2> DEFINE to == <<"!">>
  <2>2. to \in Seq(T) /\ Len(to) > 0 /\ e = Replace(operator, k, k, to)
    BY <1>2, <1>3, <1>4
  <2> HIDE DEF to, symbols
  <2> QED BY <1>3, <2>1, <2>2, InsertionIsProper
<1>6. Among(mask, e)
  BY <1>3, <1>5 DEF Among
<1> QED BY <1>5, <1>6, AmongMask, Zenon

\* The numbers the operator that moves a boundary goes through.
LEMMA NumeralIs ==
  /\ Len(Numeral) - 1 = 3
  /\ \A x \in 1..3 : /\ Numeral[x] \in {"0", "1", "2"} /\ Numeral[x + 1] \in {"1", "2", "3"}
                     /\ Numeral[x] # Numeral[x + 1]
<1>1. Len(Numeral) = 4
  BY DEF Numeral
<1>2. Numeral[1] = "0" /\ Numeral[2] = "1" /\ Numeral[3] = "2" /\ Numeral[4] = "3"
  BY DEF Numeral
<1>3. \A x \in 1..3 : \/ x = 1 /\ x + 1 = 2
                      \/ x = 2 /\ x + 1 = 3
                      \/ x = 3 /\ x + 1 = 4
  OBVIOUS
<1>4. ASSUME NEW x \in 1..3
      PROVE  /\ Numeral[x] \in {"0", "1", "2"} /\ Numeral[x + 1] \in {"1", "2", "3"}
             /\ Numeral[x] # Numeral[x + 1]
  <2>1. CASE x = 1 /\ x + 1 = 2
    BY <1>2, <2>1, Zenon
  <2>2. CASE x = 2 /\ x + 1 = 3
    BY <1>2, <2>2, Zenon
  <2>3. CASE x = 3 /\ x + 1 = 4
    BY <1>2, <2>3, Zenon
  <2> QED BY <1>3, <2>1, <2>2, <2>3, Zenon
<1>5. Len(Numeral) - 1 = 3
  BY <1>1
<1> QED BY <1>4, <1>5, Zenon

\* The length of the pattern the next lemma is about.
LEMMA FiveIs == 5 \in 1..5
OBVIOUS

\* Where a slice from zero begins.
LEMMA SliceFound ==
  ASSUME NEW symbols, NEW pattern, pattern = <<".", "slice", "(", "0", ",">>,
         NEW k \in Found(symbols, pattern)
  PROVE  k \in DOMAIN symbols /\ At(symbols, k + 5 - 1) = "," /\ Len(pattern) = 5
<1>1. \A j \in 1..Len(pattern) : At(symbols, k + j - 1) = pattern[j]
  BY Zenon DEF Found
<1>2. k \in DOMAIN symbols
  BY Zenon DEF Found
<1>3. Len(<<".", "slice", "(", "0", ",">>) = 5
  OBVIOUS
<1>4. <<".", "slice", "(", "0", ",">>[5] = ","
  OBVIOUS
<1>5. Len(pattern) = 5 /\ pattern[5] = ","
  BY <1>3, <1>4, Zenon
<1>6. 5 \in 1..Len(pattern)
  BY <1>5, FiveIs, Zenon
<1> QED BY <1>1, <1>2, <1>5, <1>6, Zenon

\* collection_boundary_edits.
LEMMA BoundariesMovedSound ==
  ASSUME NEW T, Vocabulary \subseteq T, NEW source, source.text \in Seq(T), NEW mask, NEW operator,
         NEW e \in BoundariesMoved(operator, source.text, mask)
  PROVE  Sound(T, source, mask, operator, e)
<1> DEFINE symbols == source.text
           pattern == <<".", "slice", "(", "0", ",">>
<1>1. PICK k \in Found(symbols, pattern) :
        \E x \in 1..(Len(Numeral) - 1) :
          /\ InCode(mask, k, k + Len(pattern))
          /\ At(symbols, Solid(symbols, k + Len(pattern))) = Numeral[x]
          /\ e = Replace(operator, Solid(symbols, k + Len(pattern)),
                         Solid(symbols, k + Len(pattern)) + 1, <<Numeral[x + 1]>>)
  BY DEF BoundariesMoved
<1>3. k \in DOMAIN symbols /\ At(symbols, k + 5 - 1) = "," /\ Len(pattern) = 5
  BY SliceFound, Zenon
<1> HIDE DEF pattern
<1> DEFINE s == Solid(symbols, k + 5)
<1>4. PICK x \in 1..3 : /\ InCode(mask, k, k + 5) /\ At(symbols, s) = Numeral[x]
                        /\ e = Replace(operator, s, s + 1, <<Numeral[x + 1]>>)
  BY <1>1, <1>3, NumeralIs, Zenon
<1>5. /\ Numeral[x] \in {"0", "1", "2"} /\ Numeral[x + 1] \in Vocabulary
      /\ Numeral[x] # Numeral[x + 1]
  <2>1. Numeral[x] \in {"0", "1", "2"} /\ Numeral[x + 1] \in {"1", "2", "3"} /\ Numeral[x] # Numeral[x + 1]
    BY NumeralIs, Zenon
  <2> QED BY <2>1 DEF Vocabulary
<1>6. k \in 1..Len(symbols) /\ k + 4 \in 1..Len(symbols) /\ Len(symbols) \in Nat
  <2>1. k + 5 - 1 \in 1..Len(symbols) /\ Len(symbols) \in Nat
    BY <1>3, AtIs, Distinct
  <2>2. k \in 1..Len(symbols)
    <3>1. symbols \in Seq(T)
      OBVIOUS
    <3> HIDE DEF symbols
    <3> QED BY <1>3, <3>1, InDomain
  <2> QED BY <2>1, <2>2
<1>7. s \in 1..Len(symbols) /\ symbols[s] = Numeral[x]
  BY <1>4, <1>5, AtIs, Distinct
<1>8. ASSUME Exact(source, mask, s + 1) PROVE s \in CodeOf(source)
  <2>0. k + 4 <= s + 1 /\ s - 1 <= s + 1 /\ s <= s + 1 /\ s + 1 \in Nat
    <3>1. k + 5 \in 1..(Len(symbols) + 1)
      BY <1>6
    <3>2. s \in (k + 5)..(Len(symbols) + 1)
      BY <3>1, SolidIs
    <3> HIDE DEF s
    <3> QED BY <1>6, <3>2
  <2>1. k + 4 \in CodeOf(source) /\ (k + 4) + 1 = k + 5 /\ LexedTo(source, s + 1)
    <3>1. k + 4 \in mask /\ (k + 4) + 1 = k + 5
      BY <1>4, <1>6 DEF InCode
    <3> QED BY <1>8, <2>0, <3>1, Zenon DEF Exact
  <2>2. At(symbols, s) \notin Quote \cup {"/", Nothing}
    BY <1>4, <1>5, Distinct
  <2> QED BY <2>0, <2>1, <2>2, SolidAfterCode
<1> HIDE DEF s
<1>9. Proper(T, symbols, e) /\ e.start = s /\ e.end = s + 1 /\ e.operator = operator
  BY <1>4, <1>5, <1>7, OneForOne
<1>10. Exact(source, mask, e.end) => Among(CodeOf(source), e)
  <2>1. s < s + 1 /\ s..((s + 1) - 1) = {s}
    BY <1>7
  <2> QED BY <1>8, <1>9, <2>1 DEF Among
<1> QED BY <1>9, <1>10, Zenon DEF Sound

\* return_zero_edits.
LEMMA ReturnsZeroSound ==
  ASSUME NEW T, Vocabulary \subseteq T, NEW source, source.text \in Seq(T),
         NEW mask, mask \subseteq DOMAIN source.text, NEW operator,
         NEW e \in ReturnsZero(operator, source.text, mask)
  PROVE  Sound(T, source, mask, operator, e)
<1> DEFINE symbols == source.text
           Zero == [w \in {"true", "false"} \cup ToSet(Tail(Numeral)) |->
                      IF w = "true" THEN "false" ELSE IF w = "false" THEN "true" ELSE "0"]
<1>1. PICK k \in mask : symbols[k] \in DOMAIN Zero /\ e = Replace(operator, k, k + 1, <<Zero[symbols[k]]>>)
  BY DEF ReturnsZero
<1>2. ToSet(Tail(Numeral)) = {"1", "2", "3"}
  <2>1. Tail(Numeral) = <<"1", "2", "3">>
    BY DEF Numeral
  <2> DEFINE tail == <<"1", "2", "3">>
  <2>2. DOMAIN tail = 1..3 /\ tail[1] = "1" /\ tail[2] = "2" /\ tail[3] = "3"
    OBVIOUS
  <2> HIDE DEF tail
  <2>3. {tail[i] : i \in DOMAIN tail} = {"1", "2", "3"}
    BY <2>2
  <2> QED BY <2>1, <2>3, Zenon DEF ToSet, tail
<1>3. \A w \in DOMAIN Zero : Zero[w] # w /\ Zero[w] \in Vocabulary
  BY <1>2 DEF Vocabulary
<1> HIDE DEF Zero
<1>4. k \in 1..Len(symbols) /\ Len(symbols) \in Nat
  OBVIOUS
<1>5. Proper(T, symbols, e) /\ e.start = k /\ e.end = k + 1 /\ e.operator = operator
  BY <1>1, <1>3, <1>4, OneForOne
<1>6. Among(mask, e)
  <2>1. k < k + 1 /\ k..((k + 1) - 1) = {k}
    BY <1>4
  <2> QED BY <1>5, <2>1 DEF Among
<1> QED BY <1>5, <1>6, AmongMask, Zenon

\* Every edit of every operator changes the text and stays in the code.
LEMMA EditsSound ==
  ASSUME NEW T, Vocabulary \subseteq T, NEW source, source.text \in Seq(T),
         NEW mask, mask \subseteq DOMAIN source.text, NEW operator,
         NEW e \in Edits(operator, source.text, mask)
  PROVE  Sound(T, source, mask, operator, e)
<1>1. CASE operator \in DOMAIN Patterns
  <2>1. e \in Replaced(operator, source.text, mask, Patterns[operator])
    BY <1>1, Zenon DEF Edits
  <2>2. \A p \in Patterns[operator] : IsPattern(T, p)
    BY <1>1, PatternsArePatterns, Zenon
  <2> QED BY <2>1, <2>2, ReplacedSound, Zenon
<1>2. ASSUME NEW patterns, \A p \in patterns : IsPattern(T, p),
             e \in Reworded(operator, source.text, mask, patterns)
      PROVE  Sound(T, source, mask, operator, e)
  <2>1. e \in Replaced(operator, source.text, mask, patterns)
    BY <1>2, Zenon DEF Reworded
  <2> QED BY <1>2, <2>1, ReplacedSound, Zenon
<1>3. ASSUME e \in RustEqualities(operator, source.text, mask)
      PROVE  Sound(T, source, mask, operator, e)
  <2>1. e \in Replaced(operator, source.text, mask, Flip(<<"=", "=">>, <<"!", "=">>))
    BY <1>3, Zenon DEF RustEqualities
  <2> QED BY <2>1, ReplacedSound, OtherPatterns, Zenon
<1>4. ASSUME e \in CallsOmitted(operator, source.text, mask,
                                {"callback", "onComplete", "onSuccess", "onDone"})
      PROVE  Sound(T, source, mask, operator, e)
  <2>1. e \in Replaced(operator, source.text, mask,
                       {<<<<name, "(", ")">>, <<"void", " ", "0">>>> :
                          name \in {"callback", "onComplete", "onSuccess", "onDone"}})
    BY <1>4, Zenon DEF CallsOmitted
  <2> QED BY <2>1, ReplacedSound, OtherPatterns, Zenon
<1>5. CASE operator \notin DOMAIN Patterns
  <2>1. \/ e \in Reworded(operator, source.text, mask, Flip(<<"true">>, <<"false">>))
        \/ e \in Reworded(operator, source.text, mask, {<<<<"throw">>, <<"void">>>>})
        \/ e \in Comparisons(operator, source.text, mask)
        \/ e \in RustEqualities(operator, source.text, mask)
        \/ e \in BranchesRemoved(operator, source.text, mask)
        \/ e \in BranchesSkipped(operator, source.text, mask)
        \/ e \in Negated(operator, source.text, mask,
                    {"canDelete", "canWrite", "hasPermission", "isAllowed", "isAuthorized"})
        \/ e \in CallsOmitted(operator, source.text, mask,
                              {"callback", "onComplete", "onSuccess", "onDone"})
        \/ e \in BoundariesMoved(operator, source.text, mask)
        \/ e \in ReturnsZero(operator, source.text, mask)
    BY <1>5, Zenon DEF Edits
  <2>2. CASE e \in Reworded(operator, source.text, mask, Flip(<<"true">>, <<"false">>))
    BY <1>2, <2>2, OtherPatterns, Zenon
  <2>3. CASE e \in Reworded(operator, source.text, mask, {<<<<"throw">>, <<"void">>>>})
    BY <1>2, <2>3, OtherPatterns, Zenon
  <2>4. CASE e \in Comparisons(operator, source.text, mask)
    BY <2>4, ComparisonsSound, Zenon
  <2>5. CASE e \in RustEqualities(operator, source.text, mask)
    BY <1>3, <2>5
  <2>6. CASE e \in BranchesRemoved(operator, source.text, mask)
    BY <2>6, BranchesRemovedSound, Zenon
  <2>7. CASE e \in BranchesSkipped(operator, source.text, mask)
    BY <2>7, BranchesSkippedSound, Zenon
  <2>8. CASE e \in Negated(operator, source.text, mask,
                    {"canDelete", "canWrite", "hasPermission", "isAllowed", "isAuthorized"})
    BY <2>8, NegatedSound, Zenon
  <2>9. CASE e \in CallsOmitted(operator, source.text, mask,
                              {"callback", "onComplete", "onSuccess", "onDone"})
    BY <1>4, <2>9
  <2>10. CASE e \in BoundariesMoved(operator, source.text, mask)
    BY <2>10, BoundariesMovedSound, Zenon
  <2>11. CASE e \in ReturnsZero(operator, source.text, mask)
    BY <2>11, ReturnsZeroSound, Zenon
  <2> QED BY <2>1, <2>2, <2>3, <2>4, <2>5, <2>6, <2>7, <2>8, <2>9, <2>10, <2>11, Zenon
<1> QED BY <1>1, <1>5, Zenon
-----------------------------------------------------------------------------
(* The plan: which of the edits become mutants. *)

\* Which of the operators comes first.
Rank(operator) == CHOOSE k \in DOMAIN Operators : Operators[k] = operator

\* The order of the edits.
LEMMA BeforeIs ==
  ASSUME NEW e, NEW f
  PROVE  Before(e, f) <=> \/ e.start < f.start
                          \/ e.start = f.start /\ e.end < f.end
                          \/ /\ e.start = f.start /\ e.end = f.end
                             /\ Rank(e.operator) < Rank(f.operator)
BY DEF Before, Rank

\* Edits are ordered by where they start, where they end, and their operator.
LEMMA FirstIs ==
  ASSUME NEW edits, edits # {},
         \A e \in edits : e.start \in Nat /\ e.end \in Nat /\ Rank(e.operator) \in Nat
  PROVE  First(edits) \in edits
<1>1. PICK a \in {e.start : e \in edits} : \A l \in {e.start : e \in edits} : a <= l
  <2> DEFINE S == {e.start : e \in edits}
  <2>1. S \in SUBSET Nat /\ S # {}
    OBVIOUS
  <2> HIDE DEF S
  <2>2. \E k \in S : \A l \in S : k <= l
    BY <2>1, LeastNumber
  <2> QED BY <2>2, Zenon DEF S
<1> DEFINE nearest == {e \in edits : e.start = a}
<1>2. nearest # {} /\ nearest \subseteq edits
  BY <1>1
<1>3. PICK b \in {e.end : e \in nearest} : \A l \in {e.end : e \in nearest} : b <= l
  <2> DEFINE S == {e.end : e \in nearest}
  <2>1. S \in SUBSET Nat /\ S # {}
    BY <1>2
  <2> HIDE DEF S
  <2>2. \E k \in S : \A l \in S : k <= l
    BY <2>1, LeastNumber
  <2> QED BY <2>2, Zenon DEF S
<1> DEFINE shortest == {e \in nearest : e.end = b}
<1>4. shortest # {} /\ shortest \subseteq nearest
  BY <1>3
<1>5. PICK c \in {Rank(e.operator) : e \in shortest} :
        \A l \in {Rank(e.operator) : e \in shortest} : c <= l
  <2> DEFINE S == {Rank(e.operator) : e \in shortest}
  <2>1. S \in SUBSET Nat /\ S # {}
    BY <1>2, <1>4
  <2> HIDE DEF S
  <2>2. \E k \in S : \A l \in S : k <= l
    BY <2>1, LeastNumber
  <2> QED BY <2>2, Zenon DEF S
<1>6. PICK e \in shortest : Rank(e.operator) = c
  BY <1>5
<1>7. e \in edits /\ e.start = a /\ e.end = b
  BY <1>6
<1>8. ASSUME NEW f \in edits PROVE ~Before(f, e)
  <2>1. a <= f.start /\ a \in Nat /\ f.start \in Nat
    BY <1>1
  <2>2. f.start = a => f \in nearest /\ b <= f.end /\ b \in Nat /\ f.end \in Nat
    BY <1>3
  <2>3. f.start = a /\ f.end = b =>
          c <= Rank(f.operator) /\ c \in Nat /\ Rank(f.operator) \in Nat
    BY <1>5
  <2> HIDE DEF nearest, shortest
  <2>4. ~(f.start < a)
    BY <2>1
  <2>5. ~(f.start = a /\ f.end < b)
    BY <2>2
  <2>6. ~(f.start = a /\ f.end = b /\ Rank(f.operator) < c)
    BY <2>3
  <2> QED BY <1>6, <1>7, <2>4, <2>5, <2>6, BeforeIs, Zenon
<1> QED BY <1>7, <1>8, Zenon DEF First

\* Every operator has its rank.
LEMMA RankIs ==
  ASSUME NEW operator \in ToSet(Operators)
  PROVE  Rank(operator) \in Nat
<1>1. DOMAIN Operators \subseteq Nat
  BY DEF Operators
<1>2. \E k \in DOMAIN Operators : Operators[k] = operator
  BY DEF ToSet
<1>3. Rank(operator) \in DOMAIN Operators
  BY <1>2, Zenon DEF Rank
<1> QED BY <1>1, <1>3

\* So many mutants of a file at most, by different edits.
ByEdits(m, path, edits, limit) ==
  \E b \in Seq(edits) :
    /\ Once(b) /\ Len(b) <= limit
    /\ m = [k \in DOMAIN b |-> [path |-> path, edit |-> b[k]]]

\* A file's mutants are edits of its own, none twice, and no more than the limit.
LEMMA SourceMutantsAre ==
  ASSUME NEW path, NEW proposals, NEW lines, NEW limit \in Nat,
         NEW edits, \A p \in proposals : p.edit \in edits,
         \A S \in SUBSET edits : S # {} => First(S) \in S
  PROVE  ByEdits(SourceMutants(path, proposals, lines, limit), path, edits, limit)
<1> DEFINE changed == {p.edit : p \in {q \in proposals : q.line \in lines}}
           V == {b \in Seq(edits) : Once(b)}
           Longer(b) == IF changed \ ToSet(b) = {} THEN b ELSE Append(b, First(changed \ ToSet(b)))
           step == [k \in 1..limit |-> [b \in V |-> Longer(b)]]
<1>1. changed \subseteq edits
  OBVIOUS
<1>2. ASSUME NEW b \in V
      PROVE  /\ Longer(b) \in V
             /\ Len(Longer(b)) <= Len(b) + 1
  <2>1. CASE changed \ ToSet(b) = {}
    BY <2>1
  <2>2. CASE changed \ ToSet(b) # {}
    <3> DEFINE e == First(changed \ ToSet(b))
    <3>1. e \in changed \ ToSet(b)
      BY <1>1, <2>2
    <3> HIDE DEF e
    <3>2. e \in edits /\ e \notin ToSet(b) /\ b \in Seq(edits) /\ Once(b)
      BY <1>1, <3>1
    <3>3. Append(b, e) \in V /\ Len(Append(b, e)) = Len(b) + 1 /\ Len(b) \in Nat
      BY <3>2, AppendOnce
    <3>4. Longer(b) = Append(b, e)
      BY <2>2, Zenon DEF e
    <3> HIDE DEF Longer
    <3> QED BY <3>3, <3>4
  <2> QED BY <2>1, <2>2
<1> HIDE DEF Longer
<1>3. step \in [1..limit -> [V -> V]]
  BY <1>2
<1>4. << >> \in V
  BY DEF Once
<1> HIDE DEF step
<1> HIDE DEF V
<1>5. PICK f : Iterates(f, V, << >>, limit, step)
  BY <1>3, <1>4, Recursion
<1>6. f \in [0..limit -> V] /\ f[0] = << >> /\ \A k \in 1..limit : f[k] = Longer(f[k - 1])
  <2>1. f \in [0..limit -> V] /\ f[0] = << >> /\ \A k \in 1..limit : f[k] = step[k][f[k - 1]]
    BY <1>5 DEF Iterates
  <2>2. ASSUME NEW k \in 1..limit PROVE f[k] = Longer(f[k - 1])
    <3>1. k - 1 \in 0..limit /\ f[k - 1] \in V
      BY <2>1
    <3> QED BY <2>1, <3>1 DEF step
  <2> QED BY <2>1, <2>2
<1> DEFINE kept == CHOOSE g : g = [n \in 0..limit |-> IF n = 0 THEN << >> ELSE Longer(g[n - 1])]
<1>7. f = [n \in 0..limit |-> IF n = 0 THEN << >> ELSE Longer(f[n - 1])]
  BY <1>6
<1>8. kept = [n \in 0..limit |-> IF n = 0 THEN << >> ELSE Longer(kept[n - 1])]
  BY <1>7, Zenon
<1>9. SourceMutants(path, proposals, lines, limit)
        = [k \in DOMAIN kept[limit] |-> [path |-> path, edit |-> kept[limit][k]]]
  BY Zenon DEF SourceMutants, Longer
<1> HIDE DEF kept
<1>10. kept[0] = << >> /\ \A n \in 1..limit : kept[n] = Longer(kept[n - 1])
  BY <1>8
<1> DEFINE Bad == {n \in 0..limit : ~(kept[n] \in V /\ Len(kept[n]) <= n)}
<1>11. Bad = {}
  <2> SUFFICES ASSUME Bad # {} PROVE FALSE
    OBVIOUS
  <2>1. PICK m \in Bad : \A l \in Bad : m <= l
    <3>1. Bad \in SUBSET Nat
      OBVIOUS
    <3> QED BY <3>1, LeastNumber
  <2>2. m # 0
    <3>1. Len(<< >>) = 0
      OBVIOUS
    <3> QED BY <1>4, <1>10, <3>1
  <2>3. m \in 1..limit /\ m - 1 \in 0..limit /\ ~(m <= m - 1) /\ m \in Nat
    BY <2>1, <2>2
  <2>4. kept[m - 1] \in V /\ Len(kept[m - 1]) <= m - 1
    <3>1. m - 1 \notin Bad
      <4> HIDE DEF Bad
      <4> QED BY <2>1, <2>3
    <3> QED BY <2>3, <3>1
  <2>5. Longer(kept[m - 1]) \in V /\ Len(Longer(kept[m - 1])) <= Len(kept[m - 1]) + 1
    BY <1>2, <2>4
  <2>6. Len(kept[m - 1]) \in Nat /\ Len(kept[m]) \in Nat
    <3>1. kept[m - 1] \in Seq(edits) /\ kept[m] \in Seq(edits)
      BY <1>10, <2>3, <2>4, <2>5 DEF V
    <3> QED BY <3>1
  <2>7. kept[m] = Longer(kept[m - 1])
    BY <1>10, <2>3
  <2>8. kept[m] \in V
    BY <2>5, <2>7
  <2>9. Len(kept[m]) <= Len(kept[m - 1]) + 1
    BY <2>5, <2>7
  <2>10. Len(kept[m]) <= m
    BY <2>3, <2>4, <2>6, <2>9
  <2> QED BY <2>1, <2>8, <2>10
<1>12. kept[limit] \in V /\ Len(kept[limit]) <= limit
  BY <1>11
<1> QED BY <1>9, <1>12, Zenon DEF V, ByEdits

\* The mask has places of the text.
LEMMA MaskInText ==
  ASSUME NEW symbols
  PROVE  CodeMask(symbols) \subseteq DOMAIN symbols
BY Zenon DEF CodeMask

\* The operators of a language are known ones.
LEMMA CatalogueIs ==
  ASSUME NEW language \in Language
  PROVE  OperatorsFor(language) \subseteq ToSet(Operators)
<1>1. Catalogue[language] \subseteq
        {"boundary_flip", "equality_flip", "bool_flip", "logical_flip", "off_by_one",
         "remove_branch", "remove_sort", "wrong_permission", "omit_callback", "omit_error",
         "collection_boundary", "err_nil_flip", "return_zero", "skip_branch", "ignore_context",
         "invert_bool", "is_ok_err_flip", "is_some_none_flip", "eq_neq_flip"}
  BY DEF Catalogue
<1>2. /\ DOMAIN Operators = 1..19
      /\ Operators[1] = "bool_flip" /\ Operators[2] = "boundary_flip"
      /\ Operators[3] = "collection_boundary" /\ Operators[4] = "eq_neq_flip"
      /\ Operators[5] = "equality_flip" /\ Operators[6] = "err_nil_flip"
      /\ Operators[7] = "ignore_context" /\ Operators[8] = "invert_bool"
      /\ Operators[9] = "is_ok_err_flip" /\ Operators[10] = "is_some_none_flip"
      /\ Operators[11] = "logical_flip" /\ Operators[12] = "off_by_one"
      /\ Operators[13] = "omit_callback" /\ Operators[14] = "omit_error"
      /\ Operators[15] = "remove_branch" /\ Operators[16] = "remove_sort"
      /\ Operators[17] = "return_zero" /\ Operators[18] = "skip_branch"
      /\ Operators[19] = "wrong_permission"
  BY DEF Operators
<1>3. Catalogue[language] \subseteq ToSet(Operators)
  <2>1. \A k \in 1..19 : Operators[k] \in ToSet(Operators)
    BY <1>2, Zenon DEF ToSet
  <2>2. 1 \in 1..19 /\ 2 \in 1..19 /\ 3 \in 1..19 /\ 4 \in 1..19 /\ 5 \in 1..19 /\ 6 \in 1..19
        /\ 7 \in 1..19 /\ 8 \in 1..19 /\ 9 \in 1..19 /\ 10 \in 1..19 /\ 11 \in 1..19
        /\ 12 \in 1..19 /\ 13 \in 1..19 /\ 14 \in 1..19 /\ 15 \in 1..19 /\ 16 \in 1..19
        /\ 17 \in 1..19 /\ 18 \in 1..19 /\ 19 \in 1..19
    OBVIOUS
  <2> QED BY <1>1, <1>2, <2>1, <2>2
<1>4. OperatorsFor(language) \subseteq Catalogue[language]
  BY DEF OperatorsFor
<1> QED BY <1>3, <1>4

\* No edit that is proposed of a file reaches into a comment or a literal, or changes nothing.
LEMMA NoneMisplaced ==
  ASSUME NEW f \in DOMAIN Proposed, NEW p \in Proposed[f]
  PROVE  /\ p.edit.start \in Nat /\ p.edit.end \in Nat /\ Rank(p.edit.operator) \in Nat
         /\ Mutated(Source[f].text, p.edit) # Source[f].text
         /\ ~(Quoted(Source[f], p.edit) /\ LexedTo(Source[f], p.edit.end))
<1> DEFINE source == Source[f]
           symbols == source.text
           mask == CodeMask(symbols)
           T == Vocabulary \cup ToSet(symbols)
           e == p.edit
           operators == OperatorsFor(LanguageOf[f])
<1>1. f \in File /\ LanguageOf[f] \in Language /\ Proposed[f] = Proposals(symbols, operators)
  BY ChangeAssumption DEF Proposed
<1>2. symbols \in Seq(T)
  <2>1. symbols \in Seq(ToSet(symbols))
    BY <1>1, ChangeAssumption, Zenon
  <2> DEFINE S == ToSet(symbols)
  <2>2. symbols \in Seq(S) /\ S \subseteq T
    BY <2>1
  <2> HIDE DEF S, T, symbols
  <2> QED BY <2>2
<1>3. Vocabulary \subseteq T
  OBVIOUS
<1>4. PICK operator \in operators : e \in Edits(operator, symbols, mask)
  BY <1>1 DEF Proposals
<1>5. operator \in ToSet(Operators)
  BY <1>1, <1>4, CatalogueIs
<1> HIDE DEF T
<1>6. Sound(T, source, mask, operator, e)
  <2>1. mask \subseteq DOMAIN symbols
    BY MaskInText
  <2> QED BY <1>2, <1>3, <1>4, <2>1, EditsSound, Zenon
<1>7. Proper(T, symbols, e) /\ e.operator = operator
  BY <1>6 DEF Sound
<1>8. e.start \in Nat /\ e.end \in Nat
  <2>1. e.start \in 1..(Len(symbols) + 1) /\ e.end \in e.start..(Len(symbols) + 1) /\ Len(symbols) \in Nat
    BY <1>2, <1>7 DEF Proper
  <2> QED BY <2>1
<1>9. Mutated(symbols, e) # symbols
  BY <1>2, <1>7, ProperChanges, Zenon
<1>10. ASSUME LexedTo(source, e.end) PROVE ~Quoted(source, e)
  <2>0. \A k \in mask : k \in DOMAIN symbols
    BY MaskInText
  <2>1. Exact(source, mask, e.end)
    BY <1>2, <1>8, <1>10, <2>0, MaskIsExact, Zenon DEF Exact
  <2>2. Among(CodeOf(source), e)
    BY <1>6, <2>1, Zenon DEF Sound
  <2> QED BY <1>8, <2>2, AmongCode, Zenon
<1>11. Rank(e.operator) \in Nat
  BY <1>5, <1>7, RankIs, Zenon
<1> QED BY <1>8, <1>9, <1>10, <1>11, Zenon

\* So no file has one.
LEMMA MisplacedIs ==
  ASSUME NEW f \in DOMAIN Proposed
  PROVE  Misplaced[f] = {}
<1>1. Misplaced[f] = {p.edit : p \in {q \in Proposed[f] :
        \/ Mutated(Source[f].text, q.edit) = Source[f].text
        \/ Quoted(Source[f], q.edit) /\ LexedTo(Source[f], q.edit.end)}}
  BY Zenon DEF Misplaced
<1>2. {q \in Proposed[f] :
        \/ Mutated(Source[f].text, q.edit) = Source[f].text
        \/ Quoted(Source[f], q.edit) /\ LexedTo(Source[f], q.edit.end)} = {}
  BY NoneMisplaced, Zenon
<1> QED BY <1>1, <1>2

\* The edits proposed of a file.
EditsOf(f) == {p.edit : p \in Proposed[f]}

\* The edits of every file that may be planned.
Planned == UNION {{[path |-> f, edit |-> e] : e \in EditsOf(f)} : f \in DOMAIN Proposed}

\* The first of some edits of a file is one of them.
LEMMA FirstOfFile ==
  ASSUME NEW f \in DOMAIN Proposed, NEW S \in SUBSET EditsOf(f), S # {}
  PROVE  First(S) \in S
<1>1. \A e \in S : e.start \in Nat /\ e.end \in Nat /\ Rank(e.operator) \in Nat
  <2>1. ASSUME NEW e \in S PROVE e.start \in Nat /\ e.end \in Nat /\ Rank(e.operator) \in Nat
    <3>1. PICK p \in Proposed[f] : p.edit = e
      BY DEF EditsOf
    <3> QED BY <3>1, NoneMisplaced, Zenon
  <2> QED BY <2>1, Zenon
<1> QED BY <1>1, FirstIs, Zenon

\* A file's mutants are proposed edits.
LEMMA EditsPlanned ==
  ASSUME NEW f \in DOMAIN Proposed, NEW lines, NEW limit \in Nat
  PROVE  ByEdits(SourceMutants(f, Proposed[f], lines, limit), f, EditsOf(f), limit)
<1>1. \A p \in Proposed[f] : p.edit \in EditsOf(f)
  BY DEF EditsOf
<1>2. \A S \in SUBSET EditsOf(f) : S # {} => First(S) \in S
  BY FirstOfFile, Zenon
<1> QED BY <1>1, <1>2, SourceMutantsAre

\* What is planned of one file, when so many more are allowed.
LEMMA FileMutants ==
  ASSUME NEW f \in DOMAIN Proposed, NEW lines, NEW limit \in Nat,
         NEW m, m = SourceMutants(f, Proposed[f], lines, limit)
  PROVE  /\ m \in Seq(Planned) /\ Once(m) /\ Len(m) <= limit
         /\ \A i \in DOMAIN m : m[i].path = f
<1>1. PICK b \in Seq(EditsOf(f)) :
        /\ Once(b) /\ Len(b) <= limit
        /\ m = [k \in DOMAIN b |-> [path |-> f, edit |-> b[k]]]
  <2>1. ByEdits(m, f, EditsOf(f), limit)
    BY EditsPlanned, Zenon
  <2> QED BY <2>1, Zenon DEF ByEdits
<1>2. Len(b) \in Nat /\ DOMAIN b = 1..Len(b) /\ \A k \in 1..Len(b) : b[k] \in EditsOf(f)
  BY <1>1
<1>3. \A k \in 1..Len(b) : [path |-> f, edit |-> b[k]] \in Planned
  <2>1. ASSUME NEW e \in EditsOf(f) PROVE [path |-> f, edit |-> e] \in Planned
    <3>1. [path |-> f, edit |-> e] \in {[path |-> f, edit |-> d] : d \in EditsOf(f)}
      OBVIOUS
    <3> QED BY <3>1, Zenon DEF Planned
  <2> QED BY <1>2, <2>1
<1>4. m \in Seq(Planned) /\ Len(m) = Len(b)
  <2> DEFINE n == Len(b)
  <2>1. n \in Nat /\ m = [k \in 1..n |-> [path |-> f, edit |-> b[k]]]
    BY <1>1, <1>2, Zenon
  <2>2. \A k \in 1..n : m[k] \in Planned
    BY <1>3, <2>1
  <2>3. m \in [1..n -> Planned]
    BY <2>1, <2>2
  <2> HIDE DEF n
  <2>4. m \in Seq(Planned)
    BY <2>1, <2>3, SeqDef
  <2>5. DOMAIN m = 1..n
    BY <2>1
  <2>6. Len(m) = n
    BY <2>1, <2>4, <2>5
  <2> QED BY <2>4, <2>6 DEF n
<1>5. \A i \in DOMAIN m : i \in DOMAIN b /\ m[i].path = f /\ m[i].edit = b[i]
  BY <1>1
<1>6. Once(m)
  BY <1>1, <1>5 DEF Once
<1> QED BY <1>1, <1>4, <1>5, <1>6

\* The files are in order, each once.
LEMMA FilesAre ==
  /\ Len(Files) \in Nat /\ DOMAIN Files = 1..Len(Files) /\ MaxMutants \in Nat
  /\ \A i, j \in DOMAIN Files : Files[i] = Files[j] => i = j
BY ChangeAssumption

\* A whole plan is one of proposed edits, none twice, up to the ceiling.
LEMMA PlannedIs ==
  ASSUME NEW diff
  PROVE  /\ PlannedOf(diff, Files) \in Seq(Planned)
         /\ Once(PlannedOf(diff, Files))
         /\ Len(PlannedOf(diff, Files)) <= MaxMutants
<1> DEFINE n == Len(Files)
           V == {b \in Seq(Planned) : Len(b) <= MaxMutants}
           More(k, b) == SourceMutants(Files[k], Proposed[Files[k]], diff[Files[k]], MaxMutants - Len(b))
           Go(k, b) == IF Files[k] \notin DOMAIN Proposed THEN b ELSE b \o More(k, b)
           step == [k \in 1..n |-> [b \in V |-> Go(k, b)]]
<1>1. n \in Nat /\ DOMAIN Files = 1..n
  BY FilesAre
<1>2. ASSUME NEW k, NEW b \in V, Files[k] \in DOMAIN Proposed
      PROVE  /\ More(k, b) \in Seq(Planned) /\ Once(More(k, b))
             /\ Len(More(k, b)) <= MaxMutants - Len(b) /\ MaxMutants - Len(b) \in Nat
             /\ \A i \in DOMAIN More(k, b) : More(k, b)[i].path = Files[k]
  <2>1. MaxMutants - Len(b) \in Nat
    BY FilesAre
  <2> DEFINE left == MaxMutants - Len(b)
             here == Files[k]
             lines == diff[Files[k]]
             m == More(k, b)
  <2>2. m = SourceMutants(here, Proposed[here], lines, left)
    OBVIOUS
  <2>3. left \in Nat /\ here \in DOMAIN Proposed
    BY <1>2, <2>1
  <2> HIDE DEF left, here, lines, m
  <2>4. /\ m \in Seq(Planned) /\ Once(m) /\ Len(m) <= left
        /\ \A i \in DOMAIN m : m[i].path = here
    BY <2>2, <2>3, FileMutants
  <2> QED BY <2>3, <2>4, Zenon DEF m, left, here
<1> HIDE DEF More
<1>3. ASSUME NEW k, NEW b \in V PROVE Go(k, b) \in V
  <2>1. CASE Files[k] \notin DOMAIN Proposed
    BY <2>1
  <2>2. CASE Files[k] \in DOMAIN Proposed
    <3> DEFINE m == More(k, b)
    <3>1. m \in Seq(Planned) /\ Len(m) <= MaxMutants - Len(b) /\ b \in Seq(Planned)
      BY <1>2, <2>2
    <3> HIDE DEF m
    <3>2. b \o m \in Seq(Planned) /\ Len(b \o m) = Len(b) + Len(m) /\ Len(b) \in Nat /\ Len(m) \in Nat
      BY <3>1
    <3>3. b \o m \in V
      BY <3>1, <3>2, FilesAre
    <3> QED BY <2>2, <3>3 DEF m
  <2> QED BY <2>1, <2>2
<1> HIDE DEF Go
<1>4. step \in [1..n -> [V -> V]]
  BY <1>3
<1>5. << >> \in V
  BY FilesAre
<1> HIDE DEF step, V, n
<1>6. PICK f : Iterates(f, V, << >>, n, step)
  BY <1>1, <1>4, <1>5, Recursion
<1>7. f \in [0..n -> V] /\ f[0] = << >> /\ \A k \in 1..n : f[k] = Go(k, f[k - 1])
  <2>1. f \in [0..n -> V] /\ f[0] = << >> /\ \A k \in 1..n : f[k] = step[k][f[k - 1]]
    BY <1>6 DEF Iterates
  <2>2. ASSUME NEW k \in 1..n PROVE f[k] = Go(k, f[k - 1])
    <3>1. k - 1 \in 0..n /\ f[k - 1] \in V
      BY <1>1, <2>1
    <3> QED BY <2>1, <3>1 DEF step
  <2> QED BY <2>1, <2>2
<1> DEFINE all == CHOOSE g : g = [k \in 0..n |-> IF k = 0 THEN << >> ELSE Go(k, g[k - 1])]
<1>8. f = [k \in 0..n |-> IF k = 0 THEN << >> ELSE Go(k, f[k - 1])]
  BY <1>1, <1>7
<1>9. all = [k \in 0..n |-> IF k = 0 THEN << >> ELSE Go(k, all[k - 1])]
  BY <1>8, Zenon
<1>10. PlannedOf(diff, Files) = all[n]
  BY Zenon DEF PlannedOf, Go, More, n
<1> HIDE DEF all
<1>11. all[0] = << >> /\ \A k \in 1..n : all[k] = Go(k, all[k - 1])
  BY <1>1, <1>9
<1> DEFINE Good(k) == /\ all[k] \in V /\ Once(all[k])
                      /\ \A i \in DOMAIN all[k] : \E j \in 1..k : all[k][i].path = Files[j]
           Bad == {k \in 0..n : ~Good(k)}
<1>12. Good(0)
  <2>1. DOMAIN << >> = {}
    OBVIOUS
  <2>2. Once(<< >>)
    BY <2>1 DEF Once
  <2> QED BY <1>5, <1>11, <2>1, <2>2
<1>13. ASSUME NEW k \in 1..n, Good(k - 1) PROVE Good(k)
  <2> DEFINE b == all[k - 1]
             m == More(k, b)
  <2>1. all[k] = Go(k, b)
    BY <1>11
  <2>2. b \in V /\ Once(b) /\ \A i \in DOMAIN b : \E j \in 1..(k - 1) : b[i].path = Files[j]
    BY <1>13
  <2> HIDE DEF b
  <2>3. 1..(k - 1) \subseteq 1..k /\ k \in 1..k /\ k \notin 1..(k - 1) /\ 1..k \subseteq DOMAIN Files
    BY <1>1
  <2>4. CASE Files[k] \notin DOMAIN Proposed
    <3>1. all[k] = b
      BY <2>1, <2>4 DEF Go
    <3> QED BY <2>2, <2>3, <3>1
  <2>5. CASE Files[k] \in DOMAIN Proposed
    <3>1. m \in Seq(Planned) /\ Once(m) /\ \A i \in DOMAIN m : m[i].path = Files[k]
      BY <1>2, <2>2, <2>5
    <3>2. all[k] = b \o m /\ all[k] \in V
      BY <1>3, <2>1, <2>2, <2>5 DEF Go
    <3> HIDE DEF m
    <3>3. \A i \in DOMAIN b : \A j \in DOMAIN m : b[i] # m[j]
      BY <2>2, <2>3, <3>1, FilesAre
    <3>4. b \in Seq(Planned)
      BY <2>2 DEF V
    <3>5. /\ Once(b \o m)
          /\ \A i \in DOMAIN (b \o m) : \/ \E j \in DOMAIN b : (b \o m)[i] = b[j]
                                        \/ \E j \in DOMAIN m : (b \o m)[i] = m[j]
      <4>1. b \in Seq(Planned) /\ m \in Seq(Planned) /\ Once(b) /\ Once(m)
        BY <2>2, <3>1, <3>4
      <4> QED BY <3>3, <4>1, BehindOnce
    <3> DEFINE c == b \o m
    <3>6. \A i \in DOMAIN c : \/ \E j \in DOMAIN b : c[i] = b[j]
                              \/ \E j \in DOMAIN m : c[i] = m[j]
      BY <3>5
    <3> HIDE DEF c
    <3>7. \A i \in DOMAIN c : \E j \in 1..k : c[i].path = Files[j]
      BY <2>2, <2>3, <3>1, <3>6
    <3>8. all[k] = c
      BY <3>2 DEF c
    <3> QED BY <3>2, <3>5, <3>7, <3>8, Zenon DEF c
  <2> QED BY <2>4, <2>5
<1>14. Bad = {}
  <2> SUFFICES ASSUME Bad # {} PROVE FALSE
    OBVIOUS
  <2> HIDE DEF Good
  <2>1. PICK m \in Bad : \A l \in Bad : m <= l
    <3>1. Bad \in SUBSET Nat
      OBVIOUS
    <3> QED BY <3>1, LeastNumber
  <2>2. m # 0
    BY <1>12
  <2>3. m \in 1..n /\ m - 1 \in 0..n /\ ~(m <= m - 1)
    BY <1>1, <2>1, <2>2
  <2>4. Good(m - 1)
    <3>1. m - 1 \notin Bad
      <4> HIDE DEF Bad
      <4> QED BY <2>1, <2>3
    <3> QED BY <2>3, <3>1
  <2> QED BY <1>13, <2>1, <2>3, <2>4
<1>15. n \in 0..n
  BY <1>1
<1>16. all[n] \in V /\ Once(all[n])
  BY <1>14, <1>15
<1> QED BY <1>10, <1>16, Zenon DEF V

\* What a plan is assumed to be, is what is planned for a change.
THEOREM PlansAreSound ==
  ASSUME NEW planned \in PlansOfChange
  PROVE  /\ planned.mutants \in Seq(Planned) /\ Once(planned.mutants)
         /\ planned.mutants \in Seq({planned.mutants[i] : i \in DOMAIN planned.mutants})
         /\ \A i \in DOMAIN planned.mutants : planned.mutants[i].path \in File
<1>1. PICK diff \in Diffs : planned.mutants = PlannedOf(diff, Files)
  BY DEF PlansOfChange
<1>2. planned.mutants \in Seq(Planned) /\ Once(planned.mutants)
  BY <1>1, PlannedIs, Zenon
<1>3. planned.mutants \in Seq({planned.mutants[i] : i \in DOMAIN planned.mutants})
  BY <1>2, SequenceOf DEF IsSequence, Range
<1>4. \A x \in Planned : x.path \in File
  <2>1. DOMAIN Proposed \subseteq File
    BY ChangeAssumption DEF Proposed
  <2> QED BY <2>1 DEF Planned
<1>5. \A i \in DOMAIN planned.mutants : planned.mutants[i].path \in File
  BY <1>2, <1>4
<1> QED BY <1>2, <1>3, <1>5, Zenon

\* What is planned in a run is planned of proposed edits, once and for all.
LEMMA ChosenStep ==
  ASSUME mutants \in Seq(Planned), [Next]_vars
  PROVE  mutants' \in Seq(Planned)
<1>1. CASE Plan
  <2>1. PICK planned \in Plans : mutants' = planned.mutants
    BY <1>1 DEF Plan
  <2>2. planned \in PlansOfChange
    BY <2>1, PlansOfChangeAssumption
  <2> QED BY <2>1, <2>2, PlansAreSound, Zenon
<1>2. CASE SuiteFailed
  BY <1>2 DEF SuiteFailed, plan
<1>3. CASE Copy
  BY <1>3 DEF Copy, plan
<1>4. CASE Apply \/ SourceChanged \/ SkipUnowned
  BY <1>4 DEF Apply, SourceChanged, SkipUnowned, Turn, plan
<1>5. CASE OutOfTime \/ Exhausted
  BY <1>5 DEF OutOfTime, Exhausted, Stop, plan
<1>6. CASE \E o \in Obligation : Judge(o)
  BY <1>6 DEF Judge, plan
<1>7. CASE Restore \/ Count
  BY <1>7 DEF Restore, Count, plan
<1>8. CASE Edit \/ Cancel \/ Finish \/ Done \/ UNCHANGED vars
  BY <1>8 DEF Edit, Cancel, Finish, Done, vars, plan
<1> QED BY <1>1, <1>2, <1>3, <1>4, <1>5, <1>6, <1>7, <1>8 DEF Next

\* Whatever the change, the mutants of a run are edits the operators propose of its
\* files (execute_source_mutation, plan_source_mutants).
LEMMA MutantsArePlanned == Spec => [](mutants \in Seq(Planned))
<1>1. Init => mutants \in Seq(Planned)
  BY DEF Init
<1>2. mutants \in Seq(Planned) /\ [Next]_vars => (mutants \in Seq(Planned))'
  BY ChosenStep
<1> QED BY <1>1, <1>2, PTL DEF Spec

\* Whatever the sources, the change and the hints: every stored decision is about an edit
\* that changes the text, and it reaches into no comment or literal unless a lexeme the mask
\* is not meant for stands before it (a Rust lifetime, a quote in a regular expression, a raw
\* string that ends in a backslash).
THEOREM DecisionsAreAboutCode == Spec => []MutantsAreCode
<1>1. IInv /\ mutants \in Seq(Planned) => MutantsAreCode
  <2> SUFFICES ASSUME IInv, mutants \in Seq(Planned), pc = "stored", NEW r \in document.results
               PROVE  r.mutant.edit \notin Misplaced[r.mutant.path]
    BY DEF MutantsAreCode
  <2>1. r \in results
    BY DEF IInv, DocumentInv, Doc
  <2>2. PICK i \in DOMAIN mutants : r.mutant = mutants[i]
    BY <2>1 DEF IInv, EarnedInv, OfTurn
  <2>3. r.mutant \in Planned
    BY <2>2
  <2>4. r.mutant.path \in DOMAIN Proposed
    BY <2>3 DEF Planned
  <2> QED BY <2>4, MisplacedIs
<1> QED BY <1>1, MutantsArePlanned, MutationInvariant, PTL
=============================================================================
