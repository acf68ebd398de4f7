------------------------- MODULE TestProgramsProofs -------------------------
(***************************************************************************)
(* Proofs about TestPrograms, for any number of authors, previews and      *)
(* repository contents.                                                    *)
(*                                                                         *)
(* The invariant is proved in three parts, each from the types and the     *)
(* parts before it: what a command knows of the tables (LocalInv), the     *)
(* tables themselves (ProgramsInv) and, as long as edits never restore an  *)
(* earlier content, the order of the revisions a command read (TimeInv).   *)
(***************************************************************************)
EXTENDS TestPrograms, TLAPS

\* The constants give values to the initial local state.
LEMMA InitialValues ==
  /\ 0 \in Revision /\ NoBody \in Body /\ <<0, 0>> \in OracleSeal
  /\ \A c, k \in Revision : Seal(c, k) \in OracleSeal
<1>1. 0 \in Revision
  BY ConstantsAssumption DEF ConstantsAssumption, Revision
<1>2. NoBody \in Body
  <2>1. PICK x \in Asserts, l \in Locators : TRUE
    BY ConstantsAssumption DEF ConstantsAssumption
  <2>2. [asserts |-> x, locators |-> l] \in Body
    BY DEF Body
  <2> QED BY <2>2 DEF NoBody
<1>3. <<0, 0>> \in OracleSeal
  BY DEF OracleSeal
<1>4. \A c, k \in Revision : Seal(c, k) \in OracleSeal
  BY ConstantsAssumption DEF ConstantsAssumption, Seal, OracleSeal
<1> QED BY <1>1, <1>2, <1>3, <1>4

\* Returning clears the local state.
LEMMA ReturnEffect ==
  ASSUME TypeOK, NEW a \in Author, Return(a)
  PROVE  /\ at'[a] = "idle" /\ doing'[a] = "preview" /\ base'[a] = 0
         /\ \A b \in Author : b # a =>
              /\ at'[b] = at[b] /\ doing'[b] = doing[b] /\ oracle'[b] = oracle[b]
              /\ before'[b] = before[b] /\ mark'[b] = mark[b] /\ base'[b] = base[b]
              /\ body'[b] = body[b] /\ passed'[b] = passed[b]
              /\ saw'[b] = saw[b] /\ ticket'[b] = ticket[b]
BY DEF TypeOK, Return

\* The local variables keep their types.
LocalType ==
  /\ at \in [Author -> {"idle", "compiled", "pinned", "read", "sealed",
                        "played", "recorded"}]
  /\ doing \in [Author -> {"preview", "promote", "heal"}]
  /\ oracle \in [Author -> Revision]
  /\ before \in [Author -> Revision]
  /\ mark \in [Author -> OracleSeal]
  /\ base \in [Author -> Nat]
  /\ body \in [Author -> Body]
  /\ passed \in [Author -> BOOLEAN]
  /\ saw \in [Author -> Revision]
  /\ ticket \in [Author -> Nat]

LEMMA ReturnType ==
  ASSUME TypeOK, NEW a \in Author, Return(a)
  PROVE  LocalType'
BY InitialValues DEF TypeOK, Return, LocalType

\* The two rows written are rows.
LEMMA RowType ==
  ASSUME TypeOK, NEW a \in Author
  PROVE  PreviewOf(a) \in PreviewRow /\ Row(a) \in ProgramRow
BY DEF TypeOK, PreviewOf, Row, PreviewRow, ProgramRow

\* Admitting a preview appends one row, which cites it, and marks it.
LEMMA AdmitEffect ==
  ASSUME TypeOK, NEW a \in Author, NEW n \in Nat, Admissible(a), Admit(a, n)
  PROVE  /\ n = Len(programs) + 1 /\ n = Len(programs') /\ programs'[n] = Row(a)
         /\ programs' \in Seq(ProgramRow)
         /\ \A m \in 1..Len(programs) : programs'[m] = programs[m]
         /\ ticket[a] \in 1..Len(previews)
         /\ Len(previews') = Len(previews) /\ previews' \in Seq(PreviewRow)
         /\ \A i \in 1..Len(previews) : i # ticket[a] => previews'[i] = previews[i]
         /\ LET i == ticket[a]
            IN  /\ previews'[i].admitted = n
                /\ previews'[i].rev = previews[i].rev
                /\ previews'[i].seal = previews[i].seal
                /\ previews'[i].body = previews[i].body
                /\ previews'[i].passed = previews[i].passed
                /\ previews'[i].saw = previews[i].saw
<1> DEFINE i == ticket[a]
           p == previews[i]
           q == [rev |-> p.rev, seal |-> p.seal, body |-> p.body,
                 passed |-> p.passed, saw |-> p.saw, admitted |-> n]
<1>1. i \in 1..Len(previews) /\ n = Len(programs) + 1
  BY DEF Admissible, Admit
<1>2. p \in PreviewRow
  BY <1>1 DEF TypeOK
<1>3. q \in PreviewRow
  BY <1>2 DEF PreviewRow
<1>4. programs' = Append(programs, Row(a)) /\ previews' = [previews EXCEPT ![i] = q]
  BY DEF Admit
<1>5. /\ n = Len(programs') /\ programs'[n] = Row(a) /\ programs' \in Seq(ProgramRow)
      /\ \A m \in 1..Len(programs) : programs'[m] = programs[m]
  BY <1>1, <1>4, RowType DEF TypeOK
<1>6. /\ q.admitted = n /\ q.rev = p.rev /\ q.seal = p.seal /\ q.body = p.body
      /\ q.passed = p.passed /\ q.saw = p.saw
  OBVIOUS
<1> HIDE DEF q
<1>7. /\ Len(previews') = Len(previews) /\ previews' \in Seq(PreviewRow)
      /\ previews'[i] = q
      /\ \A j \in 1..Len(previews) : j # i => previews'[j] = previews[j]
  BY <1>1, <1>3, <1>4 DEF TypeOK
<1> QED BY <1>1, <1>5, <1>6, <1>7
\* A heal that passed goes on with its preview; other commands end there.
Continue(a) ==
  /\ doing[a] = "heal" /\ passed[a]
  /\ at' = [at EXCEPT ![a] = "recorded"]
  /\ ticket' = [ticket EXCEPT ![a] = Len(previews) + 1]
  /\ UNCHANGED <<doing, oracle, before, mark, base, body, passed, saw>>

LEMMA PutPreviewEnds ==
  ASSUME NEW a \in Author, PutPreview(a) PROVE Return(a) \/ Continue(a)
<1>1. CASE doing[a] = "heal" /\ passed[a]
  BY <1>1 DEF PutPreview, Continue
<1>2. CASE ~(doing[a] = "heal" /\ passed[a])
  <2>1. IF doing[a] = "heal" /\ passed[a]
        THEN /\ at' = [at EXCEPT ![a] = "recorded"]
             /\ ticket' = [ticket EXCEPT ![a] = Len(previews) + 1]
             /\ UNCHANGED <<doing, oracle, before, mark, base, body, passed, saw>>
        ELSE Return(a)
    BY DEF PutPreview
  <2> QED BY <1>2, <2>1, Zenon
<1> QED BY <1>1, <1>2
-----------------------------------------------------------------------------
(* Types. *)

LEMMA TypeInit == Init => TypeOK
BY InitialValues, ConstantsAssumption DEF Init, TypeOK, ConstantsAssumption

LEMMA TypeStep == TypeOK /\ LocalInv /\ [Next]_vars => TypeOK'
<1> SUFFICES ASSUME TypeOK, LocalInv, [Next]_vars PROVE TypeOK'
  OBVIOUS
<1>1. CASE Edit
  BY <1>1 DEF TypeOK, Edit, tables, local
<1>2. ASSUME NEW a \in Author, NEW d \in {"preview", "promote", "heal"},
             NEW b \in Body, NEW i \in Nat, Compile(a, d, b, i)
      PROVE  TypeOK'
  BY <1>2 DEF TypeOK, Compile, Move, tables
<1>3. ASSUME NEW a \in Author, Pin(a) PROVE TypeOK'
  BY <1>3 DEF TypeOK, Pin, Move, tables
<1>4. ASSUME NEW a \in Author, ReadLatest(a) PROVE TypeOK'
  BY <1>4 DEF TypeOK, ReadLatest, Move, tables
<1>5. ASSUME NEW a \in Author, SealCandidate(a) PROVE TypeOK'
  <2>1. /\ mark' \in [Author -> OracleSeal]
        /\ at' = [at EXCEPT ![a] = "sealed"]
        /\ UNCHANGED <<tree, previews, programs, doing, oracle, before, base,
                       passed, saw, ticket>>
    BY <1>5, InitialValues DEF TypeOK, SealCandidate, Move, tables
  <2>2. body' \in [Author -> Body]
    <3>1. CASE UNCHANGED body
      BY <3>1 DEF TypeOK
    <3>2. CASE at[a] = "read" /\ \E l \in Locators :
             body' = [body EXCEPT ![a] =
               [asserts |-> programs[base[a]].body.asserts, locators |-> l]]
      <4>1. programs[base[a]] \in ProgramRow
        BY <3>2 DEF LocalInv, TypeOK
      <4>2. programs[base[a]].body.asserts \in Asserts
        BY <4>1 DEF ProgramRow, Body
      <4>3. PICK l \in Locators :
             body' = [body EXCEPT ![a] =
               [asserts |-> programs[base[a]].body.asserts, locators |-> l]]
        BY <3>2
      <4>4. [asserts |-> programs[base[a]].body.asserts, locators |-> l] \in Body
        BY <4>2 DEF Body
      <4> QED BY <4>3, <4>4 DEF TypeOK
    <3> QED BY <1>5, <3>1, <3>2 DEF SealCandidate, Move
  <2> QED BY <2>1, <2>2 DEF TypeOK
<1>6. ASSUME NEW a \in Author, Play(a) PROVE TypeOK'
  BY <1>6 DEF TypeOK, Play, Move, tables
<1>7. ASSUME NEW a \in Author, PutPreview(a) PROVE TypeOK'
  <2>1. /\ previews' = Append(previews, PreviewOf(a)) /\ Len(previews) < MaxPreviews
        /\ UNCHANGED <<tree, programs>>
    BY <1>7 DEF PutPreview
  <2>2. previews' \in Seq(PreviewRow) /\ Len(previews') <= MaxPreviews
    BY <2>1, RowType, ConstantsAssumption DEF TypeOK, ConstantsAssumption
  <2>3. LocalType'
    <3>1. CASE Return(a)
      BY <3>1, ReturnType
    <3>2. CASE Continue(a)
      BY <3>2 DEF Continue, TypeOK, LocalType
    <3> QED BY <1>7, <3>1, <3>2, PutPreviewEnds
  <2> QED BY <2>1, <2>2, <2>3 DEF TypeOK, LocalType
<1>8. ASSUME NEW a \in Author, Promote(a) \/ Heal(a) PROVE TypeOK'
  <2>1. PICK n \in Nat : Admissible(a) /\ Admit(a, n) /\ Return(a) /\ UNCHANGED tree
    BY <1>8 DEF Promote, Heal, TypeOK
  <2> QED BY <2>1, AdmitEffect, ReturnType DEF TypeOK, LocalType
<1>9. ASSUME NEW a \in Author, Leave(a) PROVE TypeOK'
  BY <1>9, ReturnType DEF TypeOK, LocalType, Leave, tables
<1>10. CASE UNCHANGED vars
  BY <1>10 DEF TypeOK, vars, tables, local
<1> QED
  BY <1>1, <1>2, <1>3, <1>4, <1>5, <1>6, <1>7, <1>8, <1>9, <1>10, InitialValues
  DEF Next
-----------------------------------------------------------------------------
(* What a command knows of the tables. *)

\* Rows are only appended, to either table.
LEMMA TablesGrow ==
  ASSUME TypeOK, [Next]_vars
  PROVE  /\ \A n \in 1..Len(programs) : n \in 1..Len(programs') /\ programs'[n] = programs[n]
         /\ \A i \in 1..Len(previews) :
              /\ i \in 1..Len(previews')
              /\ previews'[i].rev = previews[i].rev
<1>1. ASSUME NEW a \in Author, Promote(a) \/ Heal(a)
      PROVE  /\ \A n \in 1..Len(programs) : n \in 1..Len(programs') /\ programs'[n] = programs[n]
             /\ \A i \in 1..Len(previews) :
                  i \in 1..Len(previews') /\ previews'[i].rev = previews[i].rev
  <2>1. PICK n \in Nat : Admissible(a) /\ Admit(a, n)
    BY <1>1 DEF Promote, Heal, TypeOK
  <2>2. /\ n = Len(programs) + 1 /\ n = Len(programs')
        /\ \A m \in 1..Len(programs) : programs'[m] = programs[m]
        /\ Len(previews') = Len(previews)
        /\ \A i \in 1..Len(previews) : i # ticket[a] => previews'[i] = previews[i]
        /\ previews'[ticket[a]].rev = previews[ticket[a]].rev
    BY <2>1, AdmitEffect
  <2>3. \A i \in 1..Len(previews) : previews'[i].rev = previews[i].rev
    BY <2>2
  <2> QED BY <2>2, <2>3 DEF TypeOK
<1>2. ASSUME NEW a \in Author, PutPreview(a)
      PROVE  UNCHANGED programs /\ \A i \in 1..Len(previews) :
               i \in 1..Len(previews') /\ previews'[i].rev = previews[i].rev
  <2>1. UNCHANGED programs /\ previews' = Append(previews, PreviewOf(a))
    BY <1>2 DEF PutPreview
  <2> QED BY <2>1 DEF TypeOK
<1>3. \/ UNCHANGED <<previews, programs>>
      \/ \E a \in Author : Promote(a) \/ Heal(a) \/ PutPreview(a)
  BY DEF Next, vars, tables, Edit, Compile, Pin, ReadLatest, SealCandidate, Play, Leave
<1> QED BY <1>1, <1>2, <1>3

\* One command's part of LocalInv.
Knows(a) ==
  /\ at[a] = "idle" \/ doing[a] # "heal" => base[a] = 0
  /\ at[a] = "read" => doing[a] = "heal" /\ base[a] \in 1..Len(programs)
  /\ at[a] \in {"sealed", "played", "recorded"} /\ doing[a] = "heal" =>
       /\ base[a] \in 1..Len(programs)
       /\ body[a].asserts = programs[base[a]].body.asserts
  /\ at[a] = "recorded" => doing[a] = "heal"

LEMMA LocalIsKnows == LocalInv <=> \A a \in Author : Knows(a)
BY DEF LocalInv, Knows

\* What a command that does not move knows stays true.
LEMMA KnowsKept ==
  ASSUME TypeOK, [Next]_vars, NEW a \in Author, Knows(a),
         at'[a] = at[a], doing'[a] = doing[a], base'[a] = base[a], body'[a] = body[a]
  PROVE  Knows(a)'
BY TablesGrow DEF Knows

LEMMA LocalStep == TypeOK /\ LocalInv /\ [Next]_vars => LocalInv'
<1> SUFFICES ASSUME TypeOK, LocalInv, [Next]_vars, NEW b \in Author PROVE Knows(b)'
  BY DEF LocalInv, Knows
<1>0. Knows(b)
  BY LocalIsKnows
<1>1. CASE Edit
  BY <1>0, <1>1, KnowsKept DEF Edit, tables, local
<1>2. ASSUME NEW a \in Author, NEW d \in {"preview", "promote", "heal"},
             NEW x \in Body, NEW i \in Nat, Compile(a, d, x, i)
      PROVE  Knows(b)'
  <2>1. CASE b = a
    BY <1>0, <1>2, <2>1 DEF TypeOK, Compile, Move, tables, Knows
  <2>2. CASE b # a
    BY <1>0, <1>2, <2>2, KnowsKept DEF TypeOK, Compile, Move
  <2> QED BY <2>1, <2>2
<1>3. ASSUME NEW a \in Author, Pin(a) PROVE Knows(b)'
  <2>1. CASE b = a
    BY <1>0, <1>3, <2>1 DEF TypeOK, Pin, Move, tables, Knows
  <2>2. CASE b # a
    BY <1>0, <1>3, <2>2, KnowsKept DEF TypeOK, Pin, Move
  <2> QED BY <2>1, <2>2
<1>4. ASSUME NEW a \in Author, ReadLatest(a) PROVE Knows(b)'
  <2>1. CASE b = a
    <3>1. Len(programs) \in 1..Len(programs)
      BY <1>4 DEF ReadLatest, TypeOK
    <3> QED BY <1>0, <1>4, <2>1, <3>1 DEF TypeOK, ReadLatest, Move, tables, Knows
  <2>2. CASE b # a
    BY <1>0, <1>4, <2>2, KnowsKept DEF TypeOK, ReadLatest, Move
  <2> QED BY <2>1, <2>2
<1>5. ASSUME NEW a \in Author, SealCandidate(a) PROVE Knows(b)'
  <2>0. /\ at' = [at EXCEPT ![a] = "sealed"] /\ UNCHANGED <<programs, doing, base>>
    BY <1>5 DEF SealCandidate, Move, tables
  <2>1. CASE b = a /\ doing[a] # "heal"
    BY <1>0, <2>0, <2>1 DEF TypeOK, Knows
  <2>2. CASE b = a /\ doing[a] = "heal"
    <3>1. at[a] = "read" /\ \E l \in Locators :
             body' = [body EXCEPT ![a] =
               [asserts |-> programs[base[a]].body.asserts, locators |-> l]]
      BY <1>5, <2>2 DEF SealCandidate, Move
    <3>2. body'[a].asserts = programs[base[a]].body.asserts
      BY <3>1 DEF TypeOK
    <3> QED BY <1>0, <2>0, <2>2, <3>1, <3>2 DEF TypeOK, Knows
  <2>3. CASE b # a
    <3>1. body'[b] = body[b]
      BY <1>5, <2>3 DEF SealCandidate, TypeOK
    <3> QED BY <1>0, <2>0, <2>3, <3>1, KnowsKept DEF TypeOK
  <2> QED BY <2>1, <2>2, <2>3
<1>6. ASSUME NEW a \in Author, Play(a) PROVE Knows(b)'
  <2>1. CASE b = a
    BY <1>0, <1>6, <2>1 DEF TypeOK, Play, Move, tables, Knows
  <2>2. CASE b # a
    BY <1>0, <1>6, <2>2, KnowsKept DEF TypeOK, Play, Move
  <2> QED BY <2>1, <2>2
<1>7. ASSUME NEW a \in Author, Return(a) PROVE Knows(b)'
  <2>1. CASE b = a
    BY <1>7, <2>1, ReturnEffect DEF Knows
  <2>2. CASE b # a
    BY <1>0, <1>7, <2>2, ReturnEffect, KnowsKept
  <2> QED BY <2>1, <2>2
<1>8. ASSUME NEW a \in Author, PutPreview(a), Continue(a) PROVE Knows(b)'
  <2>1. CASE b = a
    <3>1. /\ at[a] = "played" /\ at'[a] = "recorded" /\ doing[a] = "heal"
          /\ UNCHANGED <<programs, doing, base, body>>
      BY <1>8 DEF PutPreview, Continue, TypeOK
    <3> QED BY <1>0, <2>1, <3>1 DEF Knows
  <2>2. CASE b # a
    BY <1>0, <1>8, <2>2, KnowsKept DEF TypeOK, Continue
  <2> QED BY <2>1, <2>2
<1>9. CASE UNCHANGED vars
  BY <1>0, <1>9, KnowsKept DEF vars, tables, local
<1>10. ASSUME NEW a \in Author, Promote(a) \/ Heal(a) \/ Leave(a) PROVE Return(a)
  BY <1>10 DEF Promote, Heal, Leave
<1> QED
  BY <1>1, <1>2, <1>3, <1>4, <1>5, <1>6, <1>7, <1>8, <1>9, <1>10, InitialValues,
     PutPreviewEnds DEF Next
-----------------------------------------------------------------------------
(* The tables. *)

\* What is said of revision n, and of preview i.
Links(n) ==
  /\ programs[n].from = n - 1
  /\ programs[n].preview \in 1..Len(previews)
  /\ previews[programs[n].preview].admitted = n
  /\ previews[programs[n].preview].passed
  /\ previews[programs[n].preview].body = programs[n].body
  /\ previews[programs[n].preview].rev = programs[n].rev
  /\ n > 1 =>
       /\ programs[n].seal = programs[n - 1].seal
       /\ programs[n].body.asserts = programs[n - 1].body.asserts

Marks(i) ==
  previews[i].admitted # 0 =>
    /\ previews[i].admitted \in 1..Len(programs)
    /\ programs[previews[i].admitted].preview = i

LEMMA ProgramsIsLinks ==
  ProgramsInv <=> /\ \A n \in 1..Len(programs) : Links(n)
                  /\ \A i \in 1..Len(previews) : Marks(i)
BY DEF ProgramsInv, Links, Marks

\* Appending the row of command a and marking its preview keeps the tables in
\* step, when the row repairs the latest revision.
LEMMA AdmitKeeps ==
  ASSUME TypeOK, LocalInv, ProgramsInv, NEW a \in Author, NEW n \in Nat,
         Admissible(a), Admit(a, n), previews[ticket[a]].admitted = 0,
         base[a] = Len(programs),
         base[a] # 0 => /\ programs[Len(programs)].seal = mark[a]
                        /\ body[a].asserts = programs[base[a]].body.asserts
  PROVE  ProgramsInv'
<1> DEFINE i == ticket[a]
<1>1. /\ n = Len(programs) + 1 /\ n = Len(programs') /\ programs'[n] = Row(a)
      /\ \A m \in 1..Len(programs) : programs'[m] = programs[m]
      /\ i \in 1..Len(previews) /\ Len(previews') = Len(previews)
      /\ \A j \in 1..Len(previews) : j # i => previews'[j] = previews[j]
      /\ previews'[i].admitted = n /\ previews'[i].rev = previews[i].rev
      /\ previews'[i].body = previews[i].body /\ previews'[i].passed = previews[i].passed
  BY AdmitEffect
<1>2. previews[i].rev = before[a] /\ previews[i].body = body[a] /\ previews[i].passed
  BY DEF Admissible
<1>3. /\ programs'[n].seal = mark[a] /\ programs'[n].rev = before[a]
      /\ programs'[n].body = body[a] /\ programs'[n].preview = i
      /\ programs'[n].from = n - 1
  BY <1>1 DEF Row, TypeOK
<1>4. Len(programs) \in Nat
  BY DEF TypeOK
<1> HIDE DEF i
<1>5. ASSUME NEW m \in 1..Len(programs) PROVE Links(m)'
  <2>1. Links(m) /\ m \in Nat
    BY ProgramsIsLinks
  <2>2. programs[m].preview # i
    <3>1. previews[programs[m].preview].admitted = m
      BY <2>1 DEF Links
    <3> QED BY <3>1 DEF i
  <2>3. programs'[m] = programs[m] /\ (m > 1 => programs'[m - 1] = programs[m - 1])
    BY <1>1, <1>4
  <2> QED BY <1>1, <2>1, <2>2, <2>3 DEF Links
<1>6. Links(n)'
  <2>1. n > 1 =>
          /\ programs'[n - 1] = programs[n - 1]
          /\ programs'[n].seal = programs'[n - 1].seal
          /\ programs'[n].body.asserts = programs'[n - 1].body.asserts
    BY <1>1, <1>3, <1>4
  <2> QED BY <1>1, <1>2, <1>3, <2>1 DEF Links
<1>7. ASSUME NEW j \in 1..Len(previews) PROVE Marks(j)'
  <2>1. CASE j = i
    BY <1>1, <1>3, <1>4, <2>1 DEF Marks
  <2>2. CASE j # i
    <3>1. Marks(j) /\ previews'[j] = previews[j]
      BY <1>1, <2>2, ProgramsIsLinks
    <3> QED BY <1>1, <1>4, <3>1 DEF Marks
  <2> QED BY <2>1, <2>2
<1>8. \A m \in 1..Len(programs') : Links(m)'
  BY <1>1, <1>4, <1>5, <1>6
<1> QED BY <1>1, <1>7, <1>8 DEF ProgramsInv, Links, Marks

LEMMA ProgramsStep == TypeOK /\ LocalInv /\ ProgramsInv /\ [Next]_vars => ProgramsInv'
<1> SUFFICES ASSUME TypeOK, LocalInv, ProgramsInv, [Next]_vars PROVE ProgramsInv'
  OBVIOUS
<1>1. ASSUME NEW a \in Author, Promote(a) PROVE ProgramsInv'
  <2>1. /\ Admissible(a) /\ Admit(a, 1) /\ previews[ticket[a]].admitted = 0
        /\ programs = << >> /\ doing[a] = "promote"
    BY <1>1 DEF Promote
  <2>2. base[a] = 0 /\ Len(programs) = 0
    BY <2>1 DEF LocalInv
  <2> QED BY <2>1, <2>2, AdmitKeeps
<1>2. ASSUME NEW a \in Author, Heal(a) PROVE ProgramsInv'
  <2>1. /\ Admissible(a) /\ Admit(a, base[a] + 1) /\ previews[ticket[a]].admitted = 0
        /\ at[a] = "recorded" /\ base[a] = Len(programs)
        /\ programs[Len(programs)].seal = mark[a]
    BY <1>2 DEF Heal, UpToDate
  <2>2. body[a].asserts = programs[base[a]].body.asserts /\ base[a] + 1 \in Nat
    BY <2>1 DEF LocalInv, TypeOK
  <2> QED BY <2>1, <2>2, AdmitKeeps
<1>3. ASSUME NEW a \in Author, PutPreview(a) PROVE ProgramsInv'
  <2>1. UNCHANGED programs /\ previews' = Append(previews, PreviewOf(a))
    BY <1>3 DEF PutPreview
  <2>2. /\ Len(previews') = Len(previews) + 1
        /\ previews'[Len(previews) + 1].admitted = 0
        /\ \A i \in 1..Len(previews) : previews'[i] = previews[i]
        /\ Len(previews) \in Nat
    BY <2>1 DEF TypeOK, PreviewOf
  <2>3. ASSUME NEW n \in 1..Len(programs') PROVE Links(n)'
    BY <2>1, <2>2, ProgramsIsLinks DEF Links
  <2>4. ASSUME NEW i \in 1..Len(previews') PROVE Marks(i)'
    <3>1. CASE i = Len(previews) + 1
      BY <2>2, <3>1 DEF Marks
    <3>2. CASE i # Len(previews) + 1
      <4>1. i \in 1..Len(previews) /\ Marks(i)
        BY <2>2, <3>2, ProgramsIsLinks
      <4> QED BY <2>1, <2>2, <4>1 DEF Marks
    <3> QED BY <3>1, <3>2
  <2> QED BY <2>3, <2>4 DEF ProgramsInv, Links, Marks
<1>4. CASE UNCHANGED <<previews, programs>>
  BY <1>4 DEF ProgramsInv
<1>5. \/ UNCHANGED <<previews, programs>>
      \/ \E a \in Author : Promote(a) \/ Heal(a) \/ PutPreview(a)
  BY DEF Next, vars, tables, Edit, Compile, Pin, ReadLatest, SealCandidate, Play, Leave
<1> QED BY <1>1, <1>2, <1>3, <1>4, <1>5
-----------------------------------------------------------------------------
(* Theorems. *)

\* The invariant behind the others: tables in step with each other and with
\* what every command under way knows of them.
THEOREM ProgramsInvariant == Spec => []IInv
<1>1. Init => IInv
  BY TypeInit DEF Init, IInv, LocalInv, ProgramsInv
<1>2. IInv /\ [Next]_vars => IInv'
  BY TypeStep, LocalStep, ProgramsStep DEF IInv
<1> QED BY <1>1, <1>2, PTL DEF Spec

\* Every variable keeps its type.
THEOREM TypeCorrect == Spec => []TypeOK
<1>1. IInv => TypeOK
  BY DEF IInv
<1> QED BY <1>1, ProgramsInvariant, PTL

\* However many repairs race, each stored revision repairs the one before it,
\* under its seal and with its assertions.
THEOREM Chain == Spec => []RepairsFormAChain
<1>1. IInv => RepairsFormAChain
  <2>1. TypeOK => DOMAIN programs = 1..Len(programs)
    BY DEF TypeOK
  <2> QED BY <2>1 DEF IInv, ProgramsInv, RepairsFormAChain
<1> QED BY <1>1, ProgramsInvariant, PTL

\* Previews and revisions refer to each other one to one.
THEOREM Admissions == Spec => []AdmissionsAgree
<1>1. IInv => AdmissionsAgree
  <2>1. TypeOK => /\ DOMAIN programs = 1..Len(programs)
                  /\ DOMAIN previews = 1..Len(previews)
    BY DEF TypeOK
  <2> QED BY <2>1 DEF IInv, ProgramsInv, AdmissionsAgree
<1> QED BY <1>1, ProgramsInvariant, PTL

\* No step changes or removes a stored revision.
THEOREM WriteOnce == Spec => RevisionsWriteOnce
<1>1. TypeOK /\ [Next]_vars =>
        [/\ DOMAIN programs \subseteq DOMAIN programs'
         /\ \A n \in DOMAIN programs : programs'[n] = programs[n]]_programs
  <2> SUFFICES ASSUME TypeOK, [Next]_vars, programs' # programs
               PROVE  /\ DOMAIN programs \subseteq DOMAIN programs'
                      /\ \A n \in DOMAIN programs : programs'[n] = programs[n]
    OBVIOUS
  <2>1. PICK a \in Author : Promote(a) \/ Heal(a)
    BY DEF Next, vars, tables, Edit, Compile, Pin, ReadLatest, SealCandidate,
       Play, PutPreview, Leave
  <2>2. PICK n \in Nat : Admissible(a) /\ Admit(a, n)
    BY <2>1 DEF Promote, Heal, TypeOK
  <2>3. DOMAIN programs = 1..Len(programs) /\ DOMAIN programs' = 1..Len(programs')
    BY <2>2, AdmitEffect DEF TypeOK
  <2> QED BY <2>3, TablesGrow
<1> QED BY <1>1, TypeCorrect, PTL DEF Spec, RevisionsWriteOnce
-----------------------------------------------------------------------------
(* The order of the reads. *)

\* One command's part of TimeInv, and what it says of preview i.
Ordered(a) ==
  /\ at[a] # "idle" => oracle[a] <= tree
  /\ at[a] \notin {"idle", "compiled"} => oracle[a] <= before[a] /\ before[a] <= tree
  /\ at[a] \in {"sealed", "played"} =>
       /\ mark[a][1] = Intent[oracle[a]]
       /\ \E k \in Revision :
            /\ before[a] <= k /\ k <= tree
            /\ at[a] = "played" => k <= saw[a]
            /\ mark[a][2] = Policy[k]
  /\ at[a] = "played" => before[a] <= saw[a] /\ saw[a] <= tree
  /\ at[a] # "idle" /\ doing[a] = "promote" =>
       ticket[a] \in 1..Len(previews) /\ previews[ticket[a]].rev <= oracle[a]

Dated(i) ==
  /\ previews[i].rev <= tree
  /\ previews[i].saw = previews[i].rev
  /\ previews[i].seal[2] = Policy[previews[i].rev]

LEMMA TimeIsOrdered ==
  TimeInv <=> /\ \A a \in Author : Ordered(a)
              /\ \A i \in 1..Len(previews) : Dated(i)
              /\ PromotedUnderItsSeal
BY DEF TimeInv, Ordered, Dated

\* No edit restores an earlier content.
LEMMA TreeAdvances ==
  ASSUME TypeOK, RestoreAllowed = FALSE, [Next]_vars
  PROVE  tree \in Nat /\ tree' \in Nat /\ tree <= tree'
<1>1. CASE Edit
  BY <1>1 DEF Edit, TypeOK, Revision
<1>2. CASE UNCHANGED tree
  BY <1>2 DEF TypeOK, Revision
<1>3. Edit \/ UNCHANGED tree
  BY DEF Next, vars, Compile, Pin, ReadLatest, SealCandidate, Play, PutPreview,
     Promote, Heal, Leave
<1> QED BY <1>1, <1>2, <1>3

\* A command that does not move stays ordered.
LEMMA OrderedKept ==
  ASSUME TypeOK, RestoreAllowed = FALSE, [Next]_vars, NEW a \in Author, Ordered(a),
         at'[a] = at[a], doing'[a] = doing[a], oracle'[a] = oracle[a],
         before'[a] = before[a], mark'[a] = mark[a], saw'[a] = saw[a],
         ticket'[a] = ticket[a]
  PROVE  Ordered(a)'
<1>1. /\ oracle[a] \in Nat /\ before[a] \in Nat /\ saw[a] \in Nat
      /\ \A k \in Revision : k \in Nat
      /\ tree \in Nat /\ tree' \in Nat /\ tree <= tree'
  <2>1. \A k \in Revision : k \in Nat
    BY DEF Revision
  <2>2. oracle[a] \in Revision /\ before[a] \in Revision /\ saw[a] \in Revision
    BY DEF TypeOK
  <2> QED BY <2>1, <2>2, TreeAdvances
<1>2. /\ at[a] # "idle" => oracle[a] <= tree'
      /\ at[a] \notin {"idle", "compiled"} => oracle[a] <= before[a] /\ before[a] <= tree'
      /\ at[a] = "played" => before[a] <= saw[a] /\ saw[a] <= tree'
  BY <1>1 DEF Ordered
<1>3. ASSUME at[a] \in {"sealed", "played"}
      PROVE  /\ mark[a][1] = Intent[oracle[a]]
             /\ \E k \in Revision :
                  /\ before[a] <= k /\ k <= tree'
                  /\ at[a] = "played" => k <= saw[a]
                  /\ mark[a][2] = Policy[k]
  BY <1>1, <1>3 DEF Ordered
<1>4. at[a] # "idle" /\ doing[a] = "promote" =>
        ticket[a] \in 1..Len(previews') /\ previews'[ticket[a]].rev <= oracle[a]
  BY TablesGrow DEF Ordered
<1> QED BY <1>2, <1>3, <1>4 DEF Ordered

LEMMA OrderedStep ==
  ASSUME TypeOK, TimeInv, RestoreAllowed = FALSE, [Next]_vars, NEW b \in Author
  PROVE  Ordered(b)'
<1>0. Ordered(b)
  BY TimeIsOrdered
<1>1. CASE Edit
  BY <1>0, <1>1, OrderedKept DEF Edit, tables, local
<1>2. ASSUME NEW a \in Author, NEW d \in {"preview", "promote", "heal"},
             NEW x \in Body, NEW i \in Nat, Compile(a, d, x, i),
             d = "promote" => i \in 1..Len(previews)
      PROVE  Ordered(b)'
  <2>1. CASE b = a
    <3>1. /\ at'[a] = "compiled" /\ doing'[a] = d /\ oracle'[a] = tree
          /\ ticket'[a] = i /\ UNCHANGED <<tree, previews>>
      BY <1>2 DEF TypeOK, Compile, Move, tables
    <3>2. d = "promote" => previews[i].rev <= tree
      BY <1>2, TimeIsOrdered DEF Dated
    <3>3. tree <= tree
      BY DEF TypeOK, Revision
    <3> QED BY <1>2, <2>1, <3>1, <3>2, <3>3 DEF Ordered
  <2>2. CASE b # a
    BY <1>0, <1>2, <2>2, OrderedKept DEF TypeOK, Compile, Move
  <2> QED BY <2>1, <2>2
<1>3. ASSUME NEW a \in Author, Pin(a) PROVE Ordered(b)'
  <2>1. CASE b = a
    <3>1. /\ at[a] = "compiled" /\ at'[a] = "pinned" /\ before'[a] = tree
          /\ UNCHANGED <<tree, previews, doing, oracle, ticket>>
      BY <1>3 DEF TypeOK, Pin, Move, tables
    <3>2. tree <= tree
      BY DEF TypeOK, Revision
    <3> QED BY <1>0, <2>1, <3>1, <3>2 DEF Ordered
  <2>2. CASE b # a
    BY <1>0, <1>3, <2>2, OrderedKept DEF TypeOK, Pin, Move
  <2> QED BY <2>1, <2>2
<1>4. ASSUME NEW a \in Author, ReadLatest(a) PROVE Ordered(b)'
  <2>1. CASE b = a
    <3>1. /\ at[a] = "pinned" /\ at'[a] = "read"
          /\ UNCHANGED <<tree, previews, doing, oracle, before, ticket>>
      BY <1>4 DEF TypeOK, ReadLatest, Move, tables
    <3> QED BY <1>0, <2>1, <3>1 DEF Ordered
  <2>2. CASE b # a
    BY <1>0, <1>4, <2>2, OrderedKept DEF TypeOK, ReadLatest, Move
  <2> QED BY <2>1, <2>2
<1>5. ASSUME NEW a \in Author, SealCandidate(a) PROVE Ordered(b)'
  <2>0. /\ at[a] \in {"pinned", "read"} /\ at' = [at EXCEPT ![a] = "sealed"]
        /\ mark' = [mark EXCEPT ![a] = Seal(oracle[a], tree)]
        /\ UNCHANGED <<tree, previews, doing, oracle, before, saw, ticket>>
    BY <1>5 DEF SealCandidate, Move, tables
  <2>1. CASE b = a
    <3>1. /\ at'[a] = "sealed" /\ mark'[a][1] = Intent[oracle[a]]
          /\ mark'[a][2] = Policy[tree]
      BY <2>0 DEF TypeOK, Seal
    <3>2. tree \in Revision /\ tree <= tree
      BY DEF TypeOK, Revision
    <3>3. before[a] <= tree
      BY <1>0, <2>0, <2>1 DEF Ordered
    <3> QED BY <1>0, <2>0, <2>1, <3>1, <3>2, <3>3 DEF Ordered
  <2>2. CASE b # a
    BY <1>0, <2>0, <2>2, OrderedKept DEF TypeOK
  <2> QED BY <2>1, <2>2
<1>6. ASSUME NEW a \in Author, Play(a) PROVE Ordered(b)'
  <2>1. CASE b = a
    <3>1. /\ at[a] = "sealed" /\ at'[a] = "played" /\ saw'[a] = tree
          /\ UNCHANGED <<tree, previews, doing, oracle, before, mark, ticket>>
      BY <1>6 DEF TypeOK, Play, Move, tables
    <3>2. tree <= tree /\ before[a] <= tree
      BY <1>0, <2>1, <3>1 DEF TypeOK, Revision, Ordered
    <3> QED BY <1>0, <2>1, <3>1, <3>2 DEF Ordered
  <2>2. CASE b # a
    BY <1>0, <1>6, <2>2, OrderedKept DEF TypeOK, Play, Move
  <2> QED BY <2>1, <2>2
<1>7. ASSUME NEW a \in Author, Return(a) PROVE Ordered(b)'
  <2>1. CASE b = a
    BY <1>7, <2>1, ReturnEffect DEF Ordered
  <2>2. CASE b # a
    BY <1>0, <1>7, <2>2, ReturnEffect, OrderedKept
  <2> QED BY <2>1, <2>2
<1>8. ASSUME NEW a \in Author, PutPreview(a), Continue(a) PROVE Ordered(b)'
  <2>1. CASE b = a
    <3>1. /\ at[a] = "played" /\ at'[a] = "recorded" /\ doing'[a] = "heal"
          /\ UNCHANGED <<tree, oracle, before>>
      BY <1>8 DEF PutPreview, Continue, TypeOK
    <3> QED BY <1>0, <2>1, <3>1 DEF Ordered
  <2>2. CASE b # a
    BY <1>0, <1>8, <2>2, OrderedKept DEF TypeOK, Continue
  <2> QED BY <2>1, <2>2
<1>9. CASE UNCHANGED vars
  BY <1>0, <1>9, OrderedKept DEF vars, tables, local
<1>10. ASSUME NEW a \in Author, Promote(a) \/ Heal(a) \/ Leave(a) PROVE Return(a)
  BY <1>10 DEF Promote, Heal, Leave
<1>11. CASE \E a \in Author : \E x \in Body, i \in 1..Len(previews) :
              Compile(a, "promote", x, i)
  BY <1>2, <1>11
<1>12. CASE \E a \in Author : \/ \E x \in Body : Compile(a, "preview", x, 0)
                              \/ Compile(a, "heal", NoBody, 0)
  BY <1>2, <1>12, InitialValues
<1> QED
  BY <1>1, <1>3, <1>4, <1>5, <1>6, <1>7, <1>8, <1>9, <1>10, <1>11, <1>12,
     PutPreviewEnds DEF Next

\* A preview recorded now is of the revision the browser ran against.
LEMMA DatedStep ==
  ASSUME TypeOK, TimeInv, RestoreAllowed = FALSE, [Next]_vars,
         NEW i \in 1..Len(previews')
  PROVE  Dated(i)'
<1>0. tree \in Nat /\ tree' \in Nat /\ tree <= tree'
  BY TreeAdvances
<1>1. ASSUME NEW a \in Author, PutPreview(a) PROVE Dated(i)'
  <2>1. /\ previews' = Append(previews, PreviewOf(a)) /\ at[a] = "played"
        /\ tree = before[a] /\ UNCHANGED tree
    BY <1>1 DEF PutPreview, SameRevision
  <2>2. CASE i = Len(previews) + 1
    <3>1. /\ previews'[i].rev = before[a] /\ previews'[i].saw = saw[a]
          /\ previews'[i].seal = mark[a]
      BY <2>1, <2>2 DEF PreviewOf, TypeOK
    <3>2. /\ Ordered(a) /\ before[a] \in Nat /\ saw[a] \in Nat
          /\ \A k \in Revision : k \in Nat
      BY TimeIsOrdered DEF TypeOK, Revision
    <3>3. PICK k \in Revision : /\ before[a] <= k /\ k <= tree
                                /\ mark[a][2] = Policy[k]
      BY <2>1, <3>2 DEF Ordered
    <3>4. k = before[a]
      BY <1>0, <2>1, <3>2, <3>3
    <3>5. saw[a] = before[a]
      BY <1>0, <2>1, <3>2 DEF Ordered
    <3>6. before[a] <= tree'
      BY <1>0, <2>1
    <3> QED BY <3>1, <3>3, <3>4, <3>5, <3>6 DEF Dated
  <2>3. CASE i # Len(previews) + 1
    <3>1. i \in 1..Len(previews) /\ previews'[i] = previews[i]
      BY <2>1, <2>3 DEF TypeOK
    <3> QED BY <2>1, <3>1, TimeIsOrdered DEF Dated
  <2> QED BY <2>2, <2>3
<1>2. ASSUME NEW a \in Author, Promote(a) \/ Heal(a) PROVE Dated(i)'
  <2>1. PICK n \in Nat : Admissible(a) /\ Admit(a, n) /\ UNCHANGED tree
    BY <1>2 DEF Promote, Heal, TypeOK
  <2>2. /\ i \in 1..Len(previews) /\ previews'[i].rev = previews[i].rev
        /\ previews'[i].saw = previews[i].saw /\ previews'[i].seal = previews[i].seal
    BY <2>1, AdmitEffect
  <2> QED BY <2>1, <2>2, TimeIsOrdered DEF Dated
<1>3. CASE UNCHANGED previews
  <2>1. i \in 1..Len(previews) /\ previews'[i] = previews[i]
    BY <1>3
  <2>2. Dated(i)
    BY <2>1, TimeIsOrdered
  <2>3. previews[i] \in PreviewRow
    BY <2>1 DEF TypeOK
  <2>4. previews[i].rev \in Nat
    BY <2>3 DEF PreviewRow, Revision
  <2> QED BY <1>0, <2>1, <2>2, <2>4 DEF Dated
<1>4. UNCHANGED previews \/ \E a \in Author : Promote(a) \/ Heal(a) \/ PutPreview(a)
  BY DEF Next, vars, tables, Edit, Compile, Pin, ReadLatest, SealCandidate, Play, Leave
<1> QED BY <1>1, <1>2, <1>3, <1>4

\* The preview was recorded before the promotion compiled, and names the
\* revision pinned after that: all its reads were of that revision.
LEMMA PromotedStep ==
  ASSUME TypeOK, LocalInv, TimeInv, RestoreAllowed = FALSE, [Next]_vars
  PROVE  PromotedUnderItsSeal'
<1>1. ASSUME NEW a \in Author, Promote(a) PROVE PromotedUnderItsSeal'
  <2>1. /\ Admissible(a) /\ Admit(a, 1) /\ at[a] = "sealed" /\ doing[a] = "promote"
    BY <1>1 DEF Promote
  <2>2. programs'[1] = Row(a)
    BY <2>1, AdmitEffect
  <2>3. /\ Ordered(a) /\ Dated(ticket[a]) /\ oracle[a] \in Nat /\ before[a] \in Nat
    BY <2>1, TimeIsOrdered DEF Admissible, TypeOK, Revision
  <2>4. previews[ticket[a]].rev = before[a] /\ previews[ticket[a]].seal = mark[a]
    BY <2>1 DEF Admissible
  <2>5. oracle[a] = before[a]
    <3>1. before[a] <= oracle[a] /\ oracle[a] <= before[a]
      BY <2>1, <2>3, <2>4 DEF Ordered
    <3> QED BY <2>3, <3>1
  <2>6. mark[a][1] = Intent[before[a]] /\ mark[a][2] = Policy[before[a]]
    BY <2>1, <2>3, <2>4, <2>5 DEF Ordered, Dated
  <2>7. mark[a] = SealOf(before[a])
    BY <2>6 DEF SealOf, Seal, TypeOK, OracleSeal
  <2> QED BY <2>2, <2>7 DEF PromotedUnderItsSeal, Row, SealOf, Seal
<1>2. ASSUME programs # << >> PROVE PromotedUnderItsSeal'
  <2>1. 1 \in 1..Len(programs)
    BY <1>2 DEF TypeOK
  <2>2. programs'[1] = programs[1]
    BY <2>1, TablesGrow
  <2> QED BY <1>2, <2>2 DEF TimeInv, PromotedUnderItsSeal, SealOf, Seal
<1>3. ASSUME programs = << >>, NEW a \in Author, Heal(a) PROVE FALSE
  <2>1. base[a] = 0 /\ at[a] = "recorded"
    BY <1>3 DEF Heal, UpToDate
  <2>2. doing[a] = "heal" /\ base[a] \in 1..Len(programs)
    BY <2>1 DEF LocalInv
  <2> QED BY <2>1, <2>2
<1>4. CASE UNCHANGED programs
  BY <1>2, <1>4 DEF PromotedUnderItsSeal
<1>5. UNCHANGED programs \/ \E a \in Author : Promote(a) \/ Heal(a)
  BY DEF Next, vars, tables, Edit, Compile, Pin, ReadLatest, SealCandidate, Play,
     PutPreview, Leave
<1> QED BY <1>1, <1>2, <1>3, <1>4, <1>5

\* As long as no edit restores an earlier content, commands read the repository
\* in the order of its revisions.
LEMMA TimeInvariant ==
  ASSUME RestoreAllowed = FALSE PROVE Spec => []TimeInv
<1>1. Init => TimeInv
  BY DEF Init, TimeInv, PromotedUnderItsSeal
<1>2. IInv /\ TimeInv /\ [Next]_vars => TimeInv'
  <2> SUFFICES ASSUME IInv, TimeInv, [Next]_vars PROVE TimeInv'
    OBVIOUS
  <2>1. TypeOK /\ LocalInv
    BY DEF IInv
  <2>2. \A a \in Author : Ordered(a)'
    BY <2>1, OrderedStep
  <2>3. \A i \in 1..Len(previews') : Dated(i)'
    BY <2>1, DatedStep
  <2>4. PromotedUnderItsSeal'
    BY <2>1, PromotedStep
  <2> QED BY <2>2, <2>3, <2>4 DEF TimeInv, Ordered, Dated
<1> QED BY <1>1, <1>2, ProgramsInvariant, PTL DEF Spec

\* A stored revision passed in a browser that ran against its revision.
THEOREM Exercised ==
  ASSUME RestoreAllowed = FALSE PROVE Spec => []ExercisedAsStored
<1>1. IInv /\ TimeInv => ExercisedAsStored
  <2>1. TypeOK => DOMAIN programs = 1..Len(programs)
    BY DEF TypeOK
  <2> QED BY <2>1 DEF IInv, ProgramsInv, TimeInv, ExercisedAsStored
<1> QED BY <1>1, ProgramsInvariant, TimeInvariant, PTL

\* A program is promoted under the seal of the revision it is filed under.
THEOREM PromotedSeal ==
  ASSUME RestoreAllowed = FALSE PROVE Spec => []PromotedUnderItsSeal
<1>1. TimeInv => PromotedUnderItsSeal
  BY DEF TimeInv
<1> QED BY <1>1, TimeInvariant, PTL
=============================================================================
