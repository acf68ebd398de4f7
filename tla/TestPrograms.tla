---------------------------- MODULE TestPrograms ----------------------------
(***************************************************************************)
(* Authoring of one browser TestProgram: preview, promote and heal.        *)
(*                                                                         *)
(* A candidate is played in a real browser and recorded as a preview; a    *)
(* passing preview is promoted to revision 1 of the program; a repair is   *)
(* played with the original assertions and appended as the next revision.  *)
(* Authors (CLI, MCP and HTTP clients) work in processes of their own, no  *)
(* lock spans a command, and the repository may be edited between any two  *)
(* of the reads a command makes: obligations, revision, contract, browser. *)
(***************************************************************************)
EXTENDS Naturals, Sequences

CONSTANTS
  Author,         \* concurrent authoring commands
  Asserts,        \* what a program fills in, asserts and covers
  Locators,       \* how it finds its targets and waits for them
  Intent,         \* requirements, scenarios and obligations at each revision
  Policy,         \* the sealed subset of quality.yaml at each revision
  MaxRevision,    \* bound on repository contents
  MaxPreviews,    \* bound on recorded previews
  RestoreAllowed  \* may an edit bring back an earlier content?

Revision == 0..MaxRevision
Body     == [asserts : Asserts, locators : Locators]

ASSUME ConstantsAssumption ==
  /\ Asserts # {} /\ Locators # {}
  /\ MaxRevision \in Nat
  /\ MaxPreviews \in Nat
  /\ Intent \in [Revision -> Nat]
  /\ Policy \in [Revision -> Nat]
  /\ RestoreAllowed \in BOOLEAN

\* seal over the obligations and requirements compiled at c and the contract
\* read at k; its digest is taken as injective.
Seal(c, k)   == <<Intent[c], Policy[k]>>
OracleSeal   == Nat \X Nat
SealOf(v)    == Seal(v, v)

VARIABLES
  tree,      \* revision of the working-tree content
  previews,  \* table authoring_previews, in the order of their ids
  programs,  \* table program_revisions of the program, by revision
  at,        \* how far each command is
  doing,     \* which command it is
  oracle,    \* content its obligations and oracles were compiled from
  before,    \* revision it pinned
  mark,      \* seal it computed
  base,      \* revision of the program it repairs, 0 for none
  body,      \* candidate or repaired program
  passed,    \* did the browser pass?
  saw,       \* content the browser ran against
  ticket     \* preview it uses

local  == <<doing, oracle, before, mark, base, body, passed, saw, ticket>>
tables == <<previews, programs>>
vars   == <<tree, previews, programs, at, local>>

PreviewRow ==
  [rev : Revision, seal : OracleSeal, body : Body, passed : BOOLEAN,
   saw : Revision, admitted : Nat]

\* `from` is no column: the revision the repair was made from, 0 for promoted.
ProgramRow ==
  [seal : OracleSeal, rev : Revision, body : Body, preview : Nat, from : Nat]

TypeOK ==
  /\ tree \in Revision
  /\ previews \in Seq(PreviewRow) /\ Len(previews) <= MaxPreviews
  /\ programs \in Seq(ProgramRow)
  /\ at \in [Author -> {"idle", "compiled", "pinned", "read", "sealed",
                        "played", "recorded"}]
  /\ doing \in [Author -> {"preview", "promote", "heal"}]
  /\ oracle \in [Author -> Revision]
  /\ before \in [Author -> Revision]
  /\ mark \in [Author -> OracleSeal]
  /\ base \in [Author -> Nat]
  /\ body \in [Author -> Body]
  /\ passed \in [Author -> BOOLEAN]
  /\ saw \in [Author -> Revision]
  /\ ticket \in [Author -> Nat]

NoBody == CHOOSE b \in Body : TRUE

Init ==
  /\ tree = 0 /\ previews = << >> /\ programs = << >>
  /\ at = [a \in Author |-> "idle"]
  /\ doing = [a \in Author |-> "preview"]
  /\ oracle = [a \in Author |-> 0]
  /\ before = [a \in Author |-> 0]
  /\ mark = [a \in Author |-> <<0, 0>>]
  /\ base = [a \in Author |-> 0]
  /\ body = [a \in Author |-> NoBody]
  /\ passed = [a \in Author |-> FALSE]
  /\ saw = [a \in Author |-> 0]
  /\ ticket = [a \in Author |-> 0]

Move(a, from, to) == at[a] = from /\ at' = [at EXCEPT ![a] = to]

\* The command returns; nothing of its local state is kept.
Return(a) ==
  /\ at' = [at EXCEPT ![a] = "idle"]
  /\ doing' = [doing EXCEPT ![a] = "preview"]
  /\ oracle' = [oracle EXCEPT ![a] = 0]
  /\ before' = [before EXCEPT ![a] = 0]
  /\ mark' = [mark EXCEPT ![a] = <<0, 0>>]
  /\ base' = [base EXCEPT ![a] = 0]
  /\ body' = [body EXCEPT ![a] = NoBody]
  /\ passed' = [passed EXCEPT ![a] = FALSE]
  /\ saw' = [saw EXCEPT ![a] = 0]
  /\ ticket' = [ticket EXCEPT ![a] = 0]

\* A developer edits the repository, at any moment.
Edit ==
  /\ \E v \in Revision :
       /\ v # tree
       /\ RestoreAllowed \/ v > tree
       /\ tree' = v
  /\ UNCHANGED <<tables, at, local>>
-----------------------------------------------------------------------------
(* What the commands have in common. *)

\* The obligations are compiled, to preview candidate b, to promote it under
\* preview id i, or to repair the stored program.
Compile(a, d, b, i) ==
  /\ Move(a, "idle", "compiled")
  /\ doing' = [doing EXCEPT ![a] = d]
  /\ oracle' = [oracle EXCEPT ![a] = tree]
  /\ body' = [body EXCEPT ![a] = b]
  /\ ticket' = [ticket EXCEPT ![a] = i]
  /\ UNCHANGED <<tree, tables, before, mark, base, passed, saw>>

\* `before`.
Pin(a) ==
  /\ Move(a, "compiled", "pinned")
  /\ before' = [before EXCEPT ![a] = tree]
  /\ UNCHANGED <<tree, tables, doing, oracle, mark, base, body, passed, saw, ticket>>

\* author_heal: the caller's expected revision must be the latest, which is
\* then read.  A revision, once stored, is immutable.
ReadLatest(a) ==
  /\ doing[a] = "heal"
  /\ Move(a, "pinned", "read")
  /\ programs # << >>
  /\ base' = [base EXCEPT ![a] = Len(programs)]
  /\ UNCHANGED <<tree, tables, doing, oracle, before, mark, body, passed, saw, ticket>>

\* A repair may change what the program asserts.
SealAnyAsserts(a) ==
  LET s == Seal(oracle[a], tree) IN
  /\ mark' = [mark EXCEPT ![a] = s]
  /\ \/ /\ doing[a] # "heal"
        /\ Move(a, "pinned", "sealed")
        /\ UNCHANGED body
     \/ /\ Move(a, "read", "sealed")
        /\ programs[base[a]].seal = s
        /\ \E b \in Body : body' = [body EXCEPT ![a] = b]
  /\ UNCHANGED <<tree, tables, doing, oracle, before, base, passed, saw, ticket>>

\* validate_author_candidate reads the contract and seals.  A heal goes on
\* only under the stored seal, with apply_heal's retargeting and waits.
SealCandidate(a) ==
  LET s == Seal(oracle[a], tree) IN
  /\ mark' = [mark EXCEPT ![a] = s]
  /\ \/ /\ doing[a] # "heal"
        /\ Move(a, "pinned", "sealed")
        /\ UNCHANGED body
     \/ /\ Move(a, "read", "sealed")
        /\ programs[base[a]].seal = s
        /\ \E l \in Locators :
             body' = [body EXCEPT ![a] =
               [asserts |-> programs[base[a]].body.asserts, locators |-> l]]
  /\ UNCHANGED <<tree, tables, doing, oracle, before, base, passed, saw, ticket>>

\* The browser runs the program against the content there is now.
Play(a) ==
  /\ doing[a] # "promote"
  /\ Move(a, "sealed", "played")
  /\ \E ok \in BOOLEAN : passed' = [passed EXCEPT ![a] = ok]
  /\ saw' = [saw EXCEPT ![a] = tree]
  /\ UNCHANGED <<tree, tables, doing, oracle, before, mark, base, body, ticket>>

\* The revision is not read again.
SameRevisionOnce(a) == TRUE

\* `before != after` is Ambiguous.
SameRevision(a) == tree = before[a]

PreviewOf(a) ==
  [rev |-> before[a], seal |-> mark[a], body |-> body[a],
   passed |-> passed[a], saw |-> saw[a], admitted |-> 0]

\* The revision check and put_authoring_preview, which reads nothing that can
\* change in between.  A heal that passed goes on, other commands end.
PutPreview(a) ==
  /\ at[a] = "played"
  /\ SameRevision(a)
  /\ Len(previews) < MaxPreviews
  /\ previews' = Append(previews, PreviewOf(a))
  /\ IF doing[a] = "heal" /\ passed[a]
     THEN /\ at' = [at EXCEPT ![a] = "recorded"]
          /\ ticket' = [ticket EXCEPT ![a] = Len(previews) + 1]
          /\ UNCHANGED <<doing, oracle, before, mark, base, body, passed, saw>>
     ELSE Return(a)
  /\ UNCHANGED <<tree, programs>>
-----------------------------------------------------------------------------
(* The two transactions. *)

\* The repository revision is not compared.
AdmissibleAnyRevision(a) ==
  /\ ticket[a] \in 1..Len(previews)
  /\ LET preview == previews[ticket[a]] IN
       /\ preview.seal = mark[a]
       /\ preview.body = body[a]
       /\ preview.passed

\* The preview exists, matches program, revision and seal, and passed.
Admissible(a) ==
  /\ ticket[a] \in 1..Len(previews)
  /\ LET preview == previews[ticket[a]] IN
       /\ preview.rev = before[a] /\ preview.seal = mark[a]
       /\ preview.body = body[a]
       /\ preview.passed

Row(a) ==
  [seal |-> mark[a], rev |-> before[a], body |-> body[a],
   preview |-> ticket[a], from |-> base[a]]

\* The preview is not marked.
AdmitUnmarked(a, n) ==
  /\ programs' = Append(programs, Row(a))
  /\ UNCHANGED previews

\* The inserted revision n and the mark on its preview, in one transaction;
\* (program, revision) is the primary key.
Admit(a, n) ==
  /\ n = Len(programs) + 1
  /\ programs' = Append(programs, Row(a))
  /\ previews' = [previews EXCEPT ![ticket[a]] =
       [rev |-> @.rev, seal |-> @.seal, body |-> @.body,
        passed |-> @.passed, saw |-> @.saw, admitted |-> n]]

\* promote_authoring_preview.
Promote(a) ==
  /\ doing[a] = "promote"
  /\ at[a] = "sealed"
  /\ Admissible(a)
  /\ previews[ticket[a]].admitted = 0
  /\ programs = << >>
  /\ Admit(a, 1)
  /\ Return(a)
  /\ UNCHANGED tree

\* The repaired revision is still the latest, under the same seal.
UpToDate(a) ==
  /\ base[a] = Len(programs)
  /\ programs[Len(programs)].seal = mark[a]

\* heal_authoring_preview.
Heal(a) ==
  /\ at[a] = "recorded"
  /\ Admissible(a)
  /\ previews[ticket[a]].admitted = 0
  /\ UpToDate(a)
  /\ Admit(a, base[a] + 1)
  /\ Return(a)
  /\ UNCHANGED tree

\* Every other outcome changes no table: a refusal by one of the checks above,
\* a promotion that finds its preview already admitted and repeats the answer,
\* an error, the death of the process.
Leave(a) ==
  /\ at[a] # "idle"
  /\ Return(a)
  /\ UNCHANGED <<tree, tables>>

Next ==
  \/ Edit
  \/ \E a \in Author :
       \/ \E b \in Body : Compile(a, "preview", b, 0)
       \/ \E b \in Body, i \in 1..Len(previews) : Compile(a, "promote", b, i)
       \/ Compile(a, "heal", NoBody, 0)
       \/ Pin(a) \/ ReadLatest(a) \/ SealCandidate(a) \/ Play(a)
       \/ PutPreview(a) \/ Promote(a) \/ Heal(a) \/ Leave(a)

Spec == Init /\ [][Next]_vars
-----------------------------------------------------------------------------
(* Properties. *)

\* Two authors may repair the same revision at once, edit and crash as they
\* like: each revision repairs the one stored just before it, under its seal
\* and with its assertions, and the first one is a promoted candidate.
RepairsFormAChain ==
  \A n \in DOMAIN programs :
    /\ programs[n].from = n - 1
    /\ n > 1 =>
         /\ programs[n].seal = programs[n - 1].seal
         /\ programs[n].body.asserts = programs[n - 1].body.asserts

\* The two tables agree: a revision cites the preview that admits it, and the
\* mark on a preview names the revision that came of it.  No preview yields two
\* revisions, however often a promotion is repeated.
AdmissionsAgree ==
  /\ \A n \in DOMAIN programs :
       /\ programs[n].preview \in DOMAIN previews
       /\ previews[programs[n].preview].admitted = n
  /\ \A i \in DOMAIN previews : previews[i].admitted # 0 =>
       /\ previews[i].admitted \in DOMAIN programs
       /\ programs[previews[i].admitted].preview = i

\* The body of a stored revision passed in a browser that ran against the very
\* repository revision it is filed under (while no edit restores an earlier
\* content), though the row is written long after the browser has closed.
ExercisedAsStored ==
  \A n \in DOMAIN programs :
    LET preview == previews[programs[n].preview]
    IN  /\ preview.passed
        /\ preview.body = programs[n].body
        /\ preview.saw = programs[n].rev

\* A program is promoted under the seal of its repository revision, although
\* preview and promote both compile before they pin the revision.
PromotedUnderItsSeal ==
  programs # << >> => programs[1].seal = SealOf(programs[1].rev)

\* A failed, refused or late repair never replaces an active revision.
RevisionsWriteOnce ==
  [][/\ DOMAIN programs \subseteq DOMAIN programs'
     /\ \A n \in DOMAIN programs : programs'[n] = programs[n]]_programs
-----------------------------------------------------------------------------
(* The inductive invariants. *)

\* What a command knows of the tables stays true of them.
LocalInv ==
  \A a \in Author :
    /\ at[a] = "idle" \/ doing[a] # "heal" => base[a] = 0
    /\ at[a] = "read" => doing[a] = "heal" /\ base[a] \in 1..Len(programs)
    /\ at[a] \in {"sealed", "played", "recorded"} /\ doing[a] = "heal" =>
         /\ base[a] \in 1..Len(programs)
         /\ body[a].asserts = programs[base[a]].body.asserts
    /\ at[a] = "recorded" => doing[a] = "heal"

ProgramsInv ==
  /\ \A n \in 1..Len(programs) :
       /\ programs[n].from = n - 1
       /\ programs[n].preview \in 1..Len(previews)
       /\ LET preview == previews[programs[n].preview]
          IN  /\ preview.admitted = n
              /\ preview.passed
              /\ preview.body = programs[n].body
              /\ preview.rev = programs[n].rev
       /\ n > 1 =>
            /\ programs[n].seal = programs[n - 1].seal
            /\ programs[n].body.asserts = programs[n - 1].body.asserts
  /\ \A i \in 1..Len(previews) : previews[i].admitted # 0 =>
       /\ previews[i].admitted \in 1..Len(programs)
       /\ programs[previews[i].admitted].preview = i

IInv == TypeOK /\ LocalInv /\ ProgramsInv

\* When no edit restores an earlier content, the order in which a command read
\* the repository is the order of the revisions it read.
TimeInv ==
  /\ \A a \in Author :
       /\ at[a] # "idle" => oracle[a] <= tree
       /\ at[a] \notin {"idle", "compiled"} => oracle[a] <= before[a] /\ before[a] <= tree
       /\ at[a] \in {"sealed", "played"} =>
            /\ mark[a][1] = Intent[oracle[a]]
            /\ \E k \in Revision :
                 /\ before[a] <= k /\ k <= tree
                 /\ at[a] = "played" => k <= saw[a]
                 /\ mark[a][2] = Policy[k]
       /\ at[a] = "played" => before[a] <= saw[a] /\ saw[a] <= tree
       /\ at[a] # "idle" /\ doing[a] = "promote" =>
            ticket[a] \in 1..Len(previews) /\ previews[ticket[a]].rev <= oracle[a]
  /\ \A i \in 1..Len(previews) :
       /\ previews[i].rev <= tree
       /\ previews[i].saw = previews[i].rev
       /\ previews[i].seal[2] = Policy[previews[i].rev]
  /\ PromotedUnderItsSeal
=============================================================================
