-------------------------- MODULE MutationOfChange --------------------------
(***************************************************************************)
(* What the mutation phase plans for a change (execute_source_mutation):   *)
(* the added and changed files in order, on the lines Git reports, with    *)
(* the operators the obligations ask for, up to a ceiling.  The phase      *)
(* itself is SourceMutation.                                               *)
(***************************************************************************)
EXTENDS SourceMutation

CONSTANTS
  Files,       \* those of File, in order (at most 64)
  Source,      \* file -> its source: a text and its lexemes
  Diffs,       \* what Git may report: file -> added or changed lines
  MaxMutants   \* MAX_MUTANTS

ASSUME ChangeAssumption ==
  /\ Files \in Seq(File) /\ ToSet(Files) = File
  /\ \A i, j \in DOMAIN Files : Files[i] = Files[j] => i = j
  /\ \A f \in File : Source[f].text \in Seq(ToSet(Source[f].text))
  /\ MaxMutants \in Nat

\* operators_for: none is asked for, and the file is passed over.
OperatorsFor(language) ==
  IF \E o \in Obligation : Hints[o].all THEN Catalogue[language]
  ELSE Catalogue[language] \cap UNION {Hints[o].operators : o \in Obligation}

Proposed ==
  [f \in {g \in ToSet(Files) : LanguageOf[g] \in Language} |->
     Proposals(Source[f].text, OperatorsFor(LanguageOf[f]))]

\* The mutants of the first files, up to the ceiling.
PlannedOf(diff, files) ==
  LET planned[k \in 0..Len(files)] ==
        IF k = 0 THEN << >>
        ELSE LET f == files[k]
                 before == planned[k - 1]
             IN  IF f \notin DOMAIN Proposed THEN before
                 ELSE before \o SourceMutants(f, Proposed[f], diff[f], MaxMutants - Len(before))
  IN  planned[Len(files)]

\* The ceiling is noted only when one more file follows.
CeilingNoted(diff) ==
  \E k \in DOMAIN Files :
    /\ Files[k] \in DOMAIN Proposed
    /\ Len(PlannedOf(diff, SubSeq(Files, 1, k - 1))) >= MaxMutants

\* What git diff may lead to.
PlansOfChange ==
  {[mutants |-> PlannedOf(diff, Files), cut |-> CeilingNoted(diff)] : diff \in Diffs}
-----------------------------------------------------------------------------
ASSUME PlansOfChangeAssumption == Plans = PlansOfChange

\* The proposed edits that change nothing, or change or cut a comment or a literal
\* although no lexeme up to the symbol behind the edit is one the mask is not meant for.
Misplaced ==
  [f \in DOMAIN Proposed |->
     {p.edit : p \in {q \in Proposed[f] :
        \/ Mutated(Source[f].text, q.edit) = Source[f].text
        \/ Quoted(Source[f], q.edit) /\ LexedTo(Source[f], q.edit.end)}}]

\* What a stored decision is about is code: its edit changes the text, and reaches into
\* no comment or literal, where a survivor would be a weakness nobody could mend, unless
\* a lexeme the mask is not meant for (a Rust lifetime, a quote in a regular expression,
\* a raw string that ends in a backslash) stands before it in the file (code_mask).
MutantsAreCode ==
  pc = "stored" => \A r \in document.results :
    r.mutant.edit \notin Misplaced[r.mutant.path]
=============================================================================
