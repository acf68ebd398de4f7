------------------------------ MODULE MutantPlan ------------------------------
(***************************************************************************)
(* How mutants are planned (wvq-proof/src/mutation.rs): a lexical mask     *)
(* keeps comments and strings out, operators propose edits of what is      *)
(* left, and of those on changed lines the first are taken.                *)
(*                                                                         *)
(* A text is a sequence of symbols: a punctuation mark is its own symbol,  *)
(* a word or a number is one symbol.  A source is a text with, for each    *)
(* place, the lexeme it is of: where that starts and ends, and what the    *)
(* language takes it for ("code", "comment" or "literal").  No operator of *)
(* the program reads the lexemes.                                          *)
(***************************************************************************)
EXTENDS Integers, Sequences, SequencesExt

Space == {" ", "\n"}
Quote == {"'", "\"", "backtick"}
Mark == Space \cup Quote \cup
        {"/", "*", "\\", "=", ">", "<", "!", "&", "|", "+", "-", "(", ")", "{", "}", ";", ".", ","}
Numeral == <<"0", "1", "2", "3">>   \* the numbers that occur, in order

\* What lies before and after every text.
Nothing == ""
At(text, k) == IF k \in DOMAIN text THEN text[k] ELSE Nothing
Identifier(symbol) == symbol \notin Mark \cup {Nothing}

\* line_at
Line(text, k) == 1 + Len(SelectSeq(SubSeq(text, 1, k - 1), LAMBDA symbol : symbol = "\n"))

\* word_boundary
Whole(text, start, end) ==
  ~Identifier(At(text, start - 1)) /\ ~Identifier(At(text, end))

\* The first place from k on that is no white space.
Solid(text, k) ==
  CHOOSE j \in k..(Len(text) + 1) :
    At(text, j) \notin Space /\ \A i \in k..(j - 1) : At(text, i) \in Space
-----------------------------------------------------------------------------
(* code_mask *)

\* Where the scanner is: in code, in a comment ("//" or "/*") or behind a quote.  skip: the symbol was consumed with the one before it.
Start == [in |-> "code", escaped |-> FALSE, skip |-> FALSE]

Enters(symbol, next) ==
  IF symbol = "/" /\ next = "/" THEN "//"
  ELSE IF symbol = "/" /\ next = "*" THEN "/*"
  ELSE IF symbol \in Quote THEN symbol ELSE "code"

\* The next quote of the kind closes, whatever stands before it.
LeavesAtAnyQuote(state, symbol, next) ==
  \/ state.in = "//" /\ symbol = "\n"
  \/ state.in = "/*" /\ symbol = "*" /\ next = "/"
  \/ state.in \in Quote /\ state.in = symbol

Leaves(state, symbol, next) ==
  \/ state.in = "//" /\ symbol = "\n"
  \/ state.in = "/*" /\ symbol = "*" /\ next = "/"
  \/ state.in \in Quote /\ state.in = symbol /\ ~state.escaped

Scan(state, symbol, next) ==
  IF state.skip THEN [state EXCEPT !.skip = FALSE]
  ELSE [in |-> IF state.in = "code" THEN Enters(symbol, next)
               ELSE IF Leaves(state, symbol, next) THEN "code" ELSE state.in,
        escaped |-> state.in \in Quote /\ symbol = "\\" /\ ~state.escaped,
        skip |-> \/ state.in = "code" /\ Enters(symbol, next) \in {"//", "/*"}
                 \/ state.in = "/*" /\ symbol = "*" /\ next = "/"]

\* The scanner's state after the first symbols of a text.
Scanned(text) ==
  LET state[k \in 0..Len(text)] ==
        IF k = 0 THEN Start ELSE Scan(state[k - 1], text[k], At(text, k + 1))
  IN  state

\* May this symbol be edited, in this state?
Kept(state, symbol, next) ==
  /\ ~state.skip
  /\ \/ state.in = "code" /\ Enters(symbol, next) = "code"
     \/ state.in = "//" /\ symbol = "\n"

\* The places that may be edited.
CodeMask(text) ==
  LET state == Scanned(text)
  IN  {k \in DOMAIN text : Kept(state[k - 1], text[k], At(text, k + 1))}

\* code_range
InCode(mask, start, end) == \A k \in start..(end - 1) : k \in mask
-----------------------------------------------------------------------------
(* Operators.  An edit replaces the symbols from start up to, not including, *)
(* end; where the two are equal it inserts.                                  *)

Replace(operator, start, end, to) ==
  [operator |-> operator, start |-> start, end |-> end, to |-> to]

\* match_indices: no two matches overlap.
Found(text, pattern) ==
  LET Occurs(k) == \A j \in 1..Len(pattern) : At(text, k + j - 1) = pattern[j]
      free[k \in DOMAIN text] ==
        \A j \in 1..(k - 1) : Occurs(j) /\ free[j] => j + Len(pattern) <= k
  IN  {k \in DOMAIN text : Occurs(k) /\ free[k]}

Flip(a, b) == {<<a, b>>, <<b, a>>}

\* replace_patterns
Replaced(operator, text, mask, patterns) ==
  UNION {{Replace(operator, k, k + Len(p[1]), p[2]) :
            k \in {j \in Found(text, p[1]) : InCode(mask, j, j + Len(p[1]))}} : p \in patterns}

\* word_replacements
Reworded(operator, text, mask, patterns) ==
  {e \in Replaced(operator, text, mask, patterns) : Whole(text, e.start, e.end)}

\* comparison_edits: a lone angle stands between spaces and is no part of a
\* longer token.
Comparisons(operator, text, mask) ==
  LET angles == {k \in DOMAIN text : text[k] \in {">", "<"}}
      wide == {k \in angles : At(text, k + 1) = "="}
      lone == {k \in angles \ wide : /\ At(text, k + 1) \in Space
                                     /\ At(text, k - 1) \in Space}
  IN  {Replace(operator, k, k + 2, <<text[k]>>) : k \in {j \in wide : InCode(mask, j, j + 2)}}
        \cup {Replace(operator, k, k + 1, <<text[k], "=">>) : k \in lone \cap mask}

\* rust_eq_neq_edits: no arrow, and no tail of a longer token.
RustEqualities(operator, text, mask) ==
  {e \in Replaced(operator, text, mask, Flip(<<"=", "=">>, <<"!", "=">>)) :
     text[e.start] = "=" => /\ At(text, e.end) # ">"
                            /\ At(text, e.start - 1) \notin {"=", "!"}}

Keywords(text, mask, word) ==
  {k \in Found(text, <<word>>) : k \in mask /\ Whole(text, k, k + 1)}

\* insert_after_keyword
BranchesRemoved(operator, text, mask) ==
  {Replace(operator, Solid(text, k + 1) + 1, Solid(text, k + 1) + 1, <<"false", "&", "&">>) :
     k \in {j \in Keywords(text, mask, "if") : At(text, Solid(text, j + 1)) = "("}}

\* insert_go_branch_skip: not a branch with an initialiser.
BranchesSkipped(operator, text, mask) ==
  LET Condition(k) == {j \in (k + 1)..Len(text) :
                         \A i \in (k + 1)..j : text[i] \notin {"\n", "{"}}
  IN  {Replace(operator, Solid(text, k + 1), Solid(text, k + 1), <<"false", "&", "&">>) :
         k \in {j \in Keywords(text, mask, "if") : \A i \in Condition(j) : text[i] # ";"}}

\* insert_before_call
Negated(operator, text, mask, names) ==
  {Replace(operator, k, k, <<"!">>) :
     k \in {j \in UNION {Keywords(text, mask, name) : name \in names} :
              /\ At(text, Solid(text, j + 1)) = "("
              /\ At(text, j - 1) \notin {".", "!"}}}

\* replace_standalone_call
CallsOmitted(operator, text, mask, names) ==
  {e \in Replaced(operator, text, mask,
                  {<<<<name, "(", ")">>, <<"void", " ", "0">>>> : name \in names}) :
     At(text, e.start - 1) # "." /\ Whole(text, e.start, e.start + 1)}

\* collection_boundary_edits
BoundariesMoved(operator, text, mask) ==
  LET pattern == <<".", "slice", "(", "0", ",">>
      numbers == {Solid(text, k + Len(pattern)) :
                    k \in {j \in Found(text, pattern) : InCode(mask, j, j + Len(pattern))}}
  IN  {Replace(operator, p[1], p[1] + 1, <<Numeral[p[2] + 1]>>) :
         p \in {q \in numbers \X (1..(Len(Numeral) - 1)) : At(text, q[1]) = Numeral[q[2]]}}

\* return_zero_edits
ReturnsZero(operator, text, mask) ==
  LET Zero == [w \in {"true", "false"} \cup ToSet(Tail(Numeral)) |->
                 IF w = "true" THEN "false" ELSE IF w = "false" THEN "true" ELSE "0"]
      values == {Solid(text, k + 1) : k \in Keywords(text, mask, "return")} \cap mask
  IN  {Replace(operator, k, k + 1, <<Zero[text[k]]>>) :
         k \in {j \in values : /\ text[j] \in DOMAIN Zero
                               /\ text[j] \in {"true", "false"} => Whole(text, j, j + 1)}}

\* Every operator, in the order that breaks ties.
Operators ==
  <<"bool_flip", "boundary_flip", "collection_boundary", "eq_neq_flip", "equality_flip",
    "err_nil_flip", "ignore_context", "invert_bool", "is_ok_err_flip", "is_some_none_flip",
    "logical_flip", "off_by_one", "omit_callback", "omit_error", "remove_branch",
    "remove_sort", "return_zero", "skip_branch", "wrong_permission">>

Language == {"ts_js", "go", "rust"}

\* operator_for
Catalogue ==
  [language \in Language |->
     IF language = "ts_js"
     THEN {"boundary_flip", "equality_flip", "bool_flip", "logical_flip", "off_by_one",
           "remove_branch", "remove_sort", "wrong_permission", "omit_callback", "omit_error",
           "collection_boundary"}
     ELSE IF language = "go"
     THEN {"err_nil_flip", "boundary_flip", "return_zero", "skip_branch", "ignore_context",
           "invert_bool"}
     ELSE {"boundary_flip", "invert_bool", "is_ok_err_flip", "is_some_none_flip",
           "eq_neq_flip"}]

Call(name) == <<".", name, "(", ")">>

\* The operators that only put one text for another.
Patterns ==
  [equality_flip |-> Flip(<<"=", "=", "=">>, <<"!", "=", "=">>),
   logical_flip |-> Flip(<<"&", "&">>, <<"|", "|">>),
   off_by_one |-> Flip(<<"+", "1">>, <<"-", "1">>),
   remove_sort |-> {<<Call("sort"), Call("slice")>>},
   is_ok_err_flip |-> Flip(Call("is_ok"), Call("is_err")),
   is_some_none_flip |-> Flip(Call("is_some"), Call("is_none")),
   ignore_context |-> {<<<<name>> \o Call("Err"), <<"nil">>>> : name \in {"ctx", "context"}},
   err_nil_flip |->
     Flip(<<"err", " ", "!", "=", " ", "nil">>, <<"err", " ", "=", "=", " ", "nil">>)
       \cup Flip(<<"nil", " ", "!", "=", " ", "err">>, <<"nil", " ", "=", "=", " ", "err">>)]

\* plan_ts_js, plan_go, plan_rust
Edits(operator, text, mask) ==
  IF operator \in DOMAIN Patterns THEN Replaced(operator, text, mask, Patterns[operator])
  ELSE IF operator \in {"bool_flip", "invert_bool"}
  THEN Reworded(operator, text, mask, Flip(<<"true">>, <<"false">>))
  ELSE IF operator = "omit_error"
  THEN Reworded(operator, text, mask, {<<<<"throw">>, <<"void">>>>})
  ELSE IF operator = "boundary_flip" THEN Comparisons(operator, text, mask)
  ELSE IF operator = "eq_neq_flip" THEN RustEqualities(operator, text, mask)
  ELSE IF operator = "remove_branch" THEN BranchesRemoved(operator, text, mask)
  ELSE IF operator = "skip_branch" THEN BranchesSkipped(operator, text, mask)
  ELSE IF operator = "wrong_permission"
  THEN Negated(operator, text, mask,
               {"canDelete", "canWrite", "hasPermission", "isAllowed", "isAuthorized"})
  ELSE IF operator = "omit_callback"
  THEN CallsOmitted(operator, text, mask, {"callback", "onComplete", "onSuccess", "onDone"})
  ELSE IF operator = "collection_boundary" THEN BoundariesMoved(operator, text, mask)
  ELSE ReturnsZero(operator, text, mask)
-----------------------------------------------------------------------------
(* plan_source_mutants *)

Before(e, f) ==
  LET Rank(operator) == CHOOSE k \in DOMAIN Operators : Operators[k] = operator
  IN  \/ e.start < f.start
      \/ e.start = f.start /\ e.end < f.end
      \/ e.start = f.start /\ e.end = f.end /\ Rank(e.operator) < Rank(f.operator)

\* Every edit the operators propose of a text, with its line.
Proposals(text, operators) ==
  LET mask == CodeMask(text)
      Numbered(e) == [edit |-> e, line |-> Line(text, e.start)]
  IN  {Numbered(e) : e \in UNION {Edits(operator, text, mask) : operator \in operators}}

First(edits) == CHOOSE e \in edits : \A f \in edits : ~Before(f, e)

\* The first of the changed lines, at most as many as the limit says.
SourceMutants(path, proposals, lines, limit) ==
  LET changed == {p.edit : p \in {q \in proposals : q.line \in lines}}
      kept[n \in 0..limit] ==
        IF n = 0 THEN << >>
        ELSE LET before == kept[n - 1]
                 left == changed \ ToSet(before)
             IN  IF left = {} THEN before ELSE Append(before, First(left))
      edits == kept[limit]
  IN  [k \in DOMAIN edits |-> [path |-> path, edit |-> edits[k]]]

\* SourceMutant::apply on the text it was planned from.
Mutated(text, edit) ==
  SubSeq(text, 1, edit.start - 1) \o edit.to \o SubSeq(text, edit.end, Len(text))

-----------------------------------------------------------------------------
(* What the language takes a text for.  These are the lexemes the mask is meant  *)
(* for: no quote but around a literal (a Rust lifetime, a regular expression),   *)
(* and a backslash in a literal always escapes (not so in a Go raw string).      *)

IsCode(text, a, b) ==
  \A k \in a..b : text[k] \notin Quote /\ (text[k] = "/" => At(text, k + 1) \notin {"/", "*"})

IsLineComment(text, a, b) ==
  /\ a < b /\ text[a] = "/" /\ text[a + 1] = "/"
  /\ \A k \in a..b : text[k] # "\n"
  /\ b = Len(text) \/ text[b + 1] = "\n"

IsBlockComment(text, a, b) ==
  /\ a + 3 <= b
  /\ text[a] = "/" /\ text[a + 1] = "*" /\ text[b - 1] = "*" /\ text[b] = "/"
  /\ \A k \in (a + 2)..(b - 2) : text[k] = "*" => text[k + 1] # "/"

\* An odd number of backslashes lies before the place, in the literal that starts at a.
Escaped(text, a, k) ==
  \E j \in (a + 1)..k :
    /\ (k - j) % 2 = 1
    /\ \A i \in j..(k - 1) : text[i] = "\\"
    /\ j = a + 1 \/ text[j - 1] # "\\"

IsLiteral(text, a, b) ==
  /\ a < b /\ text[a] \in Quote /\ text[b] = text[a]
  /\ \A k \in (a + 1)..b : text[k] = text[a] => (k = b <=> ~Escaped(text, a, k))

\* Each of the first n places is in its lexeme, which is what its kind says.
LexedTo(source, n) ==
  LET text == source.text
  IN  /\ DOMAIN source.lexeme = DOMAIN text
      /\ \A k \in DOMAIN text : k <= n =>
           LET l == source.lexeme[k]
           IN  /\ l.start \in 1..k /\ l.end \in k..Len(text)
               /\ \A i \in l.start..l.end : source.lexeme[i] = l
               /\ \/ l.kind = "code" /\ IsCode(text, l.start, l.end)
                  \/ l.kind = "comment" /\ \/ IsLineComment(text, l.start, l.end)
                                           \/ IsBlockComment(text, l.start, l.end)
                  \/ l.kind = "literal" /\ IsLiteral(text, l.start, l.end)

\* The places of a source that are code.
CodeOf(source) == {k \in DOMAIN source.text : source.lexeme[k].kind = "code"}

\* Does the edit change or cut a comment or a literal?
Quoted(source, edit) ==
  IF edit.start < edit.end THEN ~(edit.start..(edit.end - 1) \subseteq CodeOf(source))
  ELSE /\ edit.start \in 2..Len(source.text)
       /\ edit.start \notin CodeOf(source)
       /\ source.lexeme[edit.start] = source.lexeme[edit.start - 1]
=============================================================================
