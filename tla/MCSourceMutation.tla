-------------------------- MODULE MCSourceMutation ---------------------------
(***************************************************************************)
(* Small instance of MutationOfChange: five planned mutants in three files,  *)
(* more beyond the ceiling, a mutant no obligation owns, a mutant its      *)
(* judge cannot run, a flaky case.  Other changes touch one line of two    *)
(* files that hold sites of most operators, next to comments, literals and *)
(* longer tokens.                                                          *)
(***************************************************************************)
EXTENDS MutationOfChange

CONSTANTS o1, o2, t1, t2, t3

Code(symbols) == <<"code", symbols>>
Literal(symbols) == <<"literal", symbols>>
Comment(symbols) == <<"comment", symbols>>
NewLine == Code(<<"\n">>)

\* The source that consists of these lexemes.
Marked(lexemes) ==
  LET Length(n) == Len(FlattenSeq([i \in 1..n |-> lexemes[i][2]]))
      Tag(i) == [k \in 1..Len(lexemes[i][2]) |->
                     [kind |-> lexemes[i][1], start |-> Length(i - 1) + 1, end |-> Length(i)]]
  IN  [text |-> FlattenSeq([i \in DOMAIN lexemes |-> lexemes[i][2]]),
       lexeme |-> FlattenSeq([i \in DOMAIN lexemes |-> Tag(i)])]

\* if (x > y) z('it\' true'); // true
\* z = true
A == <<Code(<<"if", " ", "(", "x", " ", ">", " ", "y", ")", " ", "z", "(">>),
       Literal(<<"'", "it", "\\", "'", " ", "true", "'">>), Code(<<")", ";", " ">>),
       Comment(<<"/", "/", " ", "true">>), Code(<<"\n", "z", " ", "=", " ", "true">>)>>

\* /*/ true */ x == y => z
B == <<Comment(<<"/", "*", "/", " ", "true", " ", "*", "/">>),
       Code(<<" ", "x", "=", "=", "y", " ", "=", ">", " ", "z">>)>>

\* if err != nil { "err != nil" }
C == <<Code(<<"if", " ", "err", " ", "!", "=", " ", "nil", " ", "{", " ">>),
       Literal(<<"\"", "err", " ", "!", "=", " ", "nil", "\"">>), Code(<<"}">>)>>

\* true
D == <<Code(<<"true">>)>>

\* isAllowed (x) && !canWrite(x) /* && */
\* callback(); x.callback(); x.sort()
\* throw x+1 >> 2 >= 3
\* x.slice(0, 2).y === "===" + true
E == <<Code(<<"isAllowed", " ", "(", "x", ")", " ", "&", "&", " ", "!", "canWrite", "(", "x", ")">>),
       Comment(<<"/", "*", "&", "&", "*", "/">>), NewLine,
       Code(<<"callback", "(", ")", ";", "x", ".", "callback", "(", ")", ";", "x">> \o Call("sort")),
       NewLine,
       Code(<<"throw", " ", "x", "+", "1", " ", ">", ">", " ", "2", " ", ">", "=", "3">>), NewLine,
       Code(<<"x", ".", "slice", "(", "0", ",", " ", "2", ")", ".", "y", " ", "=", "=", "=">>),
       Literal(<<"\"", "=", "=", "=", "\"">>), Code(<<"+", " ", "true">>)>>

\* if x := ctx.Err(); x { return true }
\* if ctx.Err() { return 2 } // return 2
\* `if \\` return 0
\* `\`                      the mask takes this for an open literal,
\* `return 1`               and this for code
F == <<Code(<<"if", " ", "x", "=", "ctx">> \o Call("Err")
              \o <<";", "x", "{", "return", " ", "true", "}", "\n", "if", " ", "ctx">>
              \o Call("Err") \o <<"{", "return", " ", "2", "}", " ">>),
       Comment(<<"/", "/", "return", " ", "2">>), NewLine,
       Literal(<<"backtick", "if", " ", "\\", "\\", "backtick">>),
       Code(<<" ", "return", " ", "0">>), NewLine,
       Literal(<<"backtick", "\\", "backtick">>), NewLine,
       Literal(<<"backtick", "return", " ", "1", "backtick">>)>>

MCFile == {"a", "b", "c", "d", "e", "f"}

MCSource == [f \in MCFile |->
  Marked(CASE f = "a" -> A [] f = "b" -> B [] f = "c" -> C
           [] f = "d" -> D [] f = "e" -> E [] f = "f" -> F)]

\* Every source of the instance but one has only lexemes the mask is meant for.
ASSUME SourcesAssumption ==
  \A f \in MCFile : LexedTo(MCSource[f], Len(MCSource[f].text)) <=> f # "f"

MCFiles == <<"e", "f", "a", "b", "c", "d">>
MCLanguageOf == "a" :> "ts_js" @@ "b" :> "rust" @@ "c" :> "go" @@ "d" :> "ts_js"
                @@ "e" :> "ts_js" @@ "f" :> "go"

Nowhere == [f \in MCFile |-> {}]
MCDiffs ==
  {[Nowhere EXCEPT !["a"] = {1, 2}, !["b"] = {1}, !["c"] = {1}, !["d"] = {1}],
   [Nowhere EXCEPT !["a"] = {2}], [Nowhere EXCEPT !["d"] = {1}]}
    \cup {[Nowhere EXCEPT !["e"] = {line}] : line \in 1..4}
    \cup {[Nowhere EXCEPT !["f"] = {line}] : line \in {1, 2, 3, 5}}
    \cup {Nowhere}

\* o1 has every operator, o2 those that flip boundaries and truths.
MCHints == o1 :> [all |-> TRUE, operators |-> {}]
           @@ o2 :> [all |-> FALSE, operators |-> {"boundary_flip", "bool_flip"}]

\* t1 is bound to o1, t2 to o2, t3 is flaky and stands in one of the files.
MCProves == t1 :> {o1} @@ t2 :> {o2} @@ t3 :> {o1, o2}
MCReaches == t1 :> {"a", "c", "e", "f"} @@ t2 :> {"a"} @@ t3 :> {"a"}
MCDeclares == t1 :> {} @@ t2 :> {} @@ t3 :> {"d"}
MCKnownFlaky == {t3}
MCRuns == t1 :> {"ts_js"} @@ t2 :> {"ts_js", "go"} @@ t3 :> {"ts_js"}
MCDetects == t1 :> {<<"a", "remove_branch">>, <<"a", "boundary_flip">>, <<"a", "bool_flip">>}
             @@ t2 :> {<<"a", "bool_flip">>, <<"a", "boundary_flip">>}
             @@ t3 :> {<<"a", "bool_flip">>, <<"a", "boundary_flip">>}
=============================================================================
