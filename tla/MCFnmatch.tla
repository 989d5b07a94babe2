----------------------------- MODULE MCFnmatch -----------------------------
(* Two families of patterns: stars, slashes and periods under every          *)
(* combination of the path flags; brackets and escapes under the others.     *)
EXTENDS Fnmatch

All == Range(Codes)
Token(t, set) == [text |-> t, star |-> FALSE, inv |-> FALSE, set |-> set]
Literal(c)    == Token(<<c>>, {c})
AnyStar       == [text |-> <<"*">>, star |-> TRUE, inv |-> FALSE, set |-> {}]
AnyOne        == Token(<<"?">>, All)
Escaped(c)    == Token(<<"\\", c>>, {c})
Bracket(t, set) == Token(<<"[">> \o t \o <<"]">>, set)
Not(t, set)   == [Bracket(<<"!">> \o t, set) EXCEPT !.inv = TRUE]

PathTokens == {AnyStar, AnyOne, Literal("a"), Literal("."), Literal("/")}
PathFlags  == SUBSET {"PATHNAME", "PERIOD", "LEADING_DIR"}

\* Brackets with each special item at each place where it is not special, and
\* one left open, which is a literal.  A collating symbol adds nothing: the code
\* skips it.
BracketTokens ==
  {AnyStar, Literal("a"), Literal("-"), Literal("["),
   Bracket(<<"a", "*">>, {"a", "*"}),
   Bracket(<<"]", "a">>, {"]", "a"}),
   Bracket(<<"-", "a">>, {"-", "a"}),
   Bracket(<<"a", "-">>, {"a", "-"}),
   Bracket(<<"A", "-", "a">>, {"A", "B", "[", "\\", "]", "^", "a"}),
   Bracket(<<"[", ":", "lower", ":", "]", "-">>, {"a", "b", "-"}),
   Bracket(<<"a", "[", ".", "-", ".", "]">>, {"a"}),
   Bracket(<<"[">>, {"["}),
   Not(<<"a">>, {"a"}), Not(<<"]", "a">>, {"]", "a"}),
   [Bracket(<<"^", "a", "-", "b">>, {"a", "b"}) EXCEPT !.inv = TRUE]}

OpenBracketIsLast(ts) ==
  \A i \in DOMAIN ts : ts[i] = Literal("[") =>
    \A j \in i..Len(ts) : "]" \notin Range(ts[j].text)

Cases ==
  {[toks |-> {ts \in SeqOf(PathTokens, 4) : Len(ts) = 4 => AnyStar \in Range(ts)},
    strs |-> SeqOf({"a", ".", "/"}, 3), flags |-> PathFlags],
   [toks |-> SeqOf({AnyStar, Literal("a"), Literal("b")}, 5),
    strs |-> SeqOf({"a", "b"}, 5), flags |-> {{}}],
   [toks |-> {ts \in SeqOf(BracketTokens, 2) : OpenBracketIsLast(ts)},
    strs |-> SeqOf({"a", "b", "A", "]", "-", "[", "!"}, 2), flags |-> {{}, {"CASEFOLD"}}],
   [toks |-> SeqOf({Escaped("a"), Escaped("*"), Escaped("["), Escaped("/"), Literal("/"), Literal("\\")}, 1)
             \cup {<<t, u>> : t \in {Escaped("*"), Escaped("/"), Literal("a")},
                              u \in {Escaped("/"), Escaped("["), Literal("\\"), AnyStar}},
    strs |-> SeqOf({"a", "*", "[", "/", "\\"}, 2), flags |-> {{}, {"PATHNAME"}}],
   [toks |-> SeqOf({Literal("\\"), Literal("a"), AnyStar}, 3),
    strs |-> SeqOf({"a", "\\", "*"}, 2), flags |-> {{"NOESCAPE"}}]}
=============================================================================
