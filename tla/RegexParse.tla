------------------------------ MODULE RegexParse ------------------------------
(***************************************************************************)
(* The parser of regcomp (src/regex/regcomp.c): from the tokens of a basic *)
(* or an extended regular expression to its syntax tree.                   *)
(*                                                                         *)
(* A token is what the parser reads at once: "(" stands for the open       *)
(* parenthesis of either syntax, which a basic expression spells "\(", and *)
(* likewise ")", "|", "+", "?" and "{2}"; a letter, "." and "[ab]" match a *)
(* character; "^", "$", "\<" and "\>" are assertions; "\1" and "\2" are    *)
(* back references.  Classes, ranges and negation of brackets, escapes,    *)
(* REG_ICASE, malformed counts and bytes that are no character are left    *)
(* out.                                                                    *)
(***************************************************************************)
EXTENDS Integers, Sequences, SequencesExt, TLC

CONSTANTS
    Chars,      \* the characters of strings, "\n" among them
    WordChars   \* those that IS_WORD_CHAR accepts

End == "end"    \* the byte 0: what follows the last character, and the last token
AnyChar == Chars \cup {End}

Repetitions ==
    "*" :> <<0, -1>> @@ "+" :> <<1, -1>> @@ "?" :> <<0, 1>> @@
    "{0}" :> <<0, 0>> @@ "{2}" :> <<2, 2>> @@ "{1,2}" :> <<1, 2>> @@ "{0,2}" :> <<0, 2>>
    @@ "{2,}" :> <<2, -1>>
Assertions == "^" :> "AT_BOL" @@ "$" :> "AT_EOL" @@ "\\<" :> "AT_BOW" @@ "\\>" :> "AT_EOW"
Backrefs == "\\1" :> 1 @@ "\\2" :> 2
Brackets == "[ab]" :> <<"a", "b">>

-----------------------------------------------------------------------------
(* The tree.  id is submatch_id, subs num_submatches.                      *)

None == [type |-> "null"]
Leaf(type) == [type |-> type, id |-> -1, subs |-> 0]

tre_ast_new_char(chars, pos) == Leaf("char") @@ [chars |-> chars, pos |-> pos]
tre_ast_new_backref(n, pos) == Leaf("backref") @@ [n |-> n, pos |-> pos]
tre_ast_new_assertion(at) == Leaf("assertion") @@ [at |-> at]
tre_ast_new_tag(n) == Leaf("tag") @@ [n |-> n]
Empty == Leaf("empty")

tre_ast_new_iter(arg, min, max) ==
    [type |-> "iter", id |-> -1, subs |-> arg.subs, arg |-> arg, min |-> min, max |-> max]

Binary(type, l, r) ==
    IF l = None THEN r
    ELSE [type |-> type, id |-> -1, subs |-> l.subs + r.subs, l |-> l, r |-> r]
tre_ast_new_union(l, r) == Binary("union", l, r)
tre_ast_new_catenation(l, r) == Binary("cat", l, r)

marksub(n, id) ==
    LET own == IF n.id >= 0 THEN tre_ast_new_catenation(Empty, n) ELSE n
    IN [own EXCEPT !.id = id, !.subs = @ + 1]

-----------------------------------------------------------------------------
(* Tokens t are read from s.i on; s.start is where the branch begins,      *)
(* s.branch and s.union are what has been read of the innermost group, and *)
(* s.stack what surrounds it.                                              *)

Tok(t, i) == IF i \in 1..Len(t) THEN t[i] ELSE End
Refuse(s, err) == [s EXCEPT !.err = err]
ReadNode(s, n, width, positions) ==
    [s EXCEPT !.n = n, !.i = @ + width, !.position = @ + positions]

ReadLiteral(t, s) == ReadNode(s, tre_ast_new_char({Tok(t, s.i)}, s.position), 1, 1)

ReadDot(s, newline) ==
    IF newline
    THEN ReadNode(s, tre_ast_new_union(tre_ast_new_char({End}, s.position),
                                       tre_ast_new_char(Chars \ {"\n"}, s.position + 1)), 1, 2)
    ELSE ReadNode(s, tre_ast_new_char(AnyChar, s.position), 1, 1)

parse_bracket(t, s) ==
    LET lits == Brackets[Tok(t, s.i)]
        add(n, c) == tre_ast_new_union(n, tre_ast_new_char({c}, s.position))
    IN ReadNode(s, FoldLeft(add, None, lits), 1, 1)

\* "^" and "$" are assertions everywhere in an extended expression, in a basic one
\* only where a branch begins and ends.
IsAssertion(t, s, ere) ==
    /\ Tok(t, s.i) \in DOMAIN Assertions
    /\ ~ere /\ Tok(t, s.i) = "^" => s.i = s.start
    /\ ~ere /\ Tok(t, s.i) = "$" => Tok(t, s.i + 1) \in {End, ")", "|"}

parse_atom(t, s, ere, newline) ==
    LET c == Tok(t, s.i) IN
    IF c \in DOMAIN Brackets THEN parse_bracket(t, s)
    ELSE IF c = "." THEN ReadDot(s, newline)
    ELSE IF IsAssertion(t, s, ere)
         THEN ReadNode(s, tre_ast_new_assertion(Assertions[c]), 1, 0)
    ELSE IF c \in DOMAIN Repetitions /\ (ere \/ c # "*") THEN Refuse(s, "REG_BADRPT")
    ELSE IF c \in {"|", End} THEN ReadNode(s, Empty, 0, 0)
    ELSE IF ~ere /\ c \in DOMAIN Backrefs
         THEN [ReadNode(s, tre_ast_new_backref(Backrefs[c], s.position), 1, 1)
               EXCEPT !.max_backref = IF Backrefs[c] > @ THEN Backrefs[c] ELSE @]
    ELSE ReadLiteral(t, s)

\* parse_iter: the repetitions behind an atom, but not a "*" behind the "^" a basic
\* expression begins with.
RECURSIVE ParseIter(_, _, _)
ParseIter(t, s, ere) ==
    LET c == Tok(t, s.i)
        leading == ~ere /\ c = "*" /\ s.i = s.start + 1 /\ Tok(t, s.start) = "^"
    IN IF s.err # "REG_OK" \/ c \notin DOMAIN Repetitions \/ leading THEN s
       ELSE LET min == Repetitions[c][1]
                max == Repetitions[c][2]
                n == IF max = 0 THEN Empty ELSE tre_ast_new_iter(s.n, min, max)
            IN ParseIter(t, ReadNode(s, n, 1, 0), ere)

\* Mutant: a group that is opened is not counted
OpenGroupUncounted(s) ==
    [s EXCEPT !.stack = Append(@, [union |-> s.union, branch |-> s.branch, id |-> s.subid]),
              !.subid = @ + 1, !.i = @ + 1, !.start = s.i + 1,
              !.branch = None, !.union = None]

OpenGroup(s) ==
    [s EXCEPT !.stack = Append(@, [union |-> s.union, branch |-> s.branch, id |-> s.subid]),
              !.subid = @ + 1, !.depth = @ + 1, !.i = @ + 1, !.start = s.i + 1,
              !.branch = None, !.union = None]

CloseGroup(s) ==
    LET outer == Last(s.stack) IN
    [s EXCEPT !.n = marksub(s.union, outer.id), !.stack = Front(@),
              !.branch = outer.branch, !.union = outer.union]

\* A piece has been read with its repetitions: what it ends, if anything.
RECURSIVE AfterPiece(_, _, _)
AfterPiece(t, s0, ere) ==
    LET s == [s0 EXCEPT !.branch = tre_ast_new_catenation(s0.branch, s0.n)]
        c == Tok(t, s.i)
        ended == [s EXCEPT !.union = tre_ast_new_union(s.union, s.branch), !.branch = None]
        closed == CloseGroup([ended EXCEPT !.depth = @ - 1, !.i = IF c = ")" THEN @ + 1 ELSE @])
    IN IF s0.err # "REG_OK" THEN s0
       ELSE IF c = "|" THEN [ended EXCEPT !.i = @ + 1, !.start = s.i + 1]
       ELSE IF ~(c = End \/ (c = ")" /\ (~ere \/ s.depth > 0))) THEN s
       ELSE IF ~ere /\ c = ")" /\ s.depth = 0 THEN Refuse(s, "REG_EPAREN")
       ELSE IF c = End /\ closed.depth < 0 THEN [closed EXCEPT !.done = TRUE]
       ELSE IF c = End \/ closed.depth < 0 THEN Refuse(s, "REG_EPAREN")
       ELSE AfterPiece(t, ParseIter(t, closed, ere), ere)

RECURSIVE ParseOn(_, _, _, _)
ParseOn(t, s, ere, newline) ==
    LET c == Tok(t, s.i)
        atom == IF c = ")" /\ (~ere \/ s.depth > 0) THEN [s EXCEPT !.n = Empty]
                ELSE parse_atom(t, s, ere, newline)
    IN IF s.done \/ s.err # "REG_OK" THEN s
       ELSE IF c = "(" THEN ParseOn(t, OpenGroup(s), ere, newline)
       ELSE ParseOn(t, AfterPiece(t, ParseIter(t, atom, ere), ere), ere, newline)

tre_parse(t, cflags) ==
    ParseOn(t,
            [i |-> 1, start |-> 1, position |-> 0, max_backref |-> -1, err |-> "REG_OK",
             n |-> None, branch |-> None, union |-> None, subid |-> 1, depth |-> 0,
             stack |-> <<[union |-> None, branch |-> None, id |-> 0]>>, done |-> FALSE],
            "EXTENDED" \in cflags, "NEWLINE" \in cflags)
=============================================================================
