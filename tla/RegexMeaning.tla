----------------------------- MODULE RegexMeaning -----------------------------
(***************************************************************************)
(* What a regular expression means, read off the grammar that the comment  *)
(* before parse_atom gives (src/regex/regcomp.c) and independent of the    *)
(* tree, the tags and the automaton: where the tokens i..j of the pattern, *)
(* matched from a place in the string, may end, and which part each group  *)
(* took.                                                                   *)
(*                                                                         *)
(* c holds the pattern c.t, the string c.str and the flags.                *)
(***************************************************************************)
EXTENDS RegexParse, FiniteSetsExt

Count(t, i, j, tok) == Cardinality({k \in i..j : t[k] = tok})

\* The parentheses that belong together.
Pairs(t) ==
    {<<o, cl>> \in (DOMAIN t) \X (DOMAIN t) :
        /\ t[o] = "(" /\ t[cl] = ")" /\ o < cl
        /\ Count(t, o, cl, "(") = Count(t, o, cl, ")")
        /\ \A k \in o..(cl - 1) : Count(t, o, k, "(") > Count(t, o, k, ")")}
Group(t, o) == Count(t, 1, o, "(")
GroupsOf(t) == 1..Count(t, 1, Len(t), "(")

Bars(c, i, j) ==
    {k \in i..j : c.t[k] = "|" /\ \A q \in Pairs(c.t) : ~(i <= q[1] /\ q[1] < k /\ k < q[2])}

\* Whether token k repeats what is before it in the branch that begins at i: a "*" that
\* begins a branch of a basic expression, or follows the "^" that does, is a character.
Repeats(c, i, k) ==
    /\ k > i /\ c.t[k] \in DOMAIN Repetitions
    /\ ~(~c.ere /\ c.t[k] = "*" /\ k = i + 1 /\ c.t[i] = "^")

\* Where the piece that ends at k begins.
RECURSIVE PieceStart(_, _, _)
PieceStart(c, i, k) ==
    IF Repeats(c, i, k) THEN PieceStart(c, i, k - 1)
    ELSE IF \E q \in Pairs(c.t) : q[2] = k THEN (CHOOSE q \in Pairs(c.t) : q[2] = k)[1]
    ELSE k

At(c, p) == IF p \in DOMAIN c.str THEN c.str[p] ELSE End
WordAt(c, p) == At(c, p) \in WordChars

\* Whether an assertion holds between the characters p and p + 1.
Asserted(c, at, p) ==
    CASE at = "AT_BOL" -> (p = 0 /\ ~c.notbol) \/ (c.newline /\ At(c, p) = "\n")
      [] at = "AT_EOL" -> (p = Len(c.str) /\ ~c.noteol) \/ (c.newline /\ At(c, p + 1) = "\n")
      [] at = "AT_BOW" -> ~WordAt(c, p) /\ WordAt(c, p + 1)
      [] at = "AT_EOW" -> WordAt(c, p) /\ ~WordAt(c, p + 1)

\* Whether token k of the branch i..j is an assertion.
Asserts(c, i, k) ==
    /\ c.t[k] \in DOMAIN Assertions
    /\ ~c.ere /\ c.t[k] = "^" => k = i
    /\ ~c.ere /\ c.t[k] = "$" => k = Len(c.t) \/ c.t[k + 1] \in {")", "|"}

Takes(c, k) ==
    IF c.t[k] = "." THEN IF c.newline THEN Chars \ {"\n"} ELSE Chars
    ELSE IF c.t[k] \in DOMAIN Brackets THEN {Brackets[c.t[k]][n] : n \in DOMAIN Brackets[c.t[k]]}
    ELSE {c.t[k]}

M(at, env) == [at |-> at, env |-> env]
Unset == <<-1, -1>>

RECURSIVE Ends(_, _, _, _), Piece(_, _, _, _, _), Repeat(_, _, _, _, _)
\* The tokens i..j from the place and the groups of m.
Ends(c, i, j, m) ==
    LET bars == Bars(c, i, j)
        a == PieceStart(c, i, j)
    IN IF bars # {} THEN Ends(c, i, Min(bars) - 1, m) \cup Ends(c, Min(bars) + 1, j, m)
       ELSE IF i > j THEN {m}
       ELSE UNION {Piece(c, i, a, j, n) : n \in Ends(c, i, a - 1, m)}

\* The piece a..b of the branch that begins at i.
Piece(c, i, a, b, m) ==
    LET group == Group(c.t, a)
        within == [g \in DOMAIN m.env |->
                    IF g \in {Group(c.t, o) : o \in {o \in a..b : c.t[o] = "("}}
                    THEN Unset ELSE m.env[g]]
        span == m.env[Backrefs[c.t[b]]]
        text == SubSeq(c.str, span[1] + 1, span[2])
    IN IF b > a /\ Repeats(c, i, b)
       THEN LET min == Repetitions[c.t[b]][1]
                first[k \in 0..min] ==
                    IF k = 0 THEN {m} ELSE UNION {Piece(c, i, a, b - 1, n) : n \in first[k - 1]}
            IN Repeat(c, <<i, a, b>>, first[min], first[min], Repetitions[c.t[b]][2] - min)
       ELSE IF c.t[b] = ")" /\ a < b
       THEN {M(n.at, [n.env EXCEPT ![group] = <<m.at, n.at>>]) :
                n \in Ends(c, a + 1, b - 1, M(m.at, within))}
       ELSE IF Asserts(c, i, b) THEN IF Asserted(c, Assertions[c.t[b]], m.at) THEN {m} ELSE {}
       ELSE IF ~c.ere /\ c.t[b] \in DOMAIN Backrefs
       THEN IF /\ span # Unset /\ m.at + Len(text) <= Len(c.str)
               /\ text = SubSeq(c.str, m.at + 1, m.at + Len(text))
            THEN {M(m.at + Len(text), m.env)} ELSE {}
       ELSE IF At(c, m.at + 1) \in Takes(c, b) THEN {M(m.at + 1, m.env)} ELSE {}

\* The matches found, and those that up to "more" further turns of the piece lead to
\* from the latest (without bound if it is negative).
Repeat(c, piece, found, latest, more) ==
    LET next == UNION {Piece(c, piece[1], piece[2], piece[3] - 1, n) : n \in latest} \ found
    IN IF more = 0 \/ next = {} THEN found
       ELSE Repeat(c, piece, found \cup next, next, more - 1)

Matches(c, p) == Ends(c, 1, Len(c.t), M(p, [g \in GroupsOf(c.t) |-> Unset]))
Starts(c) == {p \in 0..Len(c.str) : Matches(c, p) # {}}

\* The grammar admits the pattern, and groups it refers to exist.
WellFormed(c) ==
    LET t == c.t
        paired == {q[1] : q \in Pairs(t)} \cup {q[2] : q \in Pairs(t)}
    IN /\ \A k \in DOMAIN t : t[k] = "(" \/ (t[k] = ")" /\ ~c.ere) => k \in paired
       /\ \A k \in DOMAIN t : t[k] \in DOMAIN Repetitions /\ (c.ere \/ t[k] # "*") =>
            k > 1 /\ t[k - 1] \notin {"(", "|"}
       /\ \A k \in DOMAIN t : ~c.ere /\ t[k] \in DOMAIN Backrefs =>
            Backrefs[t[k]] \in GroupsOf(t)
=============================================================================
