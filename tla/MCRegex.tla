------------------------------- MODULE MCRegex -------------------------------
(* Instances of Regexec for TLC: families of patterns, and what each is      *)
(* searched in.                                                              *)
EXTENDS Regexec

MCChars == {"a", "b", "*", "^", " ", "\n"}
MCWordChars == {"a", "b"}

Ere(ts, flags) == {[t |-> t, cflags |-> {"EXTENDED"} \cup flags] : t \in ts}
Bre(ts, flags) == {[t |-> t, cflags |-> flags] : t \in ts}
UpTo(n, cs) == UNION {[1..k -> cs] : k \in 0..n}
Loop(x, r) == <<"(">> \o x \o <<")">> \o r

\* Groups in alternatives in loops: what tags have to tell apart.
Branches == {<<"a">>, <<"a", "b">>, <<"b", "a">>, <<"a", "*">>, <<"(", "b", ")", "*">>,
             <<"(", "a", ")", "b">>, <<"a", "(", "b", ")", "?">>}
Alternatives == Branches \cup {x \o <<"|">> \o y : x \in Branches, y \in Branches}
Loops == {Loop(x, r) : x \in Alternatives, r \in {<<>>, <<"*">>, <<"+">>}}
Nested == {Loop(Loop(x, <<"*">>) \o <<"|", "b">>, <<"*">>) : x \in Branches}
GroupPatterns == Ere(Loops \cup {l \o <<"b">> : l \in Loops} \cup Nested, {})

\* Counted repetitions, which become copies of what they repeat.
Counted == {x \o <<r>> \o y : x \in {<<"a">>, <<"[ab]">>, <<"(", "a", ")">>,
                                     <<"(", "a", "|", "b", "a", ")">>, <<"(", "a", "*", ")">>},
                              r \in {"{2}", "{1,2}", "{0,2}", "{2,}"},
                              y \in {<<>>, <<"b">>, <<"(", "a", ")", "*">>}}
CountPatterns == Ere(Counted, {})

\* What holds between characters.
Anchored == {x \o <<"a">> \o y : x \in {<<>>, <<"^">>, <<"\\<">>, <<".">>, <<".", "\\>">>},
                                 y \in {<<>>, <<"$">>, <<"\\>">>, <<".">>, <<".", "^">>}}
AssertionPatterns == Ere(Anchored, {}) \cup Ere(Anchored, {"NEWLINE"})

\* Back references to groups that took part in the match.
Backreferring ==
    {Loop(x, <<>>) \o y \o z : x \in {<<"a">>, <<".">>, <<"a", "*">>, <<"a", "|", "a", "b">>},
                               y \in {<<>>, <<"b">>, <<"b", "*">>},
                               z \in {<<"\\1">>, <<"\\1", "*">>, <<"\\1", "a">>,
                                      Loop(<<"\\1">>, <<"*">>), Loop(<<"\\1">>, <<>>) \o <<"\\2">>}}
BackrefPatterns == Bre(Backreferring, {})

\* Every short sequence of tokens, well formed or not.
TokenPatterns == Ere(UpTo(4, {"a", "(", ")", "|", "*"}), {"NOSUB"})
                 \cup Bre(UpTo(4, {"a", "*", "^", "$", "(", ")"}), {"NOSUB"})

MCPatterns == GroupPatterns \cup CountPatterns \cup AssertionPatterns \cup BackrefPatterns
              \cup TokenPatterns
MCStrings(p) ==
    IF "NOSUB" \in p.cflags THEN {<<"a">>, <<"*", "a">>}
    ELSE IF p \in AssertionPatterns THEN UpTo(3, {"a", " ", "\n"})
    ELSE UpTo(IF p \in CountPatterns THEN 4 ELSE 3, {"a", "b"})
MCMatchSlots == {0, 2, 5}
MCEFlags(p) == IF p \in AssertionPatterns THEN SUBSET {"NOTBOL", "NOTEOL"} ELSE {{}}
=============================================================================
