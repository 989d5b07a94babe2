------------------------------ MODULE MCGetopt ------------------------------
(* Instances of Getopt for TLC: a takes no argument, b an optional one, c needs *)
(* one; x is unknown.                                                           *)
EXTENDS Getopt

MCTakes == [a |-> "none", b |-> "optional", c |-> "required"]

Operand == [type |-> "operand"]
End == [type |-> "end"]
Short(text) == [type |-> "short", text |-> text]
Long(match, value) == [type |-> "long", match |-> match, value |-> value]

VectorsUpTo(n, ws) == UNION {[1..k -> ws] : k \in 0..n}

\* Every mixture of up to four words that are operands, "--", a letter, a letter
\* in need of an argument and a long option in need of one.
MixedArguments ==
    VectorsUpTo(4, {Operand, End, Short(<<"a">>), Short(<<"c">>), Long("required", FALSE)})

\* All kinds of options, operands and "--", up to three words of them.
OptionArguments ==
    VectorsUpTo(3, {Operand, Short(<<"a", "c">>), Short(<<"c", "a">>), Short(<<"a", "x", "a">>),
                    Short(<<"a", "b">>), Short(<<"b", "a">>), End}
                   \cup {Long(m, v) : m \in {"unknown", "none", "required", "optional"}, v \in BOOLEAN})

\* A few vectors to be scanned after others.
FewArguments ==
    {<< >>, <<Short(<<"a", "x">>)>>, <<Operand, Short(<<"a">>)>>,
     <<Operand, Short(<<"a", "a">>), Operand>>, <<Short(<<"c">>), End, Operand>>,
     <<Operand, Short(<<"a">>), Operand, End>>}

MCArguments == MixedArguments \cup OptionArguments \cup FewArguments
MCPrefixes == {"", "+", "-", ":"}
=============================================================================
