------------------------------- MODULE Getopt -------------------------------
(***************************************************************************)
(* getopt and getopt_long (src/misc/getopt.c, getopt1.c): a caller scans   *)
(* its arguments, one call per option, while getopt moves the operands     *)
(* behind the options it has passed; then, perhaps, it scans others.       *)
(*                                                                         *)
(* argv holds the numbers of the words as they were given, so a            *)
(* permutation can be seen; argv[0], the program, is word 0.  Of a word    *)
(* only what getopt asks about it is modelled: for "-abc" the letters      *)
(* after the dash, for "--name" how the name is matched by the caller's    *)
(* long options and whether "=value" follows.  getopt_long_only, the "W;"  *)
(* of an option string, and "--name" given to a function that has no long  *)
(* options, are left out, and so are the messages.                         *)
(***************************************************************************)
EXTENDS Integers, Sequences, SequencesExt, Rotation

CONSTANTS
    Entry,              \* the function the callers call
    Arguments,          \* the argument vectors callers may have: sequences of words
    LaterArguments,     \* those they may scan after others
    OptstringPrefixes,  \* what their option strings begin with
    Takes,              \* for each letter of the option string its argument
    POSIXLY_CORRECT,    \* whether this is set in the environment
    MaxScans            \* bound: argument vectors scanned one after the other

ArgumentKind == {"none", "required", "optional"}

\* A word that is no option, "--", a cluster of letters, a long option.
IsWord(w) ==
    \/ w.type \in {"operand", "end"}
    \/ w.type = "short" /\ w.text \in Seq(ToSet(w.text)) \ {<< >>}
    \/ w.type = "long" /\ w.match \in {"unknown", "ambiguous"} \cup ArgumentKind
                       /\ w.value \in BOOLEAN

ASSUME ArgumentsAssumption ==
    \A ws \in Arguments \cup LaterArguments :
        ws \in Seq(ToSet(ws)) /\ \A i \in DOMAIN ws : IsWord(ws[i])
ASSUME EntryAssumption ==
    /\ Entry \in {"getopt", "__posix_getopt", "getopt_long"}
    /\ Entry # "getopt_long" =>
            \A ws \in Arguments \cup LaterArguments : \A i \in DOMAIN ws : ws[i].type # "long"
ASSUME OptionAssumption ==
    /\ OptstringPrefixes \subseteq {"", "+", "-", ":", "+:", "-:"}
    /\ \A c \in DOMAIN Takes : Takes[c] \in ArgumentKind /\ c # "-1"
    /\ POSIXLY_CORRECT \in BOOLEAN
ASSUME BoundsAssumption == MaxScans \in Nat \ {0}

VARIABLES
    words, argv, prefix,            \* the caller's
    optind, optreset,               \* the interface
    d,                              \* getopt_data
    scans,      \* history: scans begun
    results,    \* history: what the calls of this scan returned
    done        \* the last call returned -1
vars == <<words, argv, prefix, optind, optreset, d, scans, results, done>>

argc == Len(words) + 1

NoArg == [kind |-> "none", text |-> << >>, word |-> 0]
Text(text) == [kind |-> "text", text |-> text, word |-> 0]
Word(w) == [kind |-> "word", text |-> << >>, word |-> w]

\* nextchar is the rest of the cluster; a null pointer and the end of it are the same.
Zeroed == [initialized |-> FALSE, ordering |-> "REQUIRE_ORDER", optind |-> 0,
           first_nonopt |-> 0, last_nonopt |-> 0, nextchar |-> << >>]

\* The words in the order they are given.
Given(ws) == [i \in 0..Len(ws) |-> i]

Init ==
    /\ words \in Arguments
    /\ argv = Given(words)
    /\ prefix \in OptstringPrefixes
    /\ optind = 1
    /\ optreset = 0
    /\ d = Zeroed
    /\ scans = 1
    /\ results = << >>
    /\ done = FALSE

-----------------------------------------------------------------------------
(* The parts of _getopt_internal_r.  Each takes a state s, which is d with *)
(* the argument vector in s.argv, and gives the next one.                  *)

\* What GETOPT_ENTRY and getopt_long pass on to _getopt_internal.
posixly_correct == Entry = "__posix_getopt"

Ordering ==
    CASE prefix \in {"-", "-:"} -> "RETURN_IN_ORDER"
      [] prefix \in {"+", "+:"} -> "REQUIRE_ORDER"
      [] prefix \in {"", ":"} ->
            IF posixly_correct \/ POSIXLY_CORRECT THEN "REQUIRE_ORDER" ELSE "PERMUTE"

Initialize(s) ==
    LET start == IF s.optind = 0 THEN 1 ELSE s.optind IN
    [s EXCEPT !.optind = start, !.first_nonopt = start, !.last_nonopt = start,
              !.nextchar = << >>, !.ordering = Ordering, !.initialized = TRUE]

Ready(s) == IF s.optind = 0 \/ ~s.initialized THEN Initialize(s) ELSE s

\* The caller may have moved optind back.
Clip(s) ==
    [s EXCEPT !.last_nonopt = IF @ > s.optind THEN s.optind ELSE @,
              !.first_nonopt = IF @ > s.optind THEN s.optind ELSE @]

\* Mutant: the first of the options counts as an operand.
exchangeOverlapping(s) ==
    [s EXCEPT !.argv = Exchanged(s.argv, s.first_nonopt, s.last_nonopt + 1, s.optind),
              !.first_nonopt = s.first_nonopt + (s.optind - s.last_nonopt),
              !.last_nonopt = s.optind]

\* exchange: the operands [first_nonopt, last_nonopt) and the options
\* [last_nonopt, optind) change places.  Module Exchange has the loop that does it.
exchange(s) ==
    [s EXCEPT !.argv = Exchanged(s.argv, s.first_nonopt, s.last_nonopt, s.optind),
              !.first_nonopt = s.first_nonopt + (s.optind - s.last_nonopt),
              !.last_nonopt = s.optind]

WordAt(s, i) == words[s.argv[i]]
NONOPTION_P(s, i) == WordAt(s, i).type = "operand"

\* The first index from optind on that holds no operand, or argc.
PastOperands(s) ==
    CHOOSE k \in s.optind..argc :
        /\ \A i \in s.optind..(k - 1) : NONOPTION_P(s, i)
        /\ k < argc => ~NONOPTION_P(s, k)

\* Exchange what was passed since the last operands, then pass more operands.
Permute(s) ==
    LET moved == IF s.first_nonopt # s.last_nonopt /\ s.last_nonopt # s.optind
                 THEN exchange(s)
                 ELSE IF s.last_nonopt # s.optind
                      THEN [s EXCEPT !.first_nonopt = s.optind]
                      ELSE s
        skipped == PastOperands(moved)
    IN IF s.ordering # "PERMUTE" THEN s
       ELSE [moved EXCEPT !.optind = skipped, !.last_nonopt = skipped]

\* Mutant: "--" itself stays among the operands before it.
DashDashStays(s) ==
    IF s.optind = argc \/ WordAt(s, s.optind).type # "end" THEN s
    ELSE LET passed == [s EXCEPT !.optind = @ + 1]
             moved == IF passed.first_nonopt = passed.last_nonopt
                      THEN [passed EXCEPT !.first_nonopt = passed.optind] ELSE passed
         IN [moved EXCEPT !.last_nonopt = argc, !.optind = argc]

\* "--" is moved before the operands like an option; all after it are operands.
DashDash(s) ==
    IF s.optind = argc \/ WordAt(s, s.optind).type # "end" THEN s
    ELSE LET passed == [s EXCEPT !.optind = @ + 1]
             moved == IF passed.first_nonopt # passed.last_nonopt
                            /\ passed.last_nonopt # passed.optind
                      THEN exchange(passed)
                      ELSE IF passed.first_nonopt = passed.last_nonopt
                           THEN [passed EXCEPT !.first_nonopt = passed.optind]
                           ELSE passed
         IN [moved EXCEPT !.last_nonopt = argc, !.optind = argc]

\* Where the caller finds the operands in the end.
BackOver(s) == IF s.first_nonopt # s.last_nonopt THEN [s EXCEPT !.optind = s.first_nonopt] ELSE s

-----------------------------------------------------------------------------
(* The ways a call returns: the next state, the code and optarg.           *)

Returns(s, code, arg) == [s |-> s, code |-> code, arg |-> arg]

Missing == IF prefix \in {":", "+:", "-:"} THEN ":" ELSE "?"

\* The next word is the argument, if there is one.
TakeNext(s, code) ==
    IF s.optind < argc
    THEN Returns([s EXCEPT !.optind = @ + 1], code, Word(s.argv[s.optind]))
    ELSE Returns(s, Missing, NoArg)

\* process_long_option
LongOption(s) ==
    LET w == WordAt(s, s.optind)
        passed == [s EXCEPT !.optind = @ + 1, !.nextchar = << >>]
    IN CASE w.match \in {"unknown", "ambiguous"} -> Returns(passed, "?", NoArg)
         [] w.match = "none" /\ w.value -> Returns(passed, "?", NoArg)
         [] w.match \in {"required", "optional"} /\ w.value ->
                Returns(passed, "long", Text(<<"=">>))
         [] w.match = "required" /\ ~w.value -> TakeNext(passed, "long")
         [] w.match \in {"none", "optional"} /\ ~w.value -> Returns(passed, "long", NoArg)

\* The next letter of a cluster.
ShortOption(s) ==
    LET c == Head(s.nextchar)
        rest == Tail(s.nextchar)
        passed == [s EXCEPT !.nextchar = rest, !.optind = IF rest = << >> THEN @ + 1 ELSE @]
        ended == [passed EXCEPT !.nextchar = << >>]
    IN CASE c \notin DOMAIN Takes -> Returns(passed, "?", NoArg)
         [] c \in DOMAIN Takes /\ Takes[c] = "none" -> Returns(passed, c, NoArg)
         [] c \in DOMAIN Takes /\ Takes[c] # "none" /\ rest # << >> ->
                Returns([ended EXCEPT !.optind = @ + 1], c, Text(rest))
         [] c \in DOMAIN Takes /\ Takes[c] = "optional" /\ rest = << >> ->
                Returns(ended, c, NoArg)
         [] c \in DOMAIN Takes /\ Takes[c] = "required" /\ rest = << >> -> TakeNext(ended, c)

\* A new word.
NextWord(s) ==
    LET w == WordAt(s, s.optind) IN
    CASE w.type = "operand" /\ s.ordering = "REQUIRE_ORDER" -> Returns(s, "-1", NoArg)
      [] w.type = "operand" /\ s.ordering # "REQUIRE_ORDER" ->
            Returns([s EXCEPT !.optind = @ + 1], "operand", Word(s.argv[s.optind]))
      [] w.type = "long" -> LongOption(s)
      [] w.type = "short" -> ShortOption([s EXCEPT !.nextchar = w.text])

_getopt_internal_r(s) ==
    LET ready == Ready(s)
        advanced == DashDash(Permute(Clip(ready)))
    IN IF ready.nextchar # << >> THEN ShortOption(ready)
       ELSE IF advanced.optind = argc THEN Returns(BackOver(advanced), "-1", NoArg)
       ELSE NextWord(advanced)

-----------------------------------------------------------------------------
(* The interface *)

\* Mutant: a reset leaves the data of the old scan.
BeginKeepsData == IF optreset = 1 THEN [d EXCEPT !.optind = 1] ELSE [d EXCEPT !.optind = optind]

\* What _getopt_internal makes of the caller's variables before it scans.
Begin == IF optreset = 1 THEN [Zeroed EXCEPT !.optind = 1] ELSE [d EXCEPT !.optind = optind]

\* A call of the entry.
getopt ==
    LET s == [field \in {"argv"} \cup DOMAIN d |-> IF field = "argv" THEN argv ELSE Begin[field]]
        r == _getopt_internal_r(s)
    IN
    /\ ~done
    /\ d' = [field \in DOMAIN d |-> r.s[field]]
    /\ argv' = r.s.argv
    /\ optind' = r.s.optind
    /\ optreset' = 0
    /\ done' = (r.code = "-1")
    /\ results' = IF r.code = "-1" THEN results
                  ELSE Append(results, [code |-> r.code, arg |-> r.arg])
    /\ UNCHANGED <<words, prefix, scans>>

\* The caller turns to other arguments, in the middle of a scan or after it, and
\* says so by optreset or by optind = 0; after a complete scan with the same
\* kind of option string moving optind back to 1 is enough.
NewScan(ws, p) ==
    /\ scans < MaxScans
    /\ \/ optreset' = 1 /\ UNCHANGED optind
       \/ optind' = 0 /\ UNCHANGED optreset
       \/ done /\ p = prefix /\ optind' = 1 /\ UNCHANGED optreset
    /\ words' = ws
    /\ argv' = Given(ws)
    /\ prefix' = p
    /\ scans' = scans + 1
    /\ results' = << >>
    /\ done' = FALSE
    /\ UNCHANGED d

Next ==
    \/ getopt
    \/ \E ws \in LaterArguments, p \in OptstringPrefixes : NewScan(ws, p)

Spec == Init /\ [][Next]_vars

-----------------------------------------------------------------------------
(* What a scan from left to right, which moves nothing, would find *)

\* The letter that ends a cluster: the first that takes an argument, or the last.
LastLetter(w) ==
    LET ends == {j \in DOMAIN w.text :
                    w.text[j] \in DOMAIN Takes /\ Takes[w.text[j]] # "none"}
    IN IF ends = {} THEN Len(w.text) ELSE CHOOSE j \in ends : \A k \in ends : j <= k

\* Whether the next word is the argument of word w.
TakesNext(w) ==
    \/ w.type = "long" /\ w.match = "required" /\ ~w.value
    \/ /\ w.type = "short" /\ LastLetter(w) = Len(w.text)
       /\ w.text[Len(w.text)] \in DOMAIN Takes
       /\ Takes[w.text[Len(w.text)]] = "required"

\* What each word is: an option, an option's argument, "--", an operand, or
\* something behind the end of the scan.
Classes(order) ==
    LET class[i \in 0..Len(words)] ==
            IF i = 0 THEN "program"
            ELSE IF class[i - 1] \in {"end", "rest"} THEN "rest"
            ELSE IF class[i - 1] = "option" /\ TakesNext(words[i - 1]) THEN "argument"
            ELSE IF words[i].type = "operand"
                 THEN IF order = "REQUIRE_ORDER" THEN "rest" ELSE "operand"
            ELSE IF words[i].type = "end" THEN "end" ELSE "option"
    IN class

Result(code, arg) == [code |-> code, arg |-> arg]

\* The argument of an option of word i that needs one from the next word.
NextArgument(i, code) ==
    IF i < Len(words) THEN Result(code, Word(i + 1)) ELSE Result(Missing, NoArg)

LetterResult(i, j) ==
    LET c == words[i].text[j]
        rest == SubSeq(words[i].text, j + 1, Len(words[i].text))
    IN IF c \notin DOMAIN Takes THEN Result("?", NoArg)
       ELSE IF Takes[c] # "none" /\ rest # << >> THEN Result(c, Text(rest))
       ELSE IF Takes[c] = "required" THEN NextArgument(i, c)
       ELSE Result(c, NoArg)

LongResult(i) ==
    LET w == words[i] IN
    IF w.match \in {"unknown", "ambiguous"} \/ (w.match = "none" /\ w.value)
    THEN Result("?", NoArg)
    ELSE IF w.value THEN Result("long", Text(<<"=">>))
    ELSE IF w.match = "required" THEN NextArgument(i, "long")
    ELSE Result("long", NoArg)

\* All a scan returns before -1.
Expected(order) ==
    FlattenSeq([i \in 1..Len(words) |->
        LET class == Classes(order)[i] IN
        IF class = "operand" /\ order = "RETURN_IN_ORDER" THEN <<Result("operand", Word(i))>>
        ELSE IF class # "option" THEN << >>
        ELSE IF words[i].type = "long" THEN <<LongResult(i)>>
        ELSE [j \in 1..LastLetter(words[i]) |-> LetterResult(i, j)]])

\* The words left to the caller, and those that are not, in their order.
Left(order) ==
    {i \in 1..Len(words) :
        Classes(order)[i] \in IF order = "PERMUTE" THEN {"operand", "rest"} ELSE {"rest"}}
InOrder(ws) ==
    LET inOrder[i \in 0..Len(words)] ==
            IF i = 0 THEN << >>
            ELSE IF i \in ws THEN Append(inOrder[i - 1], i) ELSE inOrder[i - 1]
    IN inOrder[Len(words)]

-----------------------------------------------------------------------------
(* Properties *)

\* The calls return the options a scan from left to right finds, each with its
\* argument, although argv is permuted under it and whatever was scanned before.
ResultsInOrder ==
    /\ IsPrefix(results, Expected(Ordering))
    /\ done => results = Expected(Ordering)

\* "If there are no more option characters, getopt returns -1.  Then optind is
\* the index in ARGV of the first ARGV-element that is not an option", those
\* that are not options come last, and both parts keep their order (lines 424-427).
\* The comments say so of getopt_long (line 61).  It is true of plain getopt as well,
\* which against lines 62-64 and 727 permutes like getopt_long (line 738).
OperandsLast ==
    done =>
        LET left == Left(Ordering)
            order == InOrder(1..Len(words) \ left) \o InOrder(left)
        IN /\ \A i \in 1..Len(words) : argv[i] = order[i]
           /\ optind = argc - Len(InOrder(left))

\* Between calls, too, argv holds every word once, the operands among
\* themselves and the other words among themselves in the order given.
ArgvStaysStable ==
    LET left == Left(Ordering)
        place(w) == CHOOSE i \in DOMAIN argv : argv[i] = w
    IN /\ {argv[i] : i \in DOMAIN argv} = 0..Len(words)
       /\ \A v, w \in 1..Len(words) :
            v < w /\ (v \in left <=> w \in left) => place(v) < place(w)
=============================================================================
