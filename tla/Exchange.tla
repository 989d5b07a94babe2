------------------------------ MODULE Exchange ------------------------------
(***************************************************************************)
(* exchange (src/misc/getopt.c): two neighbouring segments of argv, the    *)
(* operands [first_nonopt, last_nonopt) and the options [last_nonopt,      *)
(* optind), change places without a second vector.  The shorter one is     *)
(* swapped word by word with the far end of the longer one, where it       *)
(* belongs; what is left is the same problem with fewer words.             *)
(*                                                                         *)
(* argv[i] is i at first: exchange never looks at a word.                  *)
(***************************************************************************)
EXTENDS Rotation

VARIABLES
    argv, first_nonopt, last_nonopt, optind,
    bottom, middle, top, i,     \* exchange's own
    given, first, last,     \* history: argv and the segments when exchange was called
    pc
call == <<first_nonopt, last_nonopt, optind, given, first, last>>
vars == <<call, argv, bottom, middle, top, i, pc>>

\* The remaining segments lie within those of the call, one behind the other.
TypeOK ==
    /\ \E argc \in Nat :
        /\ argv \in [0..(argc - 1) -> Nat] /\ given \in [0..(argc - 1) -> Nat]
        /\ optind \in 1..argc
    /\ first \in 1..optind /\ last \in first..optind
    /\ first_nonopt \in 1..optind /\ last_nonopt \in first_nonopt..optind
    /\ bottom \in first..optind /\ middle \in bottom..optind /\ top \in middle..optind
    /\ i \in Nat
    /\ pc \in {"while", "bottomShort", "topShort", "done"}

\* The callers make sure that neither segment is empty.
Init ==
    \E argc \in Nat :
        /\ argv = [k \in 0..(argc - 1) |-> k]
        /\ optind \in 1..argc
        /\ last_nonopt \in 1..(optind - 1)
        /\ first_nonopt \in 1..(last_nonopt - 1)
        /\ bottom = first_nonopt /\ middle = last_nonopt /\ top = optind
        /\ i = 0
        /\ given = argv /\ first = first_nonopt /\ last = last_nonopt
        /\ pc = "while"

SegmentsLeft == top > middle /\ middle > bottom

While ==
    /\ pc = "while"
    /\ SegmentsLeft
    /\ pc' = IF top - middle > middle - bottom THEN "bottomShort" ELSE "topShort"
    /\ i' = 0
    /\ UNCHANGED <<call, argv, bottom, middle, top>>

Swapped(a, j, k) == [a EXCEPT ![j] = a[k], ![k] = a[j]]

\* A word of the bottom segment for one of the top part of the top segment.
SwapWithTop ==
    /\ pc = "bottomShort"
    /\ i < middle - bottom
    /\ argv' = Swapped(argv, bottom + i, top - (middle - bottom) + i)
    /\ i' = i + 1
    /\ UNCHANGED <<call, bottom, middle, top, pc>>

ExcludeTop ==
    /\ pc = "bottomShort"
    /\ i = middle - bottom
    /\ top' = top - (middle - bottom)
    /\ pc' = "while"
    /\ UNCHANGED <<call, argv, bottom, middle, i>>

\* A word of the bottom part of the bottom segment for one of the top segment.
SwapWithBottom ==
    /\ pc = "topShort"
    /\ i < top - middle
    /\ argv' = Swapped(argv, bottom + i, middle + i)
    /\ i' = i + 1
    /\ UNCHANGED <<call, bottom, middle, top, pc>>

ExcludeBottom ==
    /\ pc = "topShort"
    /\ i = top - middle
    /\ bottom' = bottom + (top - middle)
    /\ pc' = "while"
    /\ UNCHANGED <<call, argv, middle, top, i>>

\* The slots the operands now occupy.
Update ==
    /\ pc = "while"
    /\ ~SegmentsLeft
    /\ first_nonopt' = first_nonopt + (optind - last_nonopt)
    /\ last_nonopt' = optind
    /\ pc' = "done"
    /\ UNCHANGED <<optind, given, first, last, argv, bottom, middle, top, i>>

Next == While \/ SwapWithTop \/ ExcludeTop \/ SwapWithBottom \/ ExcludeBottom \/ Update

Spec == Init /\ [][Next]_vars

-----------------------------------------------------------------------------

Wanted == Exchanged(given, first, last, optind)

NBottom == middle - bottom
NTop == top - middle

\* Where the word that is now at j still has to go: past the other segment, unless
\* it has been swapped already.
Destination(j) ==
    IF j < bottom \/ top <= j THEN j
    ELSE IF pc = "bottomShort" /\ j < bottom + i THEN j + NTop - NBottom
    ELSE IF pc = "bottomShort" /\ top - NBottom <= j /\ j < top - NBottom + i THEN j
    ELSE IF pc = "topShort" /\ j < bottom + i THEN j
    ELSE IF pc = "topShort" /\ middle <= j /\ j < middle + i THEN j - NBottom + NTop
    ELSE IF j < middle THEN j + NTop
    ELSE j - NBottom

\* "It leaves the longer segment in the right place overall, but it consists of two
\* parts that need to be swapped next" (lines 133-136): after every swap each word
\* is where it belongs or goes on with its segment, and the swaps stay inside them.
OneRotationLeft ==
    /\ \A j \in DOMAIN argv : argv[j] = Wanted[Destination(j)]
    /\ pc = "bottomShort" => i <= NBottom /\ NBottom < NTop
    /\ pc = "topShort" => i <= NTop /\ NTop <= NBottom
    /\ pc # "done" => first_nonopt = first /\ last_nonopt = last

\* exchange ends with the two segments in each other's place, each in its own
\* order and no other word moved, and with first_nonopt and last_nonopt around
\* the operands: what getopt's scan relies on.
Rotates ==
    pc = "done" =>
        /\ argv = Wanted
        /\ first_nonopt = first + (optind - last)
        /\ last_nonopt = optind

\* How much the loop has still to do, at most: each round takes as many swaps as the
\* shorter segment has words, and leaves that many words less.
ToDo ==
    IF pc = "done" THEN 0
    ELSE IF pc = "while" THEN 3 * (top - bottom) + 1
    ELSE 3 * (top - bottom) - i

\* Every step leaves less to do, so that the loop comes to an end, whatever the
\* lengths of the segments.
ComesToAnEnd == [][ToDo' \in Nat /\ ToDo' < ToDo]_vars
=============================================================================
