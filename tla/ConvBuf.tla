------------------------------ MODULE ConvBuf ------------------------------
(***************************************************************************)
(* The conversion buffer of the UTF-8 wrappers (src/win32u/convbuf.c): a   *)
(* wrapper has one on its stack, converts one or more strings with it and  *)
(* clears it.  The first string goes to the array inside the buffer if it  *)
(* is sure to fit; every other one gets a block at the end of a chain.     *)
(*                                                                         *)
(* A text is what it measures: its length in units of its own encoding and *)
(* what it becomes, in units of the other one.                             *)
(***************************************************************************)
EXTENDS Heap

CONSTANTS
    DEFARRSZ,   \* bytes of the array, 540 in the code
    WideTexts,  \* [len, out]: UTF-16 units and bytes
    ByteTexts,  \* [len, out]: bytes of UTF-8 and UTF-16 units
    MaxTexts    \* bound: texts one buffer converts

SizeofWchar == 2

\* A conversion that fails yields nothing.  A UTF-16 unit becomes three bytes at
\* most, in UTF-8 and in every code page of the system; a byte one unit at most.
IsText(t, factor) == t.len \in Nat /\ t.out \in 0..(factor * t.len)
ASSUME SizeAssumption == DEFARRSZ \in Nat
ASSUME WideAssumption == \A t \in WideTexts : IsText(t, 3)
ASSUME ByteAssumption == \A t \in ByteTexts : IsText(t, 1)
ASSUME ConvBoundAssumption == MaxTexts \in Nat

SP_WSZ == (DEFARRSZ \div 3) - 1
SP_ASZ == (DEFARRSZ \div SizeofWchar) - 1

VARIABLES
    used,       \* CONVBUF_USED of the first buffer
    chain,      \* the blocks of the chain, in order
    strings     \* history: what was handed out, buffer (0 for the array) and bytes
convVars == <<used, chain, strings>>

ConvInit ==
    /\ used = FALSE
    /\ chain = << >>
    /\ strings = << >>

convbuf_init ==
    /\ Calls("wrapper")
    /\ used' = FALSE /\ chain' = << >> /\ strings' = << >>
    /\ UNCHANGED <<heap, errno, faults>>

HandOut(buf, bytes) == strings' = Append(strings, [buf |-> buf, bytes |-> bytes])

IntoArray(fits, bytes) ==
    /\ ~used /\ fits
    /\ used' = TRUE
    /\ HandOut(0, bytes)
    /\ NoFault
    /\ UNCHANGED <<heap, errno, running, calls, chain>>

\* A block with room for the string, its end and one unit more.
IntoBlock(fits, bytes, size) ==
    /\ used \/ ~fits
    /\ \E b \in Free :
        /\ IsFresh(b)
        /\ heap' = With(heap, b, [is |-> "text", size |-> size])
        /\ chain' = Append(chain, b)
        /\ HandOut(b, bytes)
    /\ NoFault
    /\ UNCHANGED <<errno, running, calls, used>>

\* Nobody looks whether malloc fails: convbuf_init writes through its result.
BlockFails(fits) ==
    /\ used \/ ~fits
    /\ Fault
    /\ running' = "crashed"
    /\ UNCHANGED <<heap, errno, calls, convVars>>

Convert(fits, bytes, size) ==
    /\ running = "wrapper" /\ Len(strings) < MaxTexts
    /\ \/ IntoArray(fits, bytes)
       \/ IntoBlock(fits, bytes, size)
       \/ BlockFails(fits)

\* Mutant: the bound allows for two bytes a unit.
WideFitsHalf(t) == t.len <= (DEFARRSZ \div 2) - 1 \/ t.out + 1 <= DEFARRSZ

\* Short texts are not measured first.
WideFits(t) == t.len <= SP_WSZ \/ t.out + 1 <= DEFARRSZ
ByteFits(t) == t.len <= SP_ASZ \/ (t.out + 1) * SizeofWchar <= DEFARRSZ

convbuf_w2a(t) == Convert(WideFits(t), t.out + 1, t.out + 2)
convbuf_a2w(t) ==
    Convert(ByteFits(t), (t.out + 1) * SizeofWchar, (t.out + 2) * SizeofWchar)

convbuf_clear ==
    /\ running = "wrapper"
    /\ ReturnsToCaller
    /\ heap' = Without(heap, {chain[i] : i \in DOMAIN chain})
    /\ used' = FALSE /\ chain' = << >> /\ strings' = << >>
    /\ UNCHANGED <<errno, faults>>

ConvNext ==
    \/ convbuf_init
    \/ \E t \in WideTexts : convbuf_w2a(t)
    \/ \E t \in ByteTexts : convbuf_a2w(t)
    \/ convbuf_clear

-----------------------------------------------------------------------------
(* Properties *)

Capacity(buf) == IF buf = 0 THEN DEFARRSZ ELSE heap[buf].size

\* Every string handed out lies with its end inside a buffer of its own, which
\* stays as it is until the wrapper clears it: what an earlier conversion
\* returned is still intact when the call it was made for is made.
StringsFit ==
    /\ \A i \in DOMAIN strings :
        /\ strings[i].buf \in Allocated \cup {0}
        /\ strings[i].bytes <= Capacity(strings[i].buf)
    /\ \A i, j \in DOMAIN strings : i # j => strings[i].buf # strings[j].buf
=============================================================================
