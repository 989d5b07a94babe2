-------------------------------- MODULE Heap --------------------------------
(***************************************************************************)
(* What the library functions that build a result out of many allocations  *)
(* share: the C heap, errno and the thread that calls them.  Modules Glob, *)
(* ScanDir and ConvBuf add their own state, HeapClients composes them.     *)
(*                                                                         *)
(* A block is its address.  malloc takes the lowest free one, so that an   *)
(* address is used again as soon as it can be.                             *)
(***************************************************************************)
EXTENDS Integers, Sequences, Functions

CONSTANTS
    Addresses,      \* a set of numbers; 0 is the null pointer
    MaxFaults,      \* bound: allocations and directories that fail
    MaxCalls        \* bound: calls of the functions that are modelled

ASSUME AddressAssumption == Addresses \subseteq Nat \ {0}
ASSUME HeapBoundAssumption == MaxFaults \in Nat /\ MaxCalls \in Nat

VARIABLES
    heap,       \* heap[b]: a record, what block b is and holds, for the blocks
                \*   that are allocated
    errno,
    running,    \* the function that runs, "caller" for none of them
    faults, calls
heapVars == <<heap, errno, running, faults, calls>>

NULL == 0

\* ENOTDIR and EACCES are what calls before left in errno.
HeapInit ==
    /\ heap = << >>
    /\ errno \in {"0", "EACCES", "ENOTDIR"}
    /\ running = "caller"
    /\ faults = 0 /\ calls = 0

Allocated == DOMAIN heap
Free == Addresses \ Allocated

\* The block malloc finds.
IsFresh(b) == b \in Free /\ \A c \in Free : b <= c

\* The heap h with block b, and without the blocks bs.
With(h, b, content) == [a \in DOMAIN h \cup {b} |-> IF a = b THEN content ELSE h[a]]
Without(h, bs) == [a \in DOMAIN h \ bs |-> h[a]]

\* Everything qsort could make of the array s, whatever it compares.
qsort(s) == {[i \in DOMAIN s |-> s[f[i]]] : f \in Bijection(DOMAIN s, DOMAIN s)}

\* The thread calls function f, goes on in it or returns.
Calls(f) == running = "caller" /\ calls < MaxCalls /\ running' = f /\ calls' = calls + 1
Continues == UNCHANGED <<running, calls>>
ReturnsToCaller == running' = "caller" /\ UNCHANGED calls

\* So many things fail in a step.
Faults(k) == faults + k <= MaxFaults /\ faults' = faults + k
Fault == Faults(1)
NoFault == Faults(0)
=============================================================================
