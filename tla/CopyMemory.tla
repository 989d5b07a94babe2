----------------------------- MODULE CopyMemory -----------------------------
(***************************************************************************)
(* CopyMemoryTo of src/process/fork.c: the clone of a process lacks some   *)
(* of its memory.  Every value in ntdll's data that looks like a pointer   *)
(* is followed, and where it leads to memory that the parent can read and  *)
(* the child cannot, the region is allocated and written there.            *)
(*                                                                         *)
(* Memory is a row of pages; page 0 stands for ntdll.  Pages with the same *)
(* number in alloc were allocated together, 0 is free memory.  The clone   *)
(* has allocations as wholes or not at all.  Nothing else touches the      *)
(* memory meanwhile: the child is suspended.                               *)
(***************************************************************************)
EXTENDS Integers, Sequences

CONSTANTS
    Pages,      \* the pages behind ntdll are 1..Pages
    Layouts     \* the memories that are tried

Page == 0..Pages

Layout == [alloc : [1..Pages -> Nat],                       \* VirtualAlloc's blocks
           attr : [1..Pages -> {"NOACCESS", "READ", "READWRITE"}],
           cloned : SUBSET Nat,                             \* the blocks the clone has
           pointers : Seq(Page)]                            \* the pages ntdll points to, in order

ASSUME PageAssumption == Pages \in Nat
ASSUME LayoutAssumption ==
    /\ Layouts \subseteq Layout
    /\ \A l \in Layouts : \A p \in 1..Pages : l.alloc[p] = 0 => l.attr[p] = "NOACCESS"

-----------------------------------------------------------------------------
(* Windows *)

Readable(l, p) == l.attr[p] # "NOACCESS"

\* VirtualQuery: the pages from p on that are like p.
Region(l, p) ==
    {q \in p..Pages : \A r \in p..q : l.alloc[r] = l.alloc[p] /\ l.attr[r] = l.attr[p]}

\* AllocationBase to the end of the region.
Reservation(l, p) ==
    {q \in 1..Pages : l.alloc[q] = l.alloc[p] /\ \E r \in Region(l, p) : q <= r}

\* VirtualAllocEx reserves pages only if none of them is, commits them only if all are.
Reserve(reserved, pages) == IF reserved \cap pages = {} THEN reserved \cup pages ELSE reserved
Commits(reserved, pages) == pages \subseteq reserved

-----------------------------------------------------------------------------
(* CopyMemoryTo *)

\* The image of ntdll needs nothing; the clone has what it has.
Begin(l) ==
    LET own == {p \in 1..Pages : l.alloc[p] \in l.cloned \ {0}}
    IN [ranges |-> {0}, reserved |-> own, child |-> {p \in own : Readable(l, p)}]

\* Mutant: the end of a range is taken to be in it.
InRangeOrNext(s, p) == p \in s.ranges \/ p - 1 \in s.ranges

\* ranges is kept as the pages in it.
InRange(s, p) == p \in s.ranges

\* Where the parent cannot read either, the hole is only marked.
Follow(l, s, p) ==
    IF InRange(s, p) \/ p \in s.child THEN s
    ELSE IF ~Readable(l, p) THEN [s EXCEPT !.ranges = @ \cup Region(l, p)]
    ELSE LET region == Region(l, p)
             reserved == Reserve(s.reserved, Reservation(l, p))
         IN [ranges |-> s.ranges \cup region,
             reserved |-> reserved,
             child |-> IF Commits(reserved, region) THEN s.child \cup region ELSE s.child]

\* What the child has when the first n pointers were followed.
Followed(l) ==
    LET after[n \in 0..Len(l.pointers)] ==
            IF n = 0 THEN Begin(l) ELSE Follow(l, after[n - 1], l.pointers[n])
    IN after

-----------------------------------------------------------------------------
(* What it misses *)

\* A block can only be reserved once, from its beginning to the end of the region
\* that is met first.
LowerRegionWasFirst(l, n) ==
    \E m \in 1..(n - 1) :
        LET p == l.pointers[n]
            q == l.pointers[m]
        IN q \in 1..(p - 1) /\ l.alloc[q] = l.alloc[p] /\ p \notin Region(l, q)

\* The reasons why the child lacks pages that ntdll points to and the parent can read.
Misses(l) ==
    {IF LowerRegionWasFirst(l, n) THEN "lower_region_first" ELSE "unknown" :
        n \in {m \in DOMAIN l.pointers :
                 LET p == l.pointers[m]
                 IN p # 0 /\ Readable(l, p) /\ p \notin Followed(l)[Len(l.pointers)].child}}

\* How the copying ends for the memories that are tried.
Outcomes == {Misses(l) : l \in Layouts}
=============================================================================
