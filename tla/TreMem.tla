------------------------------- MODULE TreMem -------------------------------
(***************************************************************************)
(* The allocator of the regex compiler and matcher (src/regex/tre-mem.c):  *)
(* pieces are cut one after the other from a block; when the rest of the   *)
(* block is too small a new block is obtained and chained to the others;   *)
(* everything is freed at once.                                            *)
(*                                                                         *)
(* The chain is the sequence of the sizes of its blocks, the last one      *)
(* being mem->current, so a block is named by its place.  ptr is the       *)
(* offset of mem->ptr in the current block: malloc aligns what it returns  *)
(* for every type, so offsets are aligned as addresses are.  The variant   *)
(* with blocks from alloca is not compiled and not modelled.               *)
(***************************************************************************)
EXTENDS Integers, Sequences

CONSTANTS
    Sizes,                  \* the sizes the callers ask for
    TRE_MEM_BLOCK_SIZE,     \* 1024 in the code
    SIZE_MAX,
    MaxPieces               \* bound: pieces handed out by one allocator

SizeofLong == 4             \* on Windows, for every word size

ASSUME SizeAssumption == Sizes \subseteq Nat
ASSUME BlockAssumption ==
    TRE_MEM_BLOCK_SIZE \in Nat \ {0} /\ TRE_MEM_BLOCK_SIZE % SizeofLong = 0
\* No caller comes near a size whose eightfold size_t cannot hold.
ASSUME WidthAssumption ==
    /\ SIZE_MAX \in Nat
    /\ TRE_MEM_BLOCK_SIZE <= SIZE_MAX
    /\ \A size \in Sizes : size * 8 <= SIZE_MAX
ASSUME BoundsAssumption == MaxPieces \in Nat

VARIABLES
    exists,     \* there is an allocator
    blocks, ptr, n, failed,
    live,       \* what was malloc'ed for the chain and not freed
    pieces      \* what was handed out: block, first byte, bytes (with padding)
vars == <<exists, blocks, ptr, n, failed, live, pieces>>

Piece == [block : Nat, start : Nat, bytes : Nat]

TypeOK ==
    /\ exists \in BOOLEAN
    /\ blocks \in Seq(Nat)
    /\ ptr \in Nat
    /\ n \in 0..SIZE_MAX
    /\ failed \in BOOLEAN
    /\ live \subseteq {"list", "data"} \X Nat
    /\ pieces \in Seq(Piece)

Init ==
    /\ exists = FALSE
    /\ blocks = << >>
    /\ ptr = 0
    /\ n = 0
    /\ failed = FALSE
    /\ live = {}
    /\ pieces = << >>

-----------------------------------------------------------------------------

\* ALIGN: the bytes to add to x for a multiple of sizeof(long).
ALIGN(x) == IF x % SizeofLong = 0 THEN 0 ELSE SizeofLong - (x % SizeofLong)

\* Subtraction on size_t.
Minus(a, b) == IF b <= a THEN a - b ELSE a - b + SIZE_MAX + 1

\* Mutant: large requests get a block of exactly their size.
BlockSizeExact(size) == IF size > TRE_MEM_BLOCK_SIZE THEN size ELSE TRE_MEM_BLOCK_SIZE

BlockSize(size) == IF size * 8 > TRE_MEM_BLOCK_SIZE THEN size * 8 ELSE TRE_MEM_BLOCK_SIZE

\* The two mallocs that put block number b into the chain.
Mallocs(b) == {<<"list", b>>, <<"data", b>>}
InChain == UNION {Mallocs(b) : b \in 1..Len(blocks)}

tre_mem_new ==
    /\ ~exists
    /\ exists' = TRUE
    /\ UNCHANGED <<blocks, ptr, n, failed, live, pieces>>

\* Mutant: the padding is cleared with the piece, but not passed over.
CutUnpadded(size, b, start, rest) ==
    LET bytes == size + ALIGN(start + size) IN
    /\ ptr' = start + size
    /\ n' = Minus(rest, size)
    /\ pieces' = Append(pieces, [block |-> b, start |-> start, bytes |-> bytes])

\* Cuts a piece from block number b at offset start, of which rest bytes are left.
Cut(size, b, start, rest) ==
    LET bytes == size + ALIGN(start + size) IN
    /\ ptr' = start + bytes
    /\ n' = Minus(rest, bytes)
    /\ pieces' = Append(pieces, [block |-> b, start |-> start, bytes |-> bytes])

AllocFromCurrent(size) ==
    /\ exists /\ ~failed /\ Len(pieces) < MaxPieces
    /\ size <= n
    /\ Cut(size, Len(blocks), ptr, n)
    /\ UNCHANGED <<exists, blocks, failed, live>>

AllocFromNewBlock(size) ==
    /\ exists /\ ~failed /\ Len(pieces) < MaxPieces
    /\ n < size
    /\ blocks' = Append(blocks, BlockSize(size))
    /\ live' = live \cup Mallocs(Len(blocks) + 1)
    /\ Cut(size, Len(blocks) + 1, 0, BlockSize(size))
    /\ UNCHANGED <<exists, failed>>

\* Mutant: the list element stays when its block cannot be had.
AllocFailsLeaving(size) ==
    /\ exists /\ ~failed
    /\ n < size
    /\ failed' = TRUE
    /\ live' = live \cup {<<"list", Len(blocks) + 1>>}
    /\ UNCHANGED <<exists, blocks, ptr, n, pieces>>

\* One of the two mallocs fails; the list element, if it was had, is freed again.
AllocFails(size) ==
    /\ exists /\ ~failed
    /\ n < size
    /\ failed' = TRUE
    /\ UNCHANGED <<exists, blocks, ptr, n, live, pieces>>

\* Every block of the chain, its list element, and the allocator itself.
tre_mem_destroy ==
    /\ exists
    /\ exists' = FALSE
    /\ blocks' = << >>
    /\ ptr' = 0
    /\ n' = 0
    /\ failed' = FALSE
    /\ live' = live \ InChain
    /\ pieces' = << >>

tre_mem_alloc(size) ==
    AllocFromCurrent(size) \/ AllocFromNewBlock(size) \/ AllocFails(size)

Next ==
    \/ tre_mem_new
    \/ \E size \in Sizes : tre_mem_alloc(size)
    \/ tre_mem_destroy

Spec == Init /\ [][Next]_vars

-----------------------------------------------------------------------------
(* Properties *)

\* Every piece lies inside the block it was cut from, padding included: what
\* mem->n says is left really is, although what is subtracted from it is more
\* than what was compared with it.  (A request for no bytes, which the stack of
\* the matcher makes for a regex without tags, lies anywhere.)
PiecesInsideBlocks ==
    \A i \in DOMAIN pieces :
        pieces[i].bytes > 0 =>
            /\ pieces[i].block \in DOMAIN blocks
            /\ pieces[i].start + pieces[i].bytes <= blocks[pieces[i].block]

\* No two pieces share a byte, whatever is written to one of them (calloc
\* clears a piece with its padding).
PiecesDisjoint ==
    \A i, j \in DOMAIN pieces :
        i # j /\ pieces[i].block = pieces[j].block =>
            \/ pieces[i].start + pieces[i].bytes <= pieces[j].start
            \/ pieces[j].start + pieces[j].bytes <= pieces[i].start

\* Every piece starts at a multiple of sizeof(long).
PiecesAligned == \A i \in DOMAIN pieces : pieces[i].start % SizeofLong = 0

\* What was malloc'ed is what the chain reaches, so destroying the allocator
\* frees it all, also after an allocation failed half way.
ChainReachesEverything == live = InChain
=============================================================================
