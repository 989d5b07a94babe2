--------------------------- MODULE TreMem_proofs ---------------------------
(***************************************************************************)
(* Proofs about TreMem, for every set of sizes and every block size that   *)
(* is a multiple of sizeof(long).  The invariant is that the block's bytes *)
(* are those before ptr and the n after it, and that both numbers are      *)
(* aligned: only then does the padding, which is never compared with n,    *)
(* fit into the block.                                                     *)
(***************************************************************************)
EXTENDS TreMem, TLAPS

\* The arithmetic of one piece: padding a request that fits keeps it fitting,
\* and leaves both the next offset and the rest aligned.
LEMMA PaddingFits ==
    ASSUME NEW start \in Nat, NEW rest \in Nat, NEW size \in Nat,
           start % SizeofLong = 0, rest % SizeofLong = 0, size <= rest
    PROVE  LET bytes == size + ALIGN(start + size) IN
           /\ bytes \in Nat
           /\ bytes <= rest
           /\ (start + bytes) % SizeofLong = 0
           /\ (rest - bytes) % SizeofLong = 0
<1> DEFINE bytes == size + ALIGN(start + size)
<1>1. bytes \in Nat /\ (start + bytes) % SizeofLong = 0
  BY SMT DEF ALIGN, SizeofLong
<1>2. bytes <= rest
  BY SMT DEF ALIGN, SizeofLong
<1>3. (rest - bytes) % SizeofLong = 0
  BY SMT DEF ALIGN, SizeofLong
<1> QED
  BY <1>1, <1>2, <1>3

\* A new block is an aligned number of bytes, and the request fits.
LEMMA NewBlockFits ==
    ASSUME NEW size \in Sizes
    PROVE  /\ BlockSize(size) \in Nat
           /\ BlockSize(size) <= SIZE_MAX
           /\ BlockSize(size) % SizeofLong = 0
           /\ size <= BlockSize(size)
<1>1. size \in Nat /\ size * 8 <= SIZE_MAX /\ TRE_MEM_BLOCK_SIZE \in Nat
      /\ TRE_MEM_BLOCK_SIZE <= SIZE_MAX /\ TRE_MEM_BLOCK_SIZE % SizeofLong = 0
  BY SizeAssumption, WidthAssumption, BlockAssumption
<1>2. (size * 8) % SizeofLong = 0
  BY <1>1, SMT DEF SizeofLong
<1> QED
  BY <1>1, <1>2, SMT DEF BlockSize

-----------------------------------------------------------------------------

\* What is before ptr and what is left make up the current block.
RestIsRight ==
    /\ blocks = << >> => ptr = 0 /\ n = 0
    /\ blocks # << >> => ptr + n = blocks[Len(blocks)]

Aligned == ptr % SizeofLong = 0 /\ n % SizeofLong = 0

\* Pieces of the current block lie before ptr, the others in earlier blocks.
PiecesBehind ==
    \A i \in DOMAIN pieces :
        /\ pieces[i].block \in 0..Len(blocks)
        /\ pieces[i].block = Len(blocks) => pieces[i].start + pieces[i].bytes <= ptr

Inv ==
    /\ TypeOK /\ RestIsRight /\ Aligned /\ PiecesBehind
    /\ PiecesInsideBlocks /\ PiecesDisjoint /\ PiecesAligned /\ ChainReachesEverything

LEMMA InitInv == Init => Inv
<1> SUFFICES ASSUME Init PROVE Inv
  OBVIOUS
<1>1. TypeOK
  <2>1. ptr \in Nat /\ n \in 0..SIZE_MAX
    BY WidthAssumption, SMT DEF Init
  <2>4. exists \in BOOLEAN /\ failed \in BOOLEAN
    BY Zenon DEF Init
  <2>2. blocks \in Seq(Nat) /\ pieces \in Seq(Piece)
    BY DEF Init
  <2>3. live \subseteq {"list", "data"} \X Nat
    BY DEF Init
  <2> QED
    BY <2>1, <2>2, <2>3, <2>4 DEF TypeOK
<1>2. RestIsRight /\ PiecesBehind /\ PiecesInsideBlocks /\ PiecesDisjoint /\ PiecesAligned
  BY DEF Init, RestIsRight, PiecesBehind, PiecesInsideBlocks, PiecesDisjoint, PiecesAligned
<1>3. Aligned
  BY SMT DEF Init, Aligned, SizeofLong
<1>4. ChainReachesEverything
  BY SMT DEF Init, ChainReachesEverything, InChain
<1> QED
  BY <1>1, <1>2, <1>3, <1>4 DEF Inv

\* A piece cut behind all others of block b, which is the last one and has rest
\* bytes left there, keeps all that is said about ptr, n and the pieces.
LEMMA CutKeeps ==
    ASSUME Inv, NEW size \in Nat, NEW start \in Nat, NEW rest \in 0..SIZE_MAX,
           start % SizeofLong = 0, rest % SizeofLong = 0, size <= rest,
           blocks' \in Seq(Nat),
           Len(blocks) <= Len(blocks'),
           \A b \in 1..Len(blocks) : blocks'[b] = blocks[b],
           blocks' = << >> => start = 0 /\ rest = 0,
           blocks' # << >> => start + rest = blocks'[Len(blocks')],
           \A i \in DOMAIN pieces :
               pieces[i].block = Len(blocks') => pieces[i].start + pieces[i].bytes <= start,
           Cut(size, Len(blocks'), start, rest)
    PROVE  /\ ptr' \in Nat /\ n' \in 0..SIZE_MAX /\ pieces' \in Seq(Piece)
           /\ RestIsRight' /\ Aligned' /\ PiecesBehind'
           /\ PiecesInsideBlocks' /\ PiecesDisjoint' /\ PiecesAligned'
<1> DEFINE bytes == size + ALIGN(start + size)
           piece == [block |-> Len(blocks'), start |-> start, bytes |-> bytes]
<1>1. /\ bytes \in Nat /\ bytes <= rest
      /\ (start + bytes) % SizeofLong = 0 /\ (rest - bytes) % SizeofLong = 0
  BY PaddingFits DEF Cut
<1> HIDE DEF bytes
<1>2. ptr' = start + bytes /\ pieces' = Append(pieces, piece)
  BY DEF Cut, bytes
<1>3. n' = rest - bytes
  BY <1>1, WidthAssumption, SMT DEF Cut, Minus, bytes
<1>4. ptr' \in Nat /\ n' \in 0..SIZE_MAX
  BY <1>1, <1>2, <1>3, WidthAssumption, SMT
<1>5. pieces \in Seq(Piece) /\ Len(pieces) \in Nat /\ Len(blocks') \in Nat /\ Len(blocks) \in Nat
  BY DEF Inv, TypeOK
<1>6. piece \in Piece
  BY <1>1, <1>5 DEF Piece
<1> HIDE DEF piece
<1>7. pieces' \in Seq(Piece)
  BY <1>2, <1>5, <1>6
<1>8. /\ DOMAIN pieces' = DOMAIN pieces \cup {Len(pieces) + 1}
      /\ Len(pieces) + 1 \notin DOMAIN pieces
      /\ pieces'[Len(pieces) + 1] = piece
      /\ \A i \in DOMAIN pieces : pieces'[i] = pieces[i] /\ pieces[i] \in Piece
  BY <1>2, <1>5, <1>6, SMT
<1>9. piece.block = Len(blocks') /\ piece.start = start /\ piece.bytes = bytes
  BY DEF piece
<1>10. RestIsRight'
  <2>1. blocks' = << >> => ptr' = 0 /\ n' = 0
    BY <1>1, <1>2, <1>3, SMT
  <2>2. blocks' # << >> => ptr' + n' = blocks'[Len(blocks')]
    BY <1>1, <1>2, <1>3, SMT
  <2> QED
    BY <2>1, <2>2 DEF RestIsRight
<1>11. Aligned'
  BY <1>1, <1>2, <1>3 DEF Aligned
<1>12. PiecesBehind'
  <2> SUFFICES ASSUME NEW i \in DOMAIN pieces'
               PROVE  /\ pieces'[i].block \in 0..Len(blocks')
                      /\ pieces'[i].block = Len(blocks') => pieces'[i].start + pieces'[i].bytes <= ptr'
    BY DEF PiecesBehind
  <2>1. CASE i \in DOMAIN pieces
    <3>1. pieces'[i] = pieces[i] /\ pieces[i] \in Piece /\ pieces[i].block \in 0..Len(blocks)
      BY <1>8, <2>1 DEF Inv, PiecesBehind
    <3>2. pieces[i].block = Len(blocks') => pieces[i].start + pieces[i].bytes <= start
      BY <2>1
    <3>3. pieces[i].start + pieces[i].bytes \in Nat
      BY <3>1, SMT DEF Piece
    <3>4. start <= ptr'
      BY <1>1, <1>2, SMT
    <3>5. pieces[i].block = Len(blocks') => pieces[i].start + pieces[i].bytes <= ptr'
      BY <3>2, <3>3, <3>4, <1>4, SMT
    <3>6. pieces[i].block \in 0..Len(blocks')
      BY <3>1, <1>5, SMT
    <3> QED
      BY <3>1, <3>5, <3>6, Zenon
  <2>2. CASE i = Len(pieces) + 1
    BY <2>2, <1>8, <1>9, <1>1, <1>2, <1>5, SMT
  <2> QED
    BY <1>8, <2>1, <2>2
<1>13. PiecesInsideBlocks'
  <2> SUFFICES ASSUME NEW i \in DOMAIN pieces', pieces'[i].bytes > 0
               PROVE  /\ pieces'[i].block \in DOMAIN blocks'
                      /\ pieces'[i].start + pieces'[i].bytes <= blocks'[pieces'[i].block]
    BY DEF PiecesInsideBlocks
  <2>1. CASE i \in DOMAIN pieces
    <3>1. pieces'[i] = pieces[i]
      BY <1>8, <2>1
    <3>2. /\ pieces[i].block \in 1..Len(blocks)
          /\ pieces[i].start + pieces[i].bytes <= blocks[pieces[i].block]
      <4>1. DOMAIN blocks = 1..Len(blocks)
        BY DEF Inv, TypeOK
      <4>2. pieces[i].bytes > 0
        BY <3>1
      <4> QED
        BY <2>1, <4>1, <4>2, Zenon DEF Inv, PiecesInsideBlocks
    <3>3. pieces[i].block \in 1..Len(blocks') /\ blocks'[pieces[i].block] = blocks[pieces[i].block]
      BY <3>2, <1>5, SMT
    <3>4. pieces[i].block \in DOMAIN blocks'
      BY <3>3, SMT
    <3> QED
      BY <3>1, <3>2, <3>3, <3>4, Zenon
  <2>2. CASE i = Len(pieces) + 1
    <3>1. bytes > 0 /\ pieces'[i] = piece
      BY <2>2, <1>8, <1>9
    <3>2. rest # 0
      BY <3>1, <1>1, SMT
    <3>3. blocks' # << >> /\ start + rest = blocks'[Len(blocks')]
      BY <3>2
    <3>4. Len(blocks') \in DOMAIN blocks'
      BY <3>3, SMT
    <3> QED
      BY <3>1, <3>3, <3>4, <1>1, <1>9, SMT
  <2> QED
    BY <1>8, <2>1, <2>2
<1>14. PiecesDisjoint'
  <2>1. ASSUME NEW i \in DOMAIN pieces, pieces[i].block = piece.block
        PROVE  pieces[i].start + pieces[i].bytes <= piece.start
    BY <2>1, <1>9
  <2>2. ASSUME NEW i \in DOMAIN pieces', NEW j \in DOMAIN pieces',
               i # j, pieces'[i].block = pieces'[j].block
        PROVE  \/ pieces'[i].start + pieces'[i].bytes <= pieces'[j].start
               \/ pieces'[j].start + pieces'[j].bytes <= pieces'[i].start
    <3>1. CASE i \in DOMAIN pieces /\ j \in DOMAIN pieces
      BY <3>1, <2>2, <1>8 DEF Inv, PiecesDisjoint
    <3>2. CASE i \in DOMAIN pieces /\ j = Len(pieces) + 1
      BY <3>2, <2>2, <2>1, <1>8
    <3>3. CASE i = Len(pieces) + 1 /\ j \in DOMAIN pieces
      BY <3>3, <2>2, <2>1, <1>8
    <3> QED
      BY <3>1, <3>2, <3>3, <2>2, <1>8
  <2> QED
    BY <2>2 DEF PiecesDisjoint
<1>15. PiecesAligned'
  BY <1>8, <1>9 DEF PiecesAligned, Inv
<1> QED
  BY <1>4, <1>7, <1>10, <1>11, <1>12, <1>13, <1>14, <1>15

-----------------------------------------------------------------------------

\* A piece of the current block.
LEMMA CurrentKeeps ==
    ASSUME Inv, NEW size \in Sizes, AllocFromCurrent(size)
    PROVE  Inv'
<1>1. size \in Nat /\ ptr \in Nat /\ n \in 0..SIZE_MAX /\ size <= n /\ blocks \in Seq(Nat)
  BY SizeAssumption DEF AllocFromCurrent, Inv, TypeOK
<1>2. ptr % SizeofLong = 0 /\ n % SizeofLong = 0
  BY DEF Inv, Aligned
<1>3. blocks' = blocks /\ Cut(size, Len(blocks'), ptr, n)
  BY DEF AllocFromCurrent
<1>4. /\ blocks = << >> => ptr = 0 /\ n = 0
      /\ blocks # << >> => ptr + n = blocks[Len(blocks)]
      /\ \A i \in DOMAIN pieces :
            pieces[i].block = Len(blocks) => pieces[i].start + pieces[i].bytes <= ptr
  BY DEF Inv, RestIsRight, PiecesBehind
<1>5. Len(blocks) \in Nat
  BY <1>1
<1>6. /\ ptr' \in Nat /\ n' \in 0..SIZE_MAX /\ pieces' \in Seq(Piece)
      /\ RestIsRight' /\ Aligned' /\ PiecesBehind'
      /\ PiecesInsideBlocks' /\ PiecesDisjoint' /\ PiecesAligned'
  <2>1. Len(blocks) <= Len(blocks') /\ \A b \in 1..Len(blocks) : blocks'[b] = blocks[b]
    BY <1>3, <1>5, SMT
  <2> QED
    BY <1>1, <1>2, <1>3, <1>4, <2>1, CutKeeps
<1>7. TypeOK'
  BY <1>6, <1>3 DEF AllocFromCurrent, Inv, TypeOK
<1>8. ChainReachesEverything'
  BY DEF AllocFromCurrent, Inv, ChainReachesEverything, InChain
<1> QED
  BY <1>6, <1>7, <1>8 DEF Inv

\* The first piece of a new block.
LEMMA NewBlockKeeps ==
    ASSUME Inv, NEW size \in Sizes, AllocFromNewBlock(size)
    PROVE  Inv'
<1> DEFINE b == Len(blocks) + 1
<1>1. /\ BlockSize(size) \in Nat /\ BlockSize(size) <= SIZE_MAX
      /\ BlockSize(size) % SizeofLong = 0 /\ size <= BlockSize(size)
  BY NewBlockFits
<1>2. size \in Nat /\ blocks \in Seq(Nat) /\ Len(blocks) \in Nat
  BY SizeAssumption DEF Inv, TypeOK
<1>3. blocks' = Append(blocks, BlockSize(size))
  BY DEF AllocFromNewBlock
<1>4. /\ blocks' \in Seq(Nat) /\ Len(blocks') = b /\ blocks' # << >>
      /\ blocks'[b] = BlockSize(size)
      /\ \A c \in 1..Len(blocks) : blocks'[c] = blocks[c]
  BY <1>1, <1>2, <1>3, SMT
<1>5. Cut(size, Len(blocks'), 0, BlockSize(size))
  BY <1>4 DEF AllocFromNewBlock
<1>6. \A i \in DOMAIN pieces : pieces[i].block # Len(blocks')
  BY <1>2, <1>4, SMT DEF Inv, PiecesBehind
<1>7. 0 \in Nat /\ 0 % SizeofLong = 0 /\ BlockSize(size) \in 0..SIZE_MAX
      /\ Len(blocks) <= Len(blocks') /\ 0 + BlockSize(size) = blocks'[Len(blocks')]
  BY <1>1, <1>2, <1>4, WidthAssumption, SMT DEF SizeofLong
<1>8. /\ ptr' \in Nat /\ n' \in 0..SIZE_MAX /\ pieces' \in Seq(Piece)
      /\ RestIsRight' /\ Aligned' /\ PiecesBehind'
      /\ PiecesInsideBlocks' /\ PiecesDisjoint' /\ PiecesAligned'
  BY <1>1, <1>2, <1>4, <1>5, <1>6, <1>7, CutKeeps
<1>9. live' = live \cup Mallocs(b)
  BY DEF AllocFromNewBlock
<1>10. TypeOK'
  <2>1. Mallocs(b) \subseteq {"list", "data"} \X Nat
    BY <1>2 DEF Mallocs
  <2>2. live' \subseteq {"list", "data"} \X Nat
    BY <1>9, <2>1 DEF Inv, TypeOK
  <2> QED
    BY <1>4, <1>8, <2>2 DEF AllocFromNewBlock, Inv, TypeOK
<1>11. ChainReachesEverything'
  <2>1. 1..Len(blocks') = (1..Len(blocks)) \cup {b}
    BY <1>2, <1>4, SMT
  <2>2. InChain' = InChain \cup Mallocs(b)
    BY <2>1 DEF InChain
  <2> QED
    BY <1>9, <2>2 DEF Inv, ChainReachesEverything
<1> QED
  BY <1>8, <1>10, <1>11 DEF Inv

\* Destroying the allocator frees everything.
LEMMA DestroyKeeps ==
    ASSUME Inv, tre_mem_destroy
    PROVE  Inv'
<1>1. /\ exists' = FALSE /\ blocks' = << >> /\ ptr' = 0 /\ n' = 0
      /\ failed' = FALSE /\ pieces' = << >>
  BY DEF tre_mem_destroy
<1>2. live' = {}
  BY DEF tre_mem_destroy, Inv, ChainReachesEverything
<1>3. TypeOK'
  <2>1. ptr' \in Nat /\ n' \in 0..SIZE_MAX
    BY <1>1, WidthAssumption, SMT
  <2>3. exists' \in BOOLEAN /\ failed' \in BOOLEAN
    BY <1>1, Zenon
  <2>2. blocks' \in Seq(Nat) /\ pieces' \in Seq(Piece)
    BY <1>1
  <2> QED
    BY <1>2, <2>1, <2>2, <2>3 DEF TypeOK
<1>4. RestIsRight' /\ PiecesBehind' /\ PiecesInsideBlocks' /\ PiecesDisjoint' /\ PiecesAligned'
  BY <1>1 DEF RestIsRight, PiecesBehind, PiecesInsideBlocks, PiecesDisjoint, PiecesAligned
<1>5. Aligned'
  BY <1>1, SMT DEF Aligned, SizeofLong
<1>6. ChainReachesEverything'
  BY <1>1, <1>2, SMT DEF ChainReachesEverything, InChain
<1> QED
  BY <1>3, <1>4, <1>5, <1>6 DEF Inv

LEMMA NextKeeps == Inv /\ [Next]_vars => Inv'
<1> SUFFICES ASSUME Inv, [Next]_vars PROVE Inv'
  OBVIOUS
<1> USE DEF Inv, TypeOK, RestIsRight, Aligned, PiecesBehind, PiecesInsideBlocks,
            PiecesDisjoint, PiecesAligned, ChainReachesEverything, InChain
<1>1. CASE tre_mem_new
  BY <1>1 DEF tre_mem_new
<1>2. ASSUME NEW size \in Sizes, AllocFails(size) PROVE Inv'
  BY <1>2 DEF AllocFails
<1>3. CASE UNCHANGED vars
  BY <1>3 DEF vars
<1> QED
  BY <1>1, <1>2, <1>3, CurrentKeeps, NewBlockKeeps, DestroyKeeps DEF Next, tre_mem_alloc

\* What the allocator hands out lies inside its blocks, does not overlap and is
\* aligned, and the chain reaches all that was malloc'ed, whatever sizes are
\* asked for and whichever mallocs fail.
THEOREM Soundness ==
    Spec => [](TypeOK /\ PiecesInsideBlocks /\ PiecesDisjoint
               /\ PiecesAligned /\ ChainReachesEverything)
<1>1. Inv => TypeOK /\ PiecesInsideBlocks /\ PiecesDisjoint
             /\ PiecesAligned /\ ChainReachesEverything
  BY DEF Inv
<1> QED
  BY InitInv, NextKeeps, <1>1, PTL DEF Spec

\* No byte is handed out twice, however blocks of both kinds alternate and
\* whichever mallocs fail half way (tre-mem.c:89-158).
THEOREM PiecesNeverMeet == Spec => []PiecesDisjoint
BY Soundness, PTL

\* A malloc that fails after another one has succeeded does not cut the chain:
\* tre_mem_destroy reaches every block (tre-mem.c:71-83, 121-134).
THEOREM NothingIsLeaked == Spec => []ChainReachesEverything
BY Soundness, PTL
=============================================================================
