------------------------- MODULE HeapClients_proofs -------------------------
(***************************************************************************)
(* Theorems about the functions that share the heap, for every tree and    *)
(* directory, every set of patterns, flags and texts, every size of the    *)
(* array and any number of calls and failures, in any order.               *)
(*                                                                         *)
(* One invariant carries all but the first: who owns what.  HeapOwn says   *)
(* that a block belongs to glob, to scandir or to the wrappers, to one of  *)
(* them only, or is a name buffer that was lost, and that it is what its   *)
(* owner takes it for.  Each function then only has to be shown to leave   *)
(* alone what is not its own: GlobChange, ScanChange, ConvChange.  What    *)
(* scandir has copied so far and what glob has found and still has to come *)
(* to are ScanTrue and GlobTrue.                                           *)
(***************************************************************************)
EXTENDS HeapClients, FunctionTheorems, FiniteSetTheorems, WellFoundedInduction, TLAPS

-----------------------------------------------------------------------------
(* The conversion buffers.  The invariant adds to StringsFit that the array *)
(* is only marked as free when no string is in it, and that strings are     *)
(* handed out only while a wrapper runs: other functions change the heap    *)
(* only when there are none.                                                *)

InWrapper == running \in {"wrapper", "crashed"}

ConvInv ==
    /\ strings \in Seq([buf : Nat, bytes : Nat])
    /\ StringsFit
    /\ ~used => \A i \in DOMAIN strings : strings[i].buf # 0
    /\ ~InWrapper => strings = << >> /\ ~used

-----------------------------------------------------------------------------
(* The bounds *)

\* What WideFits and ByteFits let into the array lies in it with its end.
LEMMA WideBound ==
    ASSUME NEW t \in WideTexts, WideFits(t)
    PROVE  t.out + 1 \in Nat /\ t.out + 1 <= DEFARRSZ
<1>1. t.len \in Nat /\ t.out \in Nat /\ t.out <= 3 * t.len /\ DEFARRSZ \in Nat
  BY WideAssumption, SizeAssumption DEF IsText
<1>2. CASE t.len <= SP_WSZ
  BY <1>1, <1>2 DEF SP_WSZ
<1>3. CASE t.out + 1 <= DEFARRSZ
  BY <1>1, <1>3
<1> QED
  BY <1>2, <1>3 DEF WideFits

LEMMA ByteBound ==
    ASSUME NEW t \in ByteTexts, ByteFits(t)
    PROVE  (t.out + 1) * SizeofWchar \in Nat /\ (t.out + 1) * SizeofWchar <= DEFARRSZ
<1>1. t.len \in Nat /\ t.out \in Nat /\ t.out <= t.len /\ DEFARRSZ \in Nat
  BY ByteAssumption, SizeAssumption DEF IsText
<1>2. CASE t.len <= SP_ASZ
  BY <1>1, <1>2 DEF SP_ASZ, SizeofWchar
<1>3. CASE (t.out + 1) * SizeofWchar <= DEFARRSZ
  BY <1>1, <1>3 DEF SizeofWchar
<1> QED
  BY <1>2, <1>3 DEF ByteFits

-----------------------------------------------------------------------------
(* Conversions *)

\* A conversion keeps the invariant if what fits is no longer than the array and
\* the block is no shorter than the string.
LEMMA ConvertKeeps ==
    ASSUME ConvInv, NEW fits \in BOOLEAN, NEW bytes \in Nat, NEW size \in Nat,
           fits => bytes <= DEFARRSZ, bytes <= size,
           Convert(fits, bytes, size)
    PROVE  ConvInv'
<1> USE DEF Convert, NoFault, Faults
<1> DEFINE String(buf) == [buf |-> buf, bytes |-> bytes]
<1>1. CASE IntoArray(fits, bytes)
  <2>1. /\ fits /\ ~used /\ used' = TRUE /\ heap' = heap /\ running' = running
        /\ strings' = Append(strings, String(0))
    BY <1>1, Zenon DEF IntoArray, HandOut
  <2>2. strings' \in Seq([buf : Nat, bytes : Nat])
    BY <2>1 DEF ConvInv
  <2>3. StringsFit'
    BY <2>1, <2>2, SMTT(30) DEF ConvInv, StringsFit, Capacity, Allocated
  <2>4. InWrapper'
    BY <2>1 DEF InWrapper
  <2> QED
    BY <2>1, <2>2, <2>3, <2>4 DEF ConvInv
<1>2. CASE IntoBlock(fits, bytes, size)
  <2>1. PICK b \in Free :
            /\ heap' = With(heap, b, [is |-> "text", size |-> size])
            /\ strings' = Append(strings, String(b))
            /\ used' = used /\ running' = running
    BY <1>2, Zenon DEF IntoBlock, HandOut
  <2>2. b \in Nat /\ b # 0 /\ b \notin Allocated
    BY AddressAssumption DEF Free
  <2>3. /\ Allocated' = Allocated \cup {b}
        /\ heap'[b].size = size
        /\ \A a \in Allocated : heap'[a] = heap[a]
    BY <2>1, <2>2 DEF With, Allocated
  <2>4. strings' \in Seq([buf : Nat, bytes : Nat])
    BY <2>1, <2>2 DEF ConvInv
  <2>5. /\ Len(strings') = Len(strings) + 1 /\ strings'[Len(strings) + 1] = String(b)
        /\ \A i \in DOMAIN strings : strings'[i] = strings[i]
        /\ DOMAIN strings = 1..Len(strings) /\ DOMAIN strings' = 1..(Len(strings) + 1)
        /\ Len(strings) \in Nat
    BY <2>1, <2>2, <2>4 DEF ConvInv
  <2>6. \A i \in DOMAIN strings :
            /\ strings[i].buf \in Allocated \cup {0} /\ strings[i].buf # b
            /\ strings[i].bytes <= IF strings[i].buf = 0 THEN DEFARRSZ
                                   ELSE heap'[strings[i].buf].size
    BY <2>2, <2>3 DEF ConvInv, StringsFit, Capacity
  <2>7. String(b).bytes <= heap'[b].size
    BY <2>3
  <2>8. \A i \in DOMAIN strings' : i \in DOMAIN strings \/ i = Len(strings) + 1
    BY <2>5
  <2>9. \A i \in DOMAIN strings' :
            /\ strings'[i].buf \in Allocated' \cup {0}
            /\ strings'[i].bytes <= IF strings'[i].buf = 0 THEN DEFARRSZ
                                    ELSE heap'[strings'[i].buf].size
    BY <2>2, <2>3, <2>5, <2>6, <2>7, <2>8
  <2>10. \A i, j \in DOMAIN strings' : i # j => strings'[i].buf # strings'[j].buf
    BY <2>5, <2>6, <2>8 DEF ConvInv, StringsFit
  <2>11. StringsFit'
    BY <2>9, <2>10 DEF StringsFit, Capacity
  <2>12. ~used' => \A i \in DOMAIN strings' : strings'[i].buf # 0
    BY <2>1, <2>2, <2>5 DEF ConvInv
  <2>13. InWrapper'
    BY <2>1 DEF InWrapper
  <2> QED
    BY <2>4, <2>11, <2>12, <2>13 DEF ConvInv
<1>3. CASE BlockFails(fits)
  <2>1. heap' = heap /\ used' = used /\ strings' = strings /\ running' = "crashed"
    BY <1>3 DEF BlockFails, convVars
  <2> QED
    BY <2>1 DEF ConvInv, StringsFit, Capacity, Allocated, InWrapper
<1> QED
  BY <1>1, <1>2, <1>3

LEMMA ConvStep ==
    ASSUME ConvInv, ConvNext
    PROVE  ConvInv'
<1>1. CASE convbuf_init
  <2>1. strings' = << >> /\ used' = FALSE
    BY <1>1 DEF convbuf_init
  <2> QED
    BY <2>1 DEF ConvInv, StringsFit
<1>2. CASE \E t \in WideTexts : convbuf_w2a(t)
  <2>1. PICK t \in WideTexts : convbuf_w2a(t)
    BY <1>2
  <2>2. t.out \in Nat
    BY WideAssumption DEF IsText
  <2>3. WideFits(t) \in BOOLEAN
    BY DEF WideFits
  <2>4. WideFits(t) => t.out + 1 <= DEFARRSZ
    BY WideBound
  <2> QED
    BY <2>1, <2>2, <2>3, <2>4, ConvertKeeps DEF convbuf_w2a
<1>3. CASE \E t \in ByteTexts : convbuf_a2w(t)
  <2>1. PICK t \in ByteTexts : convbuf_a2w(t)
    BY <1>3
  <2>2. t.out \in Nat
    BY ByteAssumption DEF IsText
  <2>3. ByteFits(t) \in BOOLEAN
    BY DEF ByteFits
  <2>4. ByteFits(t) => (t.out + 1) * SizeofWchar <= DEFARRSZ
    BY ByteBound
  <2>5. /\ (t.out + 1) * SizeofWchar \in Nat /\ (t.out + 2) * SizeofWchar \in Nat
        /\ (t.out + 1) * SizeofWchar <= (t.out + 2) * SizeofWchar
    BY <2>2 DEF SizeofWchar
  <2> QED
    BY <2>1, <2>3, <2>4, <2>5, ConvertKeeps DEF convbuf_a2w
<1>4. CASE convbuf_clear
  <2>1. strings' = << >> /\ used' = FALSE
    BY <1>4 DEF convbuf_clear
  <2> QED
    BY <2>1 DEF ConvInv, StringsFit
<1> QED
  BY <1>1, <1>2, <1>3, <1>4 DEF ConvNext

-----------------------------------------------------------------------------
(* The other functions *)

\* Nothing of glob and of scandir happens while a wrapper runs, or after a crash.
LEMMA GlobOutsideWrappers ==
    ASSUME GlobNext
    PROVE  ~InWrapper
<1>1. CASE \E p \in Patterns, fs \in FlagSets, offs \in Offsets : glob(p, fs, offs)
  BY <1>1 DEF glob, Calls, InWrapper
<1>2. CASE match_in_dir
  <2>1. Matching
    BY <1>2 DEF match_in_dir, OpenDir, OpenDirFails, FoundDirectory, NameBuf, NameBufFails,
        WriteNameCrashes, Skip, Descend, Found, EndOfDirectory, ReadFails,
        Entering, Searching, HasEntry, MayWriteName, NameWritten
  <2> QED
    BY <2>1 DEF Matching, InWrapper
<1>3. CASE NoSpace \/ NoMatch \/ NoCheck \/ MakeVector \/ VectorFails
  <2>1. Collecting
    BY <1>3 DEF NoSpace, NoMatch, NoCheck, MakeVector, VectorFails
  <2> QED
    BY <2>1 DEF Collecting, InWrapper
<1>4. CASE globfree
  BY <1>4 DEF globfree, InWrapper
<1> QED
  BY <1>1, <1>2, <1>3, <1>4 DEF GlobNext

LEMMA ScanOutsideWrappers ==
    ASSUME ScanNext
    PROVE  ~InWrapper
<1>1. CASE \E listing \in Listings : ScanOpenFails(listing)
  BY <1>1 DEF ScanOpenFails, InWrapper
<1>2. CASE \E listing \in Listings, cmp \in BOOLEAN : ScanOpens(listing, cmp)
  BY <1>2 DEF ScanOpens, Calls, InWrapper
<1>3. CASE SelRejects \/ Copy \/ ScanEnds \/ ScanReadFails \/ ScanAllocFails
  <2>1. running = "scandir"
    BY <1>3 DEF SelRejects, Copy, ScanEnds, ScanReadFails, ScanAllocFails, Candidates
  <2> QED
    BY <2>1 DEF InWrapper
<1>4. CASE ListFreed
  BY <1>4 DEF ListFreed, InWrapper
<1> QED
  BY <1>1, <1>2, <1>3, <1>4 DEF ScanNext

LEMMA ConvInvHolds == Spec => []ConvInv
<1>1. Init => ConvInv
  BY DEF Init, ConvInit, ConvInv, StringsFit
<1>2. ConvInv /\ [Next]_vars => ConvInv'
  <2> SUFFICES ASSUME ConvInv, [Next]_vars PROVE ConvInv'
    OBVIOUS
  <2>1. CASE ConvNext
    BY <2>1, ConvStep
  <2>2. CASE (GlobNext /\ UNCHANGED convVars) \/ (ScanNext /\ UNCHANGED convVars)
    <3>1. strings = << >> /\ ~used
      BY <2>2, GlobOutsideWrappers, ScanOutsideWrappers DEF ConvInv
    <3>2. strings' = << >> /\ ~used'
      BY <2>2, <3>1 DEF convVars
    <3> QED
      BY <3>2 DEF ConvInv, StringsFit
  <2>3. CASE UNCHANGED vars
    <3>1. heap' = heap /\ running' = running /\ strings' = strings /\ used' = used
      BY <2>3 DEF vars, heapVars, convVars
    <3> QED
      BY <3>1 DEF ConvInv, StringsFit, Capacity, Allocated, InWrapper
  <2> QED
    BY <2>1, <2>2, <2>3, Zenon DEF Next
<1> QED
  BY <1>1, <1>2, PTL DEF Spec

\* Every string that a wrapper has converted lies with its end inside a buffer of
\* its own (convbuf.c:44 and 77), in every state.
THEOREM ConversionsFit == Spec => []StringsFit
<1>1. ConvInv => StringsFit
  BY DEF ConvInv
<1> QED
  BY <1>1, ConvInvHolds, PTL
-----------------------------------------------------------------------------
(* The heap *)

IsIn(h, b, kind) == b \in DOMAIN h /\ h[b].is = kind

\* The heap k has the blocks of h that frames, or vectors and chains, consist of, except bs.
KeepsFrames(h, k, bs) ==
    \A b : (IsIn(h, b, "DIR") \/ IsIn(h, b, "namebuf")) /\ b \notin bs
            => b \in DOMAIN k /\ k[b] = h[b]
KeepsPaths(h, k, bs) ==
    \A b : (IsIn(h, b, "path") \/ IsIn(h, b, "vector")) /\ b \notin bs
            => b \in DOMAIN k /\ k[b] = h[b]

LEMMA WithAdds ==
    ASSUME NEW h, NEW b, NEW content, b \notin DOMAIN h
    PROVE  LET k == With(h, b, content) IN
           /\ DOMAIN k = DOMAIN h \cup {b}
           /\ k[b] = content
           /\ \A a \in DOMAIN h : a # b /\ k[a] = h[a]
BY DEF With

LEMMA WithReplaces ==
    ASSUME NEW h, NEW b \in DOMAIN h, NEW content
    PROVE  LET k == With(h, b, content) IN
           /\ DOMAIN k = DOMAIN h
           /\ k[b] = content
           /\ \A a \in DOMAIN h : a # b => k[a] = h[a]
BY DEF With

LEMMA WithoutRemoves ==
    ASSUME NEW h, NEW bs
    PROVE  LET k == Without(h, bs) IN
           /\ DOMAIN k = DOMAIN h \ bs
           /\ \A a \in DOMAIN h : a \notin bs => k[a] = h[a]
BY DEF Without

LEMMA FreshBlock ==
    ASSUME NEW b \in Free
    PROVE  b \in Nat /\ b # NULL /\ b # NOBUF /\ b \notin Allocated /\ b \notin DOMAIN heap
BY AddressAssumption DEF Free, Allocated, NULL, NOBUF

\* What qsort leaves are the elements of the array, each as often as it was there.
LEMMA Arranged ==
    ASSUME NEW S, NEW s \in Seq(S), NEW t \in qsort(s)
    PROVE  /\ t \in Seq(S) /\ Len(t) = Len(s) /\ DOMAIN t = DOMAIN s
           /\ \A i \in DOMAIN t : \E j \in DOMAIN s : t[i] = s[j]
           /\ \A j \in DOMAIN s : \E i \in DOMAIN t : t[i] = s[j]
           /\ (\A i, j \in DOMAIN s : s[i] = s[j] => i = j)
                => \A i, j \in DOMAIN t : t[i] = t[j] => i = j
<1>1. PICK f \in Bijection(DOMAIN s, DOMAIN s) : t = [i \in DOMAIN s |-> s[f[i]]]
  BY DEF qsort
<1>2. /\ f \in [DOMAIN s -> DOMAIN s]
      /\ \A a, b \in DOMAIN s : f[a] = f[b] => a = b
      /\ \A b \in DOMAIN s : \E a \in DOMAIN s : f[a] = b
  BY DEF Bijection, Injection, Surjection, IsInjective
<1>3. DOMAIN s = 1..Len(s) /\ Len(s) \in Nat
  OBVIOUS
<1>4. t \in [1..Len(s) -> S]
  BY <1>1, <1>2, <1>3
<1>5. t \in Seq(S) /\ Len(t) = Len(s) /\ DOMAIN t = DOMAIN s
  BY <1>3, <1>4
<1> QED
  BY <1>1, <1>2, <1>5

-----------------------------------------------------------------------------
(* The frames of match_in_dir *)

Name == Nat \ {0}
FrameType == [d : Seq(Name), p : Seq(SUBSET Name), dir : Nat, next : Nat, namebuf : Int]

\* Every open directory and every name buffer of a frame is a block of its own.
StackOwn(s, h) ==
    /\ s \in Seq(FrameType)
    /\ \A i \in DOMAIN s :
        /\ s[i].dir # NULL => IsIn(h, s[i].dir, "DIR")
        /\ s[i].namebuf \notin {NULL, NOBUF} => IsIn(h, s[i].namebuf, "namebuf")
        /\ s[i].dir = NULL \/ s[i].p = <<Empty>> => s[i].namebuf = NULL
    /\ \A i, j \in DOMAIN s : i # j =>
        /\ s[i].dir = s[j].dir => s[i].dir = NULL
        /\ s[i].namebuf = s[j].namebuf => s[i].namebuf \in {NULL, NOBUF}

LEMMA FrontOf ==
    ASSUME NEW S, NEW s \in Seq(S), s # << >>
    PROVE  /\ Front(s) \in Seq(S) /\ Len(Front(s)) = Len(s) - 1 /\ Len(s) \in DOMAIN s
           /\ DOMAIN Front(s) = 1..(Len(s) - 1) /\ DOMAIN s = 1..Len(s) /\ Len(s) \in Nat
           /\ \A i \in DOMAIN Front(s) : i \in DOMAIN s /\ i # Len(s) /\ Front(s)[i] = s[i]
           /\ \A i \in DOMAIN s : i # Len(s) => i \in DOMAIN Front(s)
<1>1. Len(s) \in Nat /\ Len(s) > 0 /\ DOMAIN s = 1..Len(s)
  OBVIOUS
<1>2. Front(s) \in Seq(S) /\ Len(Front(s)) = Len(s) - 1
  BY <1>1 DEF Front
<1>3. \A i \in 1..(Len(s) - 1) : Front(s)[i] = s[i]
  BY <1>1 DEF Front
<1> QED
  BY <1>1, <1>2, <1>3

\* A heap that still has the directories and buffers.
LEMMA StackStays ==
    ASSUME NEW s, NEW h, NEW k, StackOwn(s, h),
           KeepsFrames(h, k, {})
    PROVE  StackOwn(s, k)
BY DEF StackOwn, IsIn, KeepsFrames

\* The top frame returns and its directory and its buffer are freed.
LEMMA StackLeave ==
    ASSUME NEW s, NEW h, NEW k, StackOwn(s, h), s # << >>,
           KeepsFrames(h, k, {s[Len(s)].dir, s[Len(s)].namebuf})
    PROVE  StackOwn(Front(s), k)
<1> DEFINE f == Front(s)
           n == Len(s)
<1>1. /\ f \in Seq(FrameType) /\ n \in DOMAIN s
      /\ \A i \in DOMAIN f : i \in DOMAIN s /\ i # n /\ f[i] = s[i]
  BY FrontOf DEF StackOwn
<1>2. \A i \in DOMAIN f :
        /\ s[i].dir # NULL => s[i].dir # s[n].dir
        /\ s[i].namebuf \notin {NULL, NOBUF} => s[i].namebuf # s[n].namebuf
  BY <1>1 DEF StackOwn
<1>3. \A i \in DOMAIN f :
        /\ s[i].dir # NULL => IsIn(h, s[i].dir, "DIR")
        /\ s[i].namebuf \notin {NULL, NOBUF} => IsIn(h, s[i].namebuf, "namebuf")
  BY <1>1 DEF StackOwn
<1>4. s[n].dir # NULL => IsIn(h, s[n].dir, "DIR")
  BY <1>1 DEF StackOwn
<1>5. s[n].namebuf \notin {NULL, NOBUF} => IsIn(h, s[n].namebuf, "namebuf")
  BY <1>1 DEF StackOwn
<1>6. \A i \in DOMAIN f :
        /\ s[i].dir # NULL => s[i].dir # s[n].namebuf
        /\ s[i].namebuf \notin {NULL, NOBUF} => s[i].namebuf # s[n].dir
  <2>1. \A b : ~(IsIn(h, b, "DIR") /\ IsIn(h, b, "namebuf"))
    BY DEF IsIn
  <2>2. \A i \in DOMAIN f : s[i].dir \in Nat /\ s[i].namebuf \in Int
    <3>1. \A i \in DOMAIN s : s[i] \in FrameType
      BY DEF StackOwn
    <3> QED
      BY <1>1, <3>1 DEF FrameType
  <2> QED
    BY <1>3, <1>4, <1>5, <2>1, <2>2 DEF NULL, NOBUF
<1> HIDE DEF f, n
<1>7. \A i \in DOMAIN f :
        /\ f[i].dir # NULL => IsIn(k, f[i].dir, "DIR")
        /\ f[i].namebuf \notin {NULL, NOBUF} => IsIn(k, f[i].namebuf, "namebuf")
        /\ f[i].dir = NULL \/ f[i].p = <<Empty>> => f[i].namebuf = NULL
  <2>1. ASSUME NEW i \in DOMAIN f, f[i].dir # NULL PROVE IsIn(k, f[i].dir, "DIR")
    BY <1>1, <1>2, <1>3, <1>6, <2>1 DEF IsIn, KeepsFrames, n
  <2>2. ASSUME NEW i \in DOMAIN f, f[i].namebuf \notin {NULL, NOBUF}
        PROVE  IsIn(k, f[i].namebuf, "namebuf")
    BY <1>1, <1>2, <1>3, <1>6, <2>2 DEF IsIn, KeepsFrames, n
  <2> QED
    BY <1>1, <2>1, <2>2 DEF StackOwn
<1>8. \A i, j \in DOMAIN f : i # j =>
        /\ f[i].dir = f[j].dir => f[i].dir = NULL
        /\ f[i].namebuf = f[j].namebuf => f[i].namebuf \in {NULL, NOBUF}
  BY <1>1 DEF StackOwn
<1> QED
  BY <1>1, <1>7, <1>8 DEF StackOwn, f

\* The top frame changes.
LEMMA StackTop ==
    ASSUME NEW s, NEW h, NEW k, StackOwn(s, h), s # << >>, NEW top \in FrameType,
           KeepsFrames(h, k, {}),
           top.dir = s[Len(s)].dir \/ (top.dir \notin DOMAIN h /\ IsIn(k, top.dir, "DIR")),
           \/ top.namebuf = s[Len(s)].namebuf
           \/ top.namebuf = NOBUF
           \/ top.namebuf \notin DOMAIN h /\ IsIn(k, top.namebuf, "namebuf"),
           top.dir = NULL \/ top.p = <<Empty>> => top.namebuf = NULL
    PROVE  StackOwn([s EXCEPT ![Len(s)] = top], k)
<1> DEFINE n == Len(s)
           t == [s EXCEPT ![n] = top]
<1>1. /\ t \in Seq(FrameType) /\ DOMAIN t = DOMAIN s /\ n \in DOMAIN s /\ t[n] = top
      /\ \A i \in DOMAIN s : i # n => t[i] = s[i]
  BY DEF StackOwn
<1> HIDE DEF t, n
<1>2. \A i \in DOMAIN s :
        /\ s[i].dir # NULL => IsIn(h, s[i].dir, "DIR") /\ IsIn(k, s[i].dir, "DIR")
        /\ s[i].namebuf \notin {NULL, NOBUF}
            => IsIn(h, s[i].namebuf, "namebuf") /\ IsIn(k, s[i].namebuf, "namebuf")
        /\ s[i].dir = NULL \/ s[i].p = <<Empty>> => s[i].namebuf = NULL
  BY DEF StackOwn, IsIn, KeepsFrames
<1>3. \A i \in DOMAIN t :
        /\ t[i].dir # NULL => IsIn(k, t[i].dir, "DIR")
        /\ t[i].namebuf \notin {NULL, NOBUF} => IsIn(k, t[i].namebuf, "namebuf")
        /\ t[i].dir = NULL \/ t[i].p = <<Empty>> => t[i].namebuf = NULL
  <2> SUFFICES ASSUME NEW i \in DOMAIN s
               PROVE  /\ t[i].dir # NULL => IsIn(k, t[i].dir, "DIR")
                      /\ t[i].namebuf \notin {NULL, NOBUF} => IsIn(k, t[i].namebuf, "namebuf")
                      /\ t[i].dir = NULL \/ t[i].p = <<Empty>> => t[i].namebuf = NULL
    BY <1>1
  <2>1. CASE i # n
    BY <1>1, <1>2, <2>1
  <2>2. CASE i = n
    BY <1>1, <1>2, <2>2 DEF n
  <2> QED
    BY <2>1, <2>2
<1>4. \A i \in DOMAIN s : i # n =>
        /\ t[i].dir = top.dir => top.dir = NULL
        /\ t[i].namebuf = top.namebuf => top.namebuf \in {NULL, NOBUF}
  <2> SUFFICES ASSUME NEW i \in DOMAIN s, i # n
               PROVE  /\ t[i].dir = top.dir => top.dir = NULL
                      /\ t[i].namebuf = top.namebuf => top.namebuf \in {NULL, NOBUF}
    OBVIOUS
  <2>1. /\ s[i].dir = s[n].dir => s[i].dir = NULL
        /\ s[i].namebuf = s[n].namebuf => s[i].namebuf \in {NULL, NOBUF}
    BY <1>1 DEF StackOwn
  <2>2. s[i].dir # NULL => s[i].dir \in DOMAIN h
    BY <1>2 DEF IsIn
  <2>3. s[i].namebuf \notin {NULL, NOBUF} => s[i].namebuf \in DOMAIN h
    BY <1>2 DEF IsIn
  <2> QED
    BY <1>1, <2>1, <2>2, <2>3 DEF n
<1>5. \A i, j \in DOMAIN t : i # j =>
        /\ t[i].dir = t[j].dir => t[i].dir = NULL
        /\ t[i].namebuf = t[j].namebuf => t[i].namebuf \in {NULL, NOBUF}
  <2> SUFFICES ASSUME NEW i \in DOMAIN s, NEW j \in DOMAIN s, i # j
               PROVE  /\ t[i].dir = t[j].dir => t[i].dir = NULL
                      /\ t[i].namebuf = t[j].namebuf => t[i].namebuf \in {NULL, NOBUF}
    BY <1>1
  <2>1. CASE i # n /\ j # n
    BY <1>1, <2>1 DEF StackOwn
  <2>2. CASE i = n \/ j = n
    BY <1>1, <1>4, <2>2
  <2> QED
    BY <2>1, <2>2
<1> QED
  BY <1>1, <1>3, <1>5 DEF StackOwn, t, n

\* A frame is added that has opened nothing yet.
LEMMA StackPush ==
    ASSUME NEW s, NEW h, StackOwn(s, h), NEW f \in FrameType, f.dir = NULL, f.namebuf = NULL
    PROVE  StackOwn(Append(s, f), h)
<1> DEFINE t == Append(s, f)
           n == Len(s) + 1
<1>1. /\ t \in Seq(FrameType) /\ t[n] = f
      /\ \A i \in DOMAIN t : i = n \/ (i \in DOMAIN s /\ t[i] = s[i])
  BY DEF StackOwn
<1> HIDE DEF t, n
<1>2. \A i \in DOMAIN t :
        /\ t[i].dir # NULL => IsIn(h, t[i].dir, "DIR")
        /\ t[i].namebuf \notin {NULL, NOBUF} => IsIn(h, t[i].namebuf, "namebuf")
        /\ t[i].dir = NULL \/ t[i].p = <<Empty>> => t[i].namebuf = NULL
  BY <1>1 DEF StackOwn
<1>3. \A i, j \in DOMAIN t : i # j =>
        /\ t[i].dir = t[j].dir => t[i].dir = NULL
        /\ t[i].namebuf = t[j].namebuf => t[i].namebuf \in {NULL, NOBUF}
  BY <1>1 DEF StackOwn
<1> QED
  BY <1>1, <1>2, <1>3 DEF StackOwn, t

-----------------------------------------------------------------------------
(* The vector and the chain of glob *)

VecPath(v, h, i) == h[v.pathv].slots[v.offs + i]

\* The vector v of glob_t and its paths, and those in the chain c.
PathsOwn(v, c, h) ==
    /\ v \in [pathc : Nat, pathv : Nat, offs : Nat, known : BOOLEAN] /\ c \in Seq(Nat)
    /\ v.pathv = NULL => v.pathc = 0
    /\ v.pathv # NULL =>
            /\ IsIn(h, v.pathv, "vector") /\ h[v.pathv].slots \in Seq(Int)
            /\ Len(h[v.pathv].slots) = v.offs + v.pathc + 1
    /\ \A i \in 1..v.pathc : IsIn(h, VecPath(v, h, i), "path")
    /\ \A i, j \in 1..v.pathc : VecPath(v, h, i) = VecPath(v, h, j) => i = j
    /\ \A i \in DOMAIN c : IsIn(h, c[i], "path")
    /\ \A i, j \in DOMAIN c : c[i] = c[j] => i = j
    /\ \A i \in 1..v.pathc : \A j \in DOMAIN c : VecPath(v, h, i) # c[j]

LEMMA ConcatElements ==
    ASSUME NEW s \in Seq(Int), NEW t \in Seq(Int)
    PROVE  /\ s \o t \in Seq(Int) /\ Len(s \o t) = Len(s) + Len(t)
           /\ \A i \in 1..Len(s) : (s \o t)[i] = s[i]
           /\ \A j \in 1..Len(t) : (s \o t)[Len(s) + j] = t[j]
OBVIOUS

LEMMA PathsStay ==
    ASSUME NEW v, NEW c, NEW h, NEW k, PathsOwn(v, c, h),
           KeepsPaths(h, k, {})
    PROVE  PathsOwn(v, c, k) /\ \A i \in 1..v.pathc : VecPath(v, k, i) = VecPath(v, h, i)
<1>1. \A i \in 1..v.pathc : VecPath(v, k, i) = VecPath(v, h, i)
  BY SMTT(30) DEF PathsOwn, VecPath, KeepsPaths
<1>2. v.pathv # NULL => IsIn(k, v.pathv, "vector") /\ k[v.pathv] = h[v.pathv]
  BY DEF PathsOwn, IsIn, KeepsPaths
<1>3. /\ \A i \in 1..v.pathc : IsIn(k, VecPath(v, h, i), "path")
      /\ \A i \in DOMAIN c : IsIn(k, c[i], "path")
  BY DEF PathsOwn, IsIn, KeepsPaths
<1> QED
  BY <1>1, <1>2, <1>3 DEF PathsOwn

\* A path is chained.
LEMMA PathsAppend ==
    ASSUME NEW v, NEW c, NEW h, NEW k, PathsOwn(v, c, h), NEW b \in Nat,
           b \notin DOMAIN h, IsIn(k, b, "path"),
           KeepsPaths(h, k, {})
    PROVE  PathsOwn(v, Append(c, b), k) /\ \A i \in 1..v.pathc : VecPath(v, k, i) = VecPath(v, h, i)
<1> DEFINE e == Append(c, b)
           n == Len(c) + 1
<1>1. PathsOwn(v, c, k) /\ \A i \in 1..v.pathc : VecPath(v, k, i) = VecPath(v, h, i)
  <2>1. PathsOwn(v, c, k)
    BY PathsStay
  <2>2. \A i \in 1..v.pathc : VecPath(v, k, i) = VecPath(v, h, i)
    BY SMTT(30) DEF PathsOwn, VecPath, KeepsPaths
  <2> QED
    BY <2>1, <2>2
<1>2. c \in Seq(Nat)
  BY DEF PathsOwn
<1>3. /\ e \in Seq(Nat) /\ e[n] = b /\ n \notin DOMAIN c
      /\ \A i \in DOMAIN e : i = n \/ (i \in DOMAIN c /\ e[i] = c[i])
  BY <1>2
<1> HIDE DEF e, n
<1>4. /\ \A i \in DOMAIN c : c[i] # b
      /\ \A i \in 1..v.pathc : VecPath(v, k, i) # b
  BY <1>1 DEF PathsOwn, IsIn
<1>5. \A i \in DOMAIN e : IsIn(k, e[i], "path")
  BY <1>1, <1>3 DEF PathsOwn
<1>6. \A i, j \in DOMAIN e : e[i] = e[j] => i = j
  BY <1>1, <1>3, <1>4 DEF PathsOwn
<1>7. \A i \in 1..v.pathc : \A j \in DOMAIN e : VecPath(v, k, i) # e[j]
  BY <1>1, <1>3, <1>4 DEF PathsOwn
<1> QED
  BY <1>1, <1>3, <1>5, <1>6, <1>7 DEF PathsOwn, e

\* The chain is freed.
LEMMA PathsDrop ==
    ASSUME NEW v, NEW c, NEW h, NEW k, PathsOwn(v, c, h),
           KeepsPaths(h, k, {c[i] : i \in DOMAIN c})
    PROVE  PathsOwn(v, << >>, k) /\ \A i \in 1..v.pathc : VecPath(v, k, i) = VecPath(v, h, i)
<1>1. v.pathv # NULL => /\ IsIn(h, v.pathv, "vector")
                        /\ \A i \in DOMAIN c : v.pathv # c[i]
  BY DEF PathsOwn, IsIn
<1>2. v.pathv # NULL => IsIn(k, v.pathv, "vector") /\ k[v.pathv] = h[v.pathv]
  BY <1>1 DEF IsIn, KeepsPaths
<1>3. v.pathc > 0 => v.pathv # NULL
  BY DEF PathsOwn
<1>4. \A i \in 1..v.pathc : VecPath(v, k, i) = VecPath(v, h, i)
  <2>1. \A i \in 1..v.pathc : v.pathc > 0
    BY DEF PathsOwn
  <2> QED
    BY <1>2, <1>3, <2>1 DEF VecPath
<1>5. \A i \in 1..v.pathc : IsIn(k, VecPath(v, h, i), "path")
  <2>1. \A i \in 1..v.pathc : /\ IsIn(h, VecPath(v, h, i), "path")
                               /\ \A j \in DOMAIN c : VecPath(v, h, i) # c[j]
    BY DEF PathsOwn
  <2> QED
    BY <2>1 DEF IsIn, KeepsPaths
<1> QED
  BY <1>2, <1>4, <1>5 DEF PathsOwn

LEMMA VectorChanges ==
    ASSUME NEW v \in [pathc : Nat, pathv : Nat, offs : Nat, known : BOOLEAN],
           NEW b \in Nat, NEW n \in Nat
    PROVE  LET w == [v EXCEPT !.pathv = b, !.pathc = @ + n] IN
           /\ w \in [pathc : Nat, pathv : Nat, offs : Nat, known : BOOLEAN]
           /\ w.pathv = b /\ w.pathc = v.pathc + n /\ w.offs = v.offs
<1> DEFINE m == v.pathc + n
           w == [v EXCEPT !.pathv = b, !.pathc = m]
<1>1. m \in Nat
  OBVIOUS
<1> HIDE DEF m
<1>2. w.pathv = b /\ w.pathc = m /\ w.offs = v.offs
  OBVIOUS
<1>3. w \in [pathc : Nat, pathv : Nat, offs : Nat, known : BOOLEAN]
  BY <1>1
<1> QED
  BY <1>2, <1>3 DEF m

\* The slots old are those of the vector without its end.
KeepsOld(old, v, h) == \A i \in 1..v.pathc : old[v.offs + i] = VecPath(v, h, i)

\* The vector is made, or made longer, of the chain in another order.
LEMMA VectorMade ==
    ASSUME NEW v, NEW w, NEW c, NEW h, NEW k, PathsOwn(v, c, h),
           NEW b \in Nat, b # NULL, b \notin DOMAIN h,
           NEW old \in Seq(Int), Len(old) = v.offs + v.pathc,
           KeepsOld(old, v, h),
           NEW new \in qsort(c),
           w \in [pathc : Nat, pathv : Nat, offs : Nat, known : BOOLEAN],
           w.pathv = b, w.pathc = v.pathc + Len(c), w.offs = v.offs,
           IsIn(k, b, "vector"), k[b].slots = old \o new \o <<NULL>>,
           KeepsPaths(h, k, {v.pathv} \ {NULL})
    PROVE  /\ PathsOwn(w, << >>, k)
           /\ \A i \in 1..v.pathc : VecPath(w, k, i) = VecPath(v, h, i)
           /\ \A j \in DOMAIN new : VecPath(w, k, v.pathc + j) = new[j]
           /\ \A i \in 1..w.pathc : i \in 1..v.pathc \/ i - v.pathc \in DOMAIN new
<1> DEFINE slots == old \o new \o <<NULL>>
           m == v.pathc
           n == Len(c)
           o == v.offs
<1>1. /\ m \in Nat /\ n \in Nat /\ o \in Nat /\ c \in Seq(Nat) /\ v.known \in BOOLEAN
      /\ v \in [pathc : Nat, pathv : Nat, offs : Nat, known : BOOLEAN]
  BY DEF PathsOwn
<1>2. /\ new \in Seq(Nat) /\ Len(new) = n /\ DOMAIN new = 1..n /\ DOMAIN c = 1..n
      /\ \A i \in DOMAIN new : \E j \in DOMAIN c : new[i] = c[j]
      /\ \A i, j \in DOMAIN new : new[i] = new[j] => i = j
  <2>1. \A i, j \in DOMAIN c : c[i] = c[j] => i = j
    BY DEF PathsOwn
  <2>2. /\ new \in Seq(Nat) /\ Len(new) = Len(c) /\ DOMAIN new = DOMAIN c
        /\ \A i \in DOMAIN new : \E j \in DOMAIN c : new[i] = c[j]
        /\ \A i, j \in DOMAIN new : new[i] = new[j] => i = j
    BY <1>1, <2>1, Arranged
  <2> QED
    BY <1>1, <2>2
<1>3. /\ slots \in Seq(Int) /\ Len(slots) = o + m + n + 1
      /\ \A i \in 1..(o + m) : slots[i] = old[i]
      /\ \A j \in 1..n : slots[o + m + j] = new[j]
  <2>1. old \in Seq(Int) /\ new \in Seq(Int) /\ <<NULL>> \in Seq(Int) /\ Len(<<NULL>>) = 1
    BY <1>2 DEF NULL
  <2>2. Len(old) = o + m /\ Len(new) = n
    BY <1>2
  <2> HIDE DEF m, n, o
  <2>3. /\ old \o new \in Seq(Int) /\ Len(old \o new) = o + m + n
        /\ \A i \in 1..(o + m) : (old \o new)[i] = old[i]
        /\ \A j \in 1..n : (old \o new)[o + m + j] = new[j]
    <3>1. /\ old \o new \in Seq(Int) /\ Len(old \o new) = Len(old) + Len(new)
          /\ \A i \in 1..Len(old) : (old \o new)[i] = old[i]
          /\ \A j \in 1..Len(new) : (old \o new)[Len(old) + j] = new[j]
      <4>1. new \in Seq(Int)
        BY <2>1
      <4> QED
        BY <4>1, ConcatElements
    <3> QED
      BY <2>2, <3>1
  <2>4. o + m + n \in Nat /\ \A i \in 1..(o + m) : i \in 1..(o + m + n)
    BY <1>1
  <2>5. \A j \in 1..n : o + m + j \in 1..(o + m + n)
    BY <1>1
  <2>6. /\ slots \in Seq(Int) /\ Len(slots) = o + m + n + 1
        /\ \A i \in 1..(o + m + n) : slots[i] = (old \o new)[i]
    BY <2>1, <2>3, ConcatElements
  <2> QED
    BY <2>3, <2>4, <2>5, <2>6
<1>4. w.pathv = b /\ w.pathc = m + n /\ w.offs = o
      /\ w \in [pathc : Nat, pathv : Nat, offs : Nat, known : BOOLEAN]
  BY DEF m, n, o
<1>5. k[b].slots = slots /\ IsIn(k, b, "vector")
  OBVIOUS
<1> HIDE DEF slots, m, n, o
<1>6. \A i \in 1..m : VecPath(w, k, i) = VecPath(v, h, i)
  <2> SUFFICES ASSUME NEW i \in 1..m PROVE VecPath(w, k, i) = VecPath(v, h, i)
    OBVIOUS
  <2>1. o + i \in 1..(o + m)
    BY <1>1
  <2>2. VecPath(w, k, i) = slots[o + i]
    BY <1>4, <1>5 DEF VecPath
  <2> QED
    BY <1>3, <2>1, <2>2 DEF o, m, KeepsOld
<1>7. \A j \in 1..n : VecPath(w, k, m + j) = new[j]
  <2> SUFFICES ASSUME NEW j \in 1..n PROVE VecPath(w, k, m + j) = new[j]
    OBVIOUS
  <2>1. o + (m + j) = o + m + j
    BY <1>1
  <2>2. VecPath(w, k, m + j) = slots[o + (m + j)]
    BY <1>4, <1>5 DEF VecPath
  <2> QED
    BY <1>3, <2>1, <2>2
<1>8. \A i \in 1..w.pathc : i \in 1..m \/ (i - m \in 1..n /\ i = m + (i - m))
  <2>1. \A i \in 1..(m + n) : i \in 1..m \/ (i - m \in 1..n /\ i = m + (i - m))
    BY <1>1
  <2> QED
    BY <1>4, <2>1
<1>9. /\ \A i \in 1..m : IsIn(h, VecPath(v, h, i), "path")
      /\ \A i, j \in 1..m : VecPath(v, h, i) = VecPath(v, h, j) => i = j
      /\ \A i \in 1..m : \A j \in 1..n : VecPath(v, h, i) # new[j]
      /\ \A j \in 1..n : IsIn(h, new[j], "path")
      /\ \A x : IsIn(h, x, "path") => x \notin {v.pathv} \ {NULL}
  <2>1. /\ \A i \in 1..m : IsIn(h, VecPath(v, h, i), "path")
        /\ \A i, j \in 1..m : VecPath(v, h, i) = VecPath(v, h, j) => i = j
        /\ \A i \in 1..m : \A j \in DOMAIN c : VecPath(v, h, i) # c[j]
        /\ \A j \in DOMAIN c : IsIn(h, c[j], "path")
    BY DEF PathsOwn, m
  <2>2. \A x : IsIn(h, x, "path") => x \notin {v.pathv} \ {NULL}
    BY DEF PathsOwn, IsIn
  <2>3. \A j \in 1..n : \E l \in DOMAIN c : new[j] = c[l]
    BY <1>2
  <2>4. \A i \in 1..m : \A j \in 1..n : VecPath(v, h, i) # new[j]
    BY <2>1, <2>3
  <2>5. \A j \in 1..n : IsIn(h, new[j], "path")
    BY <2>1, <2>3
  <2> QED
    BY <2>1, <2>2, <2>4, <2>5
<1>10. \A i \in 1..w.pathc : IsIn(k, VecPath(w, k, i), "path")
  <2> SUFFICES ASSUME NEW i \in 1..w.pathc PROVE IsIn(k, VecPath(w, k, i), "path")
    OBVIOUS
  <2>1. IsIn(h, VecPath(w, k, i), "path") 
        /\ VecPath(w, k, i) \notin {v.pathv} \ {NULL}
    <3>1. CASE i \in 1..m
      BY <1>6, <1>9, <3>1
    <3>2. CASE i - m \in 1..n /\ i = m + (i - m)
      BY <1>7, <1>9, <3>2
    <3> QED
      BY <1>8, <3>1, <3>2
  <2> QED
    BY <2>1 DEF IsIn, KeepsPaths
<1>11. \A i, j \in 1..w.pathc : VecPath(w, k, i) = VecPath(w, k, j) => i = j
  <2> SUFFICES ASSUME NEW i \in 1..w.pathc, NEW j \in 1..w.pathc,
                      VecPath(w, k, i) = VecPath(w, k, j)
               PROVE  i = j
    OBVIOUS
  <2>1. CASE i \in 1..m /\ j \in 1..m
    BY <1>6, <1>9, <2>1
  <2>2. CASE i \in 1..m /\ j - m \in 1..n /\ j = m + (j - m)
    BY <1>6, <1>7, <1>9, <2>2
  <2>3. CASE j \in 1..m /\ i - m \in 1..n /\ i = m + (i - m)
    <3>1. VecPath(w, k, i) = new[i - m] /\ VecPath(w, k, j) = VecPath(v, h, j)
      BY <1>6, <1>7, <2>3
    <3> QED
      BY <1>9, <2>3, <3>1
  <2>4. CASE i - m \in 1..n /\ i = m + (i - m) /\ j - m \in 1..n /\ j = m + (j - m)
    <3>1. new[i - m] = new[j - m]
      BY <1>7, <2>4
    <3>2. i - m = j - m
      BY <1>2, <2>4, <3>1
    <3> QED
      BY <2>4, <3>2
  <2> QED
    BY <1>8, <2>1, <2>2, <2>3, <2>4
<1>12. Len(slots) = w.offs + w.pathc + 1
  BY <1>1, <1>3, <1>4
<1>13. PathsOwn(w, << >>, k)
  <2>1. << >> \in Seq(Nat) /\ DOMAIN << >> = {}
    OBVIOUS
  <2>2. IsIn(k, w.pathv, "vector") /\ k[w.pathv].slots = slots
    BY <1>4, <1>5 DEF IsIn
  <2> QED
    BY <1>3, <1>4, <1>10, <1>11, <1>12, <2>1, <2>2 DEF PathsOwn
<1>14. \A j \in DOMAIN new : VecPath(w, k, m + j) = new[j]
  BY <1>2, <1>7
<1>15. \A i \in 1..w.pathc : i \in 1..m \/ i - m \in DOMAIN new
  BY <1>2, <1>8
<1> QED
  BY <1>6, <1>13, <1>14, <1>15 DEF m

-----------------------------------------------------------------------------
(* What belongs to glob *)

InStack(b, s) == \E i \in DOMAIN s : b = s[i].dir \/ b = s[i].namebuf
InChain(b, c) == \E i \in DOMAIN c : b = c[i]
InVector(b, v, h) == b = v.pathv \/ \E i \in 1..v.pathc : b = VecPath(v, h, i)

LEMMA InStackPush ==
    ASSUME NEW s \in Seq(FrameType), NEW f \in FrameType, f.dir = NULL, f.namebuf = NULL,
           NEW b, b # NULL
    PROVE  InStack(b, Append(s, f)) <=> InStack(b, s)
<1> DEFINE t == Append(s, f)
<1>1. /\ \A i \in DOMAIN s : i \in DOMAIN t /\ t[i] = s[i]
      /\ \A i \in DOMAIN t : t[i] = f \/ (i \in DOMAIN s /\ t[i] = s[i])
  OBVIOUS
<1> HIDE DEF t
<1> QED
  BY <1>1 DEF InStack, t

LEMMA InStackTop ==
    ASSUME NEW s \in Seq(FrameType), s # << >>, NEW top \in FrameType,
           s[Len(s)].dir \in {top.dir, NULL}, s[Len(s)].namebuf \in {top.namebuf, NULL},
           NEW b, b # NULL
    PROVE  InStack(b, [s EXCEPT ![Len(s)] = top])
                <=> InStack(b, s) \/ b = top.dir \/ b = top.namebuf
<1> DEFINE n == Len(s)
           t == [s EXCEPT ![n] = top]
<1>1. /\ n \in DOMAIN s /\ DOMAIN t = DOMAIN s /\ t[n] = top
      /\ \A i \in DOMAIN s : i # n => t[i] = s[i]
  OBVIOUS
<1> HIDE DEF t, n
<1>2. s[n].dir \in {top.dir, NULL} /\ s[n].namebuf \in {top.namebuf, NULL}
  BY DEF n
<1> QED
  BY <1>1, <1>2 DEF InStack, t, n

LEMMA InStackLeave ==
    ASSUME NEW s, NEW h, StackOwn(s, h), s # << >>, NEW b, b \notin {NULL, NOBUF}
    PROVE  InStack(b, Front(s))
                <=> InStack(b, s) /\ b # s[Len(s)].dir /\ b # s[Len(s)].namebuf
<1> DEFINE n == Len(s)
           f == Front(s)
<1>1. s \in Seq(FrameType)
  BY DEF StackOwn
<1>2. /\ n \in DOMAIN s
      /\ \A i \in DOMAIN f : i \in DOMAIN s /\ i # n /\ f[i] = s[i]
      /\ \A i \in DOMAIN s : i # n => i \in DOMAIN f
  BY <1>1, FrontOf
<1> HIDE DEF n, f
<1>3. \A i \in DOMAIN s : i # n =>
        /\ s[i].dir = b => b # s[n].dir /\ b # s[n].namebuf
        /\ s[i].namebuf = b => b # s[n].dir /\ b # s[n].namebuf
  BY <1>2 DEF StackOwn, IsIn
<1> QED
  BY <1>2, <1>3 DEF InStack, f, n

-----------------------------------------------------------------------------

CallType == [pattern : Seq(SUBSET Name),
             flags : SUBSET {"ERR", "MARK", "NOSORT", "NOCHECK", "APPEND"},
             offs : Nat, chain : Seq(Nat), error : {"0", "NOSPACE", "ABORTED"}]

\* The blocks of glob are what their owners take them for, and no block has two owners.
GlobOwn ==
    /\ StackOwn(stack, heap) /\ PathsOwn(g, call.chain, heap)
    /\ call \in CallType
    /\ running \notin {"glob", "crashed"} => stack = << >> /\ call = NoCall
    /\ running = "glob" => call.offs = g.offs /\ ("APPEND" \notin call.flags => g.pathv = NULL)

InGlob(b) == InStack(b, stack) \/ InChain(b, call.chain) \/ InVector(b, g, heap)

\* The paths of the vector stay in their places and as they are.
KeepsVector ==
    \A i \in 1..g.pathc : /\ VecPath(g', heap', i) = VecPath(g, heap, i)
                          /\ heap'[VecPath(g, heap, i)] = heap[VecPath(g, heap, i)]
VectorGrows == g'.pathc = 0 \/ (g.pathc <= g'.pathc /\ KeepsVector)

LEMMA VectorStays ==
    ASSUME PathsOwn(g, call.chain, heap), g' = g, KeepsVector
    PROVE  VectorGrows
<1>1. g.pathc \in Nat
  BY DEF PathsOwn
<1> QED
  BY <1>1 DEF VectorGrows

\* A step of glob leaves other blocks alone, and what it does not own behind it was
\* not its own before, or is a name buffer that was lost after a fault.
GlobChange ==
    /\ Allocated' \subseteq Addresses
    /\ \A b \in Allocated : ~InGlob(b) => b \in Allocated' /\ heap'[b] = heap[b] /\ ~InGlob(b)'
    /\ \A b \in Allocated' : ~InGlob(b)' =>
            \/ b \in Allocated /\ ~InGlob(b)
            \/ heap'[b].is = "namebuf" /\ faults' > 0
    /\ VectorGrows

LEMMA NotAllocated ==
    ASSUME Allocated \subseteq Addresses
    PROVE  NULL \notin DOMAIN heap /\ NOBUF \notin DOMAIN heap
BY AddressAssumption DEF Allocated, NULL, NOBUF

\* In match_in_dir glob goes on with the same vector.
SameCall(chained) ==
    /\ running = "glob" /\ running' = "glob" /\ g' = g
    /\ call' \in CallType
    /\ call'.chain = chained /\ call'.offs = call.offs /\ call'.flags = call.flags

\* The top frame changes, with a new block for it or for none.
LEMMA TopStep ==
    ASSUME GlobOwn, Allocated \subseteq Addresses, stack # << >>, SameCall(call.chain),
           NEW top \in FrameType, stack' = [stack EXCEPT ![Len(stack)] = top],
           Top.dir \in {top.dir, NULL}, Top.namebuf \in {top.namebuf, NULL},
           top.dir = NULL \/ top.p = <<Empty>> => top.namebuf = NULL,
           \/ heap' = heap /\ top.dir = Top.dir /\ top.namebuf \in {Top.namebuf, NOBUF}
           \/ /\ top.dir \in Free /\ heap' = With(heap, top.dir, [is |-> "DIR"])
              /\ top.namebuf = Top.namebuf
           \/ /\ top.namebuf \in Free /\ heap' = With(heap, top.namebuf, [is |-> "namebuf"])
              /\ top.dir = Top.dir
    PROVE  GlobOwn' /\ GlobChange
<1>a. StackOwn(stack, heap) /\ PathsOwn(g, call.chain, heap) /\ stack \in Seq(FrameType)
  BY DEF GlobOwn, StackOwn
<1>1. /\ DOMAIN heap \subseteq DOMAIN heap'
      /\ \A b \in DOMAIN heap : heap'[b] = heap[b]
      /\ \A b \in DOMAIN heap' : b \in DOMAIN heap \/ b \in {top.dir, top.namebuf}
      /\ DOMAIN heap' \subseteq Addresses
      /\ top.dir = Top.dir \/ (top.dir \notin DOMAIN heap /\ IsIn(heap', top.dir, "DIR"))
      /\ \/ top.namebuf = Top.namebuf \/ top.namebuf = NOBUF
         \/ top.namebuf \notin DOMAIN heap /\ IsIn(heap', top.namebuf, "namebuf")
  <2>1. CASE heap' = heap /\ top.dir = Top.dir /\ top.namebuf \in {Top.namebuf, NOBUF}
    BY <2>1 DEF Allocated
  <2>2. CASE /\ top.dir \in Free /\ heap' = With(heap, top.dir, [is |-> "DIR"])
             /\ top.namebuf = Top.namebuf
    <3>1. top.dir \notin DOMAIN heap /\ top.dir \in Addresses
      BY <2>2 DEF Free, Allocated
    <3>2. /\ DOMAIN heap' = DOMAIN heap \cup {top.dir} /\ heap'[top.dir] = [is |-> "DIR"]
          /\ \A b \in DOMAIN heap : heap'[b] = heap[b]
      <4>1. heap' = With(heap, top.dir, [is |-> "DIR"]) /\ top.dir \notin DOMAIN heap
        BY <2>2, <3>1
      <4> QED
        BY <4>1 DEF With
    <3>3. IsIn(heap', top.dir, "DIR")
      BY <3>2 DEF IsIn
    <3> QED
      BY <2>2, <3>1, <3>2, <3>3 DEF Allocated
  <2>3. CASE /\ top.namebuf \in Free /\ heap' = With(heap, top.namebuf, [is |-> "namebuf"])
             /\ top.dir = Top.dir
    <3>1. top.namebuf \notin DOMAIN heap /\ top.namebuf \in Addresses
      BY <2>3 DEF Free, Allocated
    <3>2. /\ DOMAIN heap' = DOMAIN heap \cup {top.namebuf}
          /\ heap'[top.namebuf] = [is |-> "namebuf"]
          /\ \A b \in DOMAIN heap : heap'[b] = heap[b]
      <4>1. heap' = With(heap, top.namebuf, [is |-> "namebuf"]) /\ top.namebuf \notin DOMAIN heap
        BY <2>3, <3>1
      <4> QED
        BY <4>1 DEF With
    <3>3. IsIn(heap', top.namebuf, "namebuf")
      BY <3>2 DEF IsIn
    <3> QED
      BY <2>3, <3>1, <3>2, <3>3 DEF Allocated
  <2> QED
    BY <2>1, <2>2, <2>3
<1>2. KeepsFrames(heap, heap', {}) /\ KeepsPaths(heap, heap', {})
  BY <1>1 DEF KeepsFrames, KeepsPaths, IsIn
<1>3. StackOwn(stack', heap')
  BY <1>a, <1>1, <1>2, StackTop DEF Top
<1>4. /\ PathsOwn(g', call'.chain, heap')
      /\ \A i \in 1..g.pathc : VecPath(g', heap', i) = VecPath(g, heap, i)
  BY <1>a, <1>2, PathsStay DEF SameCall
<1>5. GlobOwn'
  BY <1>3, <1>4 DEF GlobOwn, SameCall
<1>6. \A b : b # NULL => (InStack(b, stack')
                        <=> InStack(b, stack) \/ b = top.dir \/ b = top.namebuf)
  BY <1>a, InStackTop DEF Top
<1>7. \A b : /\ InVector(b, g', heap') <=> InVector(b, g, heap)
             /\ InChain(b, call'.chain) <=> InChain(b, call.chain)
  BY <1>4 DEF InVector, SameCall
<1>8. NULL \notin DOMAIN heap /\ NOBUF \notin DOMAIN heap /\ NULL \notin DOMAIN heap'
  BY <1>1, NotAllocated, AddressAssumption DEF NULL
<1>9. \A b \in DOMAIN heap : (b = top.dir => b = Top.dir) /\ (b = top.namebuf => b = Top.namebuf)
  BY <1>1, <1>8
<1>10. InStack(Top.dir, stack) /\ InStack(Top.namebuf, stack)
  BY <1>a DEF InStack, Top
<1>11. \A b \in DOMAIN heap : ~InGlob(b) => b \in DOMAIN heap' /\ heap'[b] = heap[b] /\ ~InGlob(b)'
  BY <1>1, <1>6, <1>7, <1>8, <1>9, <1>10 DEF InGlob
<1>12. \A b \in DOMAIN heap' : ~InGlob(b)' => b \in DOMAIN heap /\ ~InGlob(b)
  BY <1>1, <1>6, <1>7, <1>8, <1>9 DEF InGlob
<1>13. VectorGrows
  <2>1. \A i \in 1..g.pathc : VecPath(g, heap, i) \in DOMAIN heap
    BY <1>a DEF PathsOwn, IsIn
  <2>2. KeepsVector
    BY <1>1, <1>4, <2>1 DEF KeepsVector
  <2> QED
    BY <1>a, <2>2, VectorStays DEF SameCall
<1> QED
  BY <1>1, <1>5, <1>11, <1>12, <1>13 DEF GlobChange, Allocated

\* In match_in_dir the chain stays or gets the block new.
Chained(new) ==
    \/ new = {} /\ SameCall(call.chain)
    \/ \E b \in Free : new = {b} /\ IsIn(heap', b, "path") /\ SameCall(Append(call.chain, b))

LEMMA ChainStep ==
    ASSUME GlobOwn, NEW new, Chained(new), KeepsPaths(heap, heap', {})
    PROVE  /\ PathsOwn(g', call'.chain, heap')
           /\ \A b : InVector(b, g', heap') <=> InVector(b, g, heap)
           /\ \A b : InChain(b, call'.chain) <=> InChain(b, call.chain) \/ b \in new
           /\ VectorGrows
<1>a. PathsOwn(g, call.chain, heap) /\ call.chain \in Seq(Nat)
  BY DEF GlobOwn, PathsOwn
<1>b. (\A i \in 1..g.pathc : VecPath(g', heap', i) = VecPath(g, heap, i)) => KeepsVector
  BY <1>a DEF PathsOwn, KeepsPaths, KeepsVector
<1>c. g' = g
  BY DEF Chained, SameCall
<1>1. CASE new = {} /\ SameCall(call.chain)
  <2>1. /\ PathsOwn(g', call'.chain, heap')
        /\ \A i \in 1..g.pathc : VecPath(g', heap', i) = VecPath(g, heap, i)
    BY <1>a, <1>1, PathsStay DEF SameCall
  <2>2. VectorGrows
    BY <1>a, <1>b, <1>c, <2>1, VectorStays
  <2> QED
    BY <1>1, <2>1, <2>2 DEF InVector, InChain, SameCall
<1>2. CASE \E b \in Free : new = {b} /\ IsIn(heap', b, "path") /\ SameCall(Append(call.chain, b))
  <2>1. PICK b \in Free : new = {b} /\ IsIn(heap', b, "path") /\ SameCall(Append(call.chain, b))
    BY <1>2
  <2>2. b \in Nat /\ b \notin DOMAIN heap
    BY FreshBlock
  <2>3. /\ PathsOwn(g', call'.chain, heap')
        /\ \A i \in 1..g.pathc : VecPath(g', heap', i) = VecPath(g, heap, i)
    BY <1>a, <2>1, <2>2, PathsAppend DEF SameCall
  <2>4. /\ \A i \in DOMAIN call.chain : i \in DOMAIN call'.chain /\ call'.chain[i] = call.chain[i]
        /\ \A i \in DOMAIN call'.chain : call'.chain[i] = b \/
                (i \in DOMAIN call.chain /\ call'.chain[i] = call.chain[i])
        /\ \E i \in DOMAIN call'.chain : call'.chain[i] = b
    <3>1. call'.chain = Append(call.chain, b)
      BY <2>1 DEF SameCall
    <3> HIDE <2>1
    <3>2. Len(call.chain) + 1 \in DOMAIN call'.chain /\ call'.chain[Len(call.chain) + 1] = b
      BY <1>a, <2>2, <3>1
    <3> QED
      BY <1>a, <2>2, <3>1, <3>2
  <2>5. \A a : InChain(a, call'.chain) <=> InChain(a, call.chain) \/ a \in new
    BY <2>1, <2>4 DEF InChain
  <2>6. VectorGrows
    BY <1>a, <1>b, <1>c, <2>3, VectorStays
  <2> QED
    BY <1>c, <2>3, <2>5, <2>6 DEF InVector
<1> QED
  BY <1>1, <1>2 DEF Chained

\* A step of match_in_dir that frees the blocks gone of its frames.
LEMMA OwnStep ==
    ASSUME GlobOwn, Allocated \subseteq Addresses, NEW new, Chained(new), NEW gone,
           StackOwn(stack', heap'),
           DOMAIN heap' = (DOMAIN heap \cup new) \ gone,
           \A b \in DOMAIN heap : b \notin gone => heap'[b] = heap[b],
           \A b \in gone \cap DOMAIN heap :
                InStack(b, stack) /\ (IsIn(heap, b, "DIR") \/ IsIn(heap, b, "namebuf")),
           \A b \in DOMAIN heap \ gone :
                /\ InStack(b, stack') => InStack(b, stack)
                /\ InStack(b, stack) => \/ InStack(b, stack')
                                        \/ heap[b].is = "namebuf" /\ faults' > 0
    PROVE  GlobOwn' /\ GlobChange
<1>1. KeepsPaths(heap, heap', {})
  BY DEF KeepsPaths, IsIn
<1>2. /\ PathsOwn(g', call'.chain, heap')
      /\ \A b : InVector(b, g', heap') <=> InVector(b, g, heap)
      /\ \A b : InChain(b, call'.chain) <=> InChain(b, call.chain) \/ b \in new
      /\ VectorGrows
  BY <1>1, ChainStep
<1>3. /\ call' \in CallType /\ running' = "glob" /\ g' = g /\ call'.offs = call.offs
      /\ call'.flags = call.flags /\ running = "glob"
  BY DEF Chained, SameCall
<1>4. GlobOwn'
  BY <1>2, <1>3 DEF GlobOwn
<1>5. new \subseteq Addresses /\ new \cap DOMAIN heap = {}
  BY FreshBlock DEF Chained, Free
<1>6. Allocated' \subseteq Addresses
  BY <1>5 DEF Allocated
<1>7. \A b \in DOMAIN heap : ~InGlob(b) => b \in DOMAIN heap' /\ heap'[b] = heap[b] /\ ~InGlob(b)'
  BY <1>2, <1>5 DEF InGlob
<1>8. \A b \in DOMAIN heap' : ~InGlob(b)' =>
            \/ b \in DOMAIN heap /\ ~InGlob(b)
            \/ heap'[b].is = "namebuf" /\ faults' > 0
  BY <1>2, <1>5 DEF InGlob
<1> QED
  BY <1>2, <1>4, <1>6, <1>7, <1>8 DEF GlobChange, Allocated

\* The top frame returns.
LEMMA LeaveStep ==
    ASSUME GlobOwn, Allocated \subseteq Addresses, stack # << >>, NEW new, Chained(new),
           stack' = Front(stack),
           DOMAIN heap' = (DOMAIN heap \cup new) \ {Top.dir, Top.namebuf},
           \A b \in DOMAIN heap : b \notin {Top.dir, Top.namebuf} => heap'[b] = heap[b]
    PROVE  GlobOwn' /\ GlobChange
<1> DEFINE gone == {Top.dir, Top.namebuf}
<1>1. StackOwn(stack, heap) /\ stack \in Seq(FrameType)
  BY DEF GlobOwn, StackOwn
<1>2. KeepsFrames(heap, heap', gone)
  BY DEF KeepsFrames, IsIn
<1>3. StackOwn(stack', heap')
  BY <1>1, <1>2, StackLeave DEF Top
<1>4. NULL \notin DOMAIN heap /\ NOBUF \notin DOMAIN heap
  BY NotAllocated
<1>5. Len(stack) \in DOMAIN stack
  BY <1>1
<1>6. \A b \in gone \cap DOMAIN heap :
            InStack(b, stack) /\ (IsIn(heap, b, "DIR") \/ IsIn(heap, b, "namebuf"))
  BY <1>1, <1>4, <1>5 DEF StackOwn, InStack, Top
<1>7. \A b \in DOMAIN heap \ gone : InStack(b, stack') <=> InStack(b, stack)
  BY <1>1, <1>4, InStackLeave DEF Top
<1> HIDE DEF gone
<1>8. DOMAIN heap' = (DOMAIN heap \cup new) \ gone
  BY DEF gone
<1>9. \A b \in DOMAIN heap : b \notin gone => heap'[b] = heap[b]
  BY DEF gone
<1> QED
  BY <1>3, <1>6, <1>7, <1>8, <1>9, OwnStep

\* The frames return an error.
LEMMA UnwindStep ==
    ASSUME GlobOwn, Allocated \subseteq Addresses, stack # << >>, SameCall(call.chain),
           stack' = << >>, faults' > 0,
           NEW more \in {{}, {Top.namebuf}},
           heap' = Without(heap, DirsOf(stack) \cup more)
    PROVE  GlobOwn' /\ GlobChange
<1> DEFINE gone == DirsOf(stack) \cup more
<1>1. StackOwn(stack, heap) /\ stack \in Seq(FrameType) /\ Len(stack) \in DOMAIN stack
  BY DEF GlobOwn, StackOwn
<1>2. StackOwn(stack', heap') /\ \A b : ~InStack(b, stack')
  BY DEF StackOwn, InStack
<1>3. NULL \notin DOMAIN heap /\ NOBUF \notin DOMAIN heap
  BY NotAllocated
<1>4. \A b \in gone : b = Top.namebuf \/ \E i \in DOMAIN stack : b = stack[i].dir
  BY DEF DirsOf
<1>5. \A b \in gone \cap DOMAIN heap :
            InStack(b, stack) /\ (IsIn(heap, b, "DIR") \/ IsIn(heap, b, "namebuf"))
  BY <1>1, <1>3, <1>4 DEF StackOwn, InStack, Top
<1>6. \A b \in DOMAIN heap \ gone : InStack(b, stack) => heap[b].is = "namebuf"
  <2> SUFFICES ASSUME NEW b \in DOMAIN heap \ gone, InStack(b, stack)
               PROVE  heap[b].is = "namebuf"
    OBVIOUS
  <2>1. PICK i \in DOMAIN stack : b = stack[i].dir \/ b = stack[i].namebuf
    BY DEF InStack
  <2>2. b = stack[i].namebuf
    BY <2>1 DEF DirsOf
  <2> QED
    BY <1>1, <1>3, <2>2 DEF StackOwn, IsIn
<1>7. DOMAIN heap' = (DOMAIN heap \cup {}) \ gone
  BY DEF Without
<1>8. \A b \in DOMAIN heap : b \notin gone => heap'[b] = heap[b]
  BY DEF Without
<1>9. Chained({})
  BY DEF Chained
<1> HIDE DEF gone
<1> QED
  BY <1>2, <1>5, <1>6, <1>7, <1>8, <1>9, OwnStep

LEMMA NextOf ==
    ASSUME NEW f \in FrameType
    PROVE  LET t == [f EXCEPT !.next = @ + 1] IN
           t \in FrameType /\ t.dir = f.dir /\ t.namebuf = f.namebuf /\ t.p = f.p /\ t.d = f.d
BY DEF FrameType

\* The next entry follows, with or without a path or a frame more.
LEMMA NextStep ==
    ASSUME GlobOwn, Allocated \subseteq Addresses, stack # << >>, NEW new, Chained(new),
           NEW t, t = [stack EXCEPT ![Len(stack)].next = @ + 1],
           \/ stack' = t
           \/ \E f \in FrameType : /\ f.dir = NULL /\ f.namebuf = NULL
                                   /\ stack' = Append(t, f),
           DOMAIN heap' = DOMAIN heap \cup new,
           \A b \in DOMAIN heap : heap'[b] = heap[b]
    PROVE  GlobOwn' /\ GlobChange
<1> DEFINE top == [Top EXCEPT !.next = @ + 1]
<1>1. StackOwn(stack, heap) /\ stack \in Seq(FrameType) /\ Len(stack) \in DOMAIN stack
  BY DEF GlobOwn, StackOwn
<1>2. top \in FrameType /\ t = [stack EXCEPT ![Len(stack)] = top]
      /\ top.dir = Top.dir /\ top.namebuf = Top.namebuf /\ top.p = Top.p
  <2>1. Top \in FrameType
    BY <1>1 DEF Top
  <2>2. top \in FrameType /\ top.dir = Top.dir /\ top.namebuf = Top.namebuf /\ top.p = Top.p
    BY <2>1, NextOf
  <2>3. t = [stack EXCEPT ![Len(stack)] = top]
    BY <1>1 DEF Top
  <2> QED
    BY <2>2, <2>3
<1>3. Top.dir = NULL \/ Top.p = <<Empty>> => Top.namebuf = NULL
  BY <1>1 DEF StackOwn, Top
<1>4. KeepsFrames(heap, heap', {})
  BY DEF KeepsFrames, IsIn
<1> HIDE DEF top
<1>5. StackOwn(t, heap')
  BY <1>1, <1>2, <1>3, <1>4, StackTop DEF Top
<1>6. t \in Seq(FrameType)
  BY <1>5 DEF StackOwn
<1>7. \A b : b # NULL => (InStack(b, t) <=> InStack(b, stack))
  <2>1. \A b : b # NULL => (InStack(b, t) <=> InStack(b, stack) \/ b = top.dir \/ b = top.namebuf)
    <3> SUFFICES ASSUME NEW b, b # NULL
                 PROVE  InStack(b, t) <=> InStack(b, stack) \/ b = top.dir \/ b = top.namebuf
      OBVIOUS
    <3>1. /\ stack[Len(stack)].dir \in {top.dir, NULL}
          /\ stack[Len(stack)].namebuf \in {top.namebuf, NULL}
      BY <1>2 DEF Top
    <3>2. stack \in Seq(FrameType) /\ stack # << >> /\ top \in FrameType
      BY <1>1, <1>2
    <3>3. t = [stack EXCEPT ![Len(stack)] = top]
      BY <1>2
    <3> HIDE DEF top
    <3>4. InStack(b, [stack EXCEPT ![Len(stack)] = top])
                <=> InStack(b, stack) \/ b = top.dir \/ b = top.namebuf
      BY <3>1, <3>2, InStackTop
    <3> QED
      BY <3>3, <3>4
  <2> QED
    BY <1>1, <1>2, <2>1 DEF InStack, Top
<1>8. StackOwn(stack', heap') /\ \A b : b # NULL => (InStack(b, stack') <=> InStack(b, stack))
  <2>1. CASE stack' = t
    BY <1>5, <1>7, <2>1
  <2>2. CASE \E f \in FrameType : f.dir = NULL /\ f.namebuf = NULL /\ stack' = Append(t, f)
    <3>1. PICK f \in FrameType : f.dir = NULL /\ f.namebuf = NULL /\ stack' = Append(t, f)
      BY <2>2
    <3>2. StackOwn(stack', heap')
      BY <1>5, <3>1, StackPush
    <3>3. \A b : b # NULL => (InStack(b, stack') <=> InStack(b, t))
      BY <1>6, <3>1, InStackPush
    <3> QED
      BY <1>7, <3>2, <3>3
  <2> QED
    BY <2>1, <2>2
<1>9. NULL \notin DOMAIN heap
  BY NotAllocated
<1>10. DOMAIN heap' = (DOMAIN heap \cup new) \ {}
  OBVIOUS
<1>11. \A b \in DOMAIN heap \ {} : InStack(b, stack') <=> InStack(b, stack)
  BY <1>8, <1>9
<1>12. StackOwn(stack', heap')
  BY <1>8
<1> HIDE DEF top
<1> QED
  BY <1>10, <1>11, <1>12, OwnStep

-----------------------------------------------------------------------------
(* The steps of match_in_dir *)

LEMMA CallChanges ==
    ASSUME NEW c \in CallType, NEW b \in Nat, NEW e \in {"0", "NOSPACE", "ABORTED"}
    PROVE  /\ LET d == [c EXCEPT !.error = e] IN
              d \in CallType /\ d.chain = c.chain /\ d.offs = c.offs /\ d.flags = c.flags
           /\ LET d == [c EXCEPT !.chain = Append(@, b)] IN
              /\ d \in CallType /\ d.chain = Append(c.chain, b)
              /\ d.offs = c.offs /\ d.flags = c.flags
<1>1. c.chain \in Seq(Nat)
  BY DEF CallType
<1>2. Append(c.chain, b) \in Seq(Nat)
  BY <1>1
<1> QED
  BY <1>2 DEF CallType

\* A step after which glob goes on, and one of match_in_dir.
GoesOn ==
    /\ GlobOwn /\ Allocated \subseteq Addresses /\ faults \in Nat
    /\ running = "glob" /\ running' = "glob" /\ g' = g
InMatch == GoesOn /\ stack # << >>

LEMMA MatchFacts ==
    ASSUME InMatch
    PROVE  /\ call \in CallType /\ StackOwn(stack, heap) /\ stack \in Seq(FrameType)
           /\ Len(stack) \in DOMAIN stack /\ Top \in FrameType
           /\ Top.dir = NULL \/ Top.p = <<Empty>> => Top.namebuf = NULL
           /\ NULL \notin DOMAIN heap /\ NOBUF \notin DOMAIN heap
<1>1. call \in CallType /\ StackOwn(stack, heap) /\ stack \in Seq(FrameType) /\ stack # << >>
  BY DEF InMatch, GoesOn, GlobOwn, StackOwn
<1>2. Len(stack) \in DOMAIN stack
  BY <1>1
<1>3. Top \in FrameType
  BY <1>1, <1>2 DEF Top
<1>4. Top.dir = NULL \/ Top.p = <<Empty>> => Top.namebuf = NULL
  BY <1>1, <1>2 DEF StackOwn, Top
<1>5. NULL \notin DOMAIN heap /\ NOBUF \notin DOMAIN heap
  BY NotAllocated DEF InMatch, GoesOn
<1> QED
  BY <1>1, <1>2, <1>3, <1>4, <1>5

\* The chain goes on with a block that has been filled, or as it was.
LEMMA ChainedBlock ==
    ASSUME GoesOn, NEW b \in Free, b \in DOMAIN heap', heap'[b].is = "path",
           call' = [call EXCEPT !.chain = Append(@, b)]
    PROVE  Chained({b})
<1>1. b \in Nat
  BY FreshBlock
<1>2. call' \in CallType /\ call'.chain = Append(call.chain, b)
      /\ call'.offs = call.offs /\ call'.flags = call.flags
  BY <1>1, CallChanges DEF GoesOn, GlobOwn
<1> QED
  BY <1>2 DEF Chained, SameCall, IsIn, GoesOn

LEMMA ChainedNothing ==
    ASSUME GoesOn,
           call' = call \/ \E e \in {"NOSPACE", "ABORTED"} : call' = [call EXCEPT !.error = e]
    PROVE  SameCall(call.chain) /\ Chained({})
<1>1. call' \in CallType /\ call'.chain = call.chain
      /\ call'.offs = call.offs /\ call'.flags = call.flags
  <2>1. call \in CallType /\ 0 \in Nat
    BY DEF GoesOn, GlobOwn
  <2>2. CASE \E e \in {"NOSPACE", "ABORTED"} : call' = [call EXCEPT !.error = e]
    <3>1. PICK e \in {"NOSPACE", "ABORTED"} : call' = [call EXCEPT !.error = e]
      BY <2>2
    <3>2. e \in {"0", "NOSPACE", "ABORTED"}
      OBVIOUS
    <3> QED
      BY <2>1, <3>1, <3>2, CallChanges
  <2> QED
    BY <2>1, <2>2
<1> QED
  BY <1>1 DEF Chained, SameCall, GoesOn

LEMMA UnwindOwn ==
    ASSUME InMatch, NEW code \in {"NOSPACE", "ABORTED"}, faults' > 0,
           NEW h, h = heap \/ h = Without(heap, {Top.namebuf}),
           Unwind(code, h)
    PROVE  GlobOwn' /\ GlobChange
<1>1. SameCall(call.chain)
  BY ChainedNothing DEF Unwind, InMatch
<1>2. stack' = << >> /\ heap' = Without(h, DirsOf(stack))
  BY DEF Unwind
<1>3. PICK more \in {{}, {Top.namebuf}} : heap' = Without(heap, DirsOf(stack) \cup more)
  <2>1. CASE h = heap
    <3>1. heap' = Without(heap, DirsOf(stack) \cup {})
      BY <1>2, <2>1
    <3> QED
      BY <3>1
  <2>2. CASE h = Without(heap, {Top.namebuf})
    <3>1. heap' = Without(heap, DirsOf(stack) \cup {Top.namebuf})
      BY <1>2, <2>2 DEF Without
    <3> QED
      BY <3>1
  <2> QED
    BY <2>1, <2>2
<1> QED
  BY <1>1, <1>2, <1>3, UnwindStep DEF InMatch, GoesOn

LEMMA LeaveOwn ==
    ASSUME InMatch, call' = call,
           NEW h, h = Without(heap, {Top.namebuf}) \/ (h = heap /\ Top.namebuf = NULL),
           Leave(h)
    PROVE  GlobOwn' /\ GlobChange
<1>1. Chained({})
  BY ChainedNothing DEF InMatch
<1>2. DOMAIN heap' = (DOMAIN heap \cup {}) \ {Top.dir, Top.namebuf}
  BY MatchFacts DEF Leave, Without
<1>3. \A b \in DOMAIN heap : b \notin {Top.dir, Top.namebuf} => heap'[b] = heap[b]
  BY DEF Leave, Without
<1>4. stack' = Front(stack)
  BY DEF Leave
<1> QED
  BY <1>1, <1>2, <1>3, <1>4, LeaveStep DEF InMatch, GoesOn

LEMMA AppendOwn ==
    ASSUME InMatch, NEW path, path.is = "path", NEW leaving, NEW k \in Nat,
           leaving => Top.namebuf = NULL,
           AppendPath(path, leaving, k)
    PROVE  GlobOwn' /\ GlobChange
<1>1. CASE \E b \in Free :
            /\ call' = [call EXCEPT !.chain = Append(@, b)]
            /\ IF leaving THEN Leave(With(heap, b, path))
               ELSE heap' = With(heap, b, path) /\ SetTop([Top EXCEPT !.next = @ + 1])
  <2>1. PICK b \in Free :
            /\ call' = [call EXCEPT !.chain = Append(@, b)]
            /\ IF leaving THEN Leave(With(heap, b, path))
               ELSE heap' = With(heap, b, path) /\ SetTop([Top EXCEPT !.next = @ + 1])
    BY <1>1
  <2>2. b \notin DOMAIN heap /\ b # NULL
    BY FreshBlock
  <2>3. CASE leaving
    <3>1. heap' = Without(With(heap, b, path), {Top.dir}) /\ stack' = Front(stack)
      BY <2>1, <2>3 DEF Leave
    <3>2. Top.namebuf = NULL /\ NULL \notin DOMAIN heap /\ b # Top.dir
      <4>1. Top.dir # NULL => Top.dir \in DOMAIN heap
        BY MatchFacts DEF StackOwn, IsIn, Top
      <4> QED
        BY <2>2, <2>3, <4>1, MatchFacts
    <3>3. DOMAIN heap' = (DOMAIN heap \cup {b}) \ {Top.dir, Top.namebuf}
      BY <2>2, <3>1, <3>2 DEF With, Without
    <3>4. \A a \in DOMAIN heap : a \notin {Top.dir, Top.namebuf} => heap'[a] = heap[a]
      BY <2>2, <3>1 DEF With, Without
    <3>5. b \in DOMAIN heap' /\ heap'[b] = path
      BY <2>2, <3>1, <3>2 DEF With, Without
    <3>6. Chained({b})
      BY <2>1, <3>5, ChainedBlock DEF InMatch
    <3> QED
      BY <3>1, <3>3, <3>4, <3>6, LeaveStep DEF InMatch, GoesOn
  <2>4. CASE ~leaving
    <3>1. heap' = With(heap, b, path) /\ SetTop([Top EXCEPT !.next = @ + 1])
      BY <2>1, <2>4
    <3>2. DOMAIN heap' = DOMAIN heap \cup {b} /\ \A a \in DOMAIN heap : heap'[a] = heap[a]
      BY <2>2, <3>1 DEF With
    <3>3. b \in DOMAIN heap' /\ heap'[b] = path
      BY <2>2, <3>1 DEF With
    <3>4. Chained({b})
      BY <2>1, <3>3, ChainedBlock DEF InMatch
    <3>5. stack' = [stack EXCEPT ![Len(stack)].next = @ + 1]
      BY <3>1, MatchFacts DEF SetTop, Top
    <3> QED
      BY <3>2, <3>4, <3>5, NextStep DEF InMatch, GoesOn
  <2> QED
    BY <2>3, <2>4
<1>2. CASE Faults(k + 1) /\ Unwind("NOSPACE", heap)
  <2>1. faults' > 0
    BY <1>2 DEF Faults, InMatch, GoesOn
  <2> QED
    BY <1>2, <2>1, UnwindOwn
<1> QED
  BY <1>1, <1>2 DEF AppendPath

LEMMA FrameChanges ==
    ASSUME NEW f \in FrameType, NEW b
    PROVE  /\ b \in Nat => LET t == [f EXCEPT !.dir = b] IN
                t \in FrameType /\ t.dir = b /\ t.namebuf = f.namebuf /\ t.p = f.p
           /\ b \in Int => LET t == [f EXCEPT !.namebuf = b] IN
                t \in FrameType /\ t.dir = f.dir /\ t.namebuf = b /\ t.p = f.p
BY DEF FrameType

LEMMA FrameIsNew ==
    ASSUME NEW d \in Seq(Name), NEW p \in Seq(SUBSET Name)
    PROVE  LET f == Frame(d, p) IN f \in FrameType /\ f.dir = NULL /\ f.namebuf = NULL
BY DEF Frame, FrameType, NULL

MatchActions ==
    \/ OpenDir \/ OpenDirFails \/ FoundDirectory \/ NameBuf \/ NameBufFails
    \/ Skip \/ Descend \/ Found \/ EndOfDirectory \/ ReadFails

LEMMA MatchStep ==
    ASSUME GlobOwn, Allocated \subseteq Addresses, faults \in Nat, match_in_dir
    PROVE  GlobOwn' /\ GlobChange
<1>1. CASE WriteNameCrashes
  <2>1. /\ heap' = heap /\ running' = "crashed" /\ running = "glob"
        /\ g' = g /\ call' = call /\ stack' = stack
    BY <1>1 DEF WriteNameCrashes, globVars, MayWriteName, HasEntry, Searching, Matching
  <2>2. VectorGrows
    <3>1. KeepsVector
      BY <2>1 DEF KeepsVector
    <3> QED
      BY <2>1, <3>1, VectorStays DEF GlobOwn
  <2> QED
    BY <2>1, <2>2 DEF GlobOwn, GlobChange, InGlob, Allocated
<1> SUFFICES ASSUME MatchActions PROVE GlobOwn' /\ GlobChange
  BY <1>1 DEF match_in_dir, MatchActions
<1>2. Matching /\ running' = running /\ g' = g
  BY DEF MatchActions, OpenDir, OpenDirFails, FoundDirectory, NameBuf, NameBufFails,
         Skip, Descend, Found, EndOfDirectory, ReadFails,
         Entering, Searching, HasEntry, MayWriteName, NameWritten
<1>3. InMatch
  BY <1>2 DEF InMatch, GoesOn, Matching
<1>4. /\ call \in CallType /\ StackOwn(stack, heap) /\ stack \in Seq(FrameType)
      /\ Len(stack) \in DOMAIN stack /\ Top \in FrameType
      /\ Top.dir = NULL \/ Top.p = <<Empty>> => Top.namebuf = NULL
      /\ NULL \notin DOMAIN heap /\ NOBUF \notin DOMAIN heap
  BY <1>3, MatchFacts
<1>5. Allocated \subseteq Addresses /\ GlobOwn /\ stack # << >> /\ Addresses \subseteq Nat
  BY <1>3, AddressAssumption DEF InMatch, GoesOn
<1>6. CASE OpenDir
  <2>1. PICK b \in Free : /\ heap' = With(heap, b, [is |-> "DIR"])
                          /\ SetTop([Top EXCEPT !.dir = b])
    BY <1>6 DEF OpenDir
  <2> DEFINE top == [Top EXCEPT !.dir = b]
  <2>2. b \in Nat
    BY FreshBlock
  <2>3. top \in FrameType /\ top.dir = b /\ top.namebuf = Top.namebuf /\ top.p = Top.p
    BY <1>4, <2>2, FrameChanges
  <2>4. Top.dir = NULL /\ Top.namebuf = NULL
    BY <1>4, <1>6 DEF OpenDir, Entering
  <2>5. SameCall(call.chain)
    BY <1>3, <1>6, ChainedNothing DEF OpenDir, InMatch
  <2>6. stack' = [stack EXCEPT ![Len(stack)] = top]
    BY <2>1 DEF SetTop
  <2> HIDE DEF top
  <2> QED
    BY <1>5, <2>1, <2>3, <2>4, <2>5, <2>6, TopStep
<1>7. CASE NameBuf
  <2>1. PICK b \in Free : /\ heap' = With(heap, b, [is |-> "namebuf"])
                          /\ SetTop([Top EXCEPT !.namebuf = b])
    BY <1>7 DEF NameBuf
  <2> DEFINE top == [Top EXCEPT !.namebuf = b]
  <2>2. b \in Int
    BY FreshBlock
  <2>3. top \in FrameType /\ top.dir = Top.dir /\ top.namebuf = b /\ top.p = Top.p
    BY <1>4, <2>2, FrameChanges
  <2>4. Top.dir # NULL /\ Top.namebuf = NULL /\ Top.p # <<Empty>>
    BY <1>7 DEF NameBuf, HasEntry, Searching, PatternEnded
  <2>5. SameCall(call.chain)
    BY <1>3, <1>7, ChainedNothing DEF NameBuf, InMatch
  <2>6. stack' = [stack EXCEPT ![Len(stack)] = top]
    BY <2>1 DEF SetTop
  <2> HIDE DEF top
  <2> QED
    BY <1>5, <2>1, <2>3, <2>4, <2>5, <2>6, TopStep
<1>8. CASE NameBufFails
  <2> DEFINE top == [Top EXCEPT !.namebuf = NOBUF]
  <2>1. NOBUF \in Int
    BY DEF NOBUF
  <2>3. top \in FrameType /\ top.dir = Top.dir /\ top.namebuf = NOBUF /\ top.p = Top.p
    BY <1>4, <2>1, FrameChanges
  <2>4. Top.dir # NULL /\ Top.namebuf = NULL /\ Top.p # <<Empty>> /\ heap' = heap
    BY <1>8 DEF NameBufFails, HasEntry, Searching, PatternEnded
  <2>5. SameCall(call.chain)
    BY <1>3, <1>8, ChainedNothing DEF NameBufFails, InMatch
  <2>6. stack' = [stack EXCEPT ![Len(stack)] = top]
    BY <1>8 DEF NameBufFails, SetTop
  <2> HIDE DEF top
  <2> QED
    BY <1>5, <2>3, <2>4, <2>5, <2>6, TopStep
<1>9. CASE Skip
  <2>1. stack' = [stack EXCEPT ![Len(stack)].next = @ + 1]
    BY <1>4, <1>9 DEF Skip, SetTop, Top
  <2>2. Chained({})
    BY <1>3, <1>9, ChainedNothing DEF Skip, InMatch
  <2>3. DOMAIN heap' = DOMAIN heap \cup {} /\ \A b \in DOMAIN heap : heap'[b] = heap[b]
    BY <1>9 DEF Skip
  <2> QED
    BY <1>5, <2>1, <2>2, <2>3, NextStep
<1>10. CASE Descend
  <2> DEFINE t == [stack EXCEPT ![Len(stack)].next = @ + 1]
             f == Frame(EntryPath, Tail(Top.p))
  <2>1. stack' = Append(t, f)
    BY <1>10 DEF Descend
  <2>2. f \in FrameType /\ f.dir = NULL /\ f.namebuf = NULL
    <3>1. Top.d \in Seq(Name) /\ Top.p \in Seq(SUBSET Name)
      BY <1>4 DEF FrameType
    <3>2. Top.d \in DOMAIN Tree /\ Top.next <= Len(Tree[Top.d]) /\ Len(Top.p) > 1
      BY <1>10 DEF Descend, NameWritten, MayWriteName, HasEntry, MoreComponents
    <3>3. Entry.name \in Name
      <4>1. Entry.name \in Top.p[1]
        BY <1>10 DEF Descend, NameWritten, MayWriteName, Matches
      <4> QED
        BY <3>1, <3>2, <4>1
    <3>4. EntryPath \in Seq(Name)
      BY <3>1, <3>3 DEF EntryPath
    <3>5. Tail(Top.p) \in Seq(SUBSET Name)
      BY <3>1, <3>2
    <3> QED
      BY <3>4, <3>5, FrameIsNew
  <2>3. Chained({})
    BY <1>3, <1>10, ChainedNothing DEF Descend, InMatch
  <2>4. DOMAIN heap' = DOMAIN heap \cup {} /\ \A b \in DOMAIN heap : heap'[b] = heap[b]
    BY <1>10 DEF Descend
  <2> HIDE DEF f
  <2> QED
    BY <1>5, <2>1, <2>2, <2>3, <2>4, NextStep
<1>11. CASE Found
  <2> DEFINE path == Path(EntryPath, "MARK" \in call.flags /\ EntryPath \in DOMAIN Tree)
  <2>1. AppendPath(path, FALSE, 0)
    BY <1>11 DEF Found
  <2>2. path.is = "path" /\ 0 \in Nat
    BY DEF Path
  <2> HIDE DEF path
  <2> QED
    BY <1>3, <2>1, <2>2, AppendOwn
<1>12. CASE FoundDirectory
  <2> DEFINE path == Path(Top.d, TRUE)
  <2>1. AppendPath(path, TRUE, 0)
    BY <1>12 DEF FoundDirectory
  <2>2. path.is = "path" /\ 0 \in Nat
    BY DEF Path
  <2>3. Top.namebuf = NULL
    BY <1>4, <1>12 DEF FoundDirectory, PatternEnded
  <2> HIDE DEF path
  <2> QED
    BY <1>3, <2>1, <2>2, <2>3, AppendOwn
<1>13. CASE OpenDirFails
  <2>0. Top.namebuf = NULL
    BY <1>4, <1>13 DEF OpenDirFails, Entering
  <2>1. CASE Fault /\ DirectoryFailed(heap)
    <3>1. faults' > 0
      BY <1>3, <2>1 DEF Fault, Faults, InMatch, GoesOn
    <3> QED
      BY <1>3, <2>0, <2>1, <3>1, UnwindOwn, LeaveOwn DEF DirectoryFailed
  <2>2. CASE Leave(heap) /\ call' = call
    BY <1>3, <2>0, <2>2, LeaveOwn
  <2>3. CASE AppendPath(Path(Top.d, TRUE), TRUE, 1)
    <3> DEFINE path == Path(Top.d, TRUE)
    <3>1. AppendPath(path, TRUE, 1)
      BY <2>3
    <3>2. path.is = "path" /\ 1 \in Nat
      BY DEF Path
    <3> HIDE DEF path
    <3> QED
      BY <1>3, <2>0, <3>1, <3>2, AppendOwn
  <2> QED
    BY <1>13, <2>1, <2>2, <2>3 DEF OpenDirFails
<1>14. CASE EndOfDirectory
  <2>1. Leave(Without(heap, {Top.namebuf})) /\ call' = call
    BY <1>14 DEF EndOfDirectory
  <2> QED
    BY <1>3, <2>1, LeaveOwn
<1>15. CASE ReadFails
  <2>1. DirectoryFailed(Without(heap, {Top.namebuf})) /\ faults' = faults + 1
    BY <1>15 DEF ReadFails, Fault, Faults
  <2>2. faults' > 0
    BY <1>3, <2>1 DEF InMatch, GoesOn
  <2> QED
    BY <1>3, <2>1, <2>2, UnwindOwn, LeaveOwn DEF DirectoryFailed
<1> QED
  BY <1>6, <1>7, <1>8, <1>9, <1>10, <1>11, <1>12, <1>13, <1>14, <1>15 DEF MatchActions

LEMMA FrontPart ==
    ASSUME NEW s \in Seq(Int), NEW n \in 0..Len(s)
    PROVE  /\ SubSeq(s, 1, n) \in Seq(Int) /\ Len(SubSeq(s, 1, n)) = n
           /\ \A i \in 1..n : SubSeq(s, 1, n)[i] = s[i]
OBVIOUS

\* A sequence is one of its own arrangements.
LEMMA ChainIsArranged ==
    ASSUME NEW s \in Seq(Nat)
    PROVE  s \in qsort(s)
<1> DEFINE f == [i \in DOMAIN s |-> i]
<1>1. f \in Bijection(DOMAIN s, DOMAIN s)
  BY DEF Bijection, Injection, Surjection, IsInjective
<1>2. s = [i \in DOMAIN s |-> s[f[i]]]
  OBVIOUS
<1> QED
  BY <1>1, <1>2 DEF qsort

-----------------------------------------------------------------------------
(* The steps of glob and globfree *)

LEMMA NothingInStack ==
    /\ \A b : ~InStack(b, << >>)
    /\ \A h : StackOwn(<< >>, h)
BY DEF InStack, StackOwn

LEMMA NothingInChain ==
    \A b : ~InChain(b, << >>)
BY DEF InChain

LEMMA CallNoCall ==
    NoCall \in CallType /\ NoCall.chain = << >>
BY DEF NoCall, CallType

\* A call begins.
LEMMA GlobBegins ==
    ASSUME GlobOwn, Allocated \subseteq Addresses,
           NEW pattern \in Patterns, NEW fs \in FlagSets, NEW offs \in Offsets,
           glob(pattern, fs, offs)
    PROVE  GlobOwn' /\ GlobChange
<1>1. /\ running = "caller" /\ running' = "glob" /\ heap' = heap
      /\ stack' = IF pattern = <<Empty>> THEN << >> ELSE <<Frame(<< >>, pattern)>>
  BY DEF glob, Calls
<1>2. stack = << >> /\ call = NoCall /\ PathsOwn(g, << >>, heap)
  BY <1>1, CallNoCall DEF GlobOwn
<1>3. pattern \in Seq(SUBSET Name) /\ offs \in Nat
      /\ fs \in SUBSET {"ERR", "MARK", "NOSORT", "NOCHECK", "APPEND"}
  BY PatternAssumption, OffsetAssumption, FlagAssumption DEF Name
<1>4. /\ call' \in CallType /\ call'.chain = << >> /\ call'.flags = fs /\ call'.offs = offs
  <2>1. call' = [NoCall EXCEPT !.pattern = pattern, !.flags = fs, !.offs = offs]
    BY DEF glob
  <2>2. call' = [pattern |-> pattern, flags |-> fs, offs |-> offs, chain |-> << >>, error |-> "0"]
    BY <2>1 DEF NoCall
  <2>3. << >> \in Seq(Nat)
    OBVIOUS
  <2> QED
    BY <1>3, <2>2, <2>3 DEF CallType
<1>5. StackOwn(stack', heap') /\ \A b \in DOMAIN heap : ~InStack(b, stack')
  <2>1. NULL \notin DOMAIN heap
    BY NotAllocated
  <2>2. CASE stack' = << >>
    BY <2>2, NothingInStack
  <2>3. CASE stack' = <<Frame(<< >>, pattern)>>
    <3> DEFINE f == Frame(<< >>, pattern)
    <3>1. f \in FrameType /\ f.dir = NULL /\ f.namebuf = NULL
      <4>1. << >> \in Seq(Name)
        OBVIOUS
      <4> QED
        BY <1>3, <4>1, FrameIsNew
    <3>2. stack' = Append(<< >>, f)
      BY <2>3
    <3> HIDE DEF f
    <3>3. StackOwn(stack', heap')
      BY <3>1, <3>2, NothingInStack, StackPush
    <3>4. << >> \in Seq(FrameType)
      OBVIOUS
    <3>5. \A b : b # NULL => ~InStack(b, stack')
      BY <3>1, <3>2, <3>4, NothingInStack, InStackPush
    <3> QED
      BY <2>1, <3>3, <3>5
  <2> QED
    BY <1>1, <2>2, <2>3
<1>6. /\ g' = IF "APPEND" \in fs THEN g
              ELSE [pathc |-> 0, pathv |-> NULL, offs |-> offs, known |-> TRUE]
      /\ IF "APPEND" \in fs THEN offs = g.offs ELSE g.pathv = NULL
  BY DEF glob
<1>7. /\ PathsOwn(g', << >>, heap)
      /\ \A b : b # NULL => (InVector(b, g', heap) <=> InVector(b, g, heap))
      /\ g'.offs = offs /\ ("APPEND" \notin fs => g'.pathv = NULL)
  <2>1. CASE "APPEND" \in fs
    BY <1>2, <1>6, <2>1
  <2>2. CASE "APPEND" \notin fs
    <3>1. g' = [pathc |-> 0, pathv |-> NULL, offs |-> offs, known |-> TRUE]
      BY <1>6, <2>2
    <3>2. g'.pathc = 0 /\ g'.pathv = NULL /\ g'.offs = offs
          /\ g' \in [pathc : Nat, pathv : Nat, offs : Nat, known : BOOLEAN]
      BY <1>3, <3>1 DEF NULL
    <3>3. g.pathc = 0 /\ g.pathv = NULL
      BY <1>2, <1>6, <2>2 DEF PathsOwn
    <3>4. PathsOwn(g', << >>, heap)
      <4>1. << >> \in Seq(Nat) /\ DOMAIN << >> = {} /\ 1..0 = {}
        OBVIOUS
      <4> QED
        BY <3>2, <4>1 DEF PathsOwn
    <3> QED
      BY <3>2, <3>3, <3>4 DEF InVector
  <2> QED
    BY <2>1, <2>2
<1>8. GlobOwn'
  BY <1>1, <1>4, <1>5, <1>7 DEF GlobOwn
<1>9. NULL \notin DOMAIN heap
  BY NotAllocated
<1>10. \A b \in DOMAIN heap : InGlob(b) <=> InGlob(b)'
  BY <1>1, <1>2, <1>4, <1>5, <1>7, <1>9, NothingInStack, CallNoCall DEF InGlob
<1>11. VectorGrows
  <2>1. CASE g' = g
    <3>1. KeepsVector
      BY <1>1, <2>1 DEF KeepsVector
    <3> QED
      BY <2>1, <3>1, VectorStays DEF GlobOwn
  <2>2. CASE g'.pathc = 0
    BY <2>2 DEF VectorGrows
  <2> QED
    BY <1>6, <2>1, <2>2
<1> QED
  BY <1>1, <1>8, <1>10, <1>11 DEF GlobChange, Allocated

\* A call returns: only what the vector has then is glob's.
LEMMA GlobEnds ==
    ASSUME GlobOwn, Allocated \subseteq Addresses, stack = << >>,
           running' = "caller", stack' = << >>, call' = NoCall,
           Allocated' \subseteq Addresses,
           PathsOwn(g', << >>, heap'), VectorGrows,
           \A b \in DOMAIN heap :
                ~InChain(b, call.chain) /\ ~InVector(b, g, heap)
                    => b \in DOMAIN heap' /\ heap'[b] = heap[b] /\ ~InVector(b, g', heap'),
           \A b \in DOMAIN heap' : ~InVector(b, g', heap')
                    => b \in DOMAIN heap /\ ~InChain(b, call.chain) /\ ~InVector(b, g, heap)
    PROVE  GlobOwn' /\ GlobChange
<1>1. GlobOwn'
  BY NothingInStack, CallNoCall DEF GlobOwn
<1>2. \A b \in DOMAIN heap : ~InGlob(b) => b \in DOMAIN heap' /\ heap'[b] = heap[b] /\ ~InGlob(b)'
  BY NothingInStack, NothingInChain, CallNoCall DEF InGlob
<1>3. \A b \in DOMAIN heap' : ~InGlob(b)' => b \in DOMAIN heap /\ ~InGlob(b)
  BY NothingInStack, NothingInChain, CallNoCall DEF InGlob
<1> QED
  BY <1>1, <1>2, <1>3 DEF GlobChange, Allocated

\* What was found is freed.
LEMMA ChainFreed ==
    ASSUME GlobOwn, Allocated \subseteq Addresses, Collecting,
           heap' = Without(heap, ToSet(call.chain)), g' = g,
           running' = "caller", stack' = stack, call' = NoCall
    PROVE  GlobOwn' /\ GlobChange
<1>1. stack = << >> /\ PathsOwn(g, call.chain, heap)
  BY DEF Collecting, GlobOwn
<1>2. ToSet(call.chain) = {call.chain[i] : i \in DOMAIN call.chain}
  BY DEF ToSet
<1>3. DOMAIN heap' = DOMAIN heap \ ToSet(call.chain)
      /\ \A b \in DOMAIN heap : b \notin ToSet(call.chain) => heap'[b] = heap[b]
  BY DEF Without
<1>4. KeepsPaths(heap, heap', {call.chain[i] : i \in DOMAIN call.chain})
  BY <1>2, <1>3 DEF KeepsPaths, IsIn
<1>5. /\ PathsOwn(g, << >>, heap')
      /\ \A i \in 1..g.pathc : VecPath(g, heap', i) = VecPath(g, heap, i)
  BY <1>1, <1>4, PathsDrop
<1>6. \A b : InVector(b, g', heap') <=> InVector(b, g, heap)
  BY <1>5 DEF InVector
<1>9. VectorGrows
  <2>1. KeepsVector
    BY <1>1, <1>2, <1>3, <1>5 DEF KeepsVector, PathsOwn, IsIn
  <2> QED
    BY <1>1, <2>1, VectorStays
<1>7. \A b : InChain(b, call.chain) <=> b \in ToSet(call.chain)
  BY <1>2 DEF InChain
<1>8. Allocated' \subseteq Addresses
  BY <1>3 DEF Allocated
<1> QED
  BY <1>1, <1>3, <1>5, <1>6, <1>7, <1>8, <1>9, GlobEnds

LEMMA OldSlotsAre ==
    ASSUME GlobOwn, running = "glob"
    PROVE  /\ OldSlots \in Seq(Int) /\ Len(OldSlots) = g.offs + g.pathc
           /\ \A i \in 1..g.pathc : OldSlots[g.offs + i] = VecPath(g, heap, i)
<1>1. /\ PathsOwn(g, call.chain, heap) /\ call.offs = g.offs
      /\ "APPEND" \notin call.flags => g.pathv = NULL
  BY DEF GlobOwn
<1>2. g.offs \in Nat /\ g.pathc \in Nat
  BY <1>1 DEF PathsOwn
<1>3. CASE g.pathv = NULL
  <2>1. PICK x \in Int : OldSlots = [i \in 1..g.offs |-> x]
    <3>1. CASE "APPEND" \in call.flags
      <4>1. OldSlots = [i \in 1..g.offs |-> UNSET]
        BY <1>1, <1>3, <3>1 DEF OldSlots
      <4>2. UNSET \in Int
        BY DEF UNSET
      <4> QED
        BY <4>1, <4>2
    <3>2. CASE "APPEND" \notin call.flags
      <4>1. OldSlots = [i \in 1..g.offs |-> NULL]
        BY <1>1, <1>3, <3>2 DEF OldSlots
      <4>2. NULL \in Int
        BY DEF NULL
      <4> QED
        BY <4>1, <4>2
    <3> QED
      BY <3>1, <3>2
  <2>2. g.pathc = 0
    BY <1>1, <1>3 DEF PathsOwn
  <2> QED
    BY <1>2, <2>1, <2>2
<1>4. CASE g.pathv # NULL
  <2>1. OldSlots = SubSeq(Vector, 1, g.offs + g.pathc)
    BY <1>1, <1>4 DEF OldSlots
  <2>2. Vector \in Seq(Int) /\ Len(Vector) = g.offs + g.pathc + 1
    BY <1>1, <1>4 DEF PathsOwn, Vector
  <2>3. g.offs + g.pathc \in 0..Len(Vector)
    BY <1>2, <2>2
  <2>4. /\ OldSlots \in Seq(Int) /\ Len(OldSlots) = g.offs + g.pathc
        /\ \A i \in 1..(g.offs + g.pathc) : OldSlots[i] = Vector[i]
    BY <1>2, <2>1, <2>2, <2>3, FrontPart
  <2>5. \A i \in 1..g.pathc : g.offs + i \in 1..(g.offs + g.pathc)
    BY <1>2
  <2> QED
    BY <2>4, <2>5 DEF VecPath, Vector
<1> QED
  BY <1>3, <1>4

LEMMA MakeVectorOwn ==
    ASSUME GlobOwn, Allocated \subseteq Addresses, MakeVector
    PROVE  GlobOwn' /\ GlobChange
<1>1. stack = << >> /\ running = "glob" /\ PathsOwn(g, call.chain, heap)
  BY DEF GlobOwn, MakeVector, Collecting
<1>2. PICK b \in Free, new \in NewPaths :
        /\ heap' = With(Without(heap, {g.pathv}), b, [is |-> "vector", slots |-> AllSlots(new)])
        /\ g' = [g EXCEPT !.pathv = b, !.pathc = @ + Len(call.chain)]
  BY DEF MakeVector
<1>3. running' = "caller" /\ stack' = << >> /\ call' = NoCall
  BY <1>1 DEF MakeVector, GlobReturns, ReturnsToCaller
<1>4. b \in Nat /\ b # NULL /\ b \notin DOMAIN heap /\ b \in Addresses
  BY FreshBlock DEF Free
<1>5. call.chain \in Seq(Nat) /\ new \in qsort(call.chain)
  <2>1. call.chain \in Seq(Nat)
    BY <1>1 DEF PathsOwn
  <2> QED
    BY <2>1, ChainIsArranged DEF NewPaths, Sorted
<1>6. /\ DOMAIN heap' = (DOMAIN heap \ {g.pathv}) \cup {b}
      /\ heap'[b] = [is |-> "vector", slots |-> AllSlots(new)]
      /\ \A a \in DOMAIN heap : a # g.pathv => heap'[a] = heap[a]
  <2>1. heap' = With(Without(heap, {g.pathv}), b, [is |-> "vector", slots |-> AllSlots(new)])
    BY <1>2
  <2> QED
    BY <1>4, <2>1 DEF With, Without
<1>7. NULL \notin DOMAIN heap
  BY NotAllocated
<1>8. KeepsPaths(heap, heap', {g.pathv} \ {NULL})
  BY <1>6, <1>7 DEF KeepsPaths, IsIn
<1>9. IsIn(heap', b, "vector") /\ heap'[b].slots = OldSlots \o new \o <<NULL>>
  BY <1>6 DEF AllSlots, IsIn
<1>10. /\ OldSlots \in Seq(Int) /\ Len(OldSlots) = g.offs + g.pathc
       /\ KeepsOld(OldSlots, g, heap)
  BY <1>1, OldSlotsAre DEF KeepsOld
<1>11. /\ g' \in [pathc : Nat, pathv : Nat, offs : Nat, known : BOOLEAN]
       /\ g'.pathv = b /\ g'.pathc = g.pathc + Len(call.chain) /\ g'.offs = g.offs
  <2>1. g \in [pathc : Nat, pathv : Nat, offs : Nat, known : BOOLEAN]
    BY <1>1 DEF PathsOwn
  <2>2. g' = [g EXCEPT !.pathv = b, !.pathc = @ + Len(call.chain)] /\ Len(call.chain) \in Nat
    BY <1>2, <1>5
  <2> HIDE <1>2
  <2> QED
    BY <1>4, <2>1, <2>2, VectorChanges
<1>12. /\ PathsOwn(g', << >>, heap')
       /\ \A i \in 1..g.pathc : VecPath(g', heap', i) = VecPath(g, heap, i)
       /\ \A j \in DOMAIN new : VecPath(g', heap', g.pathc + j) = new[j]
       /\ \A i \in 1..g'.pathc : i \in 1..g.pathc \/ i - g.pathc \in DOMAIN new
  BY <1>1, <1>4, <1>5, <1>8, <1>9, <1>10, <1>11, VectorMade
<1>13. /\ g.pathc \in Nat /\ g'.pathv = b /\ g'.pathc = g.pathc + Len(call.chain)
       /\ Len(call.chain) \in Nat /\ DOMAIN new = 1..Len(call.chain)
       /\ \A a : InChain(a, call.chain) <=> \E i \in DOMAIN new : a = new[i]
  <2>1. g \in [pathc : Nat, pathv : Nat, offs : Nat, known : BOOLEAN]
    BY <1>1 DEF PathsOwn
  <2>2. /\ DOMAIN new = DOMAIN call.chain
        /\ \A i \in DOMAIN new : \E j \in DOMAIN call.chain : new[i] = call.chain[j]
        /\ \A j \in DOMAIN call.chain : \E i \in DOMAIN new : new[i] = call.chain[j]
    BY <1>5, Arranged
  <2>3. \A a : InChain(a, call.chain) <=> \E i \in DOMAIN new : a = new[i]
    BY <2>2 DEF InChain
  <2>4. g.pathc \in Nat /\ g'.pathv = b /\ g'.pathc = g.pathc + Len(call.chain)
    BY <1>11, <2>1
  <2>5. Len(call.chain) \in Nat /\ DOMAIN new = 1..Len(call.chain)
    BY <1>5, <2>2
  <2> QED
    BY <2>3, <2>4, <2>5
<1>14. \A a : InVector(a, g', heap') <=>
            a = b \/ (\E i \in 1..g.pathc : a = VecPath(g, heap, i)) \/ InChain(a, call.chain)
  <2>1. \A i \in 1..g'.pathc : i \in 1..g.pathc \/
            (i - g.pathc \in DOMAIN new /\ VecPath(g', heap', i) = new[i - g.pathc])
    <3>1. \A i \in 1..g'.pathc : g.pathc + (i - g.pathc) = i
      BY <1>13
    <3> QED
      BY <1>12, <3>1
  <2>2. \A i \in 1..g.pathc : i \in 1..g'.pathc
    BY <1>13
  <2>3. \A j \in DOMAIN new : g.pathc + j \in 1..g'.pathc
    BY <1>13
  <2> QED
    BY <1>12, <1>13, <2>1, <2>2, <2>3 DEF InVector
<1>15. Allocated' \subseteq Addresses
  BY <1>4, <1>6 DEF Allocated
<1>16. \A a \in DOMAIN heap : ~InChain(a, call.chain) /\ ~InVector(a, g, heap)
            => a \in DOMAIN heap' /\ heap'[a] = heap[a] /\ ~InVector(a, g', heap')
  BY <1>4, <1>6, <1>14 DEF InVector
<1>17. \A a \in DOMAIN heap' : ~InVector(a, g', heap')
            => a \in DOMAIN heap /\ ~InChain(a, call.chain) /\ ~InVector(a, g, heap)
  BY <1>6, <1>14 DEF InVector
<1>18. VectorGrows
  <2>1. \A i \in 1..g.pathc : IsIn(heap, VecPath(g, heap, i), "path")
    BY <1>1 DEF PathsOwn
  <2>2. ASSUME NEW i \in 1..g.pathc
        PROVE  heap'[VecPath(g, heap, i)] = heap[VecPath(g, heap, i)]
    <3>1. i \in 1..g.pathc => g.pathv # NULL
      BY <1>1 DEF PathsOwn
    <3>2. IsIn(heap, g.pathv, "vector") /\ IsIn(heap, VecPath(g, heap, i), "path")
      BY <1>1, <2>1, <3>1 DEF PathsOwn
    <3>3. VecPath(g, heap, i) # g.pathv /\ VecPath(g, heap, i) \in DOMAIN heap
      BY <3>2 DEF IsIn
    <3> QED
      BY <1>6, <3>3
  <2>3. \A i \in 1..g.pathc : VecPath(g', heap', i) = VecPath(g, heap, i)
    BY <1>12
  <2>4. KeepsVector
    BY <2>2, <2>3 DEF KeepsVector
  <2> QED
    BY <1>13, <2>4 DEF VectorGrows
<1> QED
  BY <1>1, <1>3, <1>12, <1>15, <1>16, <1>17, <1>18, GlobEnds

LEMMA VectorFailsOwn ==
    ASSUME GlobOwn, Allocated \subseteq Addresses, VectorFails
    PROVE  GlobOwn' /\ GlobChange
<1>1. g' = g
  <2>1. g \in [pathc : Nat, pathv : Nat, offs : Nat, known : BOOLEAN]
    BY DEF GlobOwn, PathsOwn
  <2>2. g' = IF "APPEND" \in call.flags THEN g ELSE [g EXCEPT !.pathv = NULL]
    BY DEF VectorFails
  <2>3. "APPEND" \notin call.flags => g.pathv = NULL
    BY DEF GlobOwn, VectorFails, Collecting
  <2> QED
    BY <2>1, <2>2, <2>3
<1>2. /\ Collecting /\ heap' = Without(heap, ToSet(call.chain))
      /\ running' = "caller" /\ stack' = stack /\ call' = NoCall
  BY DEF VectorFails, GlobReturns, ReturnsToCaller
<1> QED
  BY <1>1, <1>2, ChainFreed

LEMMA NoCheckOwn ==
    ASSUME GlobOwn, Allocated \subseteq Addresses, faults \in Nat, NoCheck
    PROVE  GlobOwn' /\ GlobChange
<1>1. /\ stack = << >> /\ stack' = << >> /\ running = "glob" /\ running' = "glob" /\ g' = g
      /\ call.chain = << >> /\ call \in CallType
  BY DEF NoCheck, Collecting, GlobOwn
<1>2. GoesOn
  BY <1>1 DEF GoesOn
<1>3. CASE \E b \in Free : /\ heap' = With(heap, b, PatternItself)
                           /\ call' = [call EXCEPT !.chain = <<b>>]
  <2>1. PICK b \in Free : /\ heap' = With(heap, b, PatternItself)
                          /\ call' = [call EXCEPT !.chain = <<b>>]
    BY <1>3
  <2>2. b \notin DOMAIN heap
    BY FreshBlock
  <2>3. DOMAIN heap' = DOMAIN heap \cup {b} /\ heap'[b] = PatternItself
        /\ \A a \in DOMAIN heap : heap'[a] = heap[a]
    BY <2>1, <2>2 DEF With
  <2>4. heap'[b].is = "path"
    BY <2>3 DEF PatternItself, Path
  <2>5. call' = [call EXCEPT !.chain = Append(@, b)]
    <3>1. call' = [call EXCEPT !.chain = Append(call.chain, b)]
      BY <1>1, <2>1
    <3> QED
      BY <1>1, <3>1
  <2>6. Chained({b})
    BY <1>2, <2>3, <2>4, <2>5, ChainedBlock
  <2>7. StackOwn(stack', heap') /\ \A a : ~InStack(a, stack) /\ ~InStack(a, stack')
    BY <1>1, NothingInStack
  <2>8. DOMAIN heap' = (DOMAIN heap \cup {b}) \ {}
        /\ \A a \in DOMAIN heap : heap'[a] = heap[a]
    BY <2>3
  <2> DEFINE new == {b}
             gone == {}
  <2>9. Chained(new) /\ DOMAIN heap' = (DOMAIN heap \cup new) \ gone
    BY <2>6, <2>8
  <2>10. gone \cap DOMAIN heap = {}
    OBVIOUS
  <2> HIDE DEF new, gone
  <2> QED
    BY <2>7, <2>8, <2>9, <2>10, OwnStep
<1>4. CASE heap' = heap /\ call' = [call EXCEPT !.error = "NOSPACE"]
  <2>1. Chained({})
    BY <1>2, <1>4, ChainedNothing
  <2>2. StackOwn(stack', heap') /\ \A a : ~InStack(a, stack) /\ ~InStack(a, stack')
    BY <1>1, NothingInStack
  <2>3. DOMAIN heap' = (DOMAIN heap \cup {}) \ {} /\ \A a \in DOMAIN heap : heap'[a] = heap[a]
    BY <1>4
  <2> QED
    BY <2>1, <2>2, <2>3, OwnStep
<1> QED
  BY <1>3, <1>4 DEF NoCheck

LEMMA NoMatchOwn ==
    ASSUME GlobOwn, Allocated \subseteq Addresses, NoMatch
    PROVE  GlobOwn' /\ GlobChange
<1>1. /\ stack = << >> /\ stack' = << >> /\ running' = "caller" /\ g' = g /\ heap' = heap
      /\ call.chain = << >> /\ call' = NoCall
  BY DEF NoMatch, Collecting, GlobReturns, ReturnsToCaller
<1>2. PathsOwn(g', << >>, heap')
  BY <1>1 DEF GlobOwn
<1>3. \A b : ~InChain(b, call.chain)
  BY <1>1, NothingInChain
<1>4. \A b : InVector(b, g', heap') <=> InVector(b, g, heap)
  BY <1>1
<1>5. Allocated' \subseteq Addresses
  BY <1>1 DEF Allocated
<1>6. VectorGrows
  <2>1. KeepsVector
    BY <1>1 DEF KeepsVector
  <2> QED
    BY <1>1, <2>1, VectorStays DEF GlobOwn
<1> QED
  BY <1>1, <1>2, <1>3, <1>4, <1>5, <1>6, GlobEnds

LEMMA globfreeOwn ==
    ASSUME GlobOwn, Allocated \subseteq Addresses, globfree
    PROVE  GlobOwn' /\ GlobChange
<1>1. /\ stack = << >> /\ call = NoCall /\ running' = "caller" /\ stack' = << >> /\ call' = NoCall
      /\ g' = [g EXCEPT !.pathc = 0, !.pathv = NULL]
  BY DEF globfree, GlobOwn
<1>2. PathsOwn(g, << >>, heap)
  BY <1>1, CallNoCall DEF GlobOwn
<1>3. g' \in [pathc : Nat, pathv : Nat, offs : Nat, known : BOOLEAN]
      /\ g'.pathc = 0 /\ g'.pathv = NULL
  <2>1. g \in [pathc : Nat, pathv : Nat, offs : Nat, known : BOOLEAN]
    BY <1>2 DEF PathsOwn
  <2> QED
    BY <1>1, <2>1 DEF NULL
<1> DEFINE gone == {g.pathv} \cup
                (IF g.pathv = NULL THEN {} ELSE {Vector[g.offs + i] : i \in 1..g.pathc})
<1>4. heap' = Without(heap, gone)
  BY DEF globfree
<1>5. \A b : InVector(b, g, heap) <=> b \in gone
  <2>1. g.pathv = NULL => 1..g.pathc = {}
    BY <1>2 DEF PathsOwn
  <2> QED
    BY <2>1 DEF InVector, VecPath, Vector
<1> HIDE DEF gone
<1>6. /\ DOMAIN heap' = DOMAIN heap \ gone
      /\ \A b \in DOMAIN heap : b \notin gone => heap'[b] = heap[b]
  BY <1>4 DEF Without
<1>7. PathsOwn(g', << >>, heap')
  <2>1. << >> \in Seq(Nat) /\ DOMAIN << >> = {} /\ 1..0 = {}
    OBVIOUS
  <2> QED
    BY <1>3, <2>1 DEF PathsOwn
<1>8. \A b : InVector(b, g', heap') <=> b = NULL
  BY <1>3 DEF InVector
<1>9. NULL \notin DOMAIN heap /\ \A b : ~InChain(b, call.chain)
  BY <1>1, NotAllocated, NothingInChain, CallNoCall
<1>10. Allocated' \subseteq Addresses
  BY <1>6 DEF Allocated
<1>11. VectorGrows
  BY <1>3 DEF VectorGrows
<1> QED
  BY <1>1, <1>5, <1>6, <1>7, <1>8, <1>9, <1>10, <1>11, GlobEnds

LEMMA GlobStep ==
    ASSUME GlobOwn, Allocated \subseteq Addresses, faults \in Nat, GlobNext
    PROVE  GlobOwn' /\ GlobChange
<1>1. CASE \E p \in Patterns, fs \in FlagSets, offs \in Offsets : glob(p, fs, offs)
  BY <1>1, GlobBegins
<1>2. CASE match_in_dir
  BY <1>2, MatchStep
<1>3. CASE NoSpace
  <2>1. /\ Collecting /\ heap' = Without(heap, ToSet(call.chain)) /\ g' = g
        /\ running' = "caller" /\ stack' = stack /\ call' = NoCall
    BY <1>3 DEF NoSpace, GlobReturns, ReturnsToCaller
  <2> QED
    BY <2>1, ChainFreed
<1>4. CASE NoMatch
  BY <1>4, NoMatchOwn
<1>5. CASE NoCheck
  BY <1>5, NoCheckOwn
<1>6. CASE MakeVector
  BY <1>6, MakeVectorOwn
<1>7. CASE VectorFails
  BY <1>7, VectorFailsOwn
<1>8. CASE globfree
  BY <1>8, globfreeOwn
<1> QED
  BY <1>1, <1>2, <1>3, <1>4, <1>5, <1>6, <1>7, <1>8 DEF GlobNext

-----------------------------------------------------------------------------
(* The locals of scandir *)

\* A record with these fields, whatever they hold.
ScanRecord(s) ==
    s = [listing |-> s.listing, cmp |-> s.cmp, next |-> s.next, dir |-> s.dir, names |-> s.names,
         cnt |-> s.cnt, old_errno |-> s.old_errno, before |-> s.before]
SameArguments(s, t) ==
    /\ ScanRecord(t)
    /\ t.listing = s.listing /\ t.cmp = s.cmp /\ t.dir = s.dir
    /\ t.old_errno = s.old_errno /\ t.before = s.before
Advances(s, t) == t = [s EXCEPT !.next = @ + 1]
CopiesTo(l, s, t) == t = [s EXCEPT !.next = @ + 1, !.cnt = @ + 1, !.names = l]

LEMMA ScanFields ==
    ASSUME NEW s, NEW t, NEW n, NEW c, NEW l,
           t = [listing |-> s.listing, cmp |-> s.cmp, next |-> n, dir |-> s.dir, names |-> l,
                cnt |-> c, old_errno |-> s.old_errno, before |-> s.before]
    PROVE  SameArguments(s, t) /\ t.next = n /\ t.cnt = c /\ t.names = l
BY DEF SameArguments, ScanRecord

LEMMA ScanAdvances ==
    ASSUME NEW s, ScanRecord(s), NEW t, Advances(s, t)
    PROVE  SameArguments(s, t) /\ t.next = s.next + 1 /\ t.cnt = s.cnt /\ t.names = s.names
<1> DEFINE n == s.next + 1
<1>1. t = [listing |-> s.listing, cmp |-> s.cmp, next |-> n, dir |-> s.dir, names |-> s.names,
           cnt |-> s.cnt, old_errno |-> s.old_errno, before |-> s.before]
  BY DEF ScanRecord, Advances
<1> HIDE DEF n
<1>2. SameArguments(s, t) /\ t.next = n /\ t.cnt = s.cnt /\ t.names = s.names
  BY <1>1, ScanFields
<1> QED
  BY <1>2 DEF n

LEMMA ScanCopies ==
    ASSUME NEW s, ScanRecord(s), NEW l, NEW t, CopiesTo(l, s, t)
    PROVE  SameArguments(s, t) /\ t.next = s.next + 1 /\ t.cnt = s.cnt + 1 /\ t.names = l
<1> DEFINE n == s.next + 1
           c == s.cnt + 1
           u == [s EXCEPT !.next = n]
           v == [u EXCEPT !.cnt = c]
<1>1. u = [listing |-> s.listing, cmp |-> s.cmp, next |-> n, dir |-> s.dir, names |-> s.names,
           cnt |-> s.cnt, old_errno |-> s.old_errno, before |-> s.before]
  BY DEF ScanRecord
<1>2. v = [listing |-> s.listing, cmp |-> s.cmp, next |-> n, dir |-> s.dir, names |-> s.names,
           cnt |-> c, old_errno |-> s.old_errno, before |-> s.before]
  <2> HIDE DEF u, n, c
  <2> QED
    BY <1>1
<1>3. t = [v EXCEPT !.names = l]
  BY DEF CopiesTo
<1>4. t = [listing |-> s.listing, cmp |-> s.cmp, next |-> n, dir |-> s.dir, names |-> l,
           cnt |-> c, old_errno |-> s.old_errno, before |-> s.before]
  <2> HIDE DEF v, n, c
  <2> QED
    BY <1>2, <1>3
<1> HIDE DEF n, c, u, v
<1>5. SameArguments(s, t) /\ t.next = n /\ t.cnt = c /\ t.names = l
  BY <1>4, ScanFields
<1> QED
  BY <1>5 DEF n, c

-----------------------------------------------------------------------------
(* What belongs to scandir *)

\* The list res of n entries, and what is to be freed with it.
ListOwn(res, n, h) ==
    /\ res \in Nat /\ n \in Int
    /\ res = NULL => n <= 0
    /\ res # NULL =>
            /\ IsIn(h, res, "vector") /\ h[res].slots \in Seq(Nat) /\ Len(h[res].slots) = n
            /\ \A i \in DOMAIN h[res].slots : IsIn(h, h[res].slots[i], "entry")
Lengthened(res, h, l, k, b) ==
    k[l].slots = Append(IF res = NULL THEN << >> ELSE h[res].slots, b)
InList(b, res, h) ==
    res # NULL /\ (b = res \/ \E i \in DOMAIN h[res].slots : b = h[res].slots[i])
KeepsOthers(res, h, k) == \A a \in DOMAIN h : a # res => a \in DOMAIN k /\ k[a] = h[a]
KeepsList(res, h, k) == \A b : InList(b, res, h) => b \in DOMAIN k /\ k[b] = h[b]

LEMMA ListIn ==
    ASSUME NEW res, NEW n, NEW h, ListOwn(res, n, h)
    PROVE  /\ \A b : InList(b, res, h) => b \in DOMAIN h
           /\ n \in Nat => \A b : InList(b, res, h) <=>
                res # NULL /\ (b = res \/ \E i \in 1..n : b = h[res].slots[i])
<1>1. \A b : InList(b, res, h) => b \in DOMAIN h
  BY DEF ListOwn, InList, IsIn
<1>2. res # NULL => DOMAIN h[res].slots = 1..n
  BY DEF ListOwn
<1> QED
  BY <1>1, <1>2 DEF InList

LEMMA ListStays ==
    ASSUME NEW res, NEW n, NEW h, NEW k, ListOwn(res, n, h), KeepsList(res, h, k)
    PROVE  ListOwn(res, n, k) /\ \A b : InList(b, res, k) <=> InList(b, res, h)
<1>1. res # NULL => /\ res \in DOMAIN k /\ k[res] = h[res]
                    /\ \A i \in DOMAIN h[res].slots :
                            h[res].slots[i] \in DOMAIN k /\ k[h[res].slots[i]] = h[h[res].slots[i]]
  BY DEF KeepsList, InList
<1> QED
  BY <1>1 DEF ListOwn, InList, IsIn

Grows(res, n, h, k, b, l) ==
    /\ ListOwn(res, n, h) /\ n \in Nat
    /\ b \in Nat /\ b \notin DOMAIN h /\ l \in Nat /\ l # NULL /\ b # l
    /\ l = res \/ (res = NULL /\ l \notin DOMAIN h)
    /\ IsIn(k, b, "entry") /\ IsIn(k, l, "vector") /\ Lengthened(res, h, l, k, b)
    /\ KeepsOthers(res, h, k)

\* realloc makes the list l of the list res, and b is added to it.
LEMMA ListGrows ==
    ASSUME NEW res, NEW n, NEW h, NEW k, NEW b, NEW l, Grows(res, n, h, k, b, l)
    PROVE  /\ ListOwn(l, n + 1, k)
           /\ \A a : InList(a, l, k) <=> InList(a, res, h) \/ a = l \/ a = b
           /\ k[l].slots[n + 1] = b
           /\ DOMAIN k[l].slots = 1..(n + 1)
           /\ \A i \in 1..n : /\ res # NULL /\ k[l].slots[i] = h[res].slots[i]
                              /\ k[k[l].slots[i]] = h[h[res].slots[i]]
<1> DEFINE old == IF res = NULL THEN << >> ELSE h[res].slots
           new == Append(old, b)
<1>0. /\ ListOwn(res, n, h) /\ n \in Nat
      /\ b \in Nat /\ b \notin DOMAIN h /\ l \in Nat /\ l # NULL /\ b # l
      /\ l = res \/ (res = NULL /\ l \notin DOMAIN h)
      /\ IsIn(k, b, "entry") /\ IsIn(k, l, "vector") /\ Lengthened(res, h, l, k, b)
      /\ KeepsOthers(res, h, k)
  BY DEF Grows
<1>1. old \in Seq(Nat) /\ Len(old) = n /\ DOMAIN old = 1..n
  <2>1. CASE res = NULL
    BY <1>0, <2>1 DEF ListOwn
  <2>2. CASE res # NULL
    <3>1. h[res].slots \in Seq(Nat) /\ Len(h[res].slots) = n
      BY <1>0, <2>2 DEF ListOwn
    <3> QED
      BY <2>2, <3>1
  <2> QED
    BY <2>1, <2>2
<1>2. \A i \in 1..n : res # NULL /\ old[i] = h[res].slots[i]
                      /\ IsIn(h, old[i], "entry") /\ old[i] # res
  <2>1. \A i \in 1..n : n > 0
    BY <1>0
  <2>2. CASE res = NULL
    BY <1>0, <2>1, <2>2 DEF ListOwn
  <2>3. CASE res # NULL
    BY <1>0, <1>1, <2>3 DEF ListOwn, IsIn
  <2> QED
    BY <2>2, <2>3
<1> HIDE DEF old
<1>3. /\ new \in Seq(Nat) /\ Len(new) = n + 1 /\ DOMAIN new = 1..(n + 1) /\ new[n + 1] = b
      /\ \A i \in 1..n : new[i] = old[i]
      /\ \A i \in 1..(n + 1) : i = n + 1 \/ i \in 1..n
  BY <1>0, <1>1
<1>4. k[l].slots = new
  BY <1>0 DEF old, Lengthened
<1> HIDE DEF new
<1>5. \A i \in 1..n : k[old[i]] = h[old[i]] /\ IsIn(k, old[i], "entry")
  BY <1>0, <1>2 DEF IsIn, KeepsOthers
<1>6. ListOwn(l, n + 1, k)
  <2>1. \A i \in DOMAIN new : IsIn(k, new[i], "entry")
    BY <1>0, <1>3, <1>5
  <2>2. n + 1 \in Int
    BY <1>0
  <2> QED
    BY <1>0, <1>3, <1>4, <2>1, <2>2 DEF ListOwn
<1>7. \A a : InList(a, l, k) <=> a = l \/ a = b \/ \E i \in 1..n : a = old[i]
  <2>1. \A a : (\E i \in DOMAIN new : a = new[i]) <=> a = b \/ \E i \in 1..n : a = old[i]
    <3>1. n + 1 \in DOMAIN new /\ \A i \in 1..n : i \in DOMAIN new
      BY <1>0, <1>3
    <3> QED
      BY <1>3, <3>1
  <2> QED
    BY <1>0, <1>4, <2>1 DEF InList
<1>8. \A a : InList(a, res, h) <=> res # NULL /\ (a = res \/ \E i \in 1..n : a = old[i])
  BY <1>1, <1>2 DEF InList, old
<1>9. \A a : InList(a, l, k) <=> InList(a, res, h) \/ a = l \/ a = b
  BY <1>0, <1>2, <1>7, <1>8
<1> QED
  BY <1>2, <1>3, <1>4, <1>5, <1>6, <1>9

\* qsort moves the pointers of the list.
Rearranged(res, h, s, k) ==
    /\ IsIn(k, res, "vector") /\ k[res].slots = s
    /\ \A a : InList(a, res, h) /\ a # res => a \in DOMAIN k /\ k[a] = h[a]

LEMMA ListArranged ==
    ASSUME NEW res, NEW n, NEW h, NEW k, ListOwn(res, n, h), res # NULL,
           NEW s \in qsort(h[res].slots), Rearranged(res, h, s, k)
    PROVE  /\ ListOwn(res, n, k)
           /\ \A a : InList(a, res, k) <=> InList(a, res, h)
<1> DEFINE old == h[res].slots
<1>1. old \in Seq(Nat) /\ Len(old) = n
  BY DEF ListOwn
<1>2. /\ s \in Seq(Nat) /\ Len(s) = Len(old)
      /\ \A i \in DOMAIN s : \E j \in DOMAIN old : s[i] = old[j]
      /\ \A j \in DOMAIN old : \E i \in DOMAIN s : s[i] = old[j]
  BY <1>1, Arranged
<1>3. \A j \in DOMAIN old : old[j] # res /\ IsIn(k, old[j], "entry")
  BY DEF ListOwn, InList, IsIn, Rearranged
<1> HIDE DEF old
<1>4. ListOwn(res, n, k)
  BY <1>1, <1>2, <1>3 DEF ListOwn, Rearranged
<1>5. \A b : (\E i \in DOMAIN s : b = s[i]) <=> (\E i \in DOMAIN old : b = old[i])
  BY <1>2
<1>6. k[res].slots = s
  BY DEF Rearranged
<1> QED
  BY <1>4, <1>5, <1>6 DEF InList, old

-----------------------------------------------------------------------------

ScanOwn ==
    /\ running = "scandir" => IsIn(heap, scan.dir, "DIR") /\ list = NoList
    /\ running # "scandir" => scan = NoScan
    /\ ScanRecord(scan) /\ scan.cnt \in Nat /\ scan.dir \in Nat
    /\ ListOwn(scan.names, scan.cnt, heap)
    /\ ListOwn(list.res, list.n, heap)

InScan(b) == \/ b = scan.dir \/ InList(b, scan.names, heap) \/ InList(b, list.res, heap)

ScanChange ==
    /\ Allocated' \subseteq Addresses
    /\ \A b \in Allocated : ~InScan(b) => b \in Allocated' /\ heap'[b] = heap[b] /\ ~InScan(b)'
    /\ \A b \in Allocated' : ~InScan(b)' => b \in Allocated /\ ~InScan(b)

LEMMA NoListOwn ==
    /\ \A h : ListOwn(NULL, 0, h) /\ ListOwn(NULL, -1, h)
    /\ \A b, h : ~InList(b, NULL, h)
    /\ NoScan.names = NULL /\ NoScan.cnt = 0 /\ NoScan.dir = NULL
    /\ NoList.res = NULL /\ NoList.n = 0
BY DEF ListOwn, InList, NoScan, NoList, NULL

LEMMA NoScanRecord ==
    ScanRecord(NoScan)
BY DEF ScanRecord, NoScan

LEMMA ScanOpensOwn ==
    ASSUME ScanOwn, Allocated \subseteq Addresses, NEW listing, NEW cmp, ScanOpens(listing, cmp)
    PROVE  ScanOwn' /\ ScanChange
<1>1. PICK b \in Free :
        /\ heap' = With(heap, b, [is |-> "DIR"])
        /\ scan' = [NoScan EXCEPT !.listing = listing, !.cmp = cmp, !.dir = b,
                                  !.old_errno = errno, !.before = errno]
  BY DEF ScanOpens
<1>2. running = "caller" /\ running' = "scandir" /\ list = NoList /\ list' = NoList
  BY DEF ScanOpens, Calls
<1>3. scan = NoScan
  BY <1>2 DEF ScanOwn
<1>4. b \in Nat /\ b \notin DOMAIN heap /\ b \in Addresses
  BY FreshBlock DEF Free
<1>5. DOMAIN heap' = DOMAIN heap \cup {b} /\ heap'[b] = [is |-> "DIR"]
      /\ \A a \in DOMAIN heap : heap'[a] = heap[a]
  BY <1>1, <1>4 DEF With
<1>6. scan'.dir = b /\ scan'.names = NULL /\ scan'.cnt = 0 /\ ScanRecord(scan')
  BY <1>1 DEF NoScan, ScanRecord
<1>7. ScanOwn'
  BY <1>2, <1>4, <1>5, <1>6, NoListOwn DEF ScanOwn, IsIn
<1>8. NULL \notin DOMAIN heap
  BY NotAllocated
<1>9. \A a : InScan(a)' <=> a = b
  BY <1>2, <1>6, NoListOwn DEF InScan
<1>10. \A a \in DOMAIN heap : ~InScan(a)
  BY <1>2, <1>3, <1>8, NoListOwn DEF InScan
<1> QED
  BY <1>4, <1>5, <1>7, <1>9, <1>10 DEF ScanChange, Allocated

LEMMA CopyOwn ==
    ASSUME ScanOwn, Allocated \subseteq Addresses, Copy
    PROVE  /\ ScanOwn' /\ ScanChange
           /\ DOMAIN heap'[scan'.names].slots = 1..(scan.cnt + 1)
           /\ heap'[heap'[scan'.names].slots[scan.cnt + 1]].name = Candidate
           /\ \A i \in 1..scan.cnt :
                    /\ scan.names # NULL
                    /\ heap'[heap'[scan'.names].slots[i]] = heap[Names[i]]
<1>1. PICK l \in (Free \cup {scan.names}) \ {NULL}, b \in Free :
        /\ IF scan.names = NULL THEN IsFresh(l) ELSE l = scan.names
        /\ b # l
        /\ heap' = With(With(heap, b, [is |-> "entry", name |-> Candidate]), l,
                        Slots(Append(IF scan.names = NULL THEN << >> ELSE Names, b)))
        /\ scan' = [scan EXCEPT !.next = @ + 1, !.cnt = @ + 1, !.names = l]
  BY DEF Copy
<1>2. running = "scandir" /\ running' = "scandir" /\ list = NoList /\ list' = NoList
  BY DEF Copy, Candidates, Continues, ScanOwn
<1>3. b \in Nat /\ b \notin DOMAIN heap /\ b \in Addresses
  BY FreshBlock DEF Free
<1>4. ListOwn(scan.names, scan.cnt, heap) /\ scan.cnt \in Nat
  BY DEF ScanOwn
<1>5. /\ l # NULL /\ l \in Nat /\ l \in Addresses
      /\ l = scan.names \/ (scan.names = NULL /\ l \notin DOMAIN heap)
  <2>1. CASE scan.names = NULL
    <3>1. l \in Free
      BY <1>1, <2>1
    <3> QED
      BY <2>1, <3>1, FreshBlock DEF Free
  <2>2. CASE scan.names # NULL
    <3>1. l = scan.names
      BY <1>1, <2>2
    <3> QED
      BY <1>4, <2>2, <3>1 DEF ListOwn, IsIn, Allocated
  <2> QED
    BY <2>1, <2>2
<1>6. /\ DOMAIN heap' = DOMAIN heap \cup {b, l}
      /\ heap'[b] = [is |-> "entry", name |-> Candidate]
      /\ heap'[l] = Slots(Append(IF scan.names = NULL THEN << >> ELSE Names, b))
      /\ \A a \in DOMAIN heap : a # l => heap'[a] = heap[a]
  <2>1. /\ heap' = With(With(heap, b, [is |-> "entry", name |-> Candidate]), l,
                        Slots(Append(IF scan.names = NULL THEN << >> ELSE Names, b)))
        /\ b # l
    BY <1>1
  <2> QED
    BY <1>3, <2>1 DEF With
<1>7. scan'.names = l /\ scan'.cnt = scan.cnt + 1 /\ scan'.dir = scan.dir /\ ScanRecord(scan')
  <2>0. ScanRecord(scan)
    BY DEF ScanOwn
  <2>1. CopiesTo(l, scan, scan')
    BY <1>1 DEF CopiesTo
  <2>2. SameArguments(scan, scan') /\ scan'.cnt = scan.cnt + 1 /\ scan'.names = l
    BY <2>0, <2>1, ScanCopies
  <2> QED
    BY <2>2 DEF SameArguments
<1>8. IsIn(heap', b, "entry") /\ IsIn(heap', l, "vector")
      /\ Lengthened(scan.names, heap, l, heap', b)
      /\ heap'[b].name = Candidate
  BY <1>6 DEF IsIn, Slots, Names, Lengthened
<1>9. KeepsOthers(scan.names, heap, heap')
  BY <1>5, <1>6 DEF KeepsOthers
<1>10. /\ ListOwn(l, scan.cnt + 1, heap')
       /\ \A a : InList(a, l, heap') <=> InList(a, scan.names, heap) \/ a = l \/ a = b
       /\ heap'[l].slots[scan.cnt + 1] = b
       /\ DOMAIN heap'[l].slots = 1..(scan.cnt + 1)
       /\ \A i \in 1..scan.cnt : /\ scan.names # NULL
                                 /\ heap'[l].slots[i] = heap[scan.names].slots[i]
                                 /\ heap'[heap'[l].slots[i]] = heap[heap[scan.names].slots[i]]
  <2>1. b # l
    BY <1>1
  <2>2. Grows(scan.names, scan.cnt, heap, heap', b, l)
    BY <1>3, <1>4, <1>5, <1>8, <1>9, <2>1 DEF Grows
  <2> QED
    BY <2>2, ListGrows
<1>11. IsIn(heap', scan.dir, "DIR") /\ scan.dir \in Nat
  <2>1. IsIn(heap, scan.dir, "DIR") /\ scan.dir \in Nat
    BY <1>2 DEF ScanOwn
  <2>2. scan.dir # scan.names
    BY <1>4, <2>1, NotAllocated DEF ListOwn, IsIn
  <2> QED
    BY <1>9, <2>1, <2>2 DEF IsIn, KeepsOthers
<1>12. ScanOwn'
  <2>1. scan.cnt + 1 \in Nat
    BY <1>4
  <2> QED
    BY <1>2, <1>7, <1>10, <1>11, <2>1, NoListOwn DEF ScanOwn
<1>13. \A a : InScan(a)' <=> InScan(a) \/ a = l \/ a = b
  BY <1>2, <1>7, <1>10, NoListOwn DEF InScan
<1>14. l \in DOMAIN heap => InScan(l)
  BY <1>5 DEF InScan, InList
<1>15. ScanChange
  BY <1>3, <1>5, <1>6, <1>13, <1>14 DEF ScanChange, Allocated
<1> QED
  BY <1>7, <1>8, <1>10, <1>12, <1>15 DEF Names

LEMMA ScanReturnsOwn ==
    ASSUME ScanOwn, Allocated \subseteq Addresses, running = "scandir",
           NEW error, ScanReturns(error)
    PROVE  ScanOwn' /\ ScanChange
<1> DEFINE closed == Without(heap, {scan.dir})
           failed == error # "0"
<1>1. /\ IsIn(heap, scan.dir, "DIR") /\ list = NoList /\ scan.cnt \in Nat
      /\ ListOwn(scan.names, scan.cnt, heap)
  BY DEF ScanOwn
<1>2. running' = "caller" /\ scan' = NoScan
  BY DEF ScanReturns, ReturnsToCaller
<1>3. /\ list'.n = IF failed THEN -1 ELSE scan.cnt
      /\ list'.res = IF failed THEN NULL ELSE scan.names
  BY DEF ScanReturns
<1>4. IF failed THEN heap' = Without(closed, FreedAfterError)
      ELSE IF scan.cmp /\ scan.names # NULL
      THEN \E s \in SortedCopies : heap' = With(closed, scan.names, Slots(s))
      ELSE heap' = closed
  BY DEF ScanReturns
<1>5. \A b : InScan(b) <=> b = scan.dir \/ InList(b, scan.names, heap)
  BY <1>1, NoListOwn DEF InScan
<1>6. \A b : InScan(b)' <=> b = NULL \/ InList(b, list'.res, heap')
  BY <1>2, NoListOwn DEF InScan
<1>7. ~InList(scan.dir, scan.names, heap) /\ NULL \notin DOMAIN heap
  BY <1>1, NotAllocated DEF ListOwn, InList, IsIn
<1>8. /\ DOMAIN closed = DOMAIN heap \ {scan.dir}
      /\ \A b \in DOMAIN heap : b # scan.dir => closed[b] = heap[b]
  BY DEF Without
<1>9. ListOwn(list'.res, list'.n, heap') => ScanOwn'
  <2>1. running' # "scandir"
    BY <1>2
  <2>2. /\ scan' = NoScan /\ ScanRecord(scan') /\ scan'.cnt \in Nat /\ scan'.dir \in Nat
        /\ ListOwn(scan'.names, scan'.cnt, heap')
    BY <1>2, NoListOwn, NoScanRecord DEF NULL
  <2> QED
    BY <2>1, <2>2 DEF ScanOwn
<1> HIDE DEF closed, failed
<1>10. CASE failed
  <2>1. list'.n = -1 /\ list'.res = NULL
    BY <1>3, <1>10
  <2>2. ScanOwn'
    BY <1>9, <2>1, NoListOwn
  <2>3. \A b : b # NULL => (b \in FreedAfterError <=> InList(b, scan.names, heap))
    <3>1. \A b : InList(b, scan.names, heap) <=> scan.names # NULL
                /\ (b = scan.names \/ \E i \in 1..scan.cnt : b = heap[scan.names].slots[i])
      BY <1>1, ListIn
    <3> QED
      BY <3>1 DEF FreedAfterError, Copies, Names
  <2>4. /\ DOMAIN heap' = DOMAIN closed \ FreedAfterError
        /\ \A b \in DOMAIN closed : b \notin FreedAfterError => heap'[b] = closed[b]
    <3>1. heap' = Without(closed, FreedAfterError)
      BY <1>4, <1>10
    <3> QED
      BY <3>1 DEF Without
  <2>5. \A b : InScan(b)' <=> b = NULL
    BY <1>6, <2>1, NoListOwn
  <2> QED
    BY <1>5, <1>7, <1>8, <2>2, <2>3, <2>4, <2>5 DEF ScanChange, Allocated
<1>11. CASE ~failed
  <2>1. list'.n = scan.cnt /\ list'.res = scan.names
    BY <1>3, <1>11
  <2>2. /\ DOMAIN heap' = DOMAIN heap \ {scan.dir}
        /\ \A b \in DOMAIN heap : b # scan.dir /\ b # scan.names => heap'[b] = heap[b]
        /\ \/ scan.names \in DOMAIN heap => heap'[scan.names] = heap[scan.names]
           \/ /\ scan.names # NULL
              /\ \E s \in qsort(Names) : heap'[scan.names] = Slots(s)
    <3>1. CASE scan.cmp /\ scan.names # NULL
      <4>1. PICK s \in SortedCopies : heap' = With(closed, scan.names, Slots(s))
        BY <1>4, <1>11, <3>1
      <4>2. s \in qsort(Names)
        BY DEF SortedCopies
      <4>3. scan.names \in DOMAIN closed
        BY <1>1, <1>7, <1>8, <3>1 DEF ListOwn, IsIn, InList
      <4>4. /\ DOMAIN heap' = DOMAIN closed /\ heap'[scan.names] = Slots(s)
            /\ \A b \in DOMAIN closed : b # scan.names => heap'[b] = closed[b]
        BY <4>1, <4>3 DEF With
      <4> QED
        BY <1>8, <3>1, <4>2, <4>4
    <3>2. CASE ~(scan.cmp /\ scan.names # NULL)
      <4>1. heap' = closed
        BY <1>4, <1>11, <3>2
      <4>2. scan.names # scan.dir
        BY <1>1, <1>7 DEF ListOwn, IsIn
      <4> QED
        BY <1>8, <4>1, <4>2
    <3> QED
      BY <3>1, <3>2
  <2>3. /\ ListOwn(scan.names, scan.cnt, heap')
        /\ \A b : InList(b, scan.names, heap') <=> InList(b, scan.names, heap)
    <3>1. \A b : InList(b, scan.names, heap) => b \in DOMAIN heap /\ b # scan.dir
      BY <1>1, <1>7, ListIn
    <3>2. CASE scan.names \in DOMAIN heap => heap'[scan.names] = heap[scan.names]
      <4>1. KeepsList(scan.names, heap, heap')
        BY <2>2, <3>1, <3>2 DEF KeepsList
      <4> QED
        BY <1>1, <4>1, ListStays
    <3>3. CASE scan.names # NULL /\ \E s \in qsort(Names) : heap'[scan.names] = Slots(s)
      <4>1. PICK s \in qsort(heap[scan.names].slots) : heap'[scan.names] = Slots(s)
        BY <3>3 DEF Names
      <4>2. IsIn(heap', scan.names, "vector") /\ heap'[scan.names].slots = s
        BY <2>2, <3>1, <3>3, <4>1 DEF IsIn, Slots, InList
      <4>3. \A b : InList(b, scan.names, heap) /\ b # scan.names
                        => b \in DOMAIN heap' /\ heap'[b] = heap[b]
        BY <2>2, <3>1
      <4>4. Rearranged(scan.names, heap, s, heap')
        BY <4>2, <4>3 DEF Rearranged
      <4> QED
        BY <1>1, <3>3, <4>4, ListArranged
    <3> QED
      BY <2>2, <3>2, <3>3
  <2>4. ScanOwn'
    BY <1>9, <2>1, <2>3
  <2>5. \A b : InScan(b)' <=> b = NULL \/ InList(b, scan.names, heap)
    BY <1>6, <2>1, <2>3
  <2>6. scan.names # NULL => InList(scan.names, scan.names, heap)
    BY DEF InList
  <2> QED
    BY <1>5, <1>7, <2>2, <2>4, <2>5, <2>6 DEF ScanChange, Allocated
<1> QED
  BY <1>10, <1>11

LEMMA ListFreedOwn ==
    ASSUME ScanOwn, Allocated \subseteq Addresses, ListFreed
    PROVE  ScanOwn' /\ ScanChange
<1> DEFINE gone == {list.res} \cup
                (IF list.res = NULL THEN {} ELSE {heap[list.res].slots[i] : i \in 1..list.n})
<1>1. /\ running = "caller" /\ running' = "caller" /\ list' = NoList /\ scan' = scan
      /\ heap' = Without(heap, gone)
  BY DEF ListFreed, Continues
<1>2. scan = NoScan /\ ListOwn(list.res, list.n, heap)
  BY <1>1 DEF ScanOwn
<1>3. \A b : b # NULL => (b \in gone <=> InList(b, list.res, heap))
  <2>1. list.res # NULL => DOMAIN heap[list.res].slots = 1..list.n
    BY <1>2 DEF ListOwn
  <2> QED
    BY <2>1 DEF InList
<1>4. /\ DOMAIN heap' = DOMAIN heap \ gone
      /\ \A b \in DOMAIN heap : b \notin gone => heap'[b] = heap[b]
  BY <1>1 DEF Without
<1> HIDE DEF gone
<1>5. NULL \notin DOMAIN heap
  BY NotAllocated
<1>6. ScanOwn'
  BY <1>1, <1>2, NoListOwn, NoScanRecord DEF ScanOwn
<1>7. /\ \A b : InScan(b)' <=> b = NULL
      /\ \A b : InScan(b) <=> b = NULL \/ InList(b, list.res, heap)
  BY <1>1, <1>2, NoListOwn DEF InScan
<1> QED
  BY <1>3, <1>4, <1>5, <1>6, <1>7 DEF ScanChange, Allocated

LEMMA ScanStep ==
    ASSUME ScanOwn, Allocated \subseteq Addresses, ScanNext
    PROVE  ScanOwn' /\ ScanChange
<1>1. CASE \E listing \in Listings : ScanOpenFails(listing)
  <2>1. /\ running = "caller" /\ running' = "caller" /\ heap' = heap /\ scan' = scan
        /\ list = NoList /\ list'.res = NULL /\ list'.n = -1
    BY <1>1 DEF ScanOpenFails, NoList
  <2>2. ScanOwn'
    BY <2>1, NoListOwn DEF ScanOwn
  <2>3. \A b : InScan(b)' <=> InScan(b)
    BY <2>1, NoListOwn DEF InScan
  <2> QED
    BY <2>1, <2>2, <2>3 DEF ScanChange, Allocated
<1>2. CASE \E listing \in Listings, cmp \in BOOLEAN : ScanOpens(listing, cmp)
  BY <1>2, ScanOpensOwn
<1>3. CASE SelRejects
  <2>1. /\ running' = running /\ heap' = heap /\ list' = list /\ running = "scandir"
        /\ Advances(scan, scan')
    BY <1>3 DEF SelRejects, Continues, Advances, Candidates
  <2>2. scan'.dir = scan.dir /\ scan'.names = scan.names /\ scan'.cnt = scan.cnt
        /\ ScanRecord(scan')
    BY <2>1, ScanAdvances DEF ScanOwn, SameArguments
  <2>3. ScanOwn'
    BY <2>1, <2>2 DEF ScanOwn
  <2>4. \A b : InScan(b)' <=> InScan(b)
    BY <2>1, <2>2 DEF InScan
  <2> QED
    BY <2>1, <2>3, <2>4 DEF ScanChange, Allocated
<1>4. CASE Copy
  BY <1>4, CopyOwn
<1>5. CASE ScanEnds \/ ScanReadFails \/ ScanAllocFails
  <2>1. running = "scandir" /\ \E error : ScanReturns(error)
    BY <1>5 DEF ScanEnds, ScanReadFails, ScanAllocFails, Candidates
  <2> QED
    BY <2>1, ScanReturnsOwn
<1>6. CASE ListFreed
  BY <1>6, ListFreedOwn
<1> QED
  BY <1>1, <1>2, <1>3, <1>4, <1>5, <1>6 DEF ScanNext

-----------------------------------------------------------------------------
(* What belongs to the wrappers *)

ConvOwn ==
    /\ chain \in Seq(Nat) /\ \A i \in DOMAIN chain : IsIn(heap, chain[i], "text")
    /\ running \notin {"wrapper", "crashed"} => chain = << >>

InConv(b) == InChain(b, chain)

ConvChange ==
    /\ Allocated' \subseteq Addresses
    /\ \A b \in Allocated : ~InConv(b) => b \in Allocated' /\ heap'[b] = heap[b] /\ ~InConv(b)'
    /\ \A b \in Allocated' : ~InConv(b)' => b \in Allocated /\ ~InConv(b)

LEMMA ConvertOwn ==
    ASSUME ConvOwn, Allocated \subseteq Addresses, NEW fits, NEW bytes, NEW size,
           Convert(fits, bytes, size)
    PROVE  ConvOwn' /\ ConvChange
<1>1. CASE IntoArray(fits, bytes)
  <2>1. heap' = heap /\ running' = running /\ chain' = chain
    BY <1>1 DEF IntoArray
  <2> QED
    BY <2>1 DEF ConvOwn, ConvChange, InConv, Allocated
<1>2. CASE IntoBlock(fits, bytes, size)
  <2>1. PICK b \in Free : /\ heap' = With(heap, b, [is |-> "text", size |-> size])
                          /\ chain' = Append(chain, b)
    BY <1>2 DEF IntoBlock
  <2>2. running = "wrapper" /\ running' = "wrapper"
    BY <1>2 DEF Convert, IntoBlock
  <2>3. b \in Nat /\ b \notin DOMAIN heap /\ b \in Addresses
    BY FreshBlock DEF Free
  <2>4. DOMAIN heap' = DOMAIN heap \cup {b} /\ heap'[b].is = "text"
        /\ \A a \in DOMAIN heap : heap'[a] = heap[a]
    BY <2>1, <2>3 DEF With
  <2>5. chain \in Seq(Nat) /\ \A i \in DOMAIN chain : IsIn(heap, chain[i], "text")
    BY DEF ConvOwn
  <2>6. /\ chain' \in Seq(Nat)
        /\ \A i \in DOMAIN chain : i \in DOMAIN chain' /\ chain'[i] = chain[i]
        /\ \A i \in DOMAIN chain' : chain'[i] = b \/
                (i \in DOMAIN chain /\ chain'[i] = chain[i])
        /\ \E i \in DOMAIN chain' : chain'[i] = b
    <3>1. chain' = Append(chain, b)
      BY <2>1
    <3> HIDE <2>1
    <3>2. Len(chain) + 1 \in DOMAIN chain' /\ chain'[Len(chain) + 1] = b
      BY <2>3, <2>5, <3>1
    <3> QED
      BY <2>3, <2>5, <3>1, <3>2
  <2>7. ConvOwn'
    BY <2>2, <2>4, <2>5, <2>6 DEF ConvOwn, IsIn
  <2>8. \A a : InConv(a)' <=> InConv(a) \/ a = b
    BY <2>6 DEF InConv, InChain
  <2> QED
    BY <2>3, <2>4, <2>7, <2>8 DEF ConvChange, Allocated
<1>3. CASE BlockFails(fits)
  <2>1. heap' = heap /\ running' = "crashed" /\ chain' = chain
    BY <1>3 DEF BlockFails, convVars
  <2> QED
    BY <2>1 DEF ConvOwn, ConvChange, InConv, Allocated
<1> QED
  BY <1>1, <1>2, <1>3 DEF Convert

LEMMA ConvOwnStep ==
    ASSUME ConvOwn, Allocated \subseteq Addresses, ConvNext
    PROVE  ConvOwn' /\ ConvChange
<1>1. CASE convbuf_init
  <2>1. /\ heap' = heap /\ running = "caller" /\ running' = "wrapper" /\ chain' = << >>
    BY <1>1 DEF convbuf_init, Calls
  <2>2. chain = << >>
    BY <2>1 DEF ConvOwn
  <2> QED
    BY <2>1, <2>2 DEF ConvOwn, ConvChange, InConv, Allocated
<1>2. CASE \E t \in WideTexts : convbuf_w2a(t)
  BY <1>2, ConvertOwn DEF convbuf_w2a
<1>3. CASE \E t \in ByteTexts : convbuf_a2w(t)
  BY <1>3, ConvertOwn DEF convbuf_a2w
<1>4. CASE convbuf_clear
  <2>1. /\ running' = "caller" /\ chain' = << >>
        /\ heap' = Without(heap, {chain[i] : i \in DOMAIN chain})
    BY <1>4 DEF convbuf_clear, ReturnsToCaller
  <2>2. \A b : InConv(b) <=> b \in {chain[i] : i \in DOMAIN chain}
    BY DEF InConv, InChain
  <2>3. \A b : ~InConv(b)'
    BY <2>1, NothingInChain DEF InConv
  <2>4. /\ DOMAIN heap' = DOMAIN heap \ {chain[i] : i \in DOMAIN chain}
        /\ \A b \in DOMAIN heap : b \notin {chain[i] : i \in DOMAIN chain} => heap'[b] = heap[b]
    BY <2>1 DEF Without
  <2>5. ConvOwn'
    BY <2>1 DEF ConvOwn
  <2> QED
    BY <2>2, <2>3, <2>4, <2>5 DEF ConvChange, Allocated
<1> QED
  BY <1>1, <1>2, <1>3, <1>4 DEF ConvNext

-----------------------------------------------------------------------------
(* The whole heap *)

\* Every block has one owner, or is a name buffer that was lost.
HeapOwn ==
    /\ Allocated \subseteq Addresses /\ faults \in Nat
    /\ GlobOwn /\ ScanOwn /\ ConvOwn
    /\ \A b \in Allocated : /\ ~(InGlob(b) /\ InScan(b)) /\ ~(InGlob(b) /\ InConv(b))
                            /\ ~(InScan(b) /\ InConv(b))
    /\ \A b \in Allocated : \/ InGlob(b) \/ InScan(b) \/ InConv(b)
                            \/ heap[b].is = "namebuf" /\ faults > 0

LEMMA OwnedAreAllocated ==
    /\ GlobOwn => \A b : InGlob(b) /\ b \notin {NULL, NOBUF} => b \in Allocated
    /\ ScanOwn => \A b : InScan(b) /\ b # NULL => b \in Allocated
    /\ ConvOwn => \A b : InConv(b) => b \in Allocated
<1>1. ASSUME GlobOwn, NEW b, InGlob(b), b \notin {NULL, NOBUF} PROVE b \in Allocated
  <2>1. StackOwn(stack, heap) /\ PathsOwn(g, call.chain, heap)
    BY <1>1 DEF GlobOwn
  <2>2. CASE InStack(b, stack)
    BY <1>1, <2>1, <2>2 DEF StackOwn, InStack, IsIn, Allocated
  <2>3. CASE InChain(b, call.chain)
    BY <1>1, <2>1, <2>3 DEF PathsOwn, InChain, IsIn, Allocated
  <2>4. CASE InVector(b, g, heap)
    BY <1>1, <2>1, <2>4 DEF PathsOwn, InVector, IsIn, Allocated
  <2> QED
    BY <1>1, <2>2, <2>3, <2>4 DEF InGlob
<1>2. ASSUME ScanOwn, NEW b, InScan(b), b # NULL PROVE b \in Allocated
  <2>1. CASE b = scan.dir
    <3>1. running = "scandir"
      BY <1>2, <2>1, NoListOwn DEF ScanOwn
    <3> QED
      BY <1>2, <2>1, <3>1 DEF ScanOwn, IsIn, Allocated
  <2>2. CASE InList(b, scan.names, heap)
    BY <1>2, <2>2, ListIn DEF ScanOwn, Allocated
  <2>3. CASE InList(b, list.res, heap)
    BY <1>2, <2>3, ListIn DEF ScanOwn, Allocated
  <2> QED
    BY <1>2, <2>1, <2>2, <2>3 DEF InScan
<1>3. ConvOwn => \A b : InConv(b) => b \in Allocated
  BY DEF ConvOwn, InConv, InChain, IsIn, Allocated
<1> QED
  BY <1>1, <1>2, <1>3

\* What glob has stays when its blocks do.
LEMMA GlobKept ==
    ASSUME GlobOwn, running \notin {"glob", "crashed"}, running' # "glob",
           g' = g, call' = call, stack' = stack, Allocated \subseteq Addresses,
           \A b \in Allocated : InGlob(b) => b \in Allocated' /\ heap'[b] = heap[b]
    PROVE  /\ GlobOwn'
           /\ \A b : InGlob(b)' <=> InGlob(b)
           /\ KeepsVector
<1>1. stack = << >> /\ call = NoCall /\ PathsOwn(g, << >>, heap)
  BY CallNoCall DEF GlobOwn
<1>2. g.pathv # NULL => g.pathv \in DOMAIN heap' /\ heap'[g.pathv] = heap[g.pathv]
  BY <1>1 DEF PathsOwn, IsIn, InGlob, InVector, Allocated
<1>3. \A i \in 1..g.pathc : /\ VecPath(g, heap, i) \in DOMAIN heap'
                            /\ heap'[VecPath(g, heap, i)] = heap[VecPath(g, heap, i)]
  BY <1>1 DEF PathsOwn, IsIn, InGlob, InVector, Allocated
<1>4. \A i \in 1..g.pathc : g.pathv # NULL
  BY <1>1 DEF PathsOwn
<1>5. \A i \in 1..g.pathc : VecPath(g, heap', i) = VecPath(g, heap, i)
  BY <1>2, <1>4 DEF VecPath
<1>6. PathsOwn(g, << >>, heap')
  <2>1. g.pathv # NULL => IsIn(heap', g.pathv, "vector")
    BY <1>1, <1>2 DEF PathsOwn, IsIn
  <2>2. \A i \in 1..g.pathc : IsIn(heap', VecPath(g, heap, i), "path")
    BY <1>1, <1>3 DEF PathsOwn, IsIn
  <2> QED
    BY <1>1, <1>2, <1>5, <2>1, <2>2 DEF PathsOwn
<1>7. GlobOwn'
  BY <1>1, <1>6, NothingInStack, CallNoCall DEF GlobOwn
<1>8. \A b : InVector(b, g', heap') <=> InVector(b, g, heap)
  BY <1>5 DEF InVector
<1>9. \A b : InGlob(b)' <=> InGlob(b)
  BY <1>8 DEF InGlob
<1> QED
  BY <1>3, <1>5, <1>7, <1>9 DEF KeepsVector

LEMMA ScanKept ==
    ASSUME ScanOwn, running # "scandir", running' # "scandir",
           scan' = scan, list' = list, Allocated \subseteq Addresses,
           \A b \in Allocated : InScan(b) => b \in Allocated' /\ heap'[b] = heap[b]
    PROVE  ScanOwn' /\ \A b : InScan(b)' <=> InScan(b)
<1>1. scan = NoScan /\ ListOwn(list.res, list.n, heap)
  BY DEF ScanOwn
<1>2. KeepsList(list.res, heap, heap')
  <2> SUFFICES ASSUME NEW b, InList(b, list.res, heap)
               PROVE  b \in DOMAIN heap' /\ heap'[b] = heap[b]
    BY DEF KeepsList
  <2>1. InScan(b) /\ b \in DOMAIN heap
    BY <1>1, ListIn DEF InScan
  <2> QED
    BY <2>1 DEF Allocated
<1>3. /\ ListOwn(list.res, list.n, heap')
      /\ \A b : InList(b, list.res, heap') <=> InList(b, list.res, heap)
  BY <1>1, <1>2, ListStays
<1>4. ScanOwn'
  BY <1>1, <1>3, NoListOwn, NoScanRecord DEF ScanOwn
<1>5. \A b : InScan(b)' <=> InScan(b)
  BY <1>1, <1>3, NoListOwn DEF InScan
<1> QED
  BY <1>4, <1>5

LEMMA ConvKept ==
    ASSUME ConvOwn, running \notin {"wrapper", "crashed"}, chain' = chain
    PROVE  ConvOwn' /\ \A b : InConv(b)' <=> InConv(b)
<1>1. chain = << >>
  BY DEF ConvOwn
<1> QED
  BY <1>1 DEF ConvOwn, InConv

LEMMA GlobRuns ==
    ASSUME GlobNext
    PROVE  running \in {"caller", "glob"} /\ running' \in {"caller", "glob", "crashed"}
<1>1. CASE \E p \in Patterns, fs \in FlagSets, offs \in Offsets : glob(p, fs, offs)
  BY <1>1 DEF glob, Calls
<1>2. CASE match_in_dir
  <2>1. running = "glob"
    BY <1>2 DEF match_in_dir, OpenDir, OpenDirFails, FoundDirectory, NameBuf, NameBufFails,
        WriteNameCrashes, Skip, Descend, Found, EndOfDirectory, ReadFails,
        Entering, Searching, HasEntry, MayWriteName, NameWritten, Matching
  <2>2. running' \in {running, "crashed"}
    BY <1>2 DEF match_in_dir, OpenDir, OpenDirFails, FoundDirectory, NameBuf, NameBufFails,
        WriteNameCrashes, Skip, Descend, Found, EndOfDirectory, ReadFails
  <2> QED
    BY <2>1, <2>2
<1>3. CASE NoSpace \/ NoMatch \/ NoCheck \/ MakeVector \/ VectorFails
  BY <1>3 DEF NoSpace, NoMatch, NoCheck, MakeVector, VectorFails, Collecting,
      GlobReturns, ReturnsToCaller
<1>4. CASE globfree
  BY <1>4 DEF globfree
<1> QED
  BY <1>1, <1>2, <1>3, <1>4 DEF GlobNext

LEMMA ScanRuns ==
    ASSUME ScanNext
    PROVE  running \in {"caller", "scandir"} /\ running' \in {"caller", "scandir"}
<1>1. CASE \E listing \in Listings : ScanOpenFails(listing)
  BY <1>1 DEF ScanOpenFails
<1>2. CASE \E listing \in Listings, cmp \in BOOLEAN : ScanOpens(listing, cmp)
  BY <1>2 DEF ScanOpens, Calls
<1>3. CASE SelRejects \/ Copy
  BY <1>3 DEF SelRejects, Copy, Candidates, Continues
<1>4. CASE ScanEnds \/ ScanReadFails \/ ScanAllocFails
  BY <1>4 DEF ScanEnds, ScanReadFails, ScanAllocFails, Candidates, ScanReturns, ReturnsToCaller
<1>5. CASE ListFreed
  BY <1>5 DEF ListFreed, Continues
<1> QED
  BY <1>1, <1>2, <1>3, <1>4, <1>5 DEF ScanNext

LEMMA ConvRuns ==
    ASSUME ConvNext
    PROVE  running \in {"caller", "wrapper"} /\ running' \in {"caller", "wrapper", "crashed"}
<1>1. CASE convbuf_init
  BY <1>1 DEF convbuf_init, Calls
<1>2. CASE \/ \E t \in WideTexts : convbuf_w2a(t)
           \/ \E t \in ByteTexts : convbuf_a2w(t)
  <2>1. PICK fits, bytes, size : Convert(fits, bytes, size)
    BY <1>2 DEF convbuf_w2a, convbuf_a2w
  <2> QED
    BY <2>1 DEF Convert, IntoArray, IntoBlock, BlockFails
<1>3. CASE convbuf_clear
  BY <1>3 DEF convbuf_clear, ReturnsToCaller
<1> QED
  BY <1>1, <1>2, <1>3 DEF ConvNext

\* Faults are counted.
LEMMA FaultsGrow ==
    ASSUME faults \in Nat, Next
    PROVE  faults' \in Nat /\ faults <= faults'
<1>0. ASSUME NEW k \in Nat, faults' = faults + k PROVE faults' \in Nat /\ faults <= faults'
  BY <1>0
<1> SUFFICES \E k \in Nat : faults' = faults + k
  BY <1>0
<1> USE DEF Fault, NoFault, Faults
<1>1. CASE GlobNext
  <2>1. CASE \E p \in Patterns, fs \in FlagSets, offs \in Offsets : glob(p, fs, offs)
    BY <2>1 DEF glob
  <2>2. ASSUME NEW path, NEW leaving, NEW k \in Nat, AppendPath(path, leaving, k)
        PROVE  \E n \in Nat : faults' = faults + n
    <3>1. faults' = faults + k \/ faults' = faults + (k + 1)
      BY <2>2 DEF AppendPath
    <3>2. k + 1 \in Nat
      OBVIOUS
    <3> QED
      BY <3>1, <3>2
  <2>3. CASE OpenDirFails
    <3>1. faults' = faults + 1 \/ AppendPath(Path(Top.d, TRUE), TRUE, 1)
      BY <2>3 DEF OpenDirFails
    <3> QED
      BY <2>2, <3>1
  <2>4. CASE FoundDirectory
    <3>1. AppendPath(Path(Top.d, TRUE), TRUE, 0)
      BY <2>4 DEF FoundDirectory
    <3> QED
      BY <2>2, <3>1
  <2>5. CASE Found
    <3>1. \E path : AppendPath(path, FALSE, 0)
      BY <2>5 DEF Found
    <3> QED
      BY <2>2, <3>1
  <2>6. CASE OpenDir \/ NameBuf \/ NameBufFails \/ WriteNameCrashes
    BY <2>6 DEF OpenDir, NameBuf, NameBufFails, WriteNameCrashes
  <2>7. CASE Skip \/ Descend \/ EndOfDirectory \/ ReadFails
    BY <2>7 DEF Skip, Descend, EndOfDirectory, ReadFails
  <2>8. CASE NoSpace \/ NoMatch
    BY <2>8 DEF NoSpace, NoMatch
  <2>9. CASE NoCheck
    BY <2>9 DEF NoCheck
  <2>10. CASE MakeVector
    BY <2>10 DEF MakeVector
  <2>11. CASE VectorFails
    BY <2>11 DEF VectorFails
  <2>12. CASE globfree
    BY <2>12 DEF globfree
  <2> QED
    BY <1>1, <2>1, <2>3, <2>4, <2>5, <2>6, <2>7, <2>8, <2>9, <2>10, <2>11, <2>12
       DEF GlobNext, match_in_dir
<1>2. CASE ScanNext
  <2>1. CASE \E listing \in Listings : ScanOpenFails(listing)
    BY <2>1 DEF ScanOpenFails
  <2>2. CASE \E listing \in Listings, cmp \in BOOLEAN : ScanOpens(listing, cmp)
    BY <2>2 DEF ScanOpens
  <2>3. CASE SelRejects
    BY <2>3 DEF SelRejects
  <2>4. CASE Copy
    BY <2>4 DEF Copy
  <2>5. CASE ScanEnds \/ ScanReadFails \/ ScanAllocFails
    BY <2>5 DEF ScanEnds, ScanReadFails, ScanAllocFails
  <2>6. CASE ListFreed
    BY <2>6 DEF ListFreed
  <2> QED
    BY <1>2, <2>1, <2>2, <2>3, <2>4, <2>5, <2>6 DEF ScanNext
<1>3. CASE ConvNext
  <2>1. CASE convbuf_init
    BY <2>1 DEF convbuf_init
  <2>2. CASE \/ \E t \in WideTexts : convbuf_w2a(t)
             \/ \E t \in ByteTexts : convbuf_a2w(t)
    <3>1. PICK fits, bytes, size : Convert(fits, bytes, size)
      BY <2>2 DEF convbuf_w2a, convbuf_a2w
    <3> QED
      BY <3>1 DEF Convert, IntoArray, IntoBlock, BlockFails
  <2>3. CASE convbuf_clear
    BY <2>3 DEF convbuf_clear
  <2> QED
    BY <1>3, <2>1, <2>2, <2>3 DEF ConvNext
<1> QED
  BY <1>1, <1>2, <1>3 DEF Next

LEMMA HeapOwnGlob ==
    ASSUME HeapOwn, GlobNext, UNCHANGED <<scanVars, convVars>>,
           faults' \in Nat, faults <= faults'
    PROVE  HeapOwn' /\ VectorGrows
<1>1. /\ Allocated \subseteq Addresses /\ faults \in Nat /\ GlobOwn /\ ScanOwn /\ ConvOwn
      /\ \A b \in Allocated : ~(InGlob(b) /\ InScan(b)) /\ ~(InGlob(b) /\ InConv(b))
                            /\ ~(InScan(b) /\ InConv(b))
      /\ \A b \in Allocated : \/ InGlob(b) \/ InScan(b) \/ InConv(b)
                              \/ heap[b].is = "namebuf" /\ faults > 0
  BY DEF HeapOwn
<1>2. running \in {"caller", "glob"} /\ running' \in {"caller", "glob", "crashed"}
  BY GlobRuns
<1>3. GlobOwn' /\ GlobChange
  BY <1>1, GlobStep
<1>4. /\ Allocated' \subseteq Addresses
      /\ \A b \in Allocated : ~InGlob(b) => b \in Allocated' /\ heap'[b] = heap[b] /\ ~InGlob(b)'
      /\ \A b \in Allocated' : ~InGlob(b)' =>
              \/ b \in Allocated /\ ~InGlob(b)
              \/ heap'[b].is = "namebuf" /\ faults' > 0
  BY <1>3 DEF GlobChange
<1>5. ScanOwn' /\ \A b : InScan(b)' <=> InScan(b)
  <2>1. \A b \in Allocated : InScan(b) => b \in Allocated' /\ heap'[b] = heap[b]
    BY <1>1, <1>4
  <2>2. running # "scandir" /\ running' # "scandir" /\ scan' = scan /\ list' = list
    BY <1>2 DEF scanVars
  <2> QED
    BY <1>1, <2>1, <2>2, ScanKept
<1>6. ConvOwn' /\ \A b : InConv(b)' <=> InConv(b)
  <2>1. running \notin {"wrapper", "crashed"} /\ chain' = chain
    BY <1>2 DEF convVars
  <2> QED
    BY <1>1, <2>1, ConvKept
<1>7. NULL \notin Allocated'
  BY <1>4, AddressAssumption DEF NULL
<1>8. \A b \in Allocated' : (InScan(b) \/ InConv(b)) => b \in Allocated
  BY <1>1, <1>7, OwnedAreAllocated
<1>9. \A b \in Allocated' : /\ ~(InGlob(b)' /\ InScan(b)') /\ ~(InGlob(b)' /\ InConv(b)')
                            /\ ~(InScan(b)' /\ InConv(b)')
  BY <1>1, <1>4, <1>5, <1>6, <1>8
<1>10. \A b \in Allocated' : \/ InGlob(b)' \/ InScan(b)' \/ InConv(b)'
                             \/ heap'[b].is = "namebuf" /\ faults' > 0
  BY <1>1, <1>4, <1>5, <1>6
<1>11. HeapOwn'
  BY <1>3, <1>4, <1>5, <1>6, <1>9, <1>10 DEF HeapOwn
<1> QED
  BY <1>3, <1>11 DEF GlobChange

LEMMA HeapOwnScan ==
    ASSUME HeapOwn, ScanNext, UNCHANGED <<globVars, convVars>>,
           faults' \in Nat, faults <= faults'
    PROVE  HeapOwn' /\ VectorGrows
<1>1. /\ Allocated \subseteq Addresses /\ faults \in Nat /\ GlobOwn /\ ScanOwn /\ ConvOwn
      /\ \A b \in Allocated : ~(InGlob(b) /\ InScan(b)) /\ ~(InGlob(b) /\ InConv(b))
                            /\ ~(InScan(b) /\ InConv(b))
      /\ \A b \in Allocated : \/ InGlob(b) \/ InScan(b) \/ InConv(b)
                              \/ heap[b].is = "namebuf" /\ faults > 0
  BY DEF HeapOwn
<1>2. running \in {"caller", "scandir"} /\ running' \in {"caller", "scandir"}
  BY ScanRuns
<1>3. ScanOwn' /\ ScanChange
  BY <1>1, ScanStep
<1>4. /\ Allocated' \subseteq Addresses
      /\ \A b \in Allocated : ~InScan(b) => b \in Allocated' /\ heap'[b] = heap[b] /\ ~InScan(b)'
      /\ \A b \in Allocated' : ~InScan(b)' => b \in Allocated /\ ~InScan(b)
  BY <1>3 DEF ScanChange
<1>5. /\ GlobOwn' /\ \A b : InGlob(b)' <=> InGlob(b)
      /\ VectorGrows
  <2>1. \A b \in Allocated : InGlob(b) => b \in Allocated' /\ heap'[b] = heap[b]
    BY <1>1, <1>4
  <2>2. running \notin {"glob", "crashed"} /\ running' # "glob"
        /\ g' = g /\ call' = call /\ stack' = stack
    BY <1>2 DEF globVars
  <2>3. GlobOwn' /\ (\A b : InGlob(b)' <=> InGlob(b)) /\ KeepsVector
    BY <1>1, <2>1, <2>2, GlobKept
  <2>4. VectorGrows
    BY <1>1, <2>2, <2>3, VectorStays DEF GlobOwn
  <2> QED
    BY <2>3, <2>4
<1>6. ConvOwn' /\ \A b : InConv(b)' <=> InConv(b)
  <2>1. running \notin {"wrapper", "crashed"} /\ chain' = chain
    BY <1>2 DEF convVars
  <2> QED
    BY <1>1, <2>1, ConvKept
<1>7. NULL \notin Allocated' /\ NOBUF \notin Allocated'
  BY <1>4, AddressAssumption DEF NULL, NOBUF
<1>8. \A b \in Allocated' : (InGlob(b) \/ InConv(b)) => b \in Allocated
  BY <1>1, <1>7, OwnedAreAllocated
<1>9. \A b \in Allocated' : /\ ~(InGlob(b)' /\ InScan(b)') /\ ~(InGlob(b)' /\ InConv(b)')
                            /\ ~(InScan(b)' /\ InConv(b)')
  BY <1>1, <1>4, <1>5, <1>6, <1>8
<1>10. \A b \in Allocated' : \/ InGlob(b)' \/ InScan(b)' \/ InConv(b)'
                             \/ heap'[b].is = "namebuf" /\ faults' > 0
  BY <1>1, <1>4, <1>5, <1>6
<1>11. HeapOwn'
  BY <1>3, <1>4, <1>5, <1>6, <1>9, <1>10 DEF HeapOwn
<1> QED
  BY <1>5, <1>11

LEMMA HeapOwnConv ==
    ASSUME HeapOwn, ConvNext, UNCHANGED <<globVars, scanVars>>,
           faults' \in Nat, faults <= faults'
    PROVE  HeapOwn' /\ VectorGrows
<1>1. /\ Allocated \subseteq Addresses /\ faults \in Nat /\ GlobOwn /\ ScanOwn /\ ConvOwn
      /\ \A b \in Allocated : ~(InGlob(b) /\ InScan(b)) /\ ~(InGlob(b) /\ InConv(b))
                            /\ ~(InScan(b) /\ InConv(b))
      /\ \A b \in Allocated : \/ InGlob(b) \/ InScan(b) \/ InConv(b)
                              \/ heap[b].is = "namebuf" /\ faults > 0
  BY DEF HeapOwn
<1>2. running \in {"caller", "wrapper"} /\ running' \in {"caller", "wrapper", "crashed"}
  BY ConvRuns
<1>3. ConvOwn' /\ ConvChange
  BY <1>1, ConvOwnStep
<1>4. /\ Allocated' \subseteq Addresses
      /\ \A b \in Allocated : ~InConv(b) => b \in Allocated' /\ heap'[b] = heap[b] /\ ~InConv(b)'
      /\ \A b \in Allocated' : ~InConv(b)' => b \in Allocated /\ ~InConv(b)
  BY <1>3 DEF ConvChange
<1>5. /\ GlobOwn' /\ \A b : InGlob(b)' <=> InGlob(b)
      /\ VectorGrows
  <2>1. \A b \in Allocated : InGlob(b) => b \in Allocated' /\ heap'[b] = heap[b]
    BY <1>1, <1>4
  <2>2. running \notin {"glob", "crashed"} /\ running' # "glob"
        /\ g' = g /\ call' = call /\ stack' = stack
    BY <1>2 DEF globVars
  <2>3. GlobOwn' /\ (\A b : InGlob(b)' <=> InGlob(b)) /\ KeepsVector
    BY <1>1, <2>1, <2>2, GlobKept
  <2>4. VectorGrows
    BY <1>1, <2>2, <2>3, VectorStays DEF GlobOwn
  <2> QED
    BY <2>3, <2>4
<1>6. ScanOwn' /\ \A b : InScan(b)' <=> InScan(b)
  <2>1. \A b \in Allocated : InScan(b) => b \in Allocated' /\ heap'[b] = heap[b]
    BY <1>1, <1>4
  <2>2. running # "scandir" /\ running' # "scandir" /\ scan' = scan /\ list' = list
    BY <1>2 DEF scanVars
  <2> QED
    BY <1>1, <2>1, <2>2, ScanKept
<1>7. NULL \notin Allocated' /\ NOBUF \notin Allocated'
  BY <1>4, AddressAssumption DEF NULL, NOBUF
<1>8. \A b \in Allocated' : (InGlob(b) \/ InScan(b)) => b \in Allocated
  BY <1>1, <1>7, OwnedAreAllocated
<1>9. \A b \in Allocated' : /\ ~(InGlob(b)' /\ InScan(b)') /\ ~(InGlob(b)' /\ InConv(b)')
                            /\ ~(InScan(b)' /\ InConv(b)')
  BY <1>1, <1>4, <1>5, <1>6, <1>8
<1>10. \A b \in Allocated' : \/ InGlob(b)' \/ InScan(b)' \/ InConv(b)'
                             \/ heap'[b].is = "namebuf" /\ faults' > 0
  BY <1>1, <1>4, <1>5, <1>6
<1>11. HeapOwn'
  BY <1>3, <1>4, <1>5, <1>6, <1>9, <1>10 DEF HeapOwn
<1> QED
  BY <1>5, <1>11

LEMMA HeapOwnStep ==
    ASSUME HeapOwn, Next
    PROVE  HeapOwn' /\ VectorGrows
<1>1. faults' \in Nat /\ faults <= faults'
  BY FaultsGrow DEF HeapOwn
<1> QED
  BY <1>1, HeapOwnGlob, HeapOwnScan, HeapOwnConv, Zenon DEF Next

LEMMA HeapOwnHolds == Spec => []HeapOwn
<1>1. Init => HeapOwn
  <2> SUFFICES ASSUME Init PROVE HeapOwn
    OBVIOUS
  <2>1. /\ heap = << >> /\ running = "caller" /\ faults = 0 /\ call = NoCall /\ stack = << >>
        /\ g = [pathc |-> 0, pathv |-> NULL, offs |-> 0, known |-> FALSE]
        /\ scan = NoScan /\ list = NoList /\ chain = << >>
    BY DEF Init, HeapInit, GlobInit, ScanInit, ConvInit
  <2>2. Allocated = {}
    BY <2>1 DEF Allocated
  <2>3. PathsOwn(g, << >>, heap)
    <3>1. << >> \in Seq(Nat) /\ DOMAIN << >> = {} /\ 1..0 = {}
      OBVIOUS
    <3>2. g.pathc = 0 /\ g.pathv = NULL
          /\ g \in [pathc : Nat, pathv : Nat, offs : Nat, known : BOOLEAN]
      BY <2>1 DEF NULL
    <3> QED
      BY <3>1, <3>2 DEF PathsOwn
  <2>4. GlobOwn
    BY <2>1, <2>3, NothingInStack, CallNoCall DEF GlobOwn
  <2>5. ScanOwn
    BY <2>1, NoListOwn, NoScanRecord DEF ScanOwn, NULL
  <2>6. ConvOwn
    BY <2>1 DEF ConvOwn
  <2> QED
    BY <2>1, <2>2, <2>4, <2>5, <2>6 DEF HeapOwn
<1>2. HeapOwn /\ [Next]_vars => HeapOwn'
  <2> SUFFICES ASSUME HeapOwn, [Next]_vars PROVE HeapOwn'
    OBVIOUS
  <2>1. CASE Next
    BY <2>1, HeapOwnStep
  <2>2. CASE UNCHANGED vars
    <3>1. UNCHANGED heapVars /\ UNCHANGED globVars /\ UNCHANGED scanVars /\ UNCHANGED convVars
      BY <2>2, Zenon DEF vars
    <3>2. /\ heap' = heap /\ running' = running /\ faults' = faults /\ g' = g /\ call' = call
          /\ stack' = stack /\ scan' = scan /\ list' = list /\ chain' = chain
      BY <3>1 DEF heapVars, globVars, scanVars, convVars
    <3> QED
      BY <3>2 DEF HeapOwn, GlobOwn, ScanOwn, ConvOwn, InGlob, InScan, InConv, Allocated
  <2> QED
    BY <2>1, <2>2
<1> QED
  BY <1>1, <1>2, PTL DEF Spec

\* The vector and its paths are as many blocks.
LEMMA PathsCounted ==
    ASSUME PathsOwn(g, << >>, heap)
    PROVE  Cardinality(Paths) = (IF g.pathv = NULL THEN 0 ELSE g.pathc + 1)
<1>1. CASE g.pathv = NULL
  BY <1>1, FS_EmptySet DEF Paths
<1>2. CASE g.pathv # NULL
  <2> DEFINE n == g.pathc
             T == {VecPath(g, heap, i) : i \in 1..n}
             f == [i \in 1..n |-> VecPath(g, heap, i)]
  <2>1. n \in Nat /\ \A i, j \in 1..n : VecPath(g, heap, i) = VecPath(g, heap, j) => i = j
    BY DEF PathsOwn
  <2>2. f \in Bijection(1..n, T)
    BY <2>1 DEF Bijection, Injection, Surjection, IsInjective
  <2>3. IsFiniteSet(1..n) /\ Cardinality(1..n) = n
    BY <2>1, FS_Interval, SMTT(30)
  <2> HIDE DEF f, T, n
  <2>4. ExistsBijection(1..n, T)
    BY <2>2 DEF ExistsBijection
  <2>5. IsFiniteSet(T) /\ Cardinality(T) = n
    BY <2>3, <2>4, FS_Bijection
  <2>6. g.pathv \notin T
    <3>1. \A i \in 1..n : IsIn(heap, VecPath(g, heap, i), "path")
      BY DEF PathsOwn, n
    <3>2. IsIn(heap, g.pathv, "vector")
      BY <1>2 DEF PathsOwn
    <3> QED
      BY <3>1, <3>2 DEF IsIn, T
  <2>7. Paths = T \cup {g.pathv}
    BY <1>2 DEF Paths, T, VecPath, Vector, n
  <2> QED
    BY <1>2, <2>5, <2>6, <2>7, FS_AddElement DEF n
<1> QED
  BY <1>1, <1>2

LEMMA OwnedIsReachable ==
    ASSUME HeapOwn, running = "caller"
    PROVE  NothingLost
<1>1. /\ Allocated \subseteq Addresses /\ GlobOwn /\ ScanOwn /\ ConvOwn
      /\ \A b \in Allocated : ~(InGlob(b) /\ InScan(b))
      /\ \A b \in Allocated : \/ InGlob(b) \/ InScan(b) \/ InConv(b)
                              \/ heap[b].is = "namebuf" /\ faults > 0
  BY DEF HeapOwn
<1>2. /\ stack = << >> /\ PathsOwn(g, << >>, heap) /\ call.chain = << >>
      /\ scan = NoScan /\ chain = << >> /\ ListOwn(list.res, list.n, heap)
  BY <1>1, CallNoCall DEF GlobOwn, ScanOwn, ConvOwn
<1>3. NULL \notin Allocated /\ NOBUF \notin Allocated
  BY <1>1, AddressAssumption DEF NULL, NOBUF
<1>4. \A b : b # NULL => (b \in Paths <=> InGlob(b))
  <2>1. g.pathv = NULL => 1..g.pathc = {}
    BY <1>2 DEF PathsOwn
  <2>2. \A b : InGlob(b) <=> InVector(b, g, heap)
    BY <1>2, NothingInStack, NothingInChain DEF InGlob
  <2> QED
    BY <2>1, <2>2 DEF InVector, VecPath, Vector, Paths
<1>5. \A b : b # NULL => (b \in List <=> InScan(b))
  <2>1. \A b : b # NULL => (InScan(b) <=> InList(b, list.res, heap))
    BY <1>2, NoListOwn DEF InScan
  <2>2. list.res # NULL => DOMAIN heap[list.res].slots = 1..list.n
    BY <1>2 DEF ListOwn
  <2> QED
    BY <2>1, <2>2 DEF InList, List
<1>6. NULL \notin Paths /\ NOBUF \notin Paths
  <2>1. NULL \notin DOMAIN heap /\ NOBUF \notin DOMAIN heap
    BY <1>3 DEF Allocated
  <2> QED
    BY <1>2, <2>1, SMTT(30) DEF Paths, PathsOwn, IsIn, VecPath, Vector
<1>7. NULL \notin List
  <2>1. NULL \notin DOMAIN heap
    BY <1>3 DEF Allocated
  <2>2. list.res # NULL => DOMAIN heap[list.res].slots = 1..list.n
    BY <1>2 DEF ListOwn
  <2> QED
    BY <1>2, <2>1, <2>2 DEF List, ListOwn, IsIn
<1>8. Paths \subseteq Allocated
  BY <1>1, <1>4, <1>6, OwnedAreAllocated
<1>9. List \subseteq Allocated
  BY <1>1, <1>5, <1>7, OwnedAreAllocated
<1>10. Paths \cap List = {}
  BY <1>1, <1>4, <1>5, <1>6, <1>8
<1>11. \A b \in Allocated \ (Paths \cup List) : heap[b].is = "namebuf" /\ faults > 0
  <2>1. \A b : ~InConv(b)
    BY <1>2, NothingInChain DEF InConv
  <2> QED
    BY <1>1, <1>3, <1>4, <1>5, <2>1
<1>12. Cardinality(Paths) = (IF g.pathv = NULL THEN 0 ELSE g.pathc + 1)
  BY <1>2, PathsCounted
<1> QED
  BY <1>8, <1>9, <1>10, <1>11, <1>12 DEF NothingLost

\* Between calls of glob, globfree, scandir and the wrappers every block that is
\* allocated can be freed by the caller, and what it would free is allocated once,
\* except for name buffers lost at glob.c:125 and 139 after a failure: in particular
\* scandir frees all its copies when it fails (scandir.c:36-40).
THEOREM CallsLoseNothing == Spec => []NothingLost
<1>1. HeapOwn => NothingLost
  BY OwnedIsReachable DEF NothingLost
<1> QED
  BY <1>1, HeapOwnHolds, PTL

LEMMA PrefixOf ==
    ASSUME NEW s, NEW t, NEW n \in Nat, NEW m \in Nat, n <= m,
           s = [i \in 1..n |-> s[i]], t = [i \in 1..m |-> t[i]],
           \A i \in 1..n : s[i] = t[i]
    PROVE  IsPrefix(s, t)
<1>1. Len(s) = n /\ Len(t) = m
  OBVIOUS
<1>2. SubSeq(s, 1, n) = [i \in 1..n |-> s[i]] /\ SubSeq(t, 1, n) = [i \in 1..n |-> t[i]]
  OBVIOUS
<1>3. [i \in 1..n |-> s[i]] = [i \in 1..n |-> t[i]]
  OBVIOUS
<1> QED
  BY <1>1, <1>2, <1>3 DEF IsPrefix

LEMMA ResultsAre ==
    ASSUME PathsOwn(g, call.chain, heap)
    PROVE  g.pathc \in Nat /\ Results = [i \in 1..g.pathc |-> heap[VecPath(g, heap, i)]]
<1>1. g.pathc \in Nat /\ (g.pathv = NULL => g.pathc = 0)
  BY DEF PathsOwn
<1>2. CASE g.pathv = NULL
  <2>1. g.pathc = 0 /\ Results = << >> /\ 1..0 = {}
    BY <1>1, <1>2 DEF Results
  <2>2. [i \in 1..g.pathc |-> heap[VecPath(g, heap, i)]] = << >>
    BY <2>1
  <2> QED
    BY <1>1, <2>1, <2>2
<1>3. CASE g.pathv # NULL
  BY <1>1, <1>3 DEF Results, VecPath, Vector
<1> QED
  BY <1>2, <1>3

LEMMA GrowingIsPrefix ==
    ASSUME HeapOwn, HeapOwn', VectorGrows
    PROVE  IsPrefix(Results, Results') \/ g'.pathc = 0
<1>1. PathsOwn(g, call.chain, heap) /\ PathsOwn(g, call.chain, heap)'
  BY DEF HeapOwn, GlobOwn
<1>2. g.pathc \in Nat /\ Results = [i \in 1..g.pathc |-> heap[VecPath(g, heap, i)]]
  BY <1>1, ResultsAre
<1>3. g'.pathc \in Nat /\ Results' = [i \in 1..g'.pathc |-> heap'[VecPath(g', heap', i)]]
  <2>1. (PathsOwn(g, call.chain, heap) => g.pathc \in Nat
            /\ Results = [i \in 1..g.pathc |-> heap[VecPath(g, heap, i)]])'
    BY ResultsAre, PTL
  <2> QED
    BY <1>1, <2>1
<1>4. CASE g.pathc <= g'.pathc /\ KeepsVector
  <2> DEFINE s == Results
             t == Results'
  <2>1. \A i \in 1..g.pathc : s[i] = t[i]
    BY <1>2, <1>3, <1>4 DEF KeepsVector
  <2>2. s = [i \in 1..g.pathc |-> s[i]] /\ t = [i \in 1..g'.pathc |-> t[i]]
    BY <1>2, <1>3
  <2> HIDE DEF s, t
  <2>3. IsPrefix(s, t)
    BY <1>2, <1>3, <1>4, <2>1, <2>2, PrefixOf, ZenonT(30)
  <2> QED
    BY <2>3 DEF s, t
<1> QED
  BY <1>4 DEF VectorGrows

\* Paths that the caller has in glob_t stay as they are and where they are until it
\* frees them: a call with GLOB_APPEND, also one that fails, adds to them behind
\* (glob.c:219-242), and no other call takes a block that is in use.
THEOREM CallsKeepResults == Spec => ResultsOnlyGrow
<1>1. HeapOwn /\ HeapOwn' /\ [Next]_vars
        => [IsPrefix(Results, Results') \/ g'.pathc = 0]_<<heap, g>>
  <2> SUFFICES ASSUME HeapOwn, HeapOwn', [Next]_vars
               PROVE  [IsPrefix(Results, Results') \/ g'.pathc = 0]_<<heap, g>>
    OBVIOUS
  <2>1. CASE Next
    <3>1. VectorGrows
      BY <2>1, HeapOwnStep
    <3> QED
      BY <3>1, GrowingIsPrefix
  <2>2. CASE UNCHANGED vars
    <3>1. UNCHANGED heapVars /\ UNCHANGED globVars
      BY <2>2, Zenon DEF vars
    <3>2. heap' = heap /\ g' = g
      BY <3>1 DEF heapVars, globVars
    <3> QED
      BY <3>2
  <2> QED
    BY <2>1, <2>2
<1> QED
  BY <1>1, HeapOwnHolds, PTL DEF Spec, ResultsOnlyGrow

-----------------------------------------------------------------------------
(* What scandir has copied *)

LEMMA LeastElement ==
    ASSUME NEW T \in SUBSET Nat, T # {}
    PROVE  \E x \in T : \A y \in T : x <= y
<1> DEFINE R == OpToRel(<, Nat)
<1>1. IsWellFoundedOn(R, Nat)
  BY NatLessThanWellFounded, Zenon
<1>2. \A x, y \in Nat : <<x, y>> \in R <=> x < y
  BY DEF OpToRel
<1> HIDE DEF R
<1>3. PICK x \in T : \A y \in T : ~(<<y, x>> \in R)
  BY <1>1, WFMin
<1>4. \A y \in T : x <= y
  <2> SUFFICES ASSUME NEW y \in T, ~(x <= y) PROVE FALSE
    OBVIOUS
  <2>1. x \in Nat /\ y \in Nat /\ y < x
    OBVIOUS
  <2> QED
    BY <1>2, <1>3, <2>1
<1> QED
  BY <1>4

\* Induction up to n, over the set of the numbers for which something holds.
LEMMA UpTo ==
    ASSUME NEW n \in Nat, NEW S, 0 \in S, \A k \in 1..n : k - 1 \in S => k \in S
    PROVE  0..n \subseteq S
<1> SUFFICES ASSUME (0..n) \ S # {} PROVE FALSE
  OBVIOUS
<1> DEFINE T == (0..n) \ S
<1>1. T \in SUBSET Nat /\ T # {}
  OBVIOUS
<1>2. PICK k \in T : \A j \in T : k <= j
  BY <1>1, LeastElement
<1>3. k \in 1..n /\ k - 1 \in 0..n /\ k - 1 < k
  BY <1>2
<1>4. k - 1 \in S
  BY <1>2, <1>3
<1> QED
  BY <1>2, <1>3, <1>4

\* One entry more.
WantedNext(w, name) == IF name \in Selected THEN Append(w, name) ELSE w

\* There is a function as Wanted recursively describes it.
LEMMA WantedExists ==
    ASSUME NEW listing \in Seq(Nat)
    PROVE  Wanted(listing) = [n \in 0..Len(listing) |->
                IF n = 0 THEN << >> ELSE WantedNext(Wanted(listing)[n - 1], listing[n])]
<1> DEFINE N == Len(listing)
           Is(f, m) == f = [n \in 0..m |-> IF n = 0 THEN << >>
                                           ELSE WantedNext(f[n - 1], listing[n])]
           Has(m) == \E f : Is(f, m)
           S == {m \in 0..N : Has(m)}
<1>0. N \in Nat
  OBVIOUS
<1>1. 0 \in S
  <2> DEFINE f == [n \in 0..0 |-> << >>]
  <2>1. Is(f, 0)
    OBVIOUS
  <2>2. Has(0)
    BY <2>1
  <2> HIDE DEF Has
  <2> QED
    BY <1>0, <2>2
<1>2. \A k \in 1..N : k - 1 \in S => k \in S
  <2> SUFFICES ASSUME NEW k \in 1..N, Has(k - 1) PROVE Has(k)
    <3> HIDE DEF Has
    <3> QED
      BY <1>0
  <2>1. PICK e : Is(e, k - 1)
    OBVIOUS
  <2> DEFINE f == [n \in 0..k |-> IF n < k THEN e[n] ELSE WantedNext(e[k - 1], listing[k])]
  <2>2. k \in Nat /\ k - 1 \in 0..(k - 1) /\ DOMAIN e = 0..(k - 1)
    BY <1>0, <2>1
  <2>3. \A n \in 0..(k - 1) : f[n] = e[n] /\ n \in 0..k /\ n # k
    BY <2>2
  <2>4. ASSUME NEW n \in 0..k
        PROVE  f[n] = IF n = 0 THEN << >> ELSE WantedNext(f[n - 1], listing[n])
    <3>1. CASE n < k
      <4>1. n \in 0..(k - 1) /\ (n # 0 => n - 1 \in 0..(k - 1))
        BY <2>2, <3>1
      <4>2. e[n] = IF n = 0 THEN << >> ELSE WantedNext(e[n - 1], listing[n])
        BY <2>1, <4>1
      <4> QED
        BY <2>3, <4>1, <4>2
    <3>2. CASE n = k
      <4>1. f[k] = WantedNext(e[k - 1], listing[k]) /\ k # 0
        BY <2>2
      <4>2. f[k - 1] = e[k - 1]
        BY <2>2, <2>3
      <4> QED
        BY <3>2, <4>1, <4>2
    <3> QED
      BY <2>2, <3>1, <3>2
  <2>5. f = [n \in 0..k |-> f[n]]
    OBVIOUS
  <2> HIDE DEF f
  <2>6. Is(f, k)
    BY <2>4, <2>5
  <2> QED
    BY <2>6
<1>3. N \in S
  <2>1. 0..N \subseteq S
    <3> HIDE DEF S
    <3> QED
      BY <1>0, <1>1, <1>2, UpTo
  <2>2. N \in 0..N
    BY <1>0
  <2> HIDE DEF S
  <2> QED
    BY <2>1, <2>2
<1>4. \E f : Is(f, N)
  <2>1. Has(N)
    <3> HIDE DEF Has
    <3> QED
      BY <1>3
  <2> QED
    BY <2>1
<1>5. Wanted(listing) = CHOOSE f : Is(f, N)
  BY DEF Wanted, WantedNext
<1>6. Is(Wanted(listing), N)
  BY <1>4, <1>5
<1> QED
  BY <1>6

LEMMA WantedSteps ==
    ASSUME NEW listing \in Seq(Nat)
    PROVE  /\ Wanted(listing)[0] = << >>
           /\ \A n \in 1..Len(listing) :
                Wanted(listing)[n] = WantedNext(Wanted(listing)[n - 1], listing[n])
           /\ \A n \in 0..Len(listing) : Wanted(listing)[n] \in Seq(Nat)
<1> DEFINE N == Len(listing)
           W == Wanted(listing)
           S == {n \in 0..N : W[n] \in Seq(Nat)}
<1>0. N \in Nat
  OBVIOUS
<1>1. W = [n \in 0..N |-> IF n = 0 THEN << >> ELSE WantedNext(W[n - 1], listing[n])]
  BY WantedExists
<1> HIDE DEF W
<1>2. W[0] = << >>
  BY <1>0, <1>1
<1>3. \A n \in 1..N : W[n] = WantedNext(W[n - 1], listing[n])
  <2> SUFFICES ASSUME NEW n \in 1..N PROVE W[n] = WantedNext(W[n - 1], listing[n])
    OBVIOUS
  <2>1. n \in 0..N /\ n # 0
    BY <1>0
  <2> QED
    BY <1>1, <2>1
<1>4. 0 \in S
  <2>1. << >> \in Seq(Nat) /\ 0 \in 0..N
    BY <1>0
  <2> QED
    BY <1>2, <2>1
<1>5. \A k \in 1..N : k - 1 \in S => k \in S
  <2> SUFFICES ASSUME NEW k \in 1..N, k - 1 \in S PROVE k \in S
    OBVIOUS
  <2>1. W[k - 1] \in Seq(Nat)
    OBVIOUS
  <2>2. listing[k] \in Nat
    OBVIOUS
  <2>3. WantedNext(W[k - 1], listing[k]) \in Seq(Nat)
    <3> DEFINE w == W[k - 1]
    <3> HIDE DEF w
    <3> QED
      BY <2>1, <2>2 DEF WantedNext, w
  <2>4. W[k] \in Seq(Nat)
    BY <1>3, <2>3
  <2> QED
    BY <2>4
<1>6. 0..N \subseteq S
  <2> HIDE DEF S
  <2> QED
    BY <1>0, <1>4, <1>5, UpTo
<1> QED
  BY <1>2, <1>3, <1>6 DEF W

\* The list res consists of copies of the names w.
CopiesAre(res, h, w) == \A i \in 1..Len(w) : h[h[res].slots[i]].name = w[i]

ScanTrue ==
    running = "scandir" =>
        /\ scan.listing \in Seq(Nat) /\ scan.next \in 1..(Len(scan.listing) + 1)
        /\ scan.before = scan.old_errno
        /\ scan.cnt = Len(Wanted(scan.listing)[scan.next - 1])
        /\ CopiesAre(scan.names, heap, Wanted(scan.listing)[scan.next - 1])

\* The names of an array that qsort has changed are the names of the array, arranged
\* in the same way.
LEMMA NamesArranged ==
    ASSUME NEW w \in Seq(Nat), NEW h, NEW res, CopiesAre(res, h, w),
           h[res].slots \in Seq(Nat), Len(h[res].slots) = Len(w), NEW s \in qsort(h[res].slots)
    PROVE  [i \in 1..Len(w) |-> h[s[i]].name] \in qsort(w)
<1> DEFINE p == h[res].slots
<1>0. p \in Seq(Nat) /\ Len(p) = Len(w) /\ \A i \in 1..Len(w) : h[p[i]].name = w[i]
  BY DEF CopiesAre
<1>1. PICK f \in Bijection(DOMAIN p, DOMAIN p) : s = [i \in DOMAIN p |-> p[f[i]]]
  BY DEF qsort
<1> HIDE DEF p
<1>2. DOMAIN p = 1..Len(w) /\ DOMAIN w = 1..Len(w) /\ f \in [DOMAIN p -> DOMAIN p]
  BY <1>0 DEF Bijection, Injection
<1>3. [i \in 1..Len(w) |-> h[s[i]].name] = [i \in DOMAIN w |-> w[f[i]]]
  BY <1>0, <1>1, <1>2
<1>4. f \in Bijection(DOMAIN w, DOMAIN w)
  BY <1>2
<1> QED
  BY <1>3, <1>4 DEF qsort

\* An array may stay as it is.
LEMMA ArrangedAsItWas ==
    ASSUME NEW w \in Seq(Nat)
    PROVE  w \in qsort(w)
<1> DEFINE f == [i \in DOMAIN w |-> i]
<1>1. f \in Bijection(DOMAIN w, DOMAIN w)
  BY DEF Bijection, Injection, Surjection, IsInjective
<1>2. w = [i \in DOMAIN w |-> w[f[i]]]
  OBVIOUS
<1> QED
  BY <1>1, <1>2 DEF qsort

LEMMA ListedKept ==
    ASSUME ListOwn(list.res, list.n, heap), KeepsList(list.res, heap, heap'), list' = list
    PROVE  Listed' = Listed
<1>1. list.n \in Int
  BY DEF ListOwn
<1>2. ASSUME NEW i \in 1..list.n
      PROVE  heap'[heap'[list.res].slots[i]].name = heap[heap[list.res].slots[i]].name
  <2>1. list.res # NULL
    BY <1>1, <1>2 DEF ListOwn
  <2>2. DOMAIN heap[list.res].slots = 1..list.n
    BY <2>1 DEF ListOwn
  <2>3. InList(list.res, list.res, heap) /\ InList(heap[list.res].slots[i], list.res, heap)
    BY <2>1, <2>2 DEF InList
  <2> QED
    BY <2>3 DEF KeepsList
<1> QED
  BY <1>2 DEF Listed

\* What others do leaves the list and its names alone.
LEMMA ListStaysTrue ==
    ASSUME AllOrNothing, ListOwn(list.res, list.n, heap), KeepsList(list.res, heap, heap'),
           list' = list
    PROVE  AllOrNothing'
<1>1. Listed' = Listed
  BY ListedKept
<1> HIDE DEF Listed
<1> QED
  BY <1>1 DEF AllOrNothing

-----------------------------------------------------------------------------

LEMMA ScanOpensTrue ==
    ASSUME ScanOwn, AllOrNothing, NEW listing \in Listings, NEW cmp, ScanOpens(listing, cmp)
    PROVE  ScanTrue' /\ AllOrNothing'
<1>1. PICK b \in Free :
        /\ scan' = [NoScan EXCEPT !.listing = listing, !.cmp = cmp, !.dir = b,
                                  !.old_errno = errno, !.before = errno]
  BY DEF ScanOpens
<1>2. /\ scan'.listing = listing /\ scan'.next = 1 /\ scan'.before = scan'.old_errno
      /\ scan'.cnt = 0
  BY <1>1 DEF NoScan
<1>3. listing \in Seq(Nat)
  BY ListingAssumption
<1>4. Wanted(listing)[0] = << >> /\ Len(<< >>) = 0 /\ 1..0 = {}
  BY <1>3, WantedSteps
<1>5. ScanTrue'
  BY <1>2, <1>3, <1>4 DEF ScanTrue, CopiesAre
<1>6. list = NoList /\ list' = NoList
  BY DEF ScanOpens
<1>7. AllOrNothing'
  BY <1>6 DEF AllOrNothing, NoList
<1> QED
  BY <1>5, <1>7

LEMMA SelRejectsTrue ==
    ASSUME ScanOwn, ScanTrue, AllOrNothing, SelRejects
    PROVE  ScanTrue' /\ AllOrNothing'
<1>1. /\ running' = running /\ heap' = heap /\ list' = list /\ running = "scandir"
      /\ Advances(scan, scan') /\ scan.next <= Len(scan.listing)
      /\ scan.listing[scan.next] \notin Selected
  BY DEF SelRejects, Continues, Advances, Candidates, Candidate
<1>2. SameArguments(scan, scan') /\ scan'.next = scan.next + 1 /\ scan'.cnt = scan.cnt
      /\ scan'.names = scan.names
  BY <1>1, ScanAdvances DEF ScanOwn
<1>3. /\ scan'.listing = scan.listing /\ scan'.before = scan.before
      /\ scan'.old_errno = scan.old_errno
  BY <1>2 DEF SameArguments
<1> DEFINE n == scan.next
           W == Wanted(scan.listing)
<1>4. scan.listing \in Seq(Nat) /\ n \in 1..Len(scan.listing)
  BY <1>1 DEF ScanTrue
<1>5. W[n] = W[n - 1]
  BY <1>1, <1>4, WantedSteps DEF WantedNext
<1>6. n + 1 - 1 = n /\ n + 1 \in 1..(Len(scan.listing) + 1)
  BY <1>4
<1>7. ScanTrue'
  BY <1>1, <1>2, <1>3, <1>4, <1>5, <1>6 DEF ScanTrue
<1>8. AllOrNothing'
  BY <1>1 DEF AllOrNothing, Listed
<1> QED
  BY <1>7, <1>8

LEMMA CopyTrue ==
    ASSUME ScanOwn, Allocated \subseteq Addresses, ScanTrue, AllOrNothing, Copy
    PROVE  ScanTrue' /\ AllOrNothing'
<1>1. /\ running = "scandir" /\ list' = list /\ scan.next <= Len(scan.listing)
      /\ scan.listing[scan.next] = Candidate /\ Candidate \in Selected
      /\ \E l : CopiesTo(l, scan, scan')
  BY DEF Copy, Candidates, Candidate, CopiesTo
<1>2. list = NoList
  BY <1>1 DEF ScanOwn
<1>3. PICK l : CopiesTo(l, scan, scan')
  BY <1>1
<1>4. SameArguments(scan, scan') /\ scan'.next = scan.next + 1 /\ scan'.cnt = scan.cnt + 1
  BY <1>3, ScanCopies DEF ScanOwn
<1>5. /\ scan'.listing = scan.listing /\ scan'.before = scan.before
      /\ scan'.old_errno = scan.old_errno
  BY <1>4 DEF SameArguments
<1> DEFINE n == scan.next
           W == Wanted(scan.listing)
<1>6. scan.listing \in Seq(Nat) /\ n \in 1..Len(scan.listing)
  BY <1>1 DEF ScanTrue
<1>7. W[n] = Append(W[n - 1], Candidate) /\ W[n - 1] \in Seq(Nat)
  <2>1. W[n] = WantedNext(W[n - 1], Candidate)
    BY <1>1, <1>6, WantedSteps
  <2>2. n - 1 \in 0..Len(scan.listing)
    BY <1>6
  <2>3. W[n - 1] \in Seq(Nat)
    BY <1>6, <2>2, WantedSteps
  <2> QED
    BY <1>1, <2>1, <2>3 DEF WantedNext
<1>8. n + 1 - 1 = n /\ n + 1 \in 1..(Len(scan.listing) + 1)
  BY <1>6
<1>9. scan.cnt = Len(W[n - 1]) /\ \A i \in 1..scan.cnt : heap[Names[i]].name = W[n - 1][i]
  BY <1>1 DEF ScanTrue, CopiesAre, Names
<1> DEFINE k == scan.cnt
           old == W[n - 1]
           new == W[n]
<1>10. Candidate \in Nat
  BY <1>1, <1>6
<1> HIDE DEF n, W
<1>11. /\ Len(new) = k + 1 /\ new[k + 1] = Candidate /\ k \in Nat
       /\ \A i \in 1..k : new[i] = old[i]
  BY <1>7, <1>9, <1>10
<1>12. /\ heap'[heap'[scan'.names].slots[k + 1]].name = Candidate
       /\ \A i \in 1..k : heap'[heap'[scan'.names].slots[i]] = heap[Names[i]]
  BY CopyOwn
<1> HIDE DEF k, old, new
<1>13. CopiesAre(scan'.names, heap', new)
  <2> SUFFICES ASSUME NEW i \in 1..(k + 1)
               PROVE  heap'[heap'[scan'.names].slots[i]].name = new[i]
    BY <1>11 DEF CopiesAre
  <2>1. CASE i = k + 1
    BY <1>11, <1>12, <2>1
  <2>2. CASE i \in 1..k
    BY <1>9, <1>11, <1>12, <2>2 DEF k, old
  <2> QED
    BY <1>11, <2>1, <2>2
<1>14. ScanTrue'
  <2>1. scan'.cnt = Len(new)
    BY <1>4, <1>11 DEF k
  <2> QED
    BY <1>1, <1>4, <1>5, <1>6, <1>8, <1>13, <2>1 DEF ScanTrue, new, n, W
<1>15. AllOrNothing'
  BY <1>1, <1>2 DEF AllOrNothing, NoList
<1> QED
  BY <1>14, <1>15

LEMMA ScanReturnsTrue ==
    ASSUME ScanOwn, Allocated \subseteq Addresses, ScanTrue, running = "scandir",
           NEW error, ScanReturns(error), error = "0" => scan.next > Len(scan.listing)
    PROVE  ScanTrue' /\ AllOrNothing'
<1> DEFINE closed == Without(heap, {scan.dir})
           failed == error # "0"
           w == Wanted(scan.listing)[Len(scan.listing)]
           names == scan.names
<1>1. /\ scan.listing \in Seq(Nat) /\ scan.next \in 1..(Len(scan.listing) + 1)
      /\ scan.before = scan.old_errno
      /\ IsIn(heap, scan.dir, "DIR") /\ scan.cnt \in Nat /\ ListOwn(names, scan.cnt, heap)
  BY DEF ScanTrue, ScanOwn
<1>2. running' = "caller"
  BY DEF ScanReturns, ReturnsToCaller
<1>3. ScanTrue'
  BY <1>2 DEF ScanTrue
<1>4. /\ list'.n = IF failed THEN -1 ELSE scan.cnt
      /\ list'.res = IF failed THEN NULL ELSE names
      /\ list'.listing = scan.listing /\ list'.cmp = scan.cmp /\ list'.failed = failed
      /\ list'.before = scan.before /\ list'.after = errno'
  BY DEF ScanReturns
<1>5. ~failed => errno' = scan.old_errno
  BY DEF ScanReturns
<1>6. ~failed => IF scan.cmp /\ names # NULL
                 THEN \E s \in SortedCopies : heap' = With(closed, names, Slots(s))
                 ELSE heap' = closed
  BY DEF ScanReturns
<1>7. CASE failed
  BY <1>3, <1>4, <1>7 DEF AllOrNothing
<1>8. CASE ~failed
  <2>1. scan.next = Len(scan.listing) + 1
    BY <1>1, <1>8
  <2>2. scan.next - 1 = Len(scan.listing) /\ Len(scan.listing) \in 0..Len(scan.listing)
    BY <1>1, <2>1
  <2>3. w \in Seq(Nat) /\ scan.cnt = Len(w) /\ CopiesAre(names, heap, w)
    <3>1. w \in Seq(Nat)
      BY <1>1, <2>2, WantedSteps
    <3> QED
      BY <2>2, <3>1 DEF ScanTrue
  <2> HIDE DEF w, closed, failed
  <2>4. /\ list'.n = Len(w) /\ list'.res = names /\ list'.cmp = scan.cmp /\ ~list'.failed
        /\ list'.after = list'.before /\ Wanted(list'.listing)[Len(list'.listing)] = w
        /\ list'.n # -1
    BY <1>1, <1>4, <1>5, <1>8, <2>3 DEF w
  <2>5. Listed' = [i \in 1..Len(w) |-> heap'[heap'[names].slots[i]].name]
    BY <2>4 DEF Listed
  <2>6. \A i \in 1..Len(w) : /\ names # NULL
                             /\ heap[names].slots[i] \in DOMAIN heap
                             /\ heap[names].slots[i] \notin {scan.dir, names}
                             /\ heap[heap[names].slots[i]].name = w[i]
    <3> SUFFICES ASSUME NEW i \in 1..Len(w)
                 PROVE  /\ names # NULL
                        /\ heap[names].slots[i] \in DOMAIN heap
                        /\ heap[names].slots[i] \notin {scan.dir, names}
                        /\ heap[heap[names].slots[i]].name = w[i]
      OBVIOUS
    <3>1. names # NULL
      BY <1>1, <2>3 DEF ListOwn
    <3>2. DOMAIN heap[names].slots = 1..Len(w)
      BY <1>1, <2>3, <3>1 DEF ListOwn
    <3>3. IsIn(heap, heap[names].slots[i], "entry") /\ IsIn(heap, names, "vector")
      BY <1>1, <3>1, <3>2 DEF ListOwn
    <3> QED
      BY <1>1, <2>3, <3>1, <3>3 DEF IsIn, CopiesAre
  <2>7. names # NULL => names \in DOMAIN heap /\ names # scan.dir
    BY <1>1 DEF ListOwn, IsIn
  <2>8. /\ DOMAIN closed = DOMAIN heap \ {scan.dir}
        /\ \A b \in DOMAIN heap : b # scan.dir => closed[b] = heap[b]
    BY DEF Without, closed
  <2>9. CASE ~(scan.cmp /\ names # NULL)
    <3>1. heap' = closed
      BY <1>6, <1>8, <2>9
    <3>2. \A i \in 1..Len(w) : heap'[heap'[names].slots[i]].name = w[i]
      BY <2>6, <2>7, <2>8, <3>1
    <3>3. Listed' = w
      <4>1. w = [i \in 1..Len(w) |-> w[i]]
        BY <2>3
      <4> QED
        BY <2>5, <3>2, <4>1
    <3>4. CASE ~scan.cmp
      BY <1>3, <2>4, <3>3, <3>4 DEF AllOrNothing
    <3>5. CASE scan.cmp
      <4>1. names = NULL
        BY <2>9, <3>5
      <4>2. Len(w) = 0
        BY <1>1, <2>3, <4>1 DEF ListOwn
      <4>3. w \in qsort(w) /\ DOMAIN w = {}
        <5>1. DOMAIN w = 1..0 /\ 1..0 = {}
          BY <2>3, <4>2
        <5>2. w \in qsort(w)
          BY <2>3, ArrangedAsItWas
        <5> QED
          BY <5>1, <5>2
      <4> QED
        BY <1>3, <2>4, <3>3, <3>5, <4>3 DEF AllOrNothing
    <3> QED
      BY <3>4, <3>5
  <2>10. CASE scan.cmp /\ names # NULL
    <3>1. PICK s \in SortedCopies : heap' = With(closed, names, Slots(s))
      BY <1>6, <1>8, <2>10
    <3>2. /\ s \in qsort(heap[names].slots)
          /\ \A i, j \in DOMAIN s : i < j => heap[s[i]].name <= heap[s[j]].name
      BY DEF SortedCopies, Names
    <3>3. heap[names].slots \in Seq(Nat) /\ Len(heap[names].slots) = Len(w)
      BY <1>1, <2>3, <2>10 DEF ListOwn
    <3>5. /\ [i \in 1..Len(w) |-> heap[s[i]].name] \in qsort(w)
          /\ \A i \in 1..Len(w) : \E j \in 1..Len(w) : s[i] = heap[names].slots[j]
      <4>1. /\ w \in Seq(Nat) /\ CopiesAre(names, heap, w) /\ heap[names].slots \in Seq(Nat)
            /\ Len(heap[names].slots) = Len(w) /\ s \in qsort(heap[names].slots)
        BY <2>3, <3>2, <3>3
      <4> HIDE DEF names
      <4>2. [i \in 1..Len(w) |-> heap[s[i]].name] \in qsort(w)
        BY <4>1, NamesArranged
      <4>3. /\ DOMAIN s = DOMAIN heap[names].slots
            /\ \A i \in DOMAIN s : \E j \in DOMAIN heap[names].slots : s[i] = heap[names].slots[j]
        BY <4>1, Arranged
      <4>4. DOMAIN heap[names].slots = 1..Len(w)
        BY <4>1
      <4> QED
        BY <4>2, <4>3, <4>4
    <3>6. DOMAIN s = 1..Len(w)
      <4>1. DOMAIN s = DOMAIN heap[names].slots
        BY <3>2 DEF qsort
      <4> QED
        BY <3>3, <4>1
    <3>7. /\ heap'[names] = Slots(s)
          /\ \A b \in DOMAIN heap : b # scan.dir /\ b # names => heap'[b] = heap[b]
      BY <2>7, <2>8, <2>10, <3>1 DEF With
    <3>8. heap'[names].slots = s
      BY <3>7 DEF Slots
    <3>9. \A i \in 1..Len(w) : heap'[s[i]].name = heap[s[i]].name
      <4> SUFFICES ASSUME NEW i \in 1..Len(w) PROVE heap'[s[i]] = heap[s[i]]
        OBVIOUS
      <4>1. PICK j \in 1..Len(w) : s[i] = heap[names].slots[j]
        BY <3>5
      <4>2. s[i] \in DOMAIN heap /\ s[i] # scan.dir /\ s[i] # names
        BY <2>6, <4>1
      <4> QED
        BY <3>7, <4>2
    <3>10. Listed' = [i \in 1..Len(w) |-> heap[s[i]].name]
      BY <2>5, <3>8, <3>9
    <3>11. Listed' \in qsort(w)
      BY <3>5, <3>10
    <3>12. \A i, j \in DOMAIN Listed' : i < j => Listed'[i] <= Listed'[j]
      BY <3>2, <3>6, <3>10
    <3> QED
      BY <1>3, <2>4, <2>10, <3>11, <3>12 DEF AllOrNothing
  <2> QED
    BY <2>9, <2>10
<1> QED
  BY <1>3, <1>7, <1>8

LEMMA ScanTrueStep ==
    ASSUME ScanOwn, Allocated \subseteq Addresses, ScanTrue, AllOrNothing, ScanNext
    PROVE  ScanTrue' /\ AllOrNothing'
<1>1. CASE \E listing \in Listings : ScanOpenFails(listing)
  <2>1. /\ running' = "caller" /\ list'.n = -1 /\ list'.failed
    BY <1>1 DEF ScanOpenFails, NoList
  <2> QED
    BY <2>1 DEF ScanTrue, AllOrNothing
<1>2. CASE \E listing \in Listings, cmp \in BOOLEAN : ScanOpens(listing, cmp)
  BY <1>2, ScanOpensTrue
<1>3. CASE SelRejects
  BY <1>3, SelRejectsTrue
<1>4. CASE Copy
  BY <1>4, CopyTrue
<1>5. CASE ScanEnds
  BY <1>5, ScanReturnsTrue DEF ScanEnds
<1>6. CASE ScanReadFails \/ ScanAllocFails
  <2>1. running = "scandir" /\ \E error : error # "0" /\ ScanReturns(error)
    BY <1>6 DEF ScanReadFails, ScanAllocFails, Candidates
  <2> QED
    BY <2>1, ScanReturnsTrue
<1>7. CASE ListFreed
  <2>1. running' = "caller" /\ list' = NoList
    BY <1>7 DEF ListFreed, Continues
  <2> QED
    BY <2>1 DEF ScanTrue, AllOrNothing, NoList
<1> QED
  BY <1>1, <1>2, <1>3, <1>4, <1>5, <1>6, <1>7 DEF ScanNext

LEMMA OthersKeepList ==
    ASSUME HeapOwn, ScanTrue, AllOrNothing, UNCHANGED scanVars,
           GlobNext \/ ConvNext
    PROVE  ScanTrue' /\ AllOrNothing'
<1>1. running # "scandir" /\ running' # "scandir" /\ list' = list
  BY GlobRuns, ConvRuns DEF scanVars
<1>2. /\ Allocated \subseteq Addresses /\ GlobOwn /\ ScanOwn /\ ConvOwn
      /\ \A b \in Allocated : ~(InGlob(b) /\ InScan(b)) /\ ~(InScan(b) /\ InConv(b))
      /\ faults \in Nat
  BY DEF HeapOwn
<1>3. \A b \in Allocated : InScan(b) => b \in Allocated' /\ heap'[b] = heap[b]
  <2>1. CASE GlobNext
    <3>1. GlobChange
      BY <1>2, <2>1, GlobStep
    <3> QED
      BY <1>2, <3>1 DEF GlobChange
  <2>2. CASE ConvNext
    <3>1. ConvChange
      BY <1>2, <2>2, ConvOwnStep
    <3> QED
      BY <1>2, <3>1 DEF ConvChange
  <2> QED
    BY <2>1, <2>2
<1>4. ListOwn(list.res, list.n, heap)
  BY <1>2 DEF ScanOwn
<1>5. KeepsList(list.res, heap, heap')
  <2>1. \A b : InList(b, list.res, heap) => b \in Allocated /\ InScan(b)
    BY <1>4, ListIn DEF InScan, Allocated
  <2> QED
    BY <1>3, <2>1 DEF KeepsList, Allocated
<1>6. AllOrNothing'
  BY <1>1, <1>4, <1>5, ListStaysTrue
<1> QED
  BY <1>1, <1>6 DEF ScanTrue

\* What scandir returns is -1 exactly if something failed, and otherwise the copies of
\* all entries the callback selected, in their order or sorted (scandir.c:20-45), with
\* errno as it was before, and stays that until the caller frees it.
THEOREM ListsAreComplete == Spec => []AllOrNothing
<1> DEFINE TrueInv == ScanTrue /\ AllOrNothing
<1>1. Init => TrueInv
  BY DEF Init, HeapInit, ScanInit, ScanTrue, AllOrNothing, NoList
<1>2. HeapOwn /\ TrueInv /\ [Next]_vars => TrueInv'
  <2> SUFFICES ASSUME HeapOwn, TrueInv, [Next]_vars PROVE TrueInv'
    OBVIOUS
  <2>1. CASE GlobNext /\ UNCHANGED <<scanVars, convVars>>
    BY <2>1, OthersKeepList
  <2>2. CASE ScanNext /\ UNCHANGED <<globVars, convVars>>
    BY <2>2, ScanTrueStep DEF HeapOwn
  <2>3. CASE ConvNext /\ UNCHANGED <<globVars, scanVars>>
    BY <2>3, OthersKeepList
  <2>4. CASE UNCHANGED vars
    <3>1. UNCHANGED heapVars /\ UNCHANGED scanVars
      BY <2>4, Zenon DEF vars
    <3>2. heap' = heap /\ running' = running /\ scan' = scan /\ list' = list
      BY <3>1 DEF heapVars, scanVars
    <3> QED
      BY <3>2 DEF ScanTrue, AllOrNothing, Listed
  <2> QED
    BY <2>1, <2>2, <2>3, <2>4 DEF Next
<1> QED
  BY <1>1, <1>2, HeapOwnHolds, PTL DEF Spec

-----------------------------------------------------------------------------
(* What glob finds.  Of every path the pattern stands for the search either *)
(* has still to come to it, or has found it, or something has failed.       *)

FoundPaths == [i \in DOMAIN call.chain |-> heap[call.chain[i]].path]

\* Path q leads through directory d.
Through(d, q) == Len(d) <= Len(q) /\ \A k \in 1..Len(d) : q[k] = d[k]

\* Frame f has still to come to what is at path q.
Ahead(f, q) ==
    /\ Through(f.d, q)
    /\ Len(q) > Len(f.d) =>
        /\ f.d \in DOMAIN Tree
        /\ \E k \in DOMAIN Tree[f.d] : f.next <= k /\ Tree[f.d][k].name = q[Len(f.d) + 1]
ToCome(s, q) == \E i \in DOMAIN s : Ahead(s[i], q)

\* What is at d can be opened.
IsOpened(d) ==
    d # << >> => /\ Front(d) \in DOMAIN Tree
                 /\ \E j \in DOMAIN Tree[Front(d)] : /\ Tree[Front(d)][j].name = Last(d)
                                                     /\ Tree[Front(d)][j].d_type # "DT_REG"

\* Frame f, the i-th, is where the components before lead to.
FrameTrue(f, i, p) ==
    /\ i <= Len(p) /\ f.p = SubSeq(p, i, Len(p))
    /\ Len(f.d) = i - 1 /\ \A k \in 1..(i - 1) : f.d[k] \in p[k]
    /\ IsOpened(f.d)
    /\ f.next >= 1 /\ (f.dir = NULL => f.next = 1)

\* Path d is in the last entry that frame f, the i-th, has come to.
InEntry(d, f, i) ==
    /\ f.d \in DOMAIN Tree /\ f.next - 1 \in DOMAIN Tree[f.d]
    /\ d[i] = Tree[f.d][f.next - 1].name

WalkTrue(s, p) ==
    /\ s # << >> => p # <<Empty>>
    /\ \A i \in DOMAIN s : FrameTrue(s[i], i, p)
    /\ \A i, j \in DOMAIN s : i < j => InEntry(s[j].d, s[i], i)

\* What was found is what the pattern stands for, once each, and all of it that is
\* not to come unless something failed.
FoundTrue(found, s, p, failed) ==
    /\ \A i \in DOMAIN found : found[i] \in Denotes(p) /\ ~ToCome(s, found[i])
    /\ \A i, j \in DOMAIN found : found[i] = found[j] => i = j
    /\ failed = {} => \A q \in Denotes(p) : ToCome(s, q) \/ \E i \in DOMAIN found : found[i] = q

\* The pattern is returned for want of a match.
IsItself(found, p, failed) ==
    /\ "NOCHECK" \in call.flags
    /\ found = <<PatternItself.path>>
    /\ failed = {} => Denotes(p) = {}

ErrorTrue ==
    /\ call.error = "NOSPACE" => "memory" \in returned.failed
    /\ call.error = "ABORTED" => "directory" \in returned.failed
    /\ call.error = "0" /\ "ERR" \in call.flags => "directory" \notin returned.failed

\* What glob was asked; nothing is returned yet.
Asked ==
    /\ call.pattern \in Patterns /\ ErrorTrue
    /\ returned = [code |-> "none", pattern |-> call.pattern, flags |-> call.flags,
                   new |-> << >>, failed |-> returned.failed]

GlobTrue ==
    running = "glob" =>
        /\ Asked /\ WalkTrue(stack, call.pattern)
        /\ \/ FoundTrue(FoundPaths, stack, call.pattern, returned.failed)
           \/ stack = << >> /\ IsItself(FoundPaths, call.pattern, returned.failed)

\* The directory that the k-th component of path q is in.
Parent(q, k) == SubSeq(q, 1, k - 1)

Depth(p) == IF p[Len(p)] = Empty THEN Len(p) - 1 ELSE Len(p)

LEMMA PatternIs ==
    ASSUME NEW p \in Patterns
    PROVE  /\ p \in Seq(SUBSET Name) /\ Len(p) \in Nat /\ Len(p) >= 1
           /\ DOMAIN p = 1..Len(p)
           /\ \A i \in 1..(Len(p) - 1) : p[i] # Empty
           /\ Depth(p) \in {Len(p), Len(p) - 1}
           /\ Depth(p) < Len(p) <=> p[Len(p)] = Empty
<1>1. p \in Seq(SUBSET Name) /\ p # << >> /\ \A i \in 1..(Len(p) - 1) : p[i] # Empty
  BY PatternAssumption DEF Name
<1>2. Len(p) \in Nat /\ Len(p) >= 1 /\ DOMAIN p = 1..Len(p)
  BY <1>1
<1> QED
  BY <1>1, <1>2 DEF Depth

\* Entries of a directory have names, which differ; directories have entries.
LEMMA TreeIs ==
    ASSUME NEW d \in DOMAIN Tree
    PROVE  /\ d \in Seq(Name) /\ DOMAIN Tree[d] = 1..Len(Tree[d]) /\ Len(Tree[d]) \in Nat
           /\ \A j \in DOMAIN Tree[d] :
                /\ Tree[d][j].name \in Name
                /\ Tree[d][j].d_type \in {"DT_DIR", "DT_REG", "DT_LNK"}
                /\ Tree[d][j].d_type = "DT_DIR" => Append(d, Tree[d][j].name) \in DOMAIN Tree
                /\ Tree[d][j] \in ToSet(Tree[d])
           /\ \A i, j \in DOMAIN Tree[d] : Tree[d][i].name = Tree[d][j].name => i = j
           /\ \A k \in 1..Len(d) :
                /\ Parent(d, k) \in DOMAIN Tree
                /\ \E j \in DOMAIN Tree[Parent(d, k)] :
                        LET e == Tree[Parent(d, k)][j]
                        IN e.name = d[k] /\ e.d_type # "DT_REG"
<1> DEFINE Type == [name : Nat \ {0}, d_type : {"DT_DIR", "DT_REG", "DT_LNK"}]
<1>1. d \in Seq(Name) /\ Tree[d] \in Seq(Type)
  BY TreeAssumption DEF Name
<1>2. \A j \in DOMAIN Tree[d] : Tree[d][j] \in Type /\ Tree[d][j] \in ToSet(Tree[d])
  <2>1. \A j \in DOMAIN Tree[d] : Tree[d][j] \in ToSet(Tree[d])
    BY DEF ToSet
  <2>2. \A j \in DOMAIN Tree[d] : Tree[d][j] \in Type
    <3> DEFINE t == Tree[d]
    <3>1. t \in Seq(Type)
      BY <1>1
    <3> HIDE DEF t, Type
    <3>2. \A j \in DOMAIN t : t[j] \in Type
      BY <3>1
    <3> QED
      BY <3>2 DEF t
  <2> QED
    BY <2>1, <2>2
<1>3. \A e \in ToSet(Tree[d]) : e.d_type = "DT_DIR" => Append(d, e.name) \in DOMAIN Tree
  BY TreeAssumption
<1>4. \A i, j \in DOMAIN Tree[d] : Tree[d][i].name = Tree[d][j].name => i = j
  BY TreeAssumption
<1>5. ASSUME NEW k \in 1..Len(d)
      PROVE  /\ Parent(d, k) \in DOMAIN Tree
             /\ \E j \in DOMAIN Tree[Parent(d, k)] :
                        LET e == Tree[Parent(d, k)][j]
                        IN e.name = d[k] /\ e.d_type # "DT_REG"
  <2> DEFINE parent == Parent(d, k)
  <2>1. k \in DOMAIN d
    BY <1>1
  <2>2. parent \in DOMAIN Tree
        /\ \E e \in ToSet(Tree[parent]) : e.name = d[k] /\ e.d_type # "DT_REG"
    BY <2>1, TreeAssumption DEF Parent
  <2>3. PICK e \in ToSet(Tree[parent]) : e.name = d[k] /\ e.d_type # "DT_REG"
    BY <2>2
  <2>4. \E j \in DOMAIN Tree[parent] : Tree[parent][j] = e
    BY <2>3 DEF ToSet
  <2> HIDE DEF parent
  <2>5. \E j \in DOMAIN Tree[parent] :
            LET f == Tree[parent][j] IN f.name = d[k] /\ f.d_type # "DT_REG"
    BY <2>3, <2>4
  <2> QED
    BY <2>2, <2>5 DEF parent
<1>6. \A j \in DOMAIN Tree[d] :
                /\ Tree[d][j].name \in Name
                /\ Tree[d][j].d_type \in {"DT_DIR", "DT_REG", "DT_LNK"}
  BY <1>2 DEF Name
<1>7. DOMAIN Tree[d] = 1..Len(Tree[d]) /\ Len(Tree[d]) \in Nat
  <2> DEFINE t == Tree[d]
  <2>1. t \in Seq(Type)
    BY <1>1
  <2> HIDE DEF t, Type
  <2>2. DOMAIN t = 1..Len(t) /\ Len(t) \in Nat
    BY <2>1
  <2> QED
    BY <2>2 DEF t
<1> QED
  BY <1>1, <1>2, <1>3, <1>4, <1>5, <1>6, <1>7

LEMMA SplitLast ==
    ASSUME NEW S, NEW d \in Seq(S), NEW e \in S
    PROVE  LET q == Append(d, e) IN
           /\ q \in Seq(S) /\ Len(q) = Len(d) + 1 /\ q # << >>
           /\ Front(q) = d /\ Last(q) = e /\ q[Len(d) + 1] = e
           /\ \A k \in 1..Len(d) : q[k] = d[k]
           /\ \A k \in 1..Len(d) : Parent(q, k) = Parent(d, k)
           /\ Parent(q, Len(d) + 1) = d
<1> DEFINE q == Append(d, e)
           n == Len(d)
<1>1. n \in Nat /\ q \in Seq(S) /\ Len(q) = n + 1 /\ q # << >> /\ q[n + 1] = e
      /\ \A k \in 1..n : q[k] = d[k]
  OBVIOUS
<1>2. Front(q) = d
  <2>1. Front(q) \in Seq(S) /\ Len(Front(q)) = n
    BY <1>1 DEF Front
  <2>2. \A k \in 1..n : Front(q)[k] = d[k]
    BY <1>1 DEF Front
  <2> HIDE DEF q, n
  <2> QED
    BY <2>1, <2>2 DEF n
<1>3. Last(q) = e
  BY <1>1 DEF Last
<1>4. ASSUME NEW m \in 0..n PROVE SubSeq(q, 1, m) = SubSeq(d, 1, m)
  <2> DEFINE x == SubSeq(q, 1, m)
             y == SubSeq(d, 1, m)
  <2>1. m \in Nat /\ m <= n
    BY <1>1
  <2> HIDE DEF q, n
  <2>2. x \in Seq(S) /\ Len(x) = m /\ \A i \in 1..m : x[i] = q[i]
    BY <1>1, <2>1
  <2>3. y \in Seq(S) /\ Len(y) = m /\ \A i \in 1..m : y[i] = d[i]
    BY <1>1, <2>1 DEF n
  <2>4. \A i \in 1..m : x[i] = y[i]
    BY <1>1, <2>1, <2>2, <2>3
  <2> HIDE DEF x, y
  <2>5. x = y
    BY <2>2, <2>3, <2>4
  <2> QED
    BY <2>5 DEF x, y
<1> HIDE DEF q, n
<1>5. \A k \in 1..n : Parent(q, k) = Parent(d, k)
  <2> SUFFICES ASSUME NEW k \in 1..n PROVE Parent(q, k) = Parent(d, k)
    OBVIOUS
  <2>1. k - 1 \in 0..n
    BY <1>1
  <2> QED
    BY <1>4, <2>1 DEF Parent
<1>6. Parent(q, n + 1) = d
  <2>1. SubSeq(d, 1, n) = d
    BY DEF n
  <2>2. (n + 1) - 1 = n /\ n \in 0..n
    BY <1>1
  <2>3. SubSeq(q, 1, n) = d
    BY <1>4, <2>1, <2>2
  <2> QED
    BY <2>2, <2>3, Zenon DEF Parent
<1>7. /\ q \in Seq(S) /\ Len(q) = n + 1 /\ q # << >>
      /\ Front(q) = d /\ Last(q) = e /\ q[n + 1] = e
      /\ \A k \in 1..n : q[k] = d[k]
      /\ \A k \in 1..n : Parent(q, k) = Parent(d, k)
      /\ Parent(q, n + 1) = d
  BY <1>1, <1>2, <1>3, <1>5, <1>6
<1> QED
  BY <1>7 DEF q, n

\* All entries on the way to a path the pattern stands for are there, match, and
\* can be opened where components follow.
LEMMA DenotedIs ==
    ASSUME NEW p \in Patterns, NEW q \in Denotes(p)
    PROVE  /\ q \in Seq(Name) /\ Len(q) = Depth(p) /\ Len(q) \in Nat /\ Len(q) >= 1
           /\ \A k \in 1..Len(q) :
                /\ q[k] \in p[k]
                /\ Parent(q, k) \in DOMAIN Tree
                /\ \E j \in DOMAIN Tree[Parent(q, k)] :
                        Tree[Parent(q, k)][j].name = q[k]
                /\ k < Len(p) => \A j \in DOMAIN Tree[Parent(q, k)] :
                        Tree[Parent(q, k)][j].name = q[k]
                            => Tree[Parent(q, k)][j].d_type # "DT_REG"
<1>1. /\ \E d \in DOMAIN Tree, e \in Entries : q = Append(d, e.name)
      /\ Len(q) = Depth(p)
      /\ \A i \in 1..Depth(p) : q[i] \in IF i <= Len(p) /\ p[i] # Empty THEN p[i] ELSE {}
      /\ \E i \in DOMAIN Tree[Front(q)] : Tree[Front(q)][i].name = Last(q)
      /\ Depth(p) < Len(p) => Opens(q)
  BY DEF Denotes, Depth
<1>2. PICK d \in DOMAIN Tree, e \in Entries : q = Append(d, e.name)
  BY <1>1
<1>3. e.name \in Name
  <2>1. PICK c \in DOMAIN Tree : e \in ToSet(Tree[c])
    BY DEF Entries
  <2>2. PICK j \in DOMAIN Tree[c] : e = Tree[c][j]
    BY <2>1 DEF ToSet
  <2> QED
    BY <2>2, TreeIs
<1> DEFINE n == Len(d)
<1>4. /\ q \in Seq(Name) /\ Len(q) = n + 1 /\ Front(q) = d /\ Last(q) = e.name /\ q[n + 1] = e.name
      /\ \A k \in 1..n : q[k] = d[k]
      /\ \A k \in 1..n : Parent(q, k) = Parent(d, k)
      /\ Parent(q, n + 1) = d /\ d \in Seq(Name)
  <2>1. d \in Seq(Name)
    BY TreeIs
  <2> QED
    BY <1>2, <1>3, <2>1, SplitLast
<1>5. n \in Nat /\ Len(q) = Depth(p)
  BY <1>1, <1>4
<1> HIDE DEF n
<1>6. \A k \in 1..Len(q) : q[k] \in p[k]
  BY <1>1
<1>7. ASSUME NEW k \in 1..n
      PROVE  LET parent == Parent(q, k) IN
             /\ parent \in DOMAIN Tree
             /\ \E j \in DOMAIN Tree[parent] : Tree[parent][j].name = q[k]
             /\ \A j \in DOMAIN Tree[parent] :
                    Tree[parent][j].name = q[k] => Tree[parent][j].d_type # "DT_REG"
  <2> DEFINE parent == Parent(d, k)
  <2>1. Parent(q, k) = parent /\ q[k] = d[k]
    BY <1>4, <1>5
  <2>2. parent \in DOMAIN Tree
        /\ \E j \in DOMAIN Tree[parent] :
                Tree[parent][j].name = d[k] /\ Tree[parent][j].d_type # "DT_REG"
    BY TreeIs DEF n
  <2> HIDE DEF parent
  <2>3. \A i, j \in DOMAIN Tree[parent] : Tree[parent][i].name = Tree[parent][j].name => i = j
    BY <2>2, TreeIs
  <2> QED
    BY <2>1, <2>2, <2>3
<1>8. \E j \in DOMAIN Tree[d] : Tree[d][j].name = q[n + 1]
  BY <1>1, <1>4
<1>9. ASSUME n + 1 < Len(p), NEW j \in DOMAIN Tree[d], Tree[d][j].name = q[n + 1]
      PROVE  Tree[d][j].d_type # "DT_REG"
  <2>1. Opens(q)
    BY <1>1, <1>4, <1>9
  <2>2. \E i \in DOMAIN Tree[d] : Tree[d][i].name = q[n + 1] /\ Tree[d][i].d_type # "DT_REG"
    <3>1. CASE q \in DOMAIN Tree
      <4>1. n + 1 \in 1..Len(q)
        BY <1>4, <1>5
      <4>3. \A k \in 1..Len(q) : \E i \in DOMAIN Tree[Parent(q, k)] :
                LET f == Tree[Parent(q, k)][i]
                IN f.name = q[k] /\ f.d_type # "DT_REG"
        BY <3>1, TreeIs
      <4>2. \E i \in DOMAIN Tree[Parent(q, n + 1)] :
                LET f == Tree[Parent(q, n + 1)][i]
                IN f.name = q[n + 1] /\ f.d_type # "DT_REG"
        BY <4>1, <4>3
      <4> QED
        BY <1>4, <4>1, <4>2
    <3>2. CASE \E c \in DOMAIN Tree : \E f \in ToSet(Tree[c]) :
                    q = Append(c, f.name) /\ f.d_type = "DT_LNK"
      <4>0. PICK c \in DOMAIN Tree : \E f \in ToSet(Tree[c]) :
                    q = Append(c, f.name) /\ f.d_type = "DT_LNK"
        BY <3>2
      <4>1. PICK i \in DOMAIN Tree[c] :
                    q = Append(c, Tree[c][i].name) /\ Tree[c][i].d_type = "DT_LNK"
        BY <4>0 DEF ToSet
      <4>2. c \in Seq(Name) /\ Tree[c][i].name \in Name
        BY TreeIs
      <4>3. Front(q) = c /\ Last(q) = Tree[c][i].name
        BY <4>1, <4>2, SplitLast
      <4> QED
        BY <1>4, <4>1, <4>3
    <3> QED
      BY <2>1, <3>1, <3>2 DEF Opens
  <2>3. \A i, k \in DOMAIN Tree[d] : Tree[d][i].name = Tree[d][k].name => i = k
    BY TreeIs
  <2> QED
    BY <1>9, <2>2, <2>3
<1>10. ASSUME NEW k \in 1..Len(q)
       PROVE  LET parent == Parent(q, k) IN
              /\ parent \in DOMAIN Tree
              /\ \E j \in DOMAIN Tree[parent] : Tree[parent][j].name = q[k]
              /\ k < Len(p) => \A j \in DOMAIN Tree[parent] :
                    Tree[parent][j].name = q[k] => Tree[parent][j].d_type # "DT_REG"
  <2>1. CASE k \in 1..n
    BY <1>7, <2>1
  <2>2. CASE k = n + 1
    <3>2. Parent(q, k) = d
      BY <1>4, <2>2
    <3>3. k < Len(p) => n + 1 < Len(p)
      BY <2>2
    <3>4. q[k] = q[n + 1]
      BY <2>2
    <3> QED
      BY <1>8, <1>9, <3>2, <3>3, <3>4
  <2>3. k \in 1..n \/ k = n + 1
    BY <1>4, <1>5
  <2> QED
    BY <2>1, <2>2, <2>3
<1>11. Len(q) \in Nat /\ Len(q) >= 1
  BY <1>4, <1>5
<1> QED
  BY <1>4, <1>5, <1>6, <1>10, <1>11

\* An entry at the end of the pattern is what it stands for, if it can be opened
\* where a slash follows.
LEMMA EntryDenoted ==
    ASSUME NEW p \in Patterns, NEW d \in DOMAIN Tree, NEW j \in DOMAIN Tree[d],
           NEW q, q = Append(d, Tree[d][j].name), Len(q) = Depth(p),
           \A k \in 1..Len(q) : q[k] \in p[k],
           Depth(p) < Len(p) => Tree[d][j].d_type # "DT_REG"
    PROVE  q \in Denotes(p)
<1> DEFINE e == Tree[d][j]
<1>1. /\ e.name \in Name /\ e \in ToSet(Tree[d]) /\ d \in Seq(Name)
      /\ e.d_type \in {"DT_DIR", "DT_REG", "DT_LNK"}
      /\ e.d_type = "DT_DIR" => Append(d, e.name) \in DOMAIN Tree
  BY TreeIs
<1>2. Front(q) = d /\ Last(q) = e.name
  BY <1>1, SplitLast
<1>3. e \in Entries
  BY <1>1 DEF Entries
<1>4. Depth(p) < Len(p) => Opens(q)
  BY <1>1 DEF Opens
<1>5. \A i \in 1..Depth(p) : q[i] \in IF i <= Len(p) /\ p[i] # Empty THEN p[i] ELSE {}
  BY PatternIs DEF Empty
<1>6. \E i \in DOMAIN Tree[Front(q)] : Tree[Front(q)][i].name = Last(q)
  BY <1>2
<1>7. q \in {Append(c, f.name) : c \in DOMAIN Tree, f \in Entries}
  BY <1>3
<1> HIDE DEF e
<1> DEFINE names(i) == IF i <= Len(p) /\ p[i] # Empty THEN p[i] ELSE {}
           All == {Append(c, f.name) : c \in DOMAIN Tree, f \in Entries}
           Is(r) == /\ Len(r) = Depth(p)
                    /\ \A i \in 1..Depth(p) : r[i] \in names(i)
                    /\ \E i \in DOMAIN Tree[Front(r)] : Tree[Front(r)][i].name = Last(r)
                    /\ Depth(p) < Len(p) => Opens(r)
<1>8. Denotes(p) = {r \in All : Is(r)}
  BY DEF Denotes, Depth
<1>9. q \in All /\ Is(q)
  BY <1>4, <1>5, <1>6, <1>7
<1> HIDE DEF All, Is
<1> QED
  BY <1>8, <1>9

Walks(s, p) == s \in Seq(FrameType) /\ WalkTrue(s, p)

LEMMA WalkFacts ==
    ASSUME NEW p \in Patterns, NEW s, Walks(s, p)
    PROVE  /\ DOMAIN s = 1..Len(s) /\ Len(s) \in Nat
           /\ \A i \in DOMAIN s :
                /\ s[i] \in FrameType /\ s[i].d \in Seq(Name) /\ s[i].next \in Nat
                /\ FrameTrue(s[i], i, p) /\ Len(s[i].d) = i - 1 /\ i <= Len(p)
           /\ \A i, j \in DOMAIN s : i < j => InEntry(s[j].d, s[i], i)
<1>1. DOMAIN s = 1..Len(s) /\ Len(s) \in Nat /\ \A i \in DOMAIN s : s[i] \in FrameType
  BY DEF Walks
<1>2. \A i \in DOMAIN s : s[i].d \in Seq(Name) /\ s[i].next \in Nat
  BY <1>1 DEF FrameType
<1> QED
  BY <1>1, <1>2 DEF Walks, WalkTrue, FrameTrue

LEMMA OneElement ==
    ASSUME NEW S, NEW r \in Seq(S), NEW e
    PROVE  r = <<e>> <=> Len(r) = 1 /\ r[1] = e
<1>1. ASSUME Len(r) = 1, r[1] = e PROVE r = <<e>>
  <2>1. <<e>> \in Seq({e}) /\ Len(<<e>>) = 1 /\ <<e>>[1] = e
    OBVIOUS
  <2> QED
    BY <1>1, <2>1
<1> QED
  BY <1>1

\* The rest of the pattern that the i-th frame has.
LEMMA RestOf ==
    ASSUME NEW p \in Patterns, NEW i \in Nat, i >= 1, i <= Len(p)
    PROVE  LET r == SubSeq(p, i, Len(p)) IN
           /\ Len(r) = Len(p) - i + 1 /\ r # << >> /\ r[1] = p[i]
           /\ r = <<Empty>> <=> i = Len(p) /\ p[i] = Empty
           /\ i < Len(p) => Tail(r) = SubSeq(p, i + 1, Len(p))
<1> DEFINE r == SubSeq(p, i, Len(p))
           n == Len(p)
           m == n - i + 1
<1>1. p \in Seq(SUBSET Name) /\ n \in Nat /\ n >= 1 /\ m \in Nat /\ m >= 1 /\ i <= n
  BY PatternIs
<1>2. r \in Seq(SUBSET Name) /\ Len(r) = m /\ \A k \in 1..m : r[k] = p[i + k - 1]
  BY <1>1
<1>3. r[1] = p[i] /\ r # << >>
  <2>1. 1 \in 1..m /\ i + 1 - 1 = i
    BY <1>1
  <2> HIDE DEF r, m, n
  <2> QED
    BY <1>2, <2>1
<1>4. r = <<Empty>> <=> m = 1 /\ r[1] = Empty
  <2> HIDE DEF r, m
  <2> QED
    BY <1>2, OneElement
<1>5. ASSUME i < n PROVE Tail(r) = SubSeq(p, i + 1, n)
  <2> DEFINE x == Tail(r)
             y == SubSeq(p, i + 1, n)
  <2>1. x \in Seq(SUBSET Name) /\ Len(x) = m - 1 /\ \A k \in 1..(m - 1) : x[k] = r[k + 1]
    BY <1>1, <1>2, <1>3
  <2>2. y \in Seq(SUBSET Name) /\ Len(y) = m - 1 /\ \A k \in 1..(m - 1) : y[k] = p[i + 1 + k - 1]
    BY <1>1, <1>5
  <2>3. \A k \in 1..(m - 1) : k + 1 \in 1..m /\ i + (k + 1) - 1 = i + 1 + k - 1
    BY <1>1
  <2> HIDE DEF r, m, n
  <2>4. \A k \in 1..(m - 1) : x[k] = y[k]
    BY <1>2, <2>1, <2>2, <2>3
  <2> HIDE DEF x, y
  <2>5. x = y
    BY <2>1, <2>2, <2>4
  <2> QED
    BY <2>5 DEF x, y
<1>6. m = 1 <=> i = n
  BY <1>1
<1> HIDE DEF r
<1> QED
  BY <1>2, <1>3, <1>4, <1>5, <1>6 DEF r

\* What is behind one frame is not ahead of the frames under it.
LEMMA OneFrame ==
    ASSUME NEW p \in Patterns, NEW s, Walks(s, p), NEW i \in DOMAIN s, NEW j \in DOMAIN s, i < j,
           NEW q, Len(q) \in Nat, Through(s[j].d, q)
    PROVE  ~Ahead(s[i], q)
<1>1. /\ DOMAIN s = 1..Len(s) /\ Len(s) \in Nat
      /\ Len(s[i].d) = i - 1 /\ Len(s[j].d) = j - 1
      /\ s[i].next \in Nat /\ InEntry(s[j].d, s[i], i)
  BY WalkFacts
<1>2. Len(q) >= j - 1 /\ q[i] = s[j].d[i]
  BY <1>1 DEF Through
<1>3. /\ s[i].d \in DOMAIN Tree /\ s[i].next - 1 \in DOMAIN Tree[s[i].d]
      /\ q[i] = Tree[s[i].d][s[i].next - 1].name
  BY <1>1, <1>2 DEF InEntry
<1>4. \A k \in DOMAIN Tree[s[i].d] : Tree[s[i].d][k].name = q[i] => k = s[i].next - 1
  BY <1>3, TreeIs
<1>5. Len(q) > i - 1 /\ (i - 1) + 1 = i
  BY <1>1, <1>2
<1>6. ASSUME Ahead(s[i], q) PROVE FALSE
  <2>1. \E k \in DOMAIN Tree[s[i].d] : s[i].next <= k /\ Tree[s[i].d][k].name = q[i]
    BY <1>1, <1>5, <1>6 DEF Ahead
  <2> QED
    BY <1>1, <1>4, <2>1
<1> QED
  BY <1>6

LEMMA FrontAndLast ==
    ASSUME NEW S, NEW d \in Seq(S), d # << >>
    PROVE  d = Append(Front(d), Last(d))
<1> DEFINE n == Len(d)
           f == Front(d)
           e == Append(f, Last(d))
<1>1. n \in Nat /\ n >= 1 /\ n \in DOMAIN d /\ DOMAIN d = 1..n
  OBVIOUS
<1>2. f \in Seq(S) /\ Len(f) = n - 1 /\ \A i \in 1..(n - 1) : f[i] = d[i]
  <2>1. f \in Seq(S) /\ Len(f) = n - 1 /\ DOMAIN f = 1..(n - 1) /\ \A i \in DOMAIN f : f[i] = d[i]
    BY FrontOf
  <2> QED
    BY <2>1
<1>3. Last(d) = d[n] /\ Last(d) \in S
  BY <1>1 DEF Last
<1> HIDE DEF f
<1>4. /\ e \in Seq(S) /\ Len(e) = Len(f) + 1 /\ e[Len(f) + 1] = d[n]
      /\ \A i \in 1..Len(f) : e[i] = f[i]
  <2>1. f \in Seq(S) /\ Last(d) \in S
    BY <1>2, <1>3
  <2>2. /\ e \in Seq(S) /\ Len(e) = Len(f) + 1 /\ e[Len(f) + 1] = Last(d)
        /\ \A i \in 1..Len(f) : e[i] = f[i]
    BY <2>1, SplitLast
  <2> QED
    BY <1>3, <2>2
<1> HIDE DEF e, n
<1>5. Len(e) = n /\ \A i \in 1..n : e[i] = d[i]
  <2>1. Len(e) = n /\ e[n] = d[n]
    BY <1>1, <1>2, <1>4
  <2>2. \A i \in 1..n : i = n \/ i \in 1..(n - 1)
    BY <1>1
  <2> QED
    BY <1>2, <1>4, <2>1, <2>2
<1>6. e = d
  BY <1>1, <1>4, <1>5
<1> QED
  BY <1>6 DEF e, f

LEMMA TopWalk ==
    ASSUME NEW p \in Patterns, NEW s, Walks(s, p), s # << >>
    PROVE  LET n == Len(s)
               f == s[n]
           IN /\ n \in DOMAIN s /\ n \in Nat /\ n >= 1 /\ n <= Len(p)
              /\ f \in FrameType /\ f.d \in Seq(Name) /\ Len(f.d) = n - 1
              /\ f.next \in Nat /\ f.next >= 1 /\ (f.dir = NULL => f.next = 1)
              /\ Len(f.p) = Len(p) - n + 1 /\ f.p[1] = p[n]
              /\ n < Len(p) => Tail(f.p) = SubSeq(p, n + 1, Len(p))
              /\ f.p # <<Empty>> => n <= Depth(p)
              /\ f.p = <<Empty>> => Depth(p) = n - 1 /\ n >= 2 /\ n = Len(p)
<1> DEFINE n == Len(s)
           f == s[n]
<1>1. s \in Seq(FrameType) /\ n \in DOMAIN s /\ n \in Nat /\ n >= 1
  BY DEF Walks
<1> HIDE DEF n
<1>2. /\ f \in FrameType /\ f.d \in Seq(Name) /\ Len(f.d) = n - 1 /\ n <= Len(p)
      /\ f.next \in Nat /\ FrameTrue(f, n, p)
  BY <1>1, WalkFacts
<1>3. f.next >= 1 /\ (f.dir = NULL => f.next = 1) /\ f.p = SubSeq(p, n, Len(p))
  BY <1>2 DEF FrameTrue
<1>4. /\ Len(f.p) = Len(p) - n + 1 /\ f.p[1] = p[n]
      /\ f.p = <<Empty>> <=> n = Len(p) /\ p[n] = Empty
      /\ n < Len(p) => Tail(f.p) = SubSeq(p, n + 1, Len(p))
  <2> DEFINE r == SubSeq(p, n, Len(p))
  <2>1. /\ Len(r) = Len(p) - n + 1 /\ r[1] = p[n]
        /\ r = <<Empty>> <=> n = Len(p) /\ p[n] = Empty
        /\ n < Len(p) => Tail(r) = SubSeq(p, n + 1, Len(p))
    BY <1>1, <1>2, RestOf
  <2>2. f.p = r
    BY <1>3
  <2> HIDE DEF r, f
  <2> QED
    BY <2>1, <2>2
<1>5. /\ Len(p) \in Nat /\ Depth(p) \in {Len(p), Len(p) - 1}
      /\ Depth(p) < Len(p) <=> p[Len(p)] = Empty
      /\ p \in Seq(SUBSET Name)
  BY PatternIs
<1>9. Depth(p) = IF p[Len(p)] = Empty THEN Len(p) - 1 ELSE Len(p)
  BY DEF Depth
<1>6. f.p # <<Empty>> => n <= Depth(p)
  <2>1. CASE n = Len(p)
    <3>1. f.p # <<Empty>> => p[Len(p)] # Empty
      BY <1>4, <2>1
    <3> QED
      BY <1>5, <1>9, <2>1, <3>1
  <2>2. CASE n # Len(p)
    <3>1. n <= Len(p) - 1 /\ Len(p) - 1 \in Int
      BY <1>1, <1>2, <1>5, <2>2
    <3> QED
      BY <1>1, <1>2, <1>5, <1>9, <3>1
  <2> QED
    BY <2>1, <2>2
<1>7. f.p = <<Empty>> => Depth(p) = n - 1 /\ n = Len(p)
  BY <1>4, <1>9
<1>8. ASSUME f.p = <<Empty>> PROVE n >= 2
  <2>1. p # <<Empty>>
    BY DEF Walks, WalkTrue
  <2>2. Len(p) # 1
    BY <1>4, <1>5, <1>8, <2>1, OneElement
  <2> QED
    BY <1>1, <1>7, <1>8, <2>2
<1> QED
  BY <1>1, <1>2, <1>3, <1>4, <1>6, <1>7, <1>8 DEF n

\* The top frame returns: what is in its directory is not to come again.
LEMMA WalkLeaves ==
    ASSUME NEW p \in Patterns, NEW s, Walks(s, p), s # << >>
    PROVE  /\ Walks(Front(s), p)
           /\ \A q : ToCome(Front(s), q) => ToCome(s, q)
           /\ \A q : ToCome(s, q) => ToCome(Front(s), q) \/ Ahead(s[Len(s)], q)
           /\ \A q : Len(q) \in Nat /\ Through(s[Len(s)].d, q) => ~ToCome(Front(s), q)
<1> DEFINE n == Len(s)
           t == Front(s)
<1>1. s \in Seq(FrameType)
  BY DEF Walks
<1>2. /\ t \in Seq(FrameType) /\ DOMAIN t = 1..(n - 1)
      /\ DOMAIN s = 1..n /\ n \in Nat /\ n \in DOMAIN s
      /\ \A i \in DOMAIN t : i \in DOMAIN s /\ i # n /\ t[i] = s[i]
      /\ \A i \in DOMAIN s : i # n => i \in DOMAIN t
  BY <1>1, FrontOf
<1> HIDE DEF n, t
<1>3. Walks(t, p)
  BY <1>2 DEF Walks, WalkTrue
<1>4. \A q : ToCome(t, q) => ToCome(s, q)
  BY <1>2 DEF ToCome
<1>5. \A q : ToCome(s, q) => ToCome(t, q) \/ Ahead(s[n], q)
  BY <1>2 DEF ToCome
<1>6. \A q : Len(q) \in Nat /\ Through(s[n].d, q) => ~ToCome(t, q)
  <2> SUFFICES ASSUME NEW q, Len(q) \in Nat, Through(s[n].d, q), NEW i \in DOMAIN t
               PROVE  ~Ahead(t[i], q)
    BY DEF ToCome
  <2>1. i \in DOMAIN s /\ i < n /\ t[i] = s[i]
    BY <1>2
  <2> QED
    BY <1>2, <2>1, OneFrame
<1> QED
  BY <1>3, <1>4, <1>5, <1>6 DEF n, t

\* The top frame goes on with the same directory, at the same entry or the next one.
LEMMA WalkGoesOn ==
    ASSUME NEW p \in Patterns, NEW s, Walks(s, p), s # << >>, NEW f \in FrameType,
           f.d = s[Len(s)].d, f.p = s[Len(s)].p, f.next \in {s[Len(s)].next, s[Len(s)].next + 1},
           f.dir = NULL => f.next = 1
    PROVE  LET t == [s EXCEPT ![Len(s)] = f] IN
           /\ Walks(t, p) /\ Len(t) = Len(s) /\ t # << >> /\ t[Len(s)] = f
           /\ \A q : ToCome(t, q) => ToCome(s, q)
           /\ \A q : ToCome(s, q) => ToCome(t, q) \/ (Ahead(s[Len(s)], q) /\ ~Ahead(f, q))
           /\ \A q : Len(q) \in Nat /\ Through(f.d, q) /\ ToCome(t, q) => Ahead(f, q)
<1> DEFINE n == Len(s)
           t == [s EXCEPT ![n] = f]
<1>1. s \in Seq(FrameType) /\ n \in DOMAIN s /\ n \in Nat /\ DOMAIN s = 1..n
  BY DEF Walks
<1>2. /\ t \in Seq(FrameType) /\ DOMAIN t = DOMAIN s /\ Len(t) = n /\ t[n] = f
      /\ \A i \in DOMAIN s : i # n => t[i] = s[i]
  BY <1>1
<1>3. t # << >>
  BY <1>1, <1>2
<1>4. /\ f.d = s[n].d /\ f.p = s[n].p /\ f.next \in {s[n].next, s[n].next + 1}
      /\ s[n].next \in Nat /\ s[n].next >= 1
  BY TopWalk
<1> HIDE DEF n, t
<1>5. FrameTrue(f, n, p)
  <2>1. FrameTrue(s[n], n, p)
    BY <1>1, WalkFacts
  <2> QED
    BY <1>4, <2>1 DEF FrameTrue
<1>6. Walks(t, p)
  <2>1. \A i \in DOMAIN t : FrameTrue(t[i], i, p)
    BY <1>1, <1>2, <1>5, WalkFacts
  <2>2. \A i, j \in DOMAIN t : i < j => i # n /\ t[i] = s[i] /\ t[j].d = s[j].d
    BY <1>1, <1>2, <1>4
  <2>3. \A i, j \in DOMAIN t : i < j => InEntry(t[j].d, t[i], i)
    BY <1>1, <1>2, <2>2, WalkFacts
  <2>4. p # <<Empty>>
    BY DEF Walks, WalkTrue
  <2> QED
    BY <1>2, <2>1, <2>3, <2>4 DEF Walks, WalkTrue
<1>7. \A q : Ahead(f, q) => Ahead(s[n], q)
  <2> SUFFICES ASSUME NEW q, Ahead(f, q) PROVE Ahead(s[n], q)
    OBVIOUS
  <2>1. f.d \in DOMAIN Tree => \A k \in DOMAIN Tree[f.d] : f.next <= k => s[n].next <= k
    <3>1. f.next \in Nat /\ s[n].next <= f.next
      BY <1>4
    <3>2. CASE f.next = s[n].next
      BY <3>2
    <3>3. CASE f.next = s[n].next + 1
      BY <1>4, <3>3, TreeIs
    <3> QED
      BY <1>4, <3>2, <3>3
  <2> QED
    BY <1>4, <2>1 DEF Ahead
<1>8. \A q : ToCome(t, q) => ToCome(s, q)
  BY <1>1, <1>2, <1>7 DEF ToCome
<1>9. \A q : ToCome(s, q) => ToCome(t, q) \/ (Ahead(s[n], q) /\ ~Ahead(f, q))
  BY <1>1, <1>2 DEF ToCome
<1>10. \A q : Len(q) \in Nat /\ Through(f.d, q) /\ ToCome(t, q) => Ahead(f, q)
  <2> SUFFICES ASSUME NEW q, Len(q) \in Nat, Through(f.d, q), NEW i \in DOMAIN t, Ahead(t[i], q)
               PROVE  i = n
    BY <1>2 DEF ToCome
  <2>1. i # n => i < n
    BY <1>1, <1>2
  <2> QED
    BY <1>1, <1>2, <1>4, <2>1, OneFrame
<1> QED
  BY <1>2, <1>3, <1>6, <1>8, <1>9, <1>10 DEF n, t

\* A frame is put on top for the last entry of the one under it.
LEMMA WalkDescends ==
    ASSUME NEW p \in Patterns, NEW s, Walks(s, p), s # << >>, NEW f \in FrameType,
           FrameTrue(f, Len(s) + 1, p), InEntry(f.d, s[Len(s)], Len(s)),
           \A k \in 1..(Len(s) - 1) : f.d[k] = s[Len(s)].d[k]
    PROVE  /\ Walks(Append(s, f), p)
           /\ \A q : ToCome(Append(s, f), q) <=> ToCome(s, q) \/ Ahead(f, q)
<1> DEFINE n == Len(s)
           t == Append(s, f)
<1>1. s \in Seq(FrameType) /\ n \in DOMAIN s /\ n \in Nat /\ DOMAIN s = 1..n
  BY DEF Walks
<1>2. /\ t \in Seq(FrameType) /\ t[n + 1] = f /\ n + 1 \in DOMAIN t
      /\ \A i \in DOMAIN t : i = n + 1 \/ i \in DOMAIN s
      /\ \A i \in DOMAIN s : i \in DOMAIN t /\ t[i] = s[i] /\ i # n + 1
  BY <1>1
<1> HIDE DEF n, t
<1>3. /\ FrameTrue(f, n + 1, p) /\ InEntry(f.d, s[n], n)
      /\ \A k \in 1..(n - 1) : f.d[k] = s[n].d[k]
  BY DEF n
<1>4. \A i \in DOMAIN t : FrameTrue(t[i], i, p)
  BY <1>2, <1>3, WalkFacts
<1>5. \A i \in DOMAIN s : InEntry(f.d, s[i], i)
  <2> SUFFICES ASSUME NEW i \in DOMAIN s, i # n PROVE InEntry(f.d, s[i], i)
    BY <1>3
  <2>1. i < n /\ i \in 1..(n - 1)
    BY <1>1
  <2>2. InEntry(s[n].d, s[i], i)
    BY <1>1, <2>1, WalkFacts
  <2> QED
    BY <1>3, <2>1, <2>2 DEF InEntry
<1>6. \A i, j \in DOMAIN t : i < j => InEntry(t[j].d, t[i], i)
  <2> SUFFICES ASSUME NEW i \in DOMAIN t, NEW j \in DOMAIN t, i < j PROVE InEntry(t[j].d, t[i], i)
    OBVIOUS
  <2>1. i \in DOMAIN s /\ t[i] = s[i]
    BY <1>1, <1>2
  <2>2. CASE j = n + 1
    BY <1>2, <1>5, <2>1, <2>2
  <2>3. CASE j \in DOMAIN s
    BY <1>2, <2>1, <2>3, WalkFacts
  <2> QED
    BY <1>2, <2>2, <2>3
<1>7. Walks(t, p)
  BY <1>2, <1>4, <1>6 DEF Walks, WalkTrue
<1>8. \A q : ToCome(t, q) <=> ToCome(s, q) \/ Ahead(f, q)
  BY <1>2 DEF ToCome
<1> QED
  BY <1>7, <1>8 DEF t

-----------------------------------------------------------------------------
(* What a step of match_in_dir does to what is to come *)

\* Of the paths the pattern stands for the same are to come, none more, or all but q.
SameToCome(s, t, p) == \A r \in Denotes(p) : ToCome(t, r) <=> ToCome(s, r)
NoMoreToCome(s, t, p) == \A r \in Denotes(p) : ToCome(t, r) => ToCome(s, r)
AllButToCome(s, t, p, q) ==
    /\ q \in Denotes(p) /\ ToCome(s, q)
    /\ \A r \in Denotes(p) : ToCome(t, r) <=> ToCome(s, r) /\ r # q

\* The sequence l is f with q at its end.
Longer(f, l, q) ==
    \E n : /\ n \notin DOMAIN f /\ DOMAIN l = DOMAIN f \cup {n} /\ l[n] = q
           /\ \A i \in DOMAIN f : l[i] = f[i]

LEMMA FoundKept ==
    ASSUME NEW found, NEW s, NEW t, NEW p, NEW x, FoundTrue(found, s, p, x)
    PROVE  /\ SameToCome(s, t, p) => FoundTrue(found, t, p, x)
           /\ \A y : y # {} /\ NoMoreToCome(s, t, p) => FoundTrue(found, t, p, y)
BY DEF FoundTrue, SameToCome, NoMoreToCome

LEMMA FoundLonger ==
    ASSUME NEW found, NEW l, NEW s, NEW t, NEW p, NEW x, NEW q, FoundTrue(found, s, p, x),
           AllButToCome(s, t, p, q), Longer(found, l, q)
    PROVE  FoundTrue(l, t, p, x)
<1>1. PICK n : /\ n \notin DOMAIN found /\ DOMAIN l = DOMAIN found \cup {n} /\ l[n] = q
               /\ \A i \in DOMAIN found : l[i] = found[i]
  BY DEF Longer
<1>2. \A i \in DOMAIN found : found[i] \in Denotes(p) /\ ~ToCome(s, found[i]) /\ found[i] # q
  BY DEF FoundTrue, AllButToCome
<1>3. \A i \in DOMAIN l : l[i] \in Denotes(p) /\ ~ToCome(t, l[i])
  BY <1>1, <1>2 DEF AllButToCome
<1>4. \A i, j \in DOMAIN l : l[i] = l[j] => i = j
  BY <1>1, <1>2 DEF FoundTrue
<1>5. ASSUME x = {}, NEW r \in Denotes(p) PROVE ToCome(t, r) \/ \E i \in DOMAIN l : l[i] = r
  <2>1. ToCome(s, r) \/ \E i \in DOMAIN found : found[i] = r
    BY <1>5 DEF FoundTrue
  <2> QED
    BY <1>1, <2>1 DEF AllButToCome
<1> QED
  BY <1>3, <1>4, <1>5 DEF FoundTrue

LEMMA ThroughParent ==
    ASSUME NEW S, NEW d \in Seq(S), NEW q \in Seq(S), Through(d, q), Len(d) < Len(q)
    PROVE  Parent(q, Len(d) + 1) = d
<1> DEFINE n == Len(d)
           x == SubSeq(q, 1, n)
<1>1. n \in Nat /\ n <= Len(q) /\ (n + 1) - 1 = n /\ Len(q) \in Nat
  OBVIOUS
<1>2. \A k \in 1..n : q[k] = d[k]
  BY DEF Through
<1>3. x \in Seq(S) /\ Len(x) = n /\ \A k \in 1..n : x[k] = q[k]
  BY <1>1
<1>4. x = d
  <2>1. d \in Seq(S) /\ Len(d) = n
    OBVIOUS
  <2> HIDE DEF x, n
  <2> QED
    BY <1>2, <1>3, <2>1
<1> HIDE DEF x, n
<1>5. Parent(q, n + 1) = x
  BY <1>1, Zenon DEF Parent, x
<1> QED
  BY <1>4, <1>5 DEF n

\* What is not ahead of the next entry any more is this one, or in it.
LEMMA PassedEntry ==
    ASSUME NEW p \in Patterns, NEW s, Walks(s, p), s # << >>, s[Len(s)].p # <<Empty>>,
           NEW f, f.d = s[Len(s)].d, f.next = s[Len(s)].next + 1,
           NEW q \in Denotes(p), Ahead(s[Len(s)], q), ~Ahead(f, q)
    PROVE  LET n == Len(s)
               d == s[n].d
               k == s[n].next
           IN /\ d \in DOMAIN Tree /\ k \in DOMAIN Tree[d] /\ Tree[d][k].name = q[n]
              /\ n <= Len(q) /\ q[n] \in p[n] /\ Through(d, q)
              /\ n < Len(p) => Tree[d][k].d_type # "DT_REG"
<1> DEFINE n == Len(s)
           d == s[n].d
           k == s[n].next
<1>1. /\ n \in Nat /\ n >= 1 /\ n <= Depth(p) /\ d \in Seq(Name) /\ Len(d) = n - 1
      /\ k \in Nat /\ f.d = d /\ f.next = k + 1
  BY TopWalk
<1>2. Ahead(s[n], q) /\ ~Ahead(f, q)
  OBVIOUS
<1>3. q \in Seq(Name) /\ Len(q) = Depth(p) /\ Len(q) \in Nat
  BY DenotedIs
<1>4. Through(d, q) /\ Len(d) + 1 = n /\ Len(q) > Len(d)
  <2>1. Through(d, q)
    BY <1>2 DEF Ahead
  <2>2. Len(d) + 1 = n /\ Len(q) > Len(d)
    BY <1>1, <1>3
  <2> QED
    BY <2>1, <2>2
<1>5. PICK j \in DOMAIN Tree[d] : k <= j /\ Tree[d][j].name = q[n]
  BY <1>2, <1>4 DEF Ahead
<1>6. d \in DOMAIN Tree
  BY <1>2, <1>4 DEF Ahead
<1> HIDE DEF n, d, k
<1>7. ~(k + 1 <= j)
  BY <1>1, <1>2, <1>4, <1>5, <1>6 DEF Ahead
<1>8. j = k
  BY <1>1, <1>5, <1>6, <1>7, TreeIs
<1>9. Parent(q, n) = d
  BY <1>1, <1>3, <1>4, ThroughParent
<1>10. n \in 1..Len(q)
  BY <1>1, <1>3
<1>11. q[n] \in p[n] /\ (n < Len(p) => \A i \in DOMAIN Tree[d] :
                            Tree[d][i].name = q[n] => Tree[d][i].d_type # "DT_REG")
  BY <1>9, <1>10, DenotedIs
<1> QED
  BY <1>1, <1>3, <1>4, <1>5, <1>6, <1>8, <1>11 DEF n, d, k

\* The frame goes on with the next entry.
NextFrame == [Top EXCEPT !.next = @ + 1]
NextStack == [stack EXCEPT ![Len(stack)] = NextFrame]

LEMMA EntryIs ==
    ASSUME NEW p \in Patterns, Walks(stack, p), HasEntry
    PROVE  /\ stack # << >> /\ Top \in FrameType /\ Top.p # <<Empty>> /\ Top.dir # NULL
           /\ Top.next \in Nat /\ Top.d \in DOMAIN Tree /\ Top.next \in DOMAIN Tree[Top.d]
           /\ Top.d \in Seq(Name) /\ Entry.name \in Name
<1>1. /\ stack # << >> /\ Top.p # <<Empty>> /\ Top.dir # NULL
      /\ Top.d \in DOMAIN Tree /\ Top.next <= Len(Tree[Top.d])
  BY DEF HasEntry, Searching, Matching, PatternEnded
<1>2. Top \in FrameType /\ Top.d \in Seq(Name) /\ Top.next \in Nat /\ Top.next >= 1
  BY <1>1, TopWalk DEF Top
<1>3. Top.next \in DOMAIN Tree[Top.d]
  BY <1>1, <1>2, TreeIs
<1>4. Entry.name \in Name
  BY <1>1, <1>3, TreeIs DEF Entry
<1> QED
  BY <1>1, <1>2, <1>3, <1>4

LEMMA NextWalk ==
    ASSUME NEW p \in Patterns, Walks(stack, p), HasEntry
    PROVE  /\ Walks(NextStack, p) /\ Len(NextStack) = Len(stack) /\ NextStack # << >>
           /\ NextStack[Len(stack)] = NextFrame /\ NextFrame \in FrameType
           /\ NextFrame.d = Top.d /\ NextFrame.next = Top.next + 1
           /\ \A q \in Denotes(p) : ToCome(NextStack, q) => ToCome(stack, q)
           /\ \A q \in Denotes(p) : ToCome(stack, q) /\ ~ToCome(NextStack, q) =>
                /\ q[Len(stack)] = Entry.name /\ Len(stack) <= Len(q)
                /\ q[Len(stack)] \in p[Len(stack)] /\ Through(Top.d, q)
                /\ Len(stack) < Len(p) => Entry.d_type # "DT_REG"
           /\ \A q : /\ Len(q) \in Nat /\ Len(stack) <= Len(q) /\ Through(Top.d, q)
                     /\ q[Len(stack)] = Entry.name
                => ToCome(stack, q) /\ ~ToCome(NextStack, q)
<1> DEFINE n == Len(stack)
<1>1. /\ stack # << >> /\ Top \in FrameType /\ Top.p # <<Empty>> /\ Top.dir # NULL
      /\ Top.next \in Nat /\ Top.d \in DOMAIN Tree /\ Top.next \in DOMAIN Tree[Top.d]
  BY EntryIs
<1>2. /\ NextFrame \in FrameType /\ NextFrame.d = Top.d /\ NextFrame.p = Top.p
      /\ NextFrame.dir = Top.dir /\ NextFrame.next = Top.next + 1
  <2>1. NextFrame \in FrameType /\ NextFrame.d = Top.d /\ NextFrame.p = Top.p
        /\ NextFrame.dir = Top.dir
    BY <1>1, NextOf DEF NextFrame
  <2>2. NextFrame.next = Top.next + 1
    BY <1>1 DEF NextFrame, FrameType
  <2> QED
    BY <2>1, <2>2
<1>3. n \in DOMAIN stack /\ n \in Nat /\ n >= 1 /\ Len(Top.d) = n - 1
  BY <1>1, TopWalk DEF Top
<1>4. /\ Walks(NextStack, p) /\ Len(NextStack) = n /\ NextStack # << >>
      /\ NextStack[n] = NextFrame
      /\ \A q : ToCome(NextStack, q) => ToCome(stack, q)
      /\ \A q : ToCome(stack, q) => ToCome(NextStack, q) \/ (Ahead(Top, q) /\ ~Ahead(NextFrame, q))
      /\ \A q : Len(q) \in Nat /\ Through(NextFrame.d, q) /\ ToCome(NextStack, q)
                => Ahead(NextFrame, q)
  <2>1. /\ NextFrame.d = stack[n].d /\ NextFrame.p = stack[n].p
        /\ NextFrame.next \in {stack[n].next, stack[n].next + 1} /\ NextFrame.dir # NULL
    BY <1>1, <1>2 DEF Top
  <2> HIDE DEF n
  <2> QED
    BY <1>1, <1>2, <2>1, WalkGoesOn DEF NextStack, n, Top
<1>5. ASSUME NEW q \in Denotes(p), ToCome(stack, q), ~ToCome(NextStack, q)
      PROVE  /\ q[n] = Entry.name /\ n <= Len(q) /\ q[n] \in p[n] /\ Through(Top.d, q)
             /\ n < Len(p) => Entry.d_type # "DT_REG"
  <2>1. Ahead(Top, q) /\ ~Ahead(NextFrame, q)
    BY <1>4, <1>5
  <2>2. /\ Tree[Top.d][Top.next].name = q[n] /\ n <= Len(q) /\ q[n] \in p[n] /\ Through(Top.d, q)
        /\ n < Len(p) => Tree[Top.d][Top.next].d_type # "DT_REG"
    BY <1>1, <1>2, <2>1, PassedEntry DEF Top
  <2> QED
    BY <2>2 DEF Entry
<1>6. ASSUME NEW q, Len(q) \in Nat, n <= Len(q), Through(Top.d, q), q[n] = Entry.name
      PROVE  ToCome(stack, q) /\ ~ToCome(NextStack, q)
  <2>1. Len(Top.d) + 1 = n /\ Len(q) > Len(Top.d)
    BY <1>3, <1>6
  <2>2. \A k \in DOMAIN Tree[Top.d] : Tree[Top.d][k].name = q[n] => k = Top.next
    BY <1>1, <1>6, TreeIs DEF Entry
  <2>3. ~Ahead(NextFrame, q)
    BY <1>1, <1>2, <2>1, <2>2 DEF Ahead
  <2>4. Ahead(Top, q)
    BY <1>1, <1>6, <2>1 DEF Ahead, Entry
  <2>5. ToCome(stack, q)
    BY <1>3, <2>4 DEF ToCome, Top
  <2>6. ~ToCome(NextStack, q)
    BY <1>2, <1>4, <1>6, <2>3
  <2> QED
    BY <2>5, <2>6
<1> HIDE DEF n
<1>7. \A q \in Denotes(p) : ToCome(NextStack, q) => ToCome(stack, q)
  BY <1>4
<1> QED
  BY <1>2, <1>4, <1>5, <1>6, <1>7 DEF n

LEMMA SkipWalk ==
    ASSUME NEW p \in Patterns, Walks(stack, p), Skip
    PROVE  Walks(stack', p) /\ SameToCome(stack, stack', p)
<1>1. HasEntry /\ ~Matches /\ stack' = NextStack
  BY DEF Skip, SetTop, NextStack, NextFrame
<1>2. /\ stack # << >> /\ Len(stack) \in Nat /\ Len(Top.p) = Len(p) - Len(stack) + 1
      /\ Top.p[1] = p[Len(stack)] /\ Len(p) \in Nat
  <2>1. stack # << >>
    BY <1>1, EntryIs
  <2>2. Len(p) \in Nat
    BY PatternIs
  <2> QED
    BY <2>1, <2>2, TopWalk DEF Top
<1>3. ASSUME NEW q \in Denotes(p), ToCome(stack, q), ~ToCome(NextStack, q) PROVE FALSE
  <2>1. /\ q[Len(stack)] = Entry.name /\ q[Len(stack)] \in p[Len(stack)]
        /\ Len(stack) < Len(p) => Entry.d_type # "DT_REG"
    BY <1>1, <1>3, NextWalk
  <2>2. MoreComponents => Len(stack) < Len(p)
    BY <1>2 DEF MoreComponents
  <2> QED
    BY <1>1, <1>2, <2>1, <2>2 DEF Matches
<1>4. Walks(NextStack, p) /\ \A q \in Denotes(p) : ToCome(NextStack, q) => ToCome(stack, q)
  BY <1>1, NextWalk
<1> QED
  BY <1>1, <1>3, <1>4 DEF SameToCome

\* The path of an entry that matches is in the pattern's place.
LEMMA MatchedEntry ==
    ASSUME NEW p \in Patterns, Walks(stack, p), HasEntry, Matches
    PROVE  /\ EntryPath \in Seq(Name) /\ Len(EntryPath) = Len(stack) /\ Len(stack) \in Nat
           /\ Len(stack) >= 1 /\ Len(stack) <= Len(p)
           /\ EntryPath[Len(stack)] = Entry.name /\ Through(Top.d, EntryPath)
           /\ Front(EntryPath) = Top.d /\ Last(EntryPath) = Entry.name /\ EntryPath # << >>
           /\ \A k \in 1..(Len(stack) - 1) : EntryPath[k] = Top.d[k]
           /\ \A k \in 1..Len(stack) : EntryPath[k] \in p[k]
           /\ MoreComponents <=> Len(stack) < Len(p)
           /\ MoreComponents => Tail(Top.p) = SubSeq(p, Len(stack) + 1, Len(p))
           /\ ~MoreComponents => Depth(p) = Len(stack)
<1> DEFINE n == Len(stack)
           q == EntryPath
<1>1. stack # << >> /\ Top.d \in Seq(Name) /\ Entry.name \in Name
  BY EntryIs
<1>2. /\ n \in DOMAIN stack /\ n \in Nat /\ n >= 1 /\ n <= Len(p) /\ Len(Top.d) = n - 1
      /\ Len(Top.p) = Len(p) - n + 1 /\ Top.p[1] = p[n]
      /\ n < Len(p) => Tail(Top.p) = SubSeq(p, n + 1, Len(p))
  BY <1>1, TopWalk DEF Top
<1>3. /\ q \in Seq(Name) /\ Len(q) = Len(Top.d) + 1 /\ q # << >>
      /\ Front(q) = Top.d /\ Last(q) = Entry.name /\ q[Len(Top.d) + 1] = Entry.name
      /\ \A k \in 1..Len(Top.d) : q[k] = Top.d[k]
  BY <1>1, SplitLast DEF EntryPath
<1>4. FrameTrue(Top, n, p)
  BY <1>2, WalkFacts DEF Top
<1>5. /\ Len(p) \in Nat /\ Depth(p) \in {Len(p), Len(p) - 1}
      /\ Depth(p) < Len(p) <=> p[Len(p)] = Empty
  BY PatternIs
<1> HIDE DEF n, q
<1>6. Len(q) = n /\ q[n] = Entry.name /\ \A k \in 1..(n - 1) : q[k] = Top.d[k]
  BY <1>2, <1>3
<1>7. Through(Top.d, q)
  BY <1>2, <1>3, <1>6 DEF Through
<1>8. \A k \in 1..n : q[k] \in p[k]
  <2>1. \A k \in 1..(n - 1) : q[k] \in p[k]
    BY <1>4, <1>6 DEF FrameTrue
  <2>2. q[n] \in p[n]
    BY <1>2, <1>6 DEF Matches
  <2>3. \A k \in 1..n : k = n \/ k \in 1..(n - 1)
    BY <1>2
  <2> QED
    BY <2>1, <2>2, <2>3
<1>9. MoreComponents <=> n < Len(p)
  BY <1>2, <1>5 DEF MoreComponents
<1>10. ASSUME ~MoreComponents PROVE Depth(p) = n
  <2>1. n = Len(p)
    BY <1>2, <1>5, <1>9, <1>10
  <2>2. p[n] # Empty
    BY <1>2, <1>8 DEF Empty
  <2> QED
    BY <1>2, <1>5, <2>1, <2>2
<1> QED
  BY <1>2, <1>3, <1>6, <1>7, <1>8, <1>9, <1>10 DEF n, q

LEMMA FoundWalk ==
    ASSUME NEW p \in Patterns, Walks(stack, p), NameWritten, ~MoreComponents
    PROVE  Walks(NextStack, p) /\ AllButToCome(stack, NextStack, p, EntryPath)
<1>1. HasEntry /\ Matches
  BY DEF NameWritten, MayWriteName
<1>2. /\ EntryPath \in Seq(Name) /\ Len(EntryPath) = Len(stack) /\ Len(stack) \in Nat
      /\ EntryPath[Len(stack)] = Entry.name /\ Through(Top.d, EntryPath)
      /\ \A k \in 1..(Len(stack) - 1) : EntryPath[k] = Top.d[k]
      /\ \A k \in 1..Len(stack) : EntryPath[k] \in p[k]
      /\ Len(stack) <= Len(p) /\ ~(Len(stack) < Len(p)) /\ Depth(p) = Len(stack)
  BY <1>1, MatchedEntry
<1>3. /\ Top.d \in DOMAIN Tree /\ Top.next \in DOMAIN Tree[Top.d] /\ Top.d \in Seq(Name)
      /\ stack # << >>
  BY <1>1, EntryIs
<1>4. EntryPath \in Denotes(p)
  <2>1. ~(Depth(p) < Len(p)) /\ Len(EntryPath) = Depth(p)
    BY <1>2, PatternIs
  <2>2. EntryPath = Append(Top.d, Tree[Top.d][Top.next].name)
    BY DEF EntryPath, Entry
  <2> QED
    BY <1>2, <1>3, <2>1, <2>2, EntryDenoted
<1>5. ToCome(stack, EntryPath) /\ ~ToCome(NextStack, EntryPath)
  BY <1>1, <1>2, NextWalk
<1>6. ASSUME NEW q \in Denotes(p), ToCome(stack, q), ~ToCome(NextStack, q) PROVE q = EntryPath
  <2>1. q[Len(stack)] = Entry.name /\ Through(Top.d, q)
    BY <1>1, <1>6, NextWalk
  <2>2. q \in Seq(Name) /\ Len(q) = Len(stack)
    BY <1>2, DenotedIs
  <2>3. Len(Top.d) = Len(stack) - 1
    BY <1>3, TopWalk DEF Top
  <2>4. \A k \in 1..Len(stack) : k = Len(stack) \/ k \in 1..(Len(stack) - 1)
    BY <1>2
  <2>5. \A k \in 1..Len(stack) : q[k] = EntryPath[k]
    BY <1>2, <2>1, <2>3, <2>4 DEF Through
  <2> QED
    BY <1>2, <2>2, <2>5
<1>7. Walks(NextStack, p) /\ \A q \in Denotes(p) : ToCome(NextStack, q) => ToCome(stack, q)
  BY <1>1, NextWalk
<1> QED
  BY <1>4, <1>5, <1>6, <1>7 DEF AllButToCome

LEMMA DescendWalk ==
    ASSUME NEW p \in Patterns, Walks(stack, p), Descend
    PROVE  Walks(stack', p) /\ SameToCome(stack, stack', p)
<1> DEFINE n == Len(stack)
           f == Frame(EntryPath, Tail(Top.p))
<1>1. HasEntry /\ Matches /\ MoreComponents /\ stack' = Append(NextStack, f)
  <2>1. HasEntry /\ Matches /\ MoreComponents
    BY DEF Descend, NameWritten, MayWriteName
  <2>2. stack # << >> /\ stack \in Seq(FrameType)
    BY <2>1, EntryIs DEF Walks
  <2>3. [stack EXCEPT ![Len(stack)].next = @ + 1] = NextStack
    BY <2>2 DEF NextStack, NextFrame, Top
  <2>4. stack' = Append([stack EXCEPT ![Len(stack)].next = @ + 1], f)
    BY DEF Descend
  <2> HIDE DEF f
  <2> QED
    BY <2>1, <2>3, <2>4
<1>2. /\ Top.d \in DOMAIN Tree /\ Top.next \in DOMAIN Tree[Top.d] /\ Top.d \in Seq(Name)
      /\ Top.next \in Nat /\ stack # << >>
  BY <1>1, EntryIs
<1>3. /\ EntryPath \in Seq(Name) /\ Len(EntryPath) = n /\ n \in Nat /\ n >= 1 /\ n < Len(p)
      /\ EntryPath[n] = Entry.name /\ Through(Top.d, EntryPath) /\ EntryPath # << >>
      /\ Front(EntryPath) = Top.d /\ Last(EntryPath) = Entry.name
      /\ \A k \in 1..(n - 1) : EntryPath[k] = Top.d[k]
      /\ \A k \in 1..n : EntryPath[k] \in p[k]
      /\ Tail(Top.p) = SubSeq(p, n + 1, Len(p))
  BY <1>1, MatchedEntry
<1>4. f = [d |-> EntryPath, p |-> SubSeq(p, n + 1, Len(p)), dir |-> NULL, next |-> 1,
           namebuf |-> NULL]
  BY <1>3 DEF Frame
<1>5. /\ f.d = EntryPath /\ f.p = SubSeq(p, n + 1, Len(p)) /\ f.dir = NULL /\ f.next = 1
      /\ f \in FrameType
  <2>1. SubSeq(p, n + 1, Len(p)) \in Seq(SUBSET Name)
    <3>1. p \in Seq(SUBSET Name) /\ Len(p) \in Nat
      BY PatternIs
    <3> QED
      BY <1>3, <3>1
  <2>2. f \in FrameType
    <3> DEFINE r == SubSeq(p, n + 1, Len(p))
    <3>1. r \in Seq(SUBSET Name) /\ EntryPath \in Seq(Name)
      BY <1>3, <2>1
    <3>2. f = [d |-> EntryPath, p |-> r, dir |-> NULL, next |-> 1, namebuf |-> NULL]
      BY <1>4
    <3> HIDE DEF r, f
    <3> QED
      BY <3>1, <3>2 DEF FrameType, NULL
  <2> QED
    BY <1>4, <2>2
<1>6. /\ Walks(NextStack, p) /\ Len(NextStack) = n /\ NextStack # << >>
      /\ NextStack[n] = NextFrame /\ NextFrame.d = Top.d /\ NextFrame.next = Top.next + 1
  BY <1>1, NextWalk
<1> HIDE DEF n, f
<1>7. FrameTrue(f, n + 1, p)
  <2>1. IsOpened(EntryPath)
    <3>1. Entry.d_type # "DT_REG"
      BY <1>1 DEF Matches
    <3> QED
      BY <1>2, <1>3, <3>1 DEF IsOpened, Entry
  <2>2. (n + 1) - 1 = n /\ n + 1 <= Len(p) /\ Len(f.d) = (n + 1) - 1
    <3>1. Len(p) \in Nat
      BY PatternIs
    <3> QED
      BY <1>3, <1>5, <3>1
  <2> QED
    BY <1>3, <1>5, <2>1, <2>2 DEF FrameTrue
<1>8. InEntry(f.d, NextFrame, n)
  <2>1. (Top.next + 1) - 1 = Top.next
    BY <1>2
  <2> QED
    BY <1>2, <1>3, <1>5, <1>6, <2>1 DEF InEntry, Entry
<1>9. Walks(stack', p) /\ \A q : ToCome(stack', q) <=> ToCome(NextStack, q) \/ Ahead(f, q)
  <2> DEFINE m == Len(NextStack)
  <2>1. Walks(NextStack, p) /\ NextStack # << >> /\ f \in FrameType
    BY <1>5, <1>6
  <2>2. FrameTrue(f, m + 1, p) /\ InEntry(f.d, NextStack[m], m)
    BY <1>6, <1>7, <1>8
  <2>3. \A k \in 1..(m - 1) : f.d[k] = NextStack[m].d[k]
    BY <1>3, <1>5, <1>6
  <2> HIDE DEF NextStack
  <2>4. Walks(Append(NextStack, f), p)
        /\ \A q : ToCome(Append(NextStack, f), q) <=> ToCome(NextStack, q) \/ Ahead(f, q)
    BY <2>1, <2>2, <2>3, WalkDescends
  <2> QED
    BY <1>1, <2>4
<1>10. ASSUME NEW q \in Denotes(p), Ahead(f, q) PROVE ToCome(stack, q)
  <2>1. Through(EntryPath, q)
    BY <1>5, <1>10 DEF Ahead
  <2>2. Len(q) \in Nat /\ n <= Len(q)
    BY <1>3, <2>1, DenotedIs DEF Through
  <2>3. q[n] = Entry.name
    BY <1>3, <2>1 DEF Through
  <2>4. Len(Top.d) = n - 1
    BY <1>2, TopWalk DEF Top, n
  <2>5. Through(Top.d, q)
    BY <1>3, <2>1, <2>2, <2>4 DEF Through
  <2> QED
    BY <1>1, <2>2, <2>3, <2>5, NextWalk DEF n
<1>11. ASSUME NEW q \in Denotes(p), ToCome(stack, q), ~ToCome(NextStack, q) PROVE Ahead(f, q)
  <2>1. q[n] = Entry.name /\ n <= Len(q) /\ Through(Top.d, q)
    BY <1>1, <1>11, NextWalk DEF n
  <2>2. q \in Seq(Name) /\ Len(q) \in Nat
    BY DenotedIs
  <2>3. Len(Top.d) = n - 1
    BY <1>2, TopWalk DEF Top, n
  <2>4. \A k \in 1..n : k = n \/ k \in 1..(n - 1)
    BY <1>3
  <2>5. Through(EntryPath, q)
    BY <1>3, <2>1, <2>3, <2>4 DEF Through
  <2>6. ASSUME Len(q) > n
        PROVE  EntryPath \in DOMAIN Tree /\ \E k \in DOMAIN Tree[EntryPath] :
                    1 <= k /\ Tree[EntryPath][k].name = q[n + 1]
    <3>1. Parent(q, n + 1) = EntryPath /\ n + 1 \in 1..Len(q)
      BY <1>3, <2>2, <2>5, <2>6, ThroughParent
    <3>2. EntryPath \in DOMAIN Tree /\ \E k \in DOMAIN Tree[EntryPath] :
                    Tree[EntryPath][k].name = q[n + 1]
      BY <3>1, DenotedIs
    <3> QED
      BY <3>2, TreeIs
  <2> QED
    BY <1>3, <1>5, <2>5, <2>6 DEF Ahead
<1>12. \A q \in Denotes(p) : ToCome(NextStack, q) => ToCome(stack, q)
  BY <1>1, NextWalk
<1> QED
  BY <1>9, <1>10, <1>11, <1>12 DEF SameToCome

LEMMA LeaveWalk ==
    ASSUME NEW p \in Patterns, Walks(stack, p), stack # << >>
    PROVE  /\ Walks(Front(stack), p) /\ NoMoreToCome(stack, Front(stack), p)
           /\ Walks(<< >>, p) /\ NoMoreToCome(stack, << >>, p)
<1>1. Walks(Front(stack), p) /\ NoMoreToCome(stack, Front(stack), p)
  BY WalkLeaves DEF NoMoreToCome
<1>2. Walks(<< >>, p) /\ NoMoreToCome(stack, << >>, p)
  BY DEF Walks, WalkTrue, NoMoreToCome, ToCome
<1> QED
  BY <1>1, <1>2

\* At the end of a directory nothing in it is to come.
LEMMA EndWalk ==
    ASSUME NEW p \in Patterns, Walks(stack, p), stack # << >>, ~PatternEnded, AtEnd
    PROVE  SameToCome(stack, Front(stack), p)
<1> DEFINE n == Len(stack)
<1>1. /\ n \in Nat /\ n >= 1 /\ n <= Depth(p) /\ Len(Top.d) = n - 1 /\ Top.next \in Nat
  BY TopWalk DEF Top, PatternEnded
<1>2. Top.d \in DOMAIN Tree /\ Top.next > Len(Tree[Top.d])
  BY DEF AtEnd
<1>3. \A q \in Denotes(p) : ~Ahead(Top, q)
  <2> SUFFICES ASSUME NEW q \in Denotes(p), Ahead(Top, q) PROVE FALSE
    OBVIOUS
  <2>1. Len(q) = Depth(p) /\ Len(q) \in Nat
    BY DenotedIs
  <2>2. Len(q) > Len(Top.d)
    BY <1>1, <2>1
  <2>3. \E k \in DOMAIN Tree[Top.d] : Top.next <= k
    BY <2>2 DEF Ahead
  <2> QED
    BY <1>1, <1>2, <2>3, TreeIs
<1> QED
  BY <1>3, WalkLeaves DEF SameToCome, Top

\* A directory behind which the pattern ends is what the pattern stands for.
LEMMA DirectoryWalk ==
    ASSUME NEW p \in Patterns, Walks(stack, p), stack # << >>, PatternEnded
    PROVE  AllButToCome(stack, Front(stack), p, Top.d)
<1> DEFINE n == Len(stack)
           d == Top.d
<1>1. /\ n \in DOMAIN stack /\ n \in Nat /\ n >= 2
      /\ Depth(p) = n - 1 /\ n = Len(p) /\ Len(d) = n - 1
      /\ d \in Seq(Name)
  BY TopWalk DEF Top, PatternEnded
<1>2. FrameTrue(Top, n, p)
  BY <1>1, WalkFacts DEF Top
<1> HIDE DEF n
<1>3. /\ \A k \in 1..(n - 1) : d[k] \in p[k]
      /\ IsOpened(d) /\ d # << >>
  BY <1>1, <1>2 DEF FrameTrue
<1>4. PICK j \in DOMAIN Tree[Front(d)] :
            Tree[Front(d)][j].name = Last(d) /\ Tree[Front(d)][j].d_type # "DT_REG"
  BY <1>3 DEF IsOpened
<1>5. d = Append(Front(d), Last(d))
  BY <1>1, <1>3, FrontAndLast
<1>6. Front(d) \in DOMAIN Tree
  BY <1>3 DEF IsOpened
<1>7. d \in Denotes(p)
  <2>1. d = Append(Front(d), Tree[Front(d)][j].name)
    BY <1>4, <1>5
  <2> HIDE DEF d
  <2> QED
    BY <1>1, <1>3, <1>4, <1>6, <2>1, EntryDenoted
<1>8. Through(d, d)
  BY <1>1 DEF Through
<1>9. ToCome(stack, d)
  <2>1. Ahead(Top, d)
    BY <1>1, <1>8 DEF Ahead
  <2> QED
    BY <1>1, <2>1 DEF ToCome, Top, n
<1>10. ~ToCome(Front(stack), d)
  BY <1>1, <1>8, WalkLeaves DEF Top
<1>11. ASSUME NEW q \in Denotes(p), ToCome(stack, q), ~ToCome(Front(stack), q) PROVE q = d
  <2>1. Ahead(Top, q)
    BY <1>11, WalkLeaves DEF Top
  <2>2. q \in Seq(Name) /\ Len(q) = n - 1 /\ \A k \in 1..(n - 1) : q[k] = d[k]
    BY <1>1, <2>1, DenotedIs DEF Ahead, Through
  <2> QED
    BY <1>1, <2>2
<1>12. NoMoreToCome(stack, Front(stack), p)
  BY LeaveWalk
<1> QED
  BY <1>7, <1>9, <1>10, <1>11, <1>12 DEF AllButToCome, NoMoreToCome

\* The top frame gets its directory or its name buffer.
LEMMA SameWalk ==
    ASSUME NEW p \in Patterns, Walks(stack, p), stack # << >>, NEW f \in FrameType,
           f.d = Top.d, f.p = Top.p, f.next = Top.next, f.dir = NULL => Top.dir = NULL,
           stack' = [stack EXCEPT ![Len(stack)] = f]
    PROVE  Walks(stack', p) /\ SameToCome(stack, stack', p)
<1> DEFINE n == Len(stack)
<1>1. f.dir = NULL => f.next = 1
  BY TopWalk DEF Top
<1>2. /\ Walks(stack', p)
      /\ \A q : ToCome(stack', q) => ToCome(stack, q)
      /\ \A q : ToCome(stack, q) => ToCome(stack', q) \/ (Ahead(Top, q) /\ ~Ahead(f, q))
  BY <1>1, WalkGoesOn DEF Top
<1>3. \A q : Ahead(Top, q) <=> Ahead(f, q)
  BY DEF Ahead
<1> QED
  BY <1>2, <1>3 DEF SameToCome

-----------------------------------------------------------------------------
(* The steps of match_in_dir find what the pattern stands for *)

\* Only blocks of the frames change.
FramesOnly ==
    \A b \in DOMAIN heap : InStack(b, stack) \/ (b \in DOMAIN heap' /\ heap'[b] = heap[b])

LEMMA PathsAreKept ==
    ASSUME InMatch, FramesOnly
    PROVE  KeepsPaths(heap, heap', {})
<1>1. StackOwn(stack, heap) /\ NULL \notin DOMAIN heap /\ NOBUF \notin DOMAIN heap
  BY MatchFacts
<1> SUFFICES ASSUME NEW b \in DOMAIN heap, heap[b].is \in {"path", "vector"}, InStack(b, stack)
             PROVE  FALSE
  BY DEF KeepsPaths, IsIn, FramesOnly
<1>2. PICK i \in DOMAIN stack : b = stack[i].dir \/ b = stack[i].namebuf
  BY DEF InStack
<1> QED
  BY <1>1, <1>2 DEF StackOwn, IsIn

LEMMA FoundPathsStay ==
    ASSUME PathsOwn(g, call.chain, heap), KeepsPaths(heap, heap', {}), call'.chain = call.chain
    PROVE  FoundPaths' = FoundPaths
<1>1. \A i \in DOMAIN call.chain : heap'[call.chain[i]] = heap[call.chain[i]]
  BY DEF PathsOwn, KeepsPaths
<1> QED
  BY <1>1 DEF FoundPaths

LEMMA FoundPathsGrow ==
    ASSUME PathsOwn(g, call.chain, heap), KeepsPaths(heap, heap', {}), NEW b \in Nat,
           call'.chain = Append(call.chain, b)
    PROVE  Longer(FoundPaths, FoundPaths', heap'[b].path)
<1> DEFINE n == Len(call.chain) + 1
<1>1. call.chain \in Seq(Nat)
  BY DEF PathsOwn
<1>2. /\ n \notin DOMAIN call.chain /\ DOMAIN call'.chain = DOMAIN call.chain \cup {n}
      /\ call'.chain[n] = b
      /\ \A i \in DOMAIN call.chain : call'.chain[i] = call.chain[i]
  BY <1>1
<1> HIDE DEF n
<1>3. \A i \in DOMAIN call.chain : heap'[call.chain[i]] = heap[call.chain[i]]
  BY DEF PathsOwn, KeepsPaths
<1>4. /\ DOMAIN FoundPaths = DOMAIN call.chain /\ DOMAIN FoundPaths' = DOMAIN call.chain \cup {n}
      /\ FoundPaths'[n] = heap'[b].path
      /\ \A i \in DOMAIN call.chain : FoundPaths'[i] = FoundPaths[i]
  BY <1>2, <1>3 DEF FoundPaths
<1> QED
  BY <1>2, <1>4 DEF Longer

\* The search as long as there are frames.
Searches ==
    /\ Asked /\ Walks(stack, call.pattern)
    /\ FoundTrue(FoundPaths, stack, call.pattern, returned.failed)

LEMMA SearchesIs ==
    /\ InMatch /\ GlobTrue => Searches
    /\ Searches => GlobTrue
<1>1. InMatch => stack \in Seq(FrameType) /\ running = "glob" /\ stack # << >>
  BY DEF InMatch, GoesOn, GlobOwn, StackOwn
<1> QED
  BY <1>1 DEF Searches, GlobTrue, Walks

LEMMA ErrorChanges ==
    ASSUME call \in CallType, NEW e, call' = [call EXCEPT !.error = e]
    PROVE  call'.error = e /\ call'.chain = call.chain /\ call'.pattern = call.pattern
           /\ call'.flags = call.flags
BY DEF CallType

LEMMA ChainChanges ==
    ASSUME call \in CallType, NEW b, call' = [call EXCEPT !.chain = Append(@, b)]
    PROVE  call'.error = call.error /\ call'.chain = Append(call.chain, b)
           /\ call'.pattern = call.pattern /\ call'.flags = call.flags
BY DEF CallType

LEMMA FailedChanges ==
    ASSUME NEW r, NEW p, NEW fs, NEW x, NEW y,
           r = [code |-> "none", pattern |-> p, flags |-> fs, new |-> << >>, failed |-> x]
    PROVE  [r EXCEPT !.failed = y]
                = [code |-> "none", pattern |-> p, flags |-> fs, new |-> << >>, failed |-> y]
OBVIOUS

\* A failure is remembered.
LEMMA FailingAsked ==
    ASSUME Asked, call \in CallType, NEW what, Failing(what),
           \/ call' = call
           \/ \E e \in {"NOSPACE", "ABORTED"} : call' = [call EXCEPT !.error = e],
           call'.error = "NOSPACE" => what = "memory" \/ call.error = "NOSPACE",
           call'.error = "ABORTED" => what = "directory" \/ call.error = "ABORTED",
           call'.error = "0" /\ "ERR" \in call.flags => what # "directory"
    PROVE  /\ Asked' /\ call'.pattern = call.pattern /\ call'.chain = call.chain
           /\ call'.flags = call.flags
           /\ returned'.failed = returned.failed \cup {what} /\ returned'.failed # {}
<1>1. /\ call'.pattern = call.pattern /\ call'.chain = call.chain /\ call'.flags = call.flags
      /\ call'.error = call.error \/ call'.error \in {"NOSPACE", "ABORTED"}
  <2>1. CASE \E e \in {"NOSPACE", "ABORTED"} : call' = [call EXCEPT !.error = e]
    <3>1. PICK e \in {"NOSPACE", "ABORTED"} : call' = [call EXCEPT !.error = e]
      BY <2>1
    <3> QED
      BY <3>1, ErrorChanges
  <2> QED
    BY <2>1
<1> DEFINE x == returned.failed \cup {what}
<1>2. returned' = [code |-> "none", pattern |-> call.pattern, flags |-> call.flags,
                   new |-> << >>, failed |-> x]
  <2>1. returned' = [returned EXCEPT !.failed = x]
    BY DEF Failing
  <2> HIDE DEF x
  <2> QED
    BY <2>1, FailedChanges DEF Asked
<1>3. returned'.failed = x
  BY <1>2
<1>4. ErrorTrue'
  BY <1>1, <1>3 DEF Asked, ErrorTrue
<1>5. call'.pattern \in Patterns
  BY <1>1 DEF Asked
<1>6. Asked'
  BY <1>1, <1>2, <1>3, <1>4, <1>5 DEF Asked
<1> QED
  BY <1>1, <1>3, <1>6

\* Nothing is found, and the same is to come.
LEMMA SearchGoesOn ==
    ASSUME InMatch, Searches, FramesOnly, call' = call, returned' = returned,
           Walks(stack', call.pattern), SameToCome(stack, stack', call.pattern)
    PROVE  Searches'
<1>1. PathsOwn(g, call.chain, heap)
  BY DEF InMatch, GoesOn, GlobOwn
<1>2. FoundPaths' = FoundPaths
  BY <1>1, PathsAreKept, FoundPathsStay
<1>3. FoundTrue(FoundPaths, stack', call.pattern, returned.failed)
  BY FoundKept DEF Searches
<1>4. Asked'
  BY DEF Searches, Asked, ErrorTrue
<1> QED
  BY <1>2, <1>3, <1>4 DEF Searches

\* Something fails.
LEMMA SearchFails ==
    ASSUME InMatch, Searches, FramesOnly, NEW what, Failing(what),
           \/ call' = call /\ (what = "directory" => "ERR" \notin call.flags)
           \/ call' = [call EXCEPT !.error = "NOSPACE"] /\ what = "memory"
           \/ call' = [call EXCEPT !.error = "ABORTED"] /\ what = "directory",
           stack' \in {Front(stack), << >>}
    PROVE  Searches'
<1>1. PathsOwn(g, call.chain, heap) /\ call \in CallType /\ stack # << >>
  BY DEF InMatch, GoesOn, GlobOwn
<1>2. Asked /\ call.pattern \in Patterns /\ Walks(stack, call.pattern)
  BY DEF Searches, Asked
<1>3. /\ call' = call \/ \E e \in {"NOSPACE", "ABORTED"} : call' = [call EXCEPT !.error = e]
      /\ call'.error = "NOSPACE" => what = "memory" \/ call.error = "NOSPACE"
      /\ call'.error = "ABORTED" => what = "directory" \/ call.error = "ABORTED"
      /\ call'.error = "0" /\ "ERR" \in call.flags => what # "directory"
  <2>1. CASE call' = call /\ (what = "directory" => "ERR" \notin call.flags)
    BY <2>1
  <2>2. CASE call' = [call EXCEPT !.error = "NOSPACE"] /\ what = "memory"
    <3>1. call'.error = "NOSPACE"
      BY <1>1, <2>2, ErrorChanges
    <3> QED
      BY <2>2, <3>1
  <2>3. CASE call' = [call EXCEPT !.error = "ABORTED"] /\ what = "directory"
    <3>1. call'.error = "ABORTED"
      BY <1>1, <2>3, ErrorChanges
    <3> QED
      BY <2>3, <3>1
  <2> QED
    BY <2>1, <2>2, <2>3
<1>4. /\ Asked' /\ call'.pattern = call.pattern /\ call'.chain = call.chain
      /\ returned'.failed = returned.failed \cup {what} /\ returned'.failed # {}
  BY <1>1, <1>2, <1>3, FailingAsked
<1>5. FoundPaths' = FoundPaths
  BY <1>1, <1>4, PathsAreKept, FoundPathsStay
<1>6. Walks(stack', call.pattern) /\ NoMoreToCome(stack, stack', call.pattern)
  BY <1>1, <1>2, LeaveWalk
<1>7. FoundTrue(FoundPaths, stack', call.pattern, returned'.failed)
  BY <1>4, <1>6, FoundKept DEF Searches
<1> QED
  BY <1>4, <1>5, <1>6, <1>7 DEF Searches

\* A path is found.
LEMMA SearchFinds ==
    ASSUME InMatch, Searches, FramesOnly, NEW b \in Nat,
           call' = [call EXCEPT !.chain = Append(@, b)], returned' = returned,
           Walks(stack', call.pattern),
           AllButToCome(stack, stack', call.pattern, heap'[b].path)
    PROVE  Searches'
<1>1. PathsOwn(g, call.chain, heap) /\ call \in CallType
  BY DEF InMatch, GoesOn, GlobOwn
<1>2. call'.error = call.error /\ call'.chain = Append(call.chain, b)
      /\ call'.pattern = call.pattern /\ call'.flags = call.flags
  BY <1>1, ChainChanges
<1>3. Longer(FoundPaths, FoundPaths', heap'[b].path)
  BY <1>1, <1>2, PathsAreKept, FoundPathsGrow
<1>4. FoundTrue(FoundPaths', stack', call.pattern, returned.failed)
  BY <1>3, FoundLonger DEF Searches
<1>5. Asked'
  BY <1>2 DEF Searches, Asked, ErrorTrue
<1> QED
  BY <1>2, <1>4, <1>5 DEF Searches

LEMMA TopInStack ==
    ASSUME InMatch
    PROVE  /\ InStack(Top.dir, stack) /\ InStack(Top.namebuf, stack)
           /\ \A b \in DirsOf(stack) : InStack(b, stack)
           /\ \A b \in Free : b # Top.dir
<1>1. /\ StackOwn(stack, heap) /\ Len(stack) \in DOMAIN stack
  BY MatchFacts
<1>2. InStack(Top.dir, stack) /\ InStack(Top.namebuf, stack)
  BY <1>1 DEF InStack, Top
<1>3. \A b \in DirsOf(stack) : InStack(b, stack)
  BY DEF DirsOf, InStack
<1>4. \A b \in Free : b # Top.dir
  <2>1. Top.dir # NULL => Top.dir \in DOMAIN heap
    BY <1>1 DEF StackOwn, IsIn, Top
  <2> QED
    BY <2>1, FreshBlock
<1> QED
  BY <1>2, <1>3, <1>4

\* A frame leaves, or all do; blocks of theirs are freed.
LEMMA LeaveFrames ==
    ASSUME InMatch, NEW h, h = heap \/ h = Without(heap, {Top.namebuf}),
           Leave(h) \/ \E code : Unwind(code, h)
    PROVE  FramesOnly /\ stack' \in {Front(stack), << >>}
<1>1. \A b \in DOMAIN heap : InStack(b, stack) \/ (b \in DOMAIN h /\ h[b] = heap[b])
  BY TopInStack DEF Without
<1>2. CASE Leave(h)
  BY <1>1, <1>2, TopInStack DEF Leave, Without, FramesOnly
<1>3. CASE \E code : Unwind(code, h)
  <2>1. heap' = Without(h, DirsOf(stack)) /\ stack' = << >>
    BY <1>3 DEF Unwind
  <2>2. \A b \in DOMAIN h : InStack(b, stack) \/ (b \in DOMAIN heap' /\ heap'[b] = h[b])
    BY <2>1, TopInStack DEF Without
  <2> QED
    BY <1>1, <2>1, <2>2 DEF FramesOnly
<1> QED
  BY <1>2, <1>3

LEMMA DirectoryFails ==
    ASSUME InMatch, Searches, NEW h, h = heap \/ h = Without(heap, {Top.namebuf}),
           DirectoryFailed(h)
    PROVE  Searches'
<1>1. Failing("directory")
  BY DEF DirectoryFailed
<1>2. FramesOnly /\ stack' \in {Front(stack), << >>}
  BY LeaveFrames DEF DirectoryFailed
<1>3. \/ call' = call /\ "ERR" \notin call.flags
      \/ call' = [call EXCEPT !.error = "ABORTED"]
  BY DEF DirectoryFailed, Unwind
<1> QED
  BY <1>1, <1>2, <1>3, SearchFails

LEMMA AppendSearches ==
    ASSUME InMatch, Searches, NEW path, NEW leaving \in BOOLEAN, NEW k,
           AppendPath(path, leaving, k),
           leaving => AllButToCome(stack, Front(stack), call.pattern, path.path),
           ~leaving => /\ AllButToCome(stack, NextStack, call.pattern, path.path)
                       /\ Walks(NextStack, call.pattern)
    PROVE  Searches'
<1>0. call.pattern \in Patterns /\ Walks(stack, call.pattern) /\ stack # << >>
  BY DEF Searches, Asked, InMatch
<1>1. CASE /\ returned' = returned
           /\ \E b \in Free :
                /\ call' = [call EXCEPT !.chain = Append(@, b)]
                /\ IF leaving THEN Leave(With(heap, b, path))
                   ELSE heap' = With(heap, b, path) /\ SetTop([Top EXCEPT !.next = @ + 1])
  <2>1. PICK b \in Free :
            /\ call' = [call EXCEPT !.chain = Append(@, b)]
            /\ IF leaving THEN Leave(With(heap, b, path))
               ELSE heap' = With(heap, b, path) /\ SetTop([Top EXCEPT !.next = @ + 1])
    BY <1>1
  <2>2. b \in Nat /\ b \notin DOMAIN heap
    BY FreshBlock
  <2>3. CASE leaving
    <3>1. heap' = Without(With(heap, b, path), {Top.dir}) /\ stack' = Front(stack)
      BY <2>1, <2>3 DEF Leave
    <3>2. b # Top.dir /\ InStack(Top.dir, stack)
      BY TopInStack
    <3>3. FramesOnly
      BY <2>2, <3>1, <3>2 DEF FramesOnly, With, Without
    <3>4. heap'[b] = path
      BY <2>2, <3>1, <3>2 DEF With, Without
    <3>5. Walks(stack', call.pattern)
      BY <1>0, <3>1, LeaveWalk
    <3> QED
      BY <1>1, <2>1, <2>2, <2>3, <3>1, <3>3, <3>4, <3>5, SearchFinds
  <2>4. CASE ~leaving
    <3>1. heap' = With(heap, b, path) /\ stack' = NextStack
      BY <2>1, <2>4 DEF SetTop, NextStack, NextFrame
    <3>2. FramesOnly
      BY <2>2, <3>1 DEF FramesOnly, With
    <3>3. heap'[b] = path
      BY <3>1 DEF With
    <3> QED
      BY <1>1, <2>1, <2>2, <2>4, <3>1, <3>2, <3>3, SearchFinds
  <2> QED
    BY <2>3, <2>4
<1>2. CASE Unwind("NOSPACE", heap) /\ Failing("memory")
  <2>1. FramesOnly /\ stack' \in {Front(stack), << >>}
    BY <1>2, LeaveFrames
  <2>2. call' = [call EXCEPT !.error = "NOSPACE"]
    BY <1>2 DEF Unwind
  <2> QED
    BY <1>2, <2>1, <2>2, SearchFails
<1> QED
  BY <1>1, <1>2 DEF AppendPath

LEMMA MatchSearches ==
    ASSUME InMatch, Searches, MatchActions
    PROVE  Searches'
<1>1. /\ call.pattern \in Patterns /\ Walks(stack, call.pattern) /\ stack # << >>
      /\ Top \in FrameType
  BY MatchFacts DEF Searches, Asked, InMatch
<1>2. CASE OpenDir
  <2>1. PICK b \in Free : /\ heap' = With(heap, b, [is |-> "DIR"])
                          /\ SetTop([Top EXCEPT !.dir = b])
    BY <1>2 DEF OpenDir
  <2> DEFINE f == [Top EXCEPT !.dir = b]
  <2>2. b \in Nat /\ b # NULL /\ b \notin DOMAIN heap
    BY FreshBlock
  <2>3. f \in FrameType /\ f.d = Top.d /\ f.p = Top.p /\ f.next = Top.next /\ f.dir # NULL
    BY <1>1, <2>2 DEF FrameType
  <2>4. stack' = [stack EXCEPT ![Len(stack)] = f] /\ call' = call /\ returned' = returned
    BY <1>2, <2>1 DEF SetTop, OpenDir
  <2> HIDE DEF f
  <2>5. FramesOnly
    BY <2>1, <2>2 DEF FramesOnly, With
  <2>6. Walks(stack', call.pattern) /\ SameToCome(stack, stack', call.pattern)
    BY <1>1, <2>3, <2>4, SameWalk
  <2> QED
    BY <2>4, <2>5, <2>6, SearchGoesOn
<1>3. CASE NameBuf \/ NameBufFails
  <2>1. PICK b : b \in Int /\ SetTop([Top EXCEPT !.namebuf = b])
    <3>1. CASE NameBuf
      <4>1. PICK b \in Free : SetTop([Top EXCEPT !.namebuf = b])
        BY <3>1 DEF NameBuf
      <4>2. b \in Int
        BY FreshBlock
      <4> QED
        BY <4>1, <4>2
    <3>2. CASE NameBufFails
      BY <3>2 DEF NameBufFails, NOBUF
    <3> QED
      BY <1>3, <3>1, <3>2
  <2> DEFINE f == [Top EXCEPT !.namebuf = b]
  <2>3. f \in FrameType /\ f.d = Top.d /\ f.p = Top.p /\ f.next = Top.next /\ f.dir = Top.dir
    BY <1>1, <2>1 DEF FrameType
  <2>4. stack' = [stack EXCEPT ![Len(stack)] = f] /\ call' = call /\ returned' = returned
    BY <1>3, <2>1 DEF SetTop, NameBuf, NameBufFails
  <2> HIDE DEF f
  <2>5. FramesOnly
    <3>1. CASE NameBuf
      <4>1. PICK a \in Free : heap' = With(heap, a, [is |-> "namebuf"])
        BY <3>1 DEF NameBuf
      <4> QED
        BY <4>1, FreshBlock DEF FramesOnly, With
    <3>2. CASE NameBufFails
      BY <3>2 DEF FramesOnly, NameBufFails
    <3> QED
      BY <1>3, <3>1, <3>2
  <2>6. Walks(stack', call.pattern) /\ SameToCome(stack, stack', call.pattern)
    BY <1>1, <2>3, <2>4, SameWalk
  <2> QED
    BY <2>4, <2>5, <2>6, SearchGoesOn
<1>4. CASE Skip
  <2>1. FramesOnly /\ call' = call /\ returned' = returned
    BY <1>4 DEF FramesOnly, Skip
  <2> QED
    BY <1>1, <1>4, <2>1, SkipWalk, SearchGoesOn
<1>5. CASE Descend
  <2>1. FramesOnly /\ call' = call /\ returned' = returned
    BY <1>5 DEF FramesOnly, Descend
  <2> QED
    BY <1>1, <1>5, <2>1, DescendWalk, SearchGoesOn
<1>6. CASE Found
  <2> DEFINE path == Path(EntryPath, "MARK" \in call.flags /\ EntryPath \in DOMAIN Tree)
  <2>1. AppendPath(path, FALSE, 0)
    BY <1>6 DEF Found
  <2>2. path.path = EntryPath
    BY DEF Path
  <2>3. Walks(NextStack, call.pattern) /\ AllButToCome(stack, NextStack, call.pattern, EntryPath)
    BY <1>1, <1>6, FoundWalk DEF Found
  <2> HIDE DEF path
  <2> QED
    BY <2>1, <2>2, <2>3, AppendSearches
<1>7. ASSUME PatternEnded, NEW k, AppendPath(Path(Top.d, TRUE), TRUE, k) PROVE Searches'
  <2> DEFINE path == Path(Top.d, TRUE)
  <2>1. path.path = Top.d /\ AppendPath(path, TRUE, k)
    BY <1>7 DEF Path
  <2>2. AllButToCome(stack, Front(stack), call.pattern, Top.d)
    BY <1>1, <1>7, DirectoryWalk
  <2> HIDE DEF path
  <2> QED
    BY <2>1, <2>2, AppendSearches
<1>8. CASE FoundDirectory
  BY <1>7, <1>8 DEF FoundDirectory
<1>9. CASE OpenDirFails
  <2>1. CASE DirectoryFailed(heap)
    BY <2>1, DirectoryFails
  <2>2. CASE Leave(heap) /\ Failing("misled") /\ call' = call
    <3>1. FramesOnly /\ stack' \in {Front(stack), << >>}
      BY <2>2, LeaveFrames
    <3> QED
      BY <2>2, <3>1, SearchFails
  <2>3. CASE Misled /\ errno = "EACCES" /\ AppendPath(Path(Top.d, TRUE), TRUE, 1)
    <3>1. PatternEnded
      BY <2>3 DEF Misled, PatternEnded
    <3> QED
      BY <1>7, <2>3, <3>1
  <2> QED
    BY <1>9, <2>1, <2>2, <2>3 DEF OpenDirFails
<1>10. CASE EndOfDirectory
  <2>1. Leave(Without(heap, {Top.namebuf})) /\ ~PatternEnded /\ AtEnd
        /\ call' = call /\ returned' = returned
    BY <1>10 DEF EndOfDirectory
  <2>2. FramesOnly
    BY <2>1, LeaveFrames
  <2>3. stack' = Front(stack)
    BY <2>1 DEF Leave
  <2>4. Walks(stack', call.pattern) /\ SameToCome(stack, stack', call.pattern)
    BY <1>1, <2>1, <2>3, LeaveWalk, EndWalk
  <2> QED
    BY <2>1, <2>2, <2>4, SearchGoesOn
<1>11. CASE ReadFails
  <2>1. DirectoryFailed(Without(heap, {Top.namebuf}))
    BY <1>11 DEF ReadFails
  <2> QED
    BY <2>1, DirectoryFails
<1> QED
  BY <1>2, <1>3, <1>4, <1>5, <1>6, <1>8, <1>9, <1>10, <1>11 DEF MatchActions

-----------------------------------------------------------------------------
(* What glob returns *)

LEMMA DistinctCounted ==
    ASSUME NEW n \in Nat, NEW e, DOMAIN e = 1..n, \A i, j \in 1..n : e[i] = e[j] => i = j
    PROVE  Cardinality({e[i] : i \in DOMAIN e}) = n
<1> DEFINE T == {e[i] : i \in 1..n}
           f == [i \in 1..n |-> e[i]]
<1>1. f \in Bijection(1..n, T)
  BY DEF Bijection, Injection, Surjection, IsInjective
<1>2. IsFiniteSet(1..n) /\ Cardinality(1..n) = n
  BY FS_Interval, SMTT(30)
<1> HIDE DEF f, T
<1>3. ExistsBijection(1..n, T)
  BY <1>1 DEF ExistsBijection
<1>4. Cardinality(T) = n
  BY <1>2, <1>3, FS_Bijection
<1> QED
  BY <1>4 DEF T

\* Two sequences are the same up to i and not behind it.
PartsAfter(P, Q, i) ==
    /\ i <= Len(P) /\ i <= Len(Q) /\ \A j \in 1..i : P[j] = Q[j]
    /\ \/ i = Len(P) /\ i < Len(Q)
       \/ i = Len(Q) /\ i < Len(P)
       \/ i < Len(P) /\ i < Len(Q) /\ P[i + 1] # Q[i + 1]

LEMMA DifferentSomewhere ==
    ASSUME NEW P \in Seq(Nat), NEW Q \in Seq(Nat), P # Q
    PROVE  \E i \in Nat : PartsAfter(P, Q, i)
<1> DEFINE T == {i \in Nat : i \in 1..Len(P) /\ i \in 1..Len(Q) /\ P[i] # Q[i]}
<1>1. Len(P) \in Nat /\ Len(Q) \in Nat /\ DOMAIN P = 1..Len(P) /\ DOMAIN Q = 1..Len(Q)
  OBVIOUS
<1>2. CASE T = {}
  <2>1. \A i \in Nat : i \in 1..Len(P) /\ i \in 1..Len(Q) => P[i] = Q[i]
    BY <1>2
  <2>2. Len(P) # Len(Q)
    <3> SUFFICES ASSUME Len(P) = Len(Q) PROVE FALSE
      OBVIOUS
    <3>1. \A i \in 1..Len(P) : P[i] = Q[i]
      BY <1>1, <2>1
    <3> QED
      BY <3>1
  <2>3. CASE Len(P) < Len(Q)
    <3>1. \A j \in 1..Len(P) : P[j] = Q[j]
      BY <1>1, <2>1, <2>3
    <3>2. Len(P) <= Len(P) /\ Len(P) <= Len(Q)
      BY <1>1, <2>3
    <3>3. PartsAfter(P, Q, Len(P))
      BY <2>3, <3>1, <3>2, Zenon DEF PartsAfter
    <3> QED
      BY <1>1, <3>3
  <2>4. CASE Len(Q) < Len(P)
    <3>1. \A j \in 1..Len(Q) : P[j] = Q[j]
      BY <1>1, <2>1, <2>4
    <3>2. Len(Q) <= Len(P) /\ Len(Q) <= Len(Q)
      BY <1>1, <2>4
    <3>3. PartsAfter(P, Q, Len(Q))
      BY <2>4, <3>1, <3>2, Zenon DEF PartsAfter
    <3> QED
      BY <1>1, <3>3
  <2>5. Len(P) < Len(Q) \/ Len(Q) < Len(P)
    <3>1. \A k, l \in Nat : k # l => k < l \/ l < k
      OBVIOUS
    <3> QED
      BY <1>1, <2>2, <3>1, Zenon
  <2> QED
    BY <2>3, <2>4, <2>5
<1>3. CASE T # {}
  <2>1. PICK x \in T : \A y \in T : x <= y
    BY <1>3, LeastElement
  <2>2. x \in Nat /\ x \in 1..Len(P) /\ x \in 1..Len(Q) /\ P[x] # Q[x]
    OBVIOUS
  <2>3. \A j \in 1..(x - 1) : P[j] = Q[j]
    <3> SUFFICES ASSUME NEW j \in 1..(x - 1) PROVE P[j] = Q[j]
      OBVIOUS
    <3>1. j \in Nat /\ j \in 1..Len(P) /\ j \in 1..Len(Q) /\ ~(x <= j)
      <4> HIDE DEF T
      <4> QED
        BY <1>1, <2>2
    <3>2. j \notin T
      BY <2>1, <3>1
    <3> QED
      BY <3>1, <3>2
  <2> HIDE DEF T
  <2>4. x - 1 \in Nat /\ x - 1 < Len(P) /\ x - 1 < Len(Q) /\ (x - 1) + 1 = x
    BY <1>1, <2>2
  <2> DEFINE i == x - 1
  <2>5. i \in Nat /\ i < Len(P) /\ i < Len(Q) /\ P[i + 1] # Q[i + 1]
        /\ \A j \in 1..i : P[j] = Q[j]
    BY <2>2, <2>3, <2>4
  <2> HIDE DEF i
  <2>6. i <= Len(P) /\ i <= Len(Q)
    BY <1>1, <2>5
  <2>7. PartsAfter(P, Q, i)
    BY <2>5, <2>6, Zenon DEF PartsAfter
  <2> QED
    BY <2>5, <2>7
<1> QED
  BY <1>2, <1>3

\* Of two different paths one is before the other.
LEMMA BeforeTotal ==
    ASSUME NEW p, NEW q, p.path \in Seq(Nat), q.path \in Seq(Nat), p.path # q.path
    PROVE  Before(p, q) \/ Before(q, p)
<1> DEFINE P == p.path
           Q == q.path
<1>1. P \in Seq(Nat) /\ Q \in Seq(Nat) /\ P # Q
  OBVIOUS
<1>2. /\ Before(p, q) <=> \E i \in 0..Len(P) :
                /\ i <= Len(Q) /\ \A j \in 1..i : P[j] = Q[j]
                /\ IF i = Len(P) THEN i < Len(Q) ELSE i < Len(Q) /\ P[i + 1] < Q[i + 1]
      /\ Before(q, p) <=> \E i \in 0..Len(Q) :
                /\ i <= Len(P) /\ \A j \in 1..i : Q[j] = P[j]
                /\ IF i = Len(Q) THEN i < Len(P) ELSE i < Len(P) /\ Q[i + 1] < P[i + 1]
  BY DEF Before
<1> HIDE DEF P, Q
<1>3. PICK i \in Nat : /\ i <= Len(P) /\ i <= Len(Q) /\ \A j \in 1..i : P[j] = Q[j]
                       /\ \/ i = Len(P) /\ i < Len(Q)
                          \/ i = Len(Q) /\ i < Len(P)
                          \/ i < Len(P) /\ i < Len(Q) /\ P[i + 1] # Q[i + 1]
  BY <1>1, DifferentSomewhere DEF PartsAfter
<1>4. i \in 0..Len(P) /\ i \in 0..Len(Q) /\ Len(P) \in Nat /\ Len(Q) \in Nat
  BY <1>1, <1>3
<1>5. CASE i = Len(P) /\ i < Len(Q)
  BY <1>2, <1>3, <1>4, <1>5
<1>6. CASE i = Len(Q) /\ i < Len(P)
  BY <1>2, <1>3, <1>4, <1>6
<1>7. CASE i < Len(P) /\ i < Len(Q) /\ P[i + 1] # Q[i + 1]
  <2>1. P[i + 1] \in Nat /\ Q[i + 1] \in Nat
    BY <1>1, <1>7
  <2>2. i # Len(P) /\ i # Len(Q)
    BY <1>4, <1>7
  <2>3. P[i + 1] < Q[i + 1] \/ Q[i + 1] < P[i + 1]
    BY <1>7, <2>1
  <2> QED
    BY <1>2, <1>3, <1>4, <1>7, <2>2, <2>3
<1> QED
  BY <1>3, <1>5, <1>6, <1>7

\* What ResultsAreTrue says of a call that returns code and new.
TrueResult(code, new, p, flags, failed) ==
    LET news == {new[i].path : i \in DOMAIN new}
        itself == {PatternItself.path}
    IN /\ \/ news \subseteq Denotes(p)
          \/ news = itself /\ "NOCHECK" \in flags
       /\ Cardinality(news) = Len(new)
       /\ "NOSORT" \notin flags => \A i \in 2..Len(new) : Before(new[i - 1], new[i])
       /\ failed = {} =>
            \/ code = "0" /\ Denotes(p) # {} /\ news = Denotes(p)
            \/ code = "0" /\ Denotes(p) = {} /\ news = itself
            \/ code = "NOMATCH" /\ Denotes(p) = {} /\ news = {}
       /\ code = "NOSPACE" => "memory" \in failed
       /\ code = "ABORTED" => "directory" \in failed
       /\ code = "0" /\ "ERR" \in flags => "directory" \notin failed

LEMMA ReturnedFields ==
    ASSUME NEW r, NEW p, NEW fs, NEW x, NEW y, NEW code, NEW new,
           r = [code |-> "none", pattern |-> p, flags |-> fs, new |-> << >>, failed |-> x]
    PROVE  [r EXCEPT !.code = code, !.new = new, !.failed = y]
                = [code |-> code, pattern |-> p, flags |-> fs, new |-> new, failed |-> y]
<1> DEFINE a == [r EXCEPT !.code = code]
           b == [a EXCEPT !.new = new]
<1>1. a = [code |-> code, pattern |-> p, flags |-> fs, new |-> << >>, failed |-> x]
  OBVIOUS
<1> HIDE DEF a
<1>2. b = [code |-> code, pattern |-> p, flags |-> fs, new |-> new, failed |-> x]
  BY <1>1
<1> HIDE DEF b
<1>3. [b EXCEPT !.failed = y]
            = [code |-> code, pattern |-> p, flags |-> fs, new |-> new, failed |-> y]
  BY <1>2
<1> QED
  BY <1>3, Zenon DEF a, b

LEMMA ReturnsTrue ==
    ASSUME Asked, NEW code, NEW new, NEW failures, GlobReturns(code, new, failures),
           TrueResult(code, new, call.pattern, call.flags, returned.failed \cup failures)
    PROVE  GlobTrue' /\ ResultsAreTrue'
<1> DEFINE y == returned.failed \cup failures
<1>1. returned' = [returned EXCEPT !.code = code, !.new = new, !.failed = y]
  BY DEF GlobReturns
<1>2. TrueResult(code, new, call.pattern, call.flags, y)
  OBVIOUS
<1> HIDE DEF y
<1>3. returned' = [code |-> code, pattern |-> call.pattern, flags |-> call.flags,
                   new |-> new, failed |-> y]
  <2> DEFINE x == returned.failed
             p == call.pattern
             fs == call.flags
  <2>1. returned = [code |-> "none", pattern |-> p, flags |-> fs, new |-> << >>, failed |-> x]
    BY Zenon DEF Asked
  <2> HIDE DEF x, p, fs
  <2>2. returned' = [code |-> code, pattern |-> p, flags |-> fs, new |-> new, failed |-> y]
    BY <1>1, <2>1, ReturnedFields
  <2> QED
    BY <2>2 DEF p, fs
<1>4. /\ returned'.code = code /\ returned'.pattern = call.pattern
      /\ returned'.flags = call.flags /\ returned'.new = new /\ returned'.failed = y
  BY <1>3
<1>5. ResultsAreTrue'
  BY <1>2, <1>4 DEF ResultsAreTrue, NewResults, TrueResult
<1>6. running' # "glob"
  BY DEF GlobReturns, ReturnsToCaller
<1> QED
  BY <1>5, <1>6 DEF GlobTrue

\* Nothing is added.
LEMMA NothingAdded ==
    ASSUME NEW code, NEW p, NEW flags, NEW failed,
           failed = {} => code = "NOMATCH" /\ Denotes(p) = {},
           code \in {"NOSPACE", "NOMATCH"}, code = "NOSPACE" => "memory" \in failed
    PROVE  TrueResult(code, << >>, p, flags, failed)
<1>1. {<< >>[i].path : i \in DOMAIN << >>} = {}
  OBVIOUS
<1>2. Cardinality({}) = 0 /\ Len(<< >>) = 0
  BY FS_EmptySet
<1>3. 2..0 = {}
  OBVIOUS
<1> QED
  BY <1>1, <1>2, <1>3 DEF TrueResult

NewOf(c, h) == [i \in DOMAIN c |-> h[c[i]]]

\* The paths that were found, in the order in which they are returned.
LEMMA FoundInOrder ==
    ASSUME call.chain \in Seq(Nat), NEW new \in NewPaths
    PROVE  LET found == NewOf(new, heap) IN
           /\ DOMAIN found = DOMAIN call.chain /\ Len(found) = Len(call.chain)
           /\ {found[i].path : i \in DOMAIN found} = {FoundPaths[i] : i \in DOMAIN FoundPaths}
           /\ (\A i, j \in DOMAIN FoundPaths : FoundPaths[i] = FoundPaths[j] => i = j)
                => \A i, j \in DOMAIN found : found[i].path = found[j].path => i = j
           /\ "NOSORT" \notin call.flags =>
                \A i, j \in DOMAIN found : i < j => ~Before(found[j], found[i])
<1> DEFINE found == NewOf(new, heap)
           c == call.chain
<1>1. new \in qsort(c) /\ new \in Seq(Nat) /\ DOMAIN new = DOMAIN c /\ Len(new) = Len(c)
  <2>1. new \in qsort(c)
    BY ChainIsArranged DEF NewPaths, Sorted
  <2> QED
    BY <2>1, Arranged
<1>2. PICK f \in Bijection(DOMAIN c, DOMAIN c) : new = [i \in DOMAIN c |-> c[f[i]]]
  BY <1>1 DEF qsort
<1>3. /\ f \in [DOMAIN c -> DOMAIN c]
      /\ \A a, b \in DOMAIN c : f[a] = f[b] => a = b
      /\ \A b \in DOMAIN c : \E a \in DOMAIN c : f[a] = b
  BY DEF Bijection, Injection, Surjection, IsInjective
<1>4. DOMAIN found = DOMAIN c /\ DOMAIN FoundPaths = DOMAIN c
  BY <1>1 DEF NewOf, FoundPaths
<1>5. \A i \in DOMAIN c : found[i] = heap[new[i]] /\ found[i].path = FoundPaths[f[i]]
  BY <1>1, <1>2, <1>3 DEF NewOf, FoundPaths
<1>6. Len(found) = Len(c)
  BY <1>1 DEF NewOf
<1>7. "NOSORT" \notin call.flags =>
            \A i, j \in DOMAIN new : i < j => ~Before(heap[new[j]], heap[new[i]])
  BY DEF NewPaths, Sorted
<1> HIDE DEF found, c
<1>8. {found[i].path : i \in DOMAIN found} = {FoundPaths[i] : i \in DOMAIN FoundPaths}
  <2>1. \A i \in DOMAIN found : \E j \in DOMAIN FoundPaths : found[i].path = FoundPaths[j]
    BY <1>3, <1>4, <1>5
  <2>2. \A j \in DOMAIN FoundPaths : \E i \in DOMAIN found : found[i].path = FoundPaths[j]
    BY <1>3, <1>4, <1>5
  <2> QED
    BY <2>1, <2>2
<1>9. (\A i, j \in DOMAIN FoundPaths : FoundPaths[i] = FoundPaths[j] => i = j)
            => \A i, j \in DOMAIN found : found[i].path = found[j].path => i = j
  BY <1>3, <1>4, <1>5
<1>10. "NOSORT" \notin call.flags =>
            \A i, j \in DOMAIN found : i < j => ~Before(found[j], found[i])
  <2> SUFFICES ASSUME "NOSORT" \notin call.flags, NEW i \in DOMAIN found, NEW j \in DOMAIN found,
                      i < j
               PROVE  ~Before(found[j], found[i])
    OBVIOUS
  <2>1. i \in DOMAIN c /\ j \in DOMAIN c /\ i \in DOMAIN new /\ j \in DOMAIN new
    BY <1>1, <1>4 DEF c
  <2>2. found[i] = heap[new[i]] /\ found[j] = heap[new[j]]
    BY <1>5, <2>1
  <2>3. ~Before(heap[new[j]], heap[new[i]])
    BY <1>7, <2>1
  <2> QED
    BY <2>2, <2>3
<1> QED
  BY <1>4, <1>6, <1>8, <1>9, <1>10 DEF found, c

\* All found: the vector is made.
LEMMA MakeVectorTrue ==
    ASSUME GlobOwn, GlobTrue, MakeVector
    PROVE  GlobTrue' /\ ResultsAreTrue'
<1>1. /\ running = "glob" /\ stack = << >> /\ call.error # "NOSPACE" /\ call.chain # << >>
  BY DEF MakeVector, Collecting
<1>2. PICK new \in NewPaths : GlobReturns(call.error, NewOf(new, heap), {})
  BY DEF MakeVector, NewOf
<1> DEFINE found == NewOf(new, heap)
           news == {found[i].path : i \in DOMAIN found}
           p == call.pattern
           x == returned.failed
<1>3. Asked /\ p \in Patterns
  BY <1>1 DEF GlobTrue, Asked
<1>4. FoundTrue(FoundPaths, << >>, p, x) \/ IsItself(FoundPaths, p, x)
  BY <1>1 DEF GlobTrue
<1>5. call.chain \in Seq(Nat) /\ call.error \in {"0", "ABORTED"}
  BY <1>1 DEF GlobOwn, CallType
<1>6. /\ DOMAIN found = DOMAIN call.chain /\ Len(found) = Len(call.chain)
      /\ news = {FoundPaths[i] : i \in DOMAIN FoundPaths}
      /\ (\A i, j \in DOMAIN FoundPaths : FoundPaths[i] = FoundPaths[j] => i = j)
                => \A i, j \in DOMAIN found : found[i].path = found[j].path => i = j
      /\ "NOSORT" \notin call.flags =>
                \A i, j \in DOMAIN found : i < j => ~Before(found[j], found[i])
  BY <1>5, FoundInOrder
<1>7. DOMAIN found = 1..Len(found) /\ Len(found) \in Nat /\ Len(found) >= 1
      /\ DOMAIN FoundPaths = 1..Len(found)
  BY <1>1, <1>5, <1>6 DEF FoundPaths
<1> HIDE DEF found
<1>8. (\A i, j \in DOMAIN FoundPaths : FoundPaths[i] = FoundPaths[j] => i = j)
            => Cardinality(news) = Len(found)
  <2> DEFINE e == [i \in DOMAIN found |-> found[i].path]
  <2>1. news = {e[i] : i \in DOMAIN e} /\ DOMAIN e = 1..Len(found)
    BY <1>7
  <2>2. \A i \in DOMAIN found : e[i] = found[i].path
    OBVIOUS
  <2> HIDE DEF e, news
  <2> SUFFICES ASSUME \A i, j \in DOMAIN FoundPaths : FoundPaths[i] = FoundPaths[j] => i = j
               PROVE  Cardinality(news) = Len(found)
    OBVIOUS
  <2>3. \A i, j \in DOMAIN found : found[i].path = found[j].path => i = j
    BY <1>6
  <2>4. \A i, j \in 1..Len(found) : e[i] = e[j] => i = j
    BY <1>7, <2>2, <2>3
  <2>5. Cardinality({e[i] : i \in DOMAIN e}) = Len(found)
    BY <1>7, <2>1, <2>4, DistinctCounted
  <2> QED
    BY <2>1, <2>5
<1> HIDE DEF news
<1>9. x = {} => call.error = "0"
  BY <1>3, <1>5 DEF Asked, ErrorTrue
<1>10. CASE FoundTrue(FoundPaths, << >>, p, x)
  <2>1. /\ \A i \in DOMAIN FoundPaths : FoundPaths[i] \in Denotes(p)
        /\ \A i, j \in DOMAIN FoundPaths : FoundPaths[i] = FoundPaths[j] => i = j
    BY <1>10 DEF FoundTrue
  <2>2. x = {} => \A q \in Denotes(p) : \E i \in DOMAIN FoundPaths : FoundPaths[i] = q
    BY <1>10 DEF FoundTrue, ToCome
  <2>3. news \subseteq Denotes(p) /\ (x = {} => news = Denotes(p) /\ Denotes(p) # {})
    BY <1>6, <1>7, <2>1, <2>2
  <2>4. "NOSORT" \notin call.flags => \A i \in 2..Len(found) : Before(found[i - 1], found[i])
    <3> SUFFICES ASSUME "NOSORT" \notin call.flags, NEW i \in 2..Len(found)
                 PROVE  Before(found[i - 1], found[i])
      OBVIOUS
    <3>1. i \in DOMAIN found /\ i - 1 \in DOMAIN found /\ i - 1 < i /\ i - 1 # i
      BY <1>7
    <3>2. ~Before(found[i], found[i - 1])
      BY <1>6, <3>1
    <3>3. found[i].path # found[i - 1].path
      BY <1>6, <2>1, <3>1
    <3>4. \A k \in DOMAIN found : found[k].path \in Seq(Nat)
      <4>1. \A k \in DOMAIN found : found[k].path \in Denotes(p)
        BY <2>3 DEF news
      <4>2. \A q \in Denotes(p) : q \in Seq(Name)
        BY <1>3, DenotedIs
      <4>3. \A q \in Seq(Name) : q \in Seq(Nat)
        BY DEF Name
      <4> QED
        BY <4>1, <4>2, <4>3
    <3> QED
      BY <3>1, <3>2, <3>3, <3>4, BeforeTotal
  <2>5. TrueResult(call.error, found, p, call.flags, x)
    BY <1>3, <1>5, <1>8, <1>9, <2>1, <2>3, <2>4 DEF TrueResult, news, Asked, ErrorTrue
  <2>6. TrueResult(call.error, found, p, call.flags, x \cup {})
    <3>1. x \cup {} = x
      OBVIOUS
    <3> QED
      BY <2>5, <3>1
  <2> QED
    BY <1>2, <1>3, <2>6, ReturnsTrue DEF found
<1>11. CASE IsItself(FoundPaths, p, x)
  <2>1. /\ "NOCHECK" \in call.flags /\ FoundPaths = <<PatternItself.path>>
        /\ x = {} => Denotes(p) = {}
    BY <1>11 DEF IsItself
  <2>2. DOMAIN FoundPaths = 1..1 /\ FoundPaths[1] = PatternItself.path
    BY <2>1
  <2>3. Len(found) = 1
    <3> DEFINE m == Len(found)
    <3>1. m \in Nat /\ 1..m = 1..1 /\ m >= 1
      BY <1>7, <2>2
    <3> HIDE DEF m
    <3>2. m \in 1..1
      BY <3>1
    <3>3. m = 1
      BY <3>2
    <3> QED
      BY <3>3 DEF m
  <2>4. news = {PatternItself.path}
    BY <1>6, <2>2
  <2>5. Cardinality(news) = 1 /\ 2..1 = {}
    <3>1. Cardinality({PatternItself.path}) = 1
      BY FS_Singleton, Zenon
    <3>2. 2..1 = {}
      OBVIOUS
    <3> QED
      BY <2>4, <3>1, <3>2
  <2>6. TrueResult(call.error, found, p, call.flags, x)
    BY <1>3, <1>5, <1>9, <2>1, <2>3, <2>4, <2>5 DEF TrueResult, news, Asked, ErrorTrue
  <2>7. TrueResult(call.error, found, p, call.flags, x \cup {})
    <3>1. x \cup {} = x
      OBVIOUS
    <3> QED
      BY <2>6, <3>1
  <2> QED
    BY <1>2, <1>3, <2>7, ReturnsTrue DEF found
<1> QED
  BY <1>4, <1>10, <1>11

LEMMA NoSpaceTrue ==
    ASSUME GlobTrue, NoSpace \/ NoMatch \/ VectorFails
    PROVE  GlobTrue' /\ ResultsAreTrue'
<1> DEFINE p == call.pattern
           x == returned.failed
<1>1. running = "glob" /\ stack = << >>
  BY DEF NoSpace, NoMatch, VectorFails, Collecting
<1>2. Asked
  BY <1>1 DEF GlobTrue
<1>3. CASE NoSpace
  <2>1. call.error = "NOSPACE" /\ GlobReturns("NOSPACE", << >>, {})
    BY <1>3 DEF NoSpace
  <2>2. "memory" \in x \cup {}
    BY <1>2, <2>1 DEF Asked, ErrorTrue
  <2>3. TrueResult("NOSPACE", << >>, p, call.flags, x \cup {})
    BY <2>2, NothingAdded
  <2> QED
    BY <1>2, <2>1, <2>3, ReturnsTrue
<1>4. CASE VectorFails
  <2>1. GlobReturns("NOSPACE", << >>, {"memory"})
    BY <1>4 DEF VectorFails
  <2>2. "memory" \in x \cup {"memory"}
    OBVIOUS
  <2>3. TrueResult("NOSPACE", << >>, p, call.flags, x \cup {"memory"})
    BY <2>2, NothingAdded
  <2> QED
    BY <1>2, <2>1, <2>3, ReturnsTrue
<1>5. CASE NoMatch
  <2>1. call.chain = << >> /\ "NOCHECK" \notin call.flags /\ GlobReturns("NOMATCH", << >>, {})
    BY <1>5 DEF NoMatch
  <2>2. FoundTrue(FoundPaths, << >>, p, x)
    BY <1>1, <2>1 DEF GlobTrue, IsItself
  <2>3. x \cup {} = {} => Denotes(p) = {}
    BY <2>1, <2>2 DEF FoundTrue, FoundPaths, ToCome
  <2>4. TrueResult("NOMATCH", << >>, p, call.flags, x \cup {})
    BY <2>3, NothingAdded
  <2> QED
    BY <1>2, <2>1, <2>4, ReturnsTrue
<1> QED
  BY <1>3, <1>4, <1>5

LEMMA AskedNothing ==
    ASSUME Asked'
    PROVE  ResultsAreTrue'
BY DEF Asked, ResultsAreTrue

LEMMA NoCheckTrue ==
    ASSUME GlobOwn, Allocated \subseteq Addresses, GlobTrue, NoCheck
    PROVE  GlobTrue' /\ ResultsAreTrue'
<1> DEFINE p == call.pattern
           x == returned.failed
<1>1. /\ running = "glob" /\ stack = << >> /\ stack' = << >> /\ call.chain = << >>
      /\ "NOCHECK" \in call.flags /\ call \in CallType /\ running' = "glob"
  BY DEF NoCheck, Collecting, GlobOwn
<1>2. Asked /\ FoundTrue(FoundPaths, << >>, p, x) /\ WalkTrue(<< >>, p)
  BY <1>1 DEF GlobTrue, IsItself, FoundPaths
<1>3. CASE /\ \E b \in Free : /\ heap' = With(heap, b, PatternItself)
                              /\ call' = [call EXCEPT !.chain = <<b>>]
           /\ returned' = returned
  <2>1. PICK b \in Free : /\ heap' = With(heap, b, PatternItself)
                          /\ call' = [call EXCEPT !.chain = <<b>>]
    BY <1>3
  <2>2. /\ call'.error = call.error /\ call'.chain = <<b>>
        /\ call'.pattern = p /\ call'.flags = call.flags
    BY <1>1, <2>1 DEF CallType
  <2>3. heap'[b] = PatternItself
    BY <2>1 DEF With
  <2>4. FoundPaths' = <<PatternItself.path>>
    BY <2>2, <2>3 DEF FoundPaths
  <2>5. x = {} => Denotes(p) = {}
    BY <1>1, <1>2 DEF FoundTrue, FoundPaths, ToCome
  <2>6. Asked'
    BY <1>2, <1>3, <2>2 DEF Asked, ErrorTrue
  <2>7. IsItself(FoundPaths, p, x)'
    BY <1>1, <1>3, <2>2, <2>4, <2>5 DEF IsItself
  <2> QED
    BY <1>1, <1>2, <2>2, <2>6, <2>7, AskedNothing DEF GlobTrue
<1>4. CASE heap' = heap /\ call' = [call EXCEPT !.error = "NOSPACE"] /\ Failing("memory")
  <2>0. call'.error = "NOSPACE"
    BY <1>1, <1>4, ErrorChanges
  <2>1. /\ Asked' /\ call'.pattern = p /\ call'.chain = << >>
        /\ returned'.failed = x \cup {"memory"}
    BY <1>1, <1>2, <1>4, <2>0, FailingAsked
  <2>2. FoundPaths' = FoundPaths
    BY <1>1, <2>1 DEF FoundPaths
  <2>3. FoundTrue(FoundPaths, << >>, p, x \cup {"memory"})
    BY <1>2 DEF FoundTrue
  <2> QED
    BY <1>1, <1>2, <2>1, <2>2, <2>3, AskedNothing DEF GlobTrue
<1> QED
  BY <1>3, <1>4 DEF NoCheck

\* Everything the pattern stands for is to come when the search begins.
LEMMA GlobBeginsTrue ==
    ASSUME GlobOwn, NEW p \in Patterns, NEW fs \in FlagSets, NEW offs \in Offsets,
           glob(p, fs, offs)
    PROVE  GlobTrue' /\ ResultsAreTrue'
<1>1. /\ call' = [NoCall EXCEPT !.pattern = p, !.flags = fs, !.offs = offs]
      /\ stack' = IF p = <<Empty>> THEN << >> ELSE <<Frame(<< >>, p)>>
      /\ returned' = [NoReturn EXCEPT !.pattern = p, !.flags = fs]
  BY DEF glob
<1>2. /\ call'.pattern = p /\ call'.flags = fs /\ call'.chain = << >> /\ call'.error = "0"
  BY <1>1 DEF NoCall
<1>3. returned' = [code |-> "none", pattern |-> p, flags |-> fs, new |-> << >>, failed |-> {}]
  BY <1>1 DEF NoReturn
<1>4. returned'.failed = {}
  BY <1>3
<1>5. Asked'
  BY <1>2, <1>3, <1>4 DEF Asked, ErrorTrue
<1>6. DOMAIN FoundPaths' = {}
  BY <1>2 DEF FoundPaths
<1>7. CASE p = <<Empty>>
  <2>1. stack' = << >>
    BY <1>1, <1>7
  <2>2. Denotes(p) = {}
    <3> SUFFICES ASSUME NEW q \in Denotes(p) PROVE FALSE
      OBVIOUS
    <3>1. Len(q) = Depth(p) /\ Len(q) >= 1
      BY DenotedIs
    <3>2. Depth(p) = 0
      BY <1>7 DEF Depth
    <3> QED
      BY <3>1, <3>2
  <2>3. WalkTrue(stack', p)
    BY <2>1 DEF WalkTrue
  <2>4. FoundTrue(FoundPaths', stack', p, {})
    BY <1>6, <2>2 DEF FoundTrue
  <2> QED
    BY <1>2, <1>4, <1>5, <2>3, <2>4, AskedNothing DEF GlobTrue
<1>8. CASE p # <<Empty>>
  <2> DEFINE f == Frame(<< >>, p)
  <2>1. stack' = <<f>>
    BY <1>1, <1>8
  <2>2. f.d = << >> /\ f.p = p /\ f.dir = NULL /\ f.next = 1
    BY DEF Frame
  <2> HIDE DEF f
  <2>3. p \in Seq(SUBSET Name) /\ Len(p) \in Nat /\ Len(p) >= 1
    BY PatternIs
  <2>4. p = SubSeq(p, 1, Len(p))
    BY <2>3
  <2>5. FrameTrue(f, 1, p)
    <3>1. 1..(1 - 1) = {} /\ Len(<< >>) = 1 - 1
      OBVIOUS
    <3> QED
      BY <2>2, <2>3, <2>4, <3>1 DEF FrameTrue, IsOpened
  <2>6. DOMAIN stack' = {1} /\ stack'[1] = f
    BY <2>1
  <2>7. WalkTrue(stack', p)
    BY <1>8, <2>5, <2>6 DEF WalkTrue
  <2>8. ASSUME NEW q \in Denotes(p) PROVE ToCome(stack', q)
    <3>1. /\ Len(q) \in Nat /\ 1 \in 1..Len(q) /\ Parent(q, 1) \in DOMAIN Tree
          /\ \E j \in DOMAIN Tree[Parent(q, 1)] : Tree[Parent(q, 1)][j].name = q[1]
      BY DenotedIs
    <3>2. Parent(q, 1) = << >>
      BY DEF Parent
    <3>3. PICK j \in DOMAIN Tree[<< >>] : Tree[<< >>][j].name = q[1]
      BY <3>1, <3>2
    <3>4. << >> \in DOMAIN Tree /\ j \in Nat /\ j >= 1
      <4>1. << >> \in DOMAIN Tree
        BY <3>1, <3>2
      <4> QED
        BY <4>1, TreeIs
    <3>5. Through(<< >>, q)
      BY <3>1 DEF Through
    <3>6. Ahead(f, q)
      <4>1. Len(<< >>) + 1 = 1
        OBVIOUS
      <4> QED
        BY <2>2, <3>3, <3>4, <3>5, <4>1 DEF Ahead
    <3> QED
      BY <2>6, <3>6 DEF ToCome
  <2>9. FoundTrue(FoundPaths', stack', p, {})
    BY <1>6, <2>8 DEF FoundTrue
  <2> QED
    BY <1>2, <1>4, <1>5, <2>7, <2>9, AskedNothing DEF GlobTrue
<1> QED
  BY <1>7, <1>8

LEMMA GlobTrueStep ==
    ASSUME HeapOwn, GlobTrue, GlobNext
    PROVE  GlobTrue' /\ ResultsAreTrue'
<1>1. GlobOwn /\ Allocated \subseteq Addresses /\ faults \in Nat
  BY DEF HeapOwn
<1>2. CASE \E p \in Patterns, fs \in FlagSets, offs \in Offsets : glob(p, fs, offs)
  BY <1>1, <1>2, GlobBeginsTrue
<1>3. CASE WriteNameCrashes
  <2>1. running = "glob" /\ running' = "crashed" /\ returned' = returned
    BY <1>3 DEF WriteNameCrashes, globVars, MayWriteName, HasEntry, Searching, Matching
  <2>2. returned.code = "none"
    BY <2>1 DEF GlobTrue, Asked
  <2> QED
    BY <2>1, <2>2 DEF GlobTrue, ResultsAreTrue
<1>4. CASE MatchActions
  <2>1. Matching /\ running' = running /\ g' = g
    BY <1>4 DEF MatchActions, OpenDir, OpenDirFails, FoundDirectory, NameBuf, NameBufFails,
           Skip, Descend, Found, EndOfDirectory, ReadFails,
           Entering, Searching, HasEntry, MayWriteName, NameWritten
  <2>2. InMatch
    BY <1>1, <2>1 DEF InMatch, GoesOn, Matching
  <2>3. Searches'
    BY <1>4, <2>2, SearchesIs, MatchSearches
  <2>4. GlobTrue'
    <3>1. (Searches => GlobTrue)'
      BY SearchesIs, PTL
    <3> QED
      BY <2>3, <3>1
  <2> QED
    BY <2>3, <2>4, AskedNothing DEF Searches
<1>5. CASE NoSpace \/ NoMatch \/ VectorFails
  BY <1>5, NoSpaceTrue
<1>6. CASE NoCheck
  BY <1>1, <1>6, NoCheckTrue
<1>7. CASE MakeVector
  BY <1>1, <1>7, MakeVectorTrue
<1>8. CASE globfree
  <2>1. running' = "caller" /\ returned' = NoReturn
    BY <1>8 DEF globfree
  <2>2. returned'.code = "none"
    BY <2>1 DEF NoReturn
  <2> QED
    BY <2>1, <2>2 DEF GlobTrue, ResultsAreTrue
<1> QED
  BY <1>2, <1>3, <1>4, <1>5, <1>6, <1>7, <1>8 DEF GlobNext, match_in_dir, MatchActions

\* What glob returns (glob.c:22-245): unless something failed exactly the paths the pattern
\* stands for, once each and in order, or why there are none; and when something did,
\* only such paths and a code that has a reason, whatever the directories hold.
THEOREM ResultsAreTheMatches == Spec => []ResultsAreTrue
<1> DEFINE TrueInv == GlobTrue /\ ResultsAreTrue
<1>1. Init => TrueInv
  BY DEF Init, HeapInit, GlobInit, GlobTrue, ResultsAreTrue, NoReturn
<1>2. HeapOwn /\ TrueInv /\ [Next]_vars => TrueInv'
  <2> SUFFICES ASSUME HeapOwn, TrueInv, [Next]_vars PROVE TrueInv'
    OBVIOUS
  <2>1. CASE GlobNext
    BY <2>1, GlobTrueStep
  <2>2. CASE (ScanNext \/ ConvNext) /\ UNCHANGED globVars
    <3>1. running' # "glob" /\ returned' = returned
      BY <2>2, ScanRuns, ConvRuns DEF globVars
    <3> QED
      BY <3>1 DEF GlobTrue, ResultsAreTrue, NewResults
  <2>3. CASE UNCHANGED vars
    <3>1. UNCHANGED heapVars /\ UNCHANGED globVars
      BY <2>3, Zenon DEF vars
    <3>2. heap' = heap /\ running' = running /\ call' = call /\ stack' = stack
          /\ returned' = returned
      BY <3>1 DEF heapVars, globVars
    <3>3. GlobTrue'
      BY <3>2 DEF GlobTrue, Asked, ErrorTrue, FoundPaths, IsItself
    <3> QED
      BY <3>2, <3>3 DEF ResultsAreTrue, NewResults
  <2> QED
    BY <2>1, <2>2, <2>3 DEF Next
<1> QED
  BY <1>1, <1>2, HeapOwnHolds, PTL DEF Spec
=============================================================================
