--------------------------- MODULE Fnmatch_proofs ---------------------------
(***************************************************************************)
(* Proofs about module Fnmatch: the Sea of Stars finds what the pattern    *)
(* means, for every pattern, string and set of flags on which the two      *)
(* scanners of the pattern agree with its tokens (ScannersAgree), and they *)
(* agree on every pattern without classes and without a range that ends in *)
(* "-".  On others they need not: match_bracket reads the end of a range   *)
(* twice (fnmatch.c, 132).                                                 *)
(*                                                                         *)
(* The functions that say what is meant are recursive.  Every set of       *)
(* natural numbers has a least element: from this come induction over sets *)
(* (UpTo, DownFrom) and that a function exists as a recursive definition   *)
(* describes it (RecursionExists).  So FlattenSeq, Entries, PathEntries,   *)
(* BracketEnd and ItemHit satisfy their recursion (FlatSteps,              *)
(* EntriesSteps, PathEntriesSteps, CloseSteps, HitSteps), and what is      *)
(* needed of them follows by its steps.                                    *)
(*                                                                         *)
(* The inductive invariant IInv says, for each place of the program, which *)
(* tokens are left (the pointers are bounds of tokens) and that the result *)
(* is owed by what is left.  Three facts carry the stars: a tail without   *)
(* stars takes as many characters as it has tokens (TailTakesTheEnd); a    *)
(* component is entered at the first place where it fits, and if the rest  *)
(* can be placed at all it can be placed behind it (Placed); and a star    *)
(* is entered wherever a later place is (MatchesStar).                     *)
(***************************************************************************)
EXTENDS Fnmatch, FiniteSetTheorems, NaturalsInduction, WellFoundedInduction, TLAPS

-----------------------------------------------------------------------------
(* Induction and recursion over the natural numbers *)

\* A set of natural numbers has a least element.
LEMMA LeastElement ==
    ASSUME NEW S \in SUBSET Nat, S # {}
    PROVE  \E x \in S : \A y \in S : x <= y
<1> DEFINE R == OpToRel(<, Nat)
<1>1. IsWellFoundedOn(R, Nat)
  BY NatLessThanWellFounded, Zenon
<1>2. \A x, y \in Nat : <<x, y>> \in R <=> x < y
  BY DEF OpToRel
<1> HIDE DEF R
<1>3. PICK x \in S : \A y \in S : ~(<<y, x>> \in R)
  BY <1>1, WFMin
<1>4. \A y \in S : x <= y
  <2> SUFFICES ASSUME NEW y \in S, ~(x <= y) PROVE FALSE
    OBVIOUS
  <2>1. x \in Nat /\ y \in Nat /\ y < x
    OBVIOUS
  <2> QED
    BY <1>2, <1>3, <2>1
<1> QED
  BY <1>4

\* Induction up to n, over the set of the numbers for which something holds.
LEMMA UpTo ==
    ASSUME NEW n \in Nat, NEW S, 0 \in S, \A k \in 1..n : k - 1 \in S => k \in S
    PROVE  0..n \subseteq S
<1> SUFFICES ASSUME (0..n) \ S # {} PROVE FALSE
  OBVIOUS
<1> DEFINE U == (0..n) \ S
<1>1. U \in SUBSET Nat /\ U # {}
  OBVIOUS
<1>2. PICK k \in U : \A j \in U : k <= j
  BY <1>1, LeastElement
<1>3. k \in 1..n /\ k - 1 \in 0..n /\ k - 1 < k
  BY <1>2
<1>4. k - 1 \in S
  BY <1>2, <1>3
<1> QED
  BY <1>2, <1>3, <1>4

\* Induction from n down to 0.
LEMMA DownFrom ==
    ASSUME NEW n \in Nat, NEW S, n \in S, \A k \in 0..(n - 1) : k + 1 \in S => k \in S
    PROVE  0..n \subseteq S
<1> DEFINE U == {k \in 0..n : n - k \in S}
<1>1. 0 \in U
  OBVIOUS
<1>2. \A k \in 1..n : k - 1 \in U => k \in U
  <2> SUFFICES ASSUME NEW k \in 1..n, k - 1 \in U PROVE k \in U
    OBVIOUS
  <2>1. n - k \in 0..(n - 1) /\ (n - k) + 1 = n - (k - 1)
    OBVIOUS
  <2>2. n - (k - 1) \in S
    OBVIOUS
  <2>3. n - k \in S
    BY <2>1, <2>2
  <2> QED
    BY <2>3
<1>3. 0..n \subseteq U
  <2> HIDE DEF U
  <2> QED
    BY <1>1, <1>2, UpTo
<1>4. \A k \in 0..n : n - (n - k) = k /\ n - k \in 0..n
  OBVIOUS
<1> QED
  BY <1>3, <1>4

\* f goes on from what it is at next, except where it begins.
Recursive(f, D, begin, first, next, g) ==
    \A x \in D : f[x] = IF x \in begin THEN first[x] ELSE g[<<x, f[next[x]]>>]

\* There is a function as a recursive definition describes it, if what it goes on
\* from is of a lower rank.
LEMMA RecursionExists ==
    ASSUME NEW D, NEW V, NEW begin, NEW first \in [D -> V], NEW next,
           NEW g, \A x \in D, v \in V : g[<<x, v>>] \in V,
           NEW rank \in [D -> Nat], NEW top \in Nat, \A x \in D : rank[x] <= top,
           \A x \in D : x \notin begin => next[x] \in D /\ rank[next[x]] < rank[x]
    PROVE  \E f \in [D -> V] : Recursive(f, D, begin, first, next, g)
<1> DEFINE Below(n) == {x \in D : rank[x] < n}
           Is(f, n) == Recursive(f, Below(n), begin, first, next, g)
           Has(n) == \E f \in [D -> V] : Is(f, n)
           S == {n \in 0..(top + 1) : Has(n)}
<1>1. 0 \in S
  <2>1. Below(0) = {}
    OBVIOUS
  <2>2. Is(first, 0)
    BY <2>1 DEF Recursive
  <2>3. Has(0)
    BY <2>2
  <2> HIDE DEF Has
  <2> QED
    BY <2>3
<1>2. \A k \in 1..(top + 1) : k - 1 \in S => k \in S
  <2> SUFFICES ASSUME NEW k \in 1..(top + 1), Has(k - 1) PROVE Has(k)
    <3> HIDE DEF Has
    <3> QED
      OBVIOUS
  <2>1. PICK e \in [D -> V] : Is(e, k - 1)
    OBVIOUS
  <2> DEFINE go(x) == IF x \in begin THEN first[x] ELSE g[<<x, e[next[x]]>>]
             f == [x \in D |-> IF rank[x] < k - 1 THEN e[x] ELSE go(x)]
  <2>2. \A x \in D : go(x) \in V
    OBVIOUS
  <2>3. f \in [D -> V]
    <3> HIDE DEF go
    <3> QED
      BY <2>2
  <2>4. ASSUME NEW x \in Below(k) PROVE f[x] = go(x)
    <3>1. CASE rank[x] < k - 1
      <4>1. x \in Below(k - 1)
        BY <3>1
      <4>2. e[x] = go(x)
        BY <2>1, <4>1 DEF Recursive
      <4> HIDE DEF go
      <4> QED
        BY <3>1, <4>2
    <3>2. CASE ~(rank[x] < k - 1)
      <4> HIDE DEF go
      <4> QED
        BY <3>2
    <3> QED
      BY <3>1, <3>2
  <2>5. ASSUME NEW x \in Below(k), x \notin begin PROVE f[next[x]] = e[next[x]]
    <3>1. next[x] \in D /\ rank[next[x]] < k - 1
      BY <2>5
    <3> HIDE DEF go
    <3> QED
      BY <3>1
  <2> HIDE DEF f
  <2>6. Is(f, k)
    <3> SUFFICES ASSUME NEW x \in Below(k)
                 PROVE  f[x] = IF x \in begin THEN first[x] ELSE g[<<x, f[next[x]]>>]
      BY DEF Recursive
    <3> QED
      BY <2>4, <2>5
  <2> HIDE DEF Below
  <2> QED
    BY <2>3, <2>6
<1>3. 0..(top + 1) \subseteq S
  <2> HIDE DEF S
  <2> QED
    BY <1>1, <1>2, UpTo
<1>4. Has(top + 1)
  <2> HIDE DEF Has
  <2> QED
    BY <1>3
<1>5. Below(top + 1) = D
  OBVIOUS
<1> QED
  BY <1>4, <1>5, Zenon

\* The least element of a set of natural numbers is one of it.
LEMMA MinIsLeast ==
    ASSUME NEW S \in SUBSET Nat, S # {}
    PROVE  Min(S) \in S /\ \A x \in S : Min(S) <= x
BY LeastElement DEF Min

-----------------------------------------------------------------------------
(* The pattern and where its tokens end *)

\* How many tokens and characters there are.
N == Len(toks)
T == Len(text)

\* What the caller gives.
Given ==
    /\ IsPattern(toks) /\ IsString(text)
    /\ chars = FlattenSeq([i \in DOMAIN toks |-> toks[i].text])

\* The characters of a token, and those up to it.
Word(i) == toks[i].text
Flat(n) == LET flatten[i \in 1..n] == IF i = 1 THEN Word(i) ELSE flatten[i - 1] \o Word(i)
           IN flatten
UpToToken(n) == IF n = 0 THEN << >> ELSE Flat(N)[n]
Characters == UNION {Range(Word(i)) : i \in 1..N}

\* What an input is made of.
LEMMA GivenTypes ==
    ASSUME Given
    PROVE  /\ N \in Nat /\ T \in Nat
           /\ DOMAIN toks = 1..N /\ DOMAIN text = 1..T
           /\ \A i \in 1..T : text[i] \in Range(text) /\ text[i] # NUL /\ text[i] \notin Signs
           /\ \A i \in 1..N : /\ Word(i) \in Seq(Characters) /\ Len(Word(i)) \in Nat \ {0}
                              /\ toks[i].star \in BOOLEAN
                              /\ toks[i].star => Len(Word(i)) = 1
<1>1. toks \in Seq(Range(toks)) /\ text \in Seq(Range(text)) /\ Range(text) \cap (Signs \cup {NUL}) = {}
  BY DEF Given, IsPattern, IsString
<1>2. N \in Nat /\ DOMAIN toks = 1..N
  BY <1>1 DEF N
<1>3. T \in Nat /\ DOMAIN text = 1..T
  BY <1>1 DEF T
<1>4. ASSUME NEW i \in 1..T PROVE text[i] \in Range(text) /\ text[i] # NUL /\ text[i] \notin Signs
  <2>1. text[i] \in Range(text)
    BY <1>3 DEF Range
  <2> QED
    BY <1>1, <2>1
<1>5. ASSUME NEW i \in 1..N
      PROVE  /\ Word(i) \in Seq(Characters) /\ Len(Word(i)) \in Nat \ {0}
             /\ toks[i].star \in BOOLEAN
             /\ toks[i].star => Len(Word(i)) = 1
  <2>1. /\ Word(i) \in Seq(Range(Word(i))) /\ Word(i) # << >>
        /\ toks[i].star \in BOOLEAN /\ (toks[i].star => Word(i) = <<"*">>)
    BY <1>2 DEF Given, IsPattern, IsString, Word
  <2> DEFINE w == Word(i)
  <2>2. Range(w) \subseteq Characters
    BY DEF Characters
  <2> HIDE DEF w
  <2>3. w \in Seq(Range(w)) /\ w # << >>
    BY <2>1 DEF w
  <2>4. Len(w) \in Nat \ {0}
    BY <2>3
  <2>5. w \in Seq(Characters)
    <3>1. Len(w) \in Nat /\ w \in [1..Len(w) -> Range(w)]
      BY <2>3
    <3>2. w \in [1..Len(w) -> Characters]
      BY <2>2, <3>1
    <3> QED
      BY <3>1, <3>2
  <2>6. toks[i].star => Len(w) = 1
    BY <2>1 DEF w
  <2> QED
    BY <2>1, <2>4, <2>5, <2>6 DEF w
<1> QED
  BY <1>2, <1>3, <1>4, <1>5

\* There are functions as FlattenSeq recursively describes them.
LEMMA FlatSteps ==
    ASSUME Given, NEW n \in 0..N, NEW i \in 1..n
    PROVE  /\ Flat(n)[i] \in Seq(Characters)
           /\ Flat(n)[i] = IF i = 1 THEN Word(i) ELSE Flat(n)[i - 1] \o Word(i)
<1> DEFINE D == 1..n
           V == Seq(Characters)
           first == [x \in D |-> Word(x)]
           next == [x \in D |-> x - 1]
           g == [xv \in D \X V |-> xv[2] \o Word(xv[1])]
           rank == [x \in D |-> x]
           Is(f) == f = [x \in D |-> IF x = 1 THEN Word(x) ELSE f[x - 1] \o Word(x)]
<1>0. n \in Nat /\ N \in Nat /\ D \subseteq 1..N
  BY GivenTypes
<1>1. \A x \in D : Word(x) \in V
  BY <1>0, GivenTypes
<1>2. first \in [D -> V]
  BY <1>1
<1>3. \A x \in D, v \in V : g[<<x, v>>] = v \o Word(x) /\ g[<<x, v>>] \in V
  <2> SUFFICES ASSUME NEW x \in D, NEW v \in V
               PROVE  g[<<x, v>>] = v \o Word(x) /\ g[<<x, v>>] \in V
    OBVIOUS
  <2>1. g[<<x, v>>] = v \o Word(x)
    OBVIOUS
  <2> DEFINE w == Word(x)
  <2>2. w \in Seq(Characters) /\ v \in Seq(Characters)
    BY <1>1
  <2> HIDE DEF w, g
  <2>3. v \o w \in Seq(Characters)
    BY <2>2
  <2> QED
    BY <2>1, <2>3 DEF w
<1>4. rank \in [D -> Nat] /\ \A x \in D : rank[x] <= n
  BY <1>0
<1>5. \A x \in D : x \notin {1} => next[x] \in D /\ rank[next[x]] < rank[x]
  BY <1>0
<1>6. PICK f \in [D -> V] : Recursive(f, D, {1}, first, next, g)
  <2> HIDE DEF D, V, first, next, g, rank
  <2> QED
    BY <1>0, <1>2, <1>3, <1>4, <1>5, RecursionExists
<1>7. ASSUME NEW x \in D PROVE f[x] = IF x = 1 THEN Word(x) ELSE f[x - 1] \o Word(x)
  <2>1. f[x] = IF x \in {1} THEN first[x] ELSE g[<<x, f[next[x]]>>]
    BY <1>6 DEF Recursive
  <2>2. x # 1 => x - 1 \in D /\ next[x] = x - 1
    BY <1>0
  <2>3. x # 1 => f[x - 1] \in V
    BY <2>2, <1>6
  <2>4. x # 1 => g[<<x, f[next[x]]>>] = f[x - 1] \o Word(x)
    <3> HIDE DEF g, V, D
    <3> QED
      BY <2>2, <2>3, <1>3
  <2>5. first[x] = Word(x)
    OBVIOUS
  <2> HIDE DEF g, first, next
  <2> QED
    BY <2>1, <2>4, <2>5
<1>8. Is(f)
  <2> HIDE DEF V
  <2>1. f = [x \in D |-> f[x]]
    BY <1>6
  <2> HIDE DEF D
  <2> QED
    BY <1>7, <2>1
<1>9. Is(Flat(n))
  <2>1. Flat(n) = CHOOSE f0 : Is(f0)
    BY DEF Flat
  <2>2. \E f0 : Is(f0)
    BY <1>8
  <2> HIDE DEF Is
  <2> QED
    BY <2>1, <2>2
<1> DEFINE h == Flat(n)
<1>10. ASSUME NEW x \in D PROVE h[x] = IF x = 1 THEN Word(x) ELSE h[x - 1] \o Word(x)
  BY <1>9, Zenon
<1> HIDE DEF h
<1> DEFINE U == {k \in 0..n : k = 0 \/ h[k] \in V}
<1>11. 0 \in U
  BY <1>0
<1>12. \A k \in 1..n : k - 1 \in U => k \in U
  <2> SUFFICES ASSUME NEW k \in 1..n, k - 1 \in U PROVE h[k] \in V
    BY <1>0
  <2>1. CASE k = 1
    BY <2>1, <1>1, <1>10
  <2>2. CASE k # 1
    <3>1. h[k - 1] \in V /\ k \in D
      BY <2>2
    <3>2. h[k] = h[k - 1] \o Word(k)
      BY <2>2, <1>10
    <3>3. g[<<k, h[k - 1]>>] = h[k - 1] \o Word(k) /\ g[<<k, h[k - 1]>>] \in V
      <4> HIDE DEF g, V, D
      <4> QED
        BY <3>1, <1>3
    <3> HIDE DEF g
    <3> QED
      BY <3>2, <3>3
  <2> QED
    BY <2>1, <2>2
<1>13. 0..n \subseteq U
  <2> HIDE DEF U
  <2> QED
    BY <1>0, <1>11, <1>12, UpTo
<1>14. h[i] \in V
  <2>1. i \in U /\ i # 0
    <3> HIDE DEF U
    <3> QED
      BY <1>0, <1>13
  <2> QED
    BY <2>1
<1> QED
  BY <1>10, <1>14 DEF h

\* Those for fewer tokens agree with that for all.
LEMMA FlatAgrees ==
    ASSUME Given, NEW n \in 0..N
    PROVE  \A i \in 1..n : Flat(n)[i] = Flat(N)[i]
<1> DEFINE U == {k \in 0..n : k = 0 \/ Flat(n)[k] = Flat(N)[k]}
<1>0. n \in Nat /\ N \in Nat /\ N \in 0..N
  BY GivenTypes
<1>1. 0 \in U
  BY <1>0
<1>2. \A k \in 1..n : k - 1 \in U => k \in U
  <2> SUFFICES ASSUME NEW k \in 1..n, k - 1 \in U PROVE Flat(n)[k] = Flat(N)[k]
    BY <1>0
  <2>1. k \in 1..N
    BY <1>0
  <2>2. Flat(n)[k] = IF k = 1 THEN Word(k) ELSE Flat(n)[k - 1] \o Word(k)
    BY FlatSteps
  <2>3. Flat(N)[k] = IF k = 1 THEN Word(k) ELSE Flat(N)[k - 1] \o Word(k)
    BY <1>0, <2>1, FlatSteps
  <2>4. k = 1 \/ Flat(n)[k - 1] = Flat(N)[k - 1]
    OBVIOUS
  <2> HIDE DEF U
  <2> QED
    BY <2>2, <2>3, <2>4
<1>3. 0..n \subseteq U
  <2> HIDE DEF U
  <2> QED
    BY <1>0, <1>1, <1>2, UpTo
<1> QED
  BY <1>0, <1>3

\* The characters up to a token are those up to the one before it, and its own.
LEMMA UpToTokenSteps ==
    ASSUME Given
    PROVE  /\ UpToToken(0) = << >>
           /\ \A n \in 0..N : UpToToken(n) \in Seq(Characters)
           /\ \A n \in 1..N : UpToToken(n) = UpToToken(n - 1) \o Word(n)
           /\ chars = UpToToken(N)
           /\ \A n \in 0..N : Bound(n) = 1 + Len(UpToToken(n))
<1>0. N \in Nat /\ N \in 0..N /\ DOMAIN toks = 1..N
  BY GivenTypes
<1>1. UpToToken(0) = << >>
  BY DEF UpToToken
<1>2. ASSUME NEW n \in 0..N PROVE UpToToken(n) \in Seq(Characters)
  <2>1. CASE n = 0
    <3>1. << >> \in Seq(Characters)
      OBVIOUS
    <3> QED
      BY <2>1, <3>1, <1>1, Zenon
  <2>2. CASE n # 0
    <3>1. n \in 1..N
      BY <2>2, <1>0
    <3>2. Flat(N)[n] \in Seq(Characters)
      BY <1>0, <3>1, FlatSteps
    <3> QED
      BY <2>2, <3>2 DEF UpToToken
  <2> QED
    BY <2>1, <2>2
<1>3. ASSUME NEW n \in 1..N PROVE UpToToken(n) = UpToToken(n - 1) \o Word(n)
  <2>1. Flat(N)[n] = IF n = 1 THEN Word(n) ELSE Flat(N)[n - 1] \o Word(n)
    BY <1>0, FlatSteps
  <2>2. UpToToken(n) = Flat(N)[n]
    BY <1>0 DEF UpToToken
  <2>3. CASE n = 1
    <3> DEFINE w == Word(n)
    <3>1. w \in Seq(Characters)
      BY GivenTypes
    <3> HIDE DEF w
    <3>2. << >> \o w = w
      BY <3>1
    <3>3. UpToToken(n - 1) = << >>
      BY <2>3, <1>1
    <3> QED
      BY <2>1, <2>2, <2>3, <3>2, <3>3 DEF w
  <2>4. CASE n # 1
    <3>1. UpToToken(n - 1) = Flat(N)[n - 1]
      BY <2>4, <1>0 DEF UpToToken
    <3> QED
      BY <2>1, <2>2, <2>4, <3>1
  <2> QED
    BY <2>3, <2>4
<1>4. ASSUME NEW n \in 0..N
      PROVE  FlattenSeq([i \in 1..n |-> toks[i].text]) = UpToToken(n)
  <2> DEFINE seqs == [i \in 1..n |-> toks[i].text]
  <2>1. Len(seqs) = n /\ n \in Nat
    BY <1>0
  <2>2. CASE n = 0
    <3>1. seqs = << >>
      BY <2>2
    <3> HIDE DEF seqs
    <3>2. FlattenSeq(seqs) = seqs
      BY <2>1, <2>2 DEF FlattenSeq
    <3> QED
      BY <3>1, <3>2, <2>2, <1>1 DEF seqs
  <2>3. CASE n # 0
    <3>1. FlattenSeq(seqs) = Flat(n)[n]
      BY <2>1, <2>3 DEF FlattenSeq, Flat, Word
    <3>2. Flat(n)[n] = Flat(N)[n]
      BY <2>1, <2>3, FlatAgrees
    <3> QED
      BY <3>1, <3>2, <2>3 DEF UpToToken
  <2> QED
    BY <2>2, <2>3
<1>5. chars = UpToToken(N)
  <2>1. chars = FlattenSeq([i \in 1..N |-> toks[i].text])
    BY <1>0 DEF Given
  <2> QED
    BY <1>0, <1>4, <2>1
<1>6. \A n \in 0..N : Bound(n) = 1 + Len(UpToToken(n))
  BY <1>4 DEF Bound
<1> QED
  BY <1>1, <1>2, <1>3, <1>5, <1>6

\* Bounds lie in the pattern, one token's characters apart.
LEMMA Bounds ==
    ASSUME Given
    PROVE  /\ Bound(0) = 1
           /\ Bound(N) = Len(chars) + 1
           /\ \A n \in 0..N : Bound(n) \in Nat
           /\ \A n \in 0..(N - 1) : Bound(n + 1) = Bound(n) + Len(Word(n + 1))
<1>0. N \in Nat /\ 0 \in 0..N /\ N \in 0..N
  BY GivenTypes
<1>1. Bound(0) = 1
  <2>1. Bound(0) = 1 + Len(UpToToken(0)) /\ UpToToken(0) = << >>
    BY <1>0, UpToTokenSteps
  <2> QED
    BY <2>1
<1>2. Bound(N) = Len(chars) + 1
  <2>1. Bound(N) = 1 + Len(UpToToken(N)) /\ chars = UpToToken(N) /\ UpToToken(N) \in Seq(Characters)
    BY <1>0, UpToTokenSteps
  <2> DEFINE u == UpToToken(N)
  <2> HIDE DEF u
  <2>2. u \in Seq(Characters) /\ Bound(N) = 1 + Len(u) /\ chars = u
    BY <2>1 DEF u
  <2> QED
    BY <2>2
<1>3. ASSUME NEW n \in 0..N PROVE Bound(n) \in Nat
  <2> DEFINE u == UpToToken(n)
  <2>1. u \in Seq(Characters) /\ Bound(n) = 1 + Len(u)
    BY UpToTokenSteps
  <2> HIDE DEF u
  <2> QED
    BY <2>1
<1>4. ASSUME NEW n \in 0..(N - 1) PROVE Bound(n + 1) = Bound(n) + Len(Word(n + 1))
  <2> DEFINE u == UpToToken(n)
             v == UpToToken(n + 1)
             w == Word(n + 1)
  <2>0. n \in 0..N /\ n + 1 \in 1..N /\ n + 1 \in 0..N /\ (n + 1) - 1 = n
    BY <1>0
  <2>1. u \in Seq(Characters) /\ Bound(n) = 1 + Len(u) /\ Bound(n + 1) = 1 + Len(v)
    BY <2>0, UpToTokenSteps
  <2>2. v = u \o w
    <3>1. UpToToken(n + 1) = UpToToken((n + 1) - 1) \o Word(n + 1)
      BY <2>0, UpToTokenSteps
    <3> QED
      BY <2>0, <3>1
  <2>3. w \in Seq(Characters)
    BY <2>0, GivenTypes
  <2> HIDE DEF u, v, w
  <2>4. Len(v) = Len(u) + Len(w) /\ Len(u) \in Nat /\ Len(w) \in Nat
    BY <2>1, <2>2, <2>3
  <2>5. Bound(n + 1) = Bound(n) + Len(w)
    BY <2>1, <2>4
  <2> QED
    BY <2>5 DEF w
<1> QED
  BY <1>1, <1>2, <1>3, <1>4

\* A later bound is a greater one.
LEMMA BoundsGrow ==
    ASSUME Given, NEW b \in 0..N, NEW a \in 0..N, a < b
    PROVE  Bound(a) < Bound(b)
<1> DEFINE U == {n \in 0..b : n < b => Bound(n) < Bound(b)}
<1>0. N \in Nat /\ b \in Nat
  BY GivenTypes
<1>1. b \in U
  BY <1>0
<1>2. \A n \in 0..(b - 1) : n + 1 \in U => n \in U
  <2> SUFFICES ASSUME NEW n \in 0..(b - 1), n + 1 \in U PROVE Bound(n) < Bound(b)
    BY <1>0
  <2>1. n \in 0..N /\ n + 1 \in 0..N /\ n \in 0..(N - 1) /\ n + 1 \in 1..N
    BY <1>0
  <2>2. Bound(n + 1) = Bound(n) + Len(Word(n + 1))
    BY <2>1, Bounds
  <2>3. Len(Word(n + 1)) \in Nat \ {0}
    BY <2>1, GivenTypes
  <2>4. Bound(n) \in Nat /\ Bound(n + 1) \in Nat /\ Bound(b) \in Nat
    BY <2>1, Bounds
  <2>5. Bound(n) < Bound(n + 1)
    BY <2>2, <2>3, <2>4
  <2>6. n + 1 = b \/ Bound(n + 1) < Bound(b)
    BY <1>0
  <2> QED
    BY <2>4, <2>5, <2>6
<1>3. 0..b \subseteq U
  <2> HIDE DEF U
  <2> QED
    BY <1>0, <1>1, <1>2, DownFrom
<1> QED
  BY <1>0, <1>3

\* Bounds are in the order of their numbers of tokens, so equal only for equal ones.
LEMMA BoundsOrdered ==
    ASSUME Given, NEW a \in 0..N, NEW b \in 0..N
    PROVE  /\ Bound(a) < Bound(b) <=> a < b
           /\ Bound(a) = Bound(b) <=> a = b
           /\ Bound(a) >= Bound(b) <=> a >= b
<1>1. N \in Nat /\ a \in Nat /\ b \in Nat
  BY GivenTypes
<1>2. Bound(a) \in Nat /\ Bound(b) \in Nat
  BY Bounds
<1>3. a < b => Bound(a) < Bound(b)
  BY BoundsGrow
<1>4. b < a => Bound(b) < Bound(a)
  BY BoundsGrow
<1> QED
  BY <1>1, <1>2, <1>3, <1>4

\* From where a token begins on there are its characters.
LEMMA CharacterOfToken ==
    ASSUME Given, NEW a \in 0..(N - 1), NEW x \in 1..Len(Word(a + 1))
    PROVE  /\ Bound(a) + x - 1 \in 1..Len(chars)
           /\ chars[Bound(a) + x - 1] = Word(a + 1)[x]
<1> DEFINE y == Bound(a) + x - 1
           z == Word(a + 1)[x]
           U == {n \in 0..N : n > a => y <= Len(UpToToken(n)) /\ UpToToken(n)[y] = z}
<1>0. N \in Nat /\ a \in Nat /\ a \in 0..N /\ a + 1 \in 1..N /\ N \in 0..N /\ 0 \in 0..N
  BY GivenTypes
<1>b. y \in Nat /\ y >= 1 /\ y >= Bound(a) /\ Bound(a) \in Nat /\ x \in Nat
  <2>1. a = 0 \/ Bound(0) < Bound(a)
    BY <1>0, BoundsGrow
  <2>2. Bound(a) \in Nat /\ Bound(a) >= 1
    BY <1>0, <2>1, Bounds
  <2>3. x \in Nat /\ x >= 1
    BY <1>0, GivenTypes
  <2> QED
    BY <2>2, <2>3
<1>1. 0 \in U
  BY <1>0
<1>2. \A n \in 1..N : n - 1 \in U => n \in U
  <2> SUFFICES ASSUME NEW n \in 1..N, n - 1 \in U, n > a
               PROVE  y <= Len(UpToToken(n)) /\ UpToToken(n)[y] = z
    BY <1>0
  <2> DEFINE u == UpToToken(n - 1)
             v == UpToToken(n)
             w == Word(n)
  <2>1. n \in 0..N /\ n - 1 \in 0..N
    BY <1>0
  <2>2. u \in Seq(Characters) /\ v = u \o w /\ Bound(n - 1) = 1 + Len(u)
    BY <2>1, UpToTokenSteps
  <2>3. w \in Seq(Characters) /\ Len(w) \in Nat \ {0}
    BY GivenTypes
  <2>4. n - 1 > a => y <= Len(u) /\ u[y] = z
    OBVIOUS
  <2>5. CASE n - 1 = a
    <3>1. n = a + 1 /\ y = Len(u) + x /\ x \in 1..Len(w)
      <4>1. n = a + 1
        BY <2>5, <1>0
      <4>2. x \in 1..Len(w)
        BY <4>1
      <4> DEFINE l == Len(u)
      <4>3. Bound(a) = 1 + l
        BY <2>2, <2>5
      <4>4. l \in Nat
        <5> HIDE DEF u
        <5> QED
          BY <2>2
      <4> HIDE DEF l
      <4>5. y = l + x
        BY <1>b, <4>3, <4>4
      <4> QED
        BY <4>1, <4>2, <4>5 DEF l
    <3>2. z = w[x]
      BY <3>1
    <3> HIDE DEF u, v, w, U, y, z
    <3>3. Len(v) = Len(u) + Len(w) /\ v[Len(u) + x] = w[x] /\ Len(u) \in Nat
      BY <2>2, <2>3, <3>1
    <3>4. y <= Len(v) /\ v[y] = z
      BY <2>3, <3>1, <3>2, <3>3
    <3> QED
      BY <3>4 DEF v
  <2>6. CASE n - 1 > a
    <3>1. y <= Len(u) /\ u[y] = z
      BY <2>4, <2>6
    <3> HIDE DEF u, v, w, U, y, z
    <3>2. y <= Len(v) /\ v[y] = u[y]
      BY <1>b, <2>2, <2>3, <3>1
    <3> QED
      BY <3>1, <3>2 DEF v
  <2> QED
    BY <1>0, <2>5, <2>6
<1>3. 0..N \subseteq U
  <2> HIDE DEF U
  <2> QED
    BY <1>0, <1>1, <1>2, UpTo
<1>4. y <= Len(UpToToken(N)) /\ UpToToken(N)[y] = z
  BY <1>0, <1>3
<1>5. chars = UpToToken(N)
  BY UpToTokenSteps
<1>6. Len(chars) \in Nat
  BY <1>0, Bounds
<1> HIDE DEF U, y, z
<1>7. y \in 1..Len(chars) /\ chars[y] = z
  BY <1>b, <1>4, <1>5, <1>6
<1> QED
  BY <1>7 DEF y, z

\* Where a token begins is its first character.
LEMMA FirstOfToken ==
    ASSUME Given, NEW a \in 0..(N - 1)
    PROVE  /\ Bound(a) \in 1..Len(chars)
           /\ chars[Bound(a)] = Word(a + 1)[1]
<1>1. N \in Nat /\ a \in 0..N /\ a + 1 \in 1..N
  BY GivenTypes
<1>2. 1 \in 1..Len(Word(a + 1)) /\ Bound(a) + 1 - 1 = Bound(a)
  BY <1>1, GivenTypes, Bounds
<1>3. Bound(a) + 1 - 1 \in 1..Len(chars) /\ chars[Bound(a) + 1 - 1] = Word(a + 1)[1]
  BY <1>2, CharacterOfToken
<1> QED
  BY <1>2, <1>3
-----------------------------------------------------------------------------
(* What tokens stand for *)

\* From where token n + 1 may be entered, if what follows it may be from rest.
Enter(n, rest, e) ==
    IF toks[n + 1].star THEN {i \in 1..e : \E j \in rest : i <= j}
    ELSE {i \in 1..(e - 1) : Stands(toks[n + 1], text[i]) /\ i + 1 \in rest}

\* There is a function as Entries recursively describes it.
LEMMA EntriesSteps ==
    ASSUME Given, NEW b \in 0..N, NEW e \in 1..(T + 1), NEW n \in 0..b
    PROVE  Entries(b, e)[n] = IF n = b THEN {e} ELSE Enter(n, Entries(b, e)[n + 1], e)
<1> DEFINE D == 0..b
           V == SUBSET (1..e)
           first == [x \in D |-> {e}]
           next == [x \in D |-> x + 1]
           g == [xv \in D \X V |-> Enter(xv[1], xv[2], e)]
           rank == [x \in D |-> b - x]
           Is(f) == f = [x \in D |-> IF x = b THEN {e} ELSE Enter(x, f[x + 1], e)]
<1>0. N \in Nat /\ T \in Nat /\ b \in Nat /\ e \in Nat /\ e \in 1..e
  BY GivenTypes
<1>1. first \in [D -> V]
  BY <1>0
<1>2. \A x \in D, v \in V : g[<<x, v>>] = Enter(x, v, e) /\ g[<<x, v>>] \in V
  <2> SUFFICES ASSUME NEW x \in D, NEW v \in V
               PROVE  g[<<x, v>>] = Enter(x, v, e) /\ g[<<x, v>>] \in V
    OBVIOUS
  <2>1. g[<<x, v>>] = Enter(x, v, e)
    OBVIOUS
  <2>2. Enter(x, v, e) \subseteq 1..e
    BY <1>0 DEF Enter
  <2> HIDE DEF g
  <2> QED
    BY <2>1, <2>2
<1>3. rank \in [D -> Nat] /\ \A x \in D : rank[x] <= b
  BY <1>0
<1>4. \A x \in D : x \notin {b} => next[x] \in D /\ rank[next[x]] < rank[x]
  BY <1>0
<1>5. PICK f \in [D -> V] : Recursive(f, D, {b}, first, next, g)
  <2> HIDE DEF D, V, first, next, g, rank
  <2> QED
    BY <1>0, <1>1, <1>2, <1>3, <1>4, RecursionExists
<1>6. ASSUME NEW x \in D PROVE f[x] = IF x = b THEN {e} ELSE Enter(x, f[x + 1], e)
  <2>1. f[x] = IF x \in {b} THEN first[x] ELSE g[<<x, f[next[x]]>>]
    BY <1>5 DEF Recursive
  <2>2. x # b => x + 1 \in D /\ next[x] = x + 1
    BY <1>0
  <2>3. x # b => f[x + 1] \in V
    BY <2>2, <1>5
  <2>4. x # b => g[<<x, f[next[x]]>>] = Enter(x, f[x + 1], e)
    <3> HIDE DEF g, V, D
    <3> QED
      BY <2>2, <2>3, <1>2
  <2>5. first[x] = {e}
    OBVIOUS
  <2> HIDE DEF g, first, next
  <2> QED
    BY <2>1, <2>4, <2>5
<1>7. Is(f)
  <2> HIDE DEF V
  <2>1. f = [x \in D |-> f[x]]
    BY <1>5
  <2> HIDE DEF D
  <2> QED
    BY <1>6, <2>1
<1>8. Is(Entries(b, e))
  <2>1. Entries(b, e) = CHOOSE f0 : Is(f0)
    BY DEF Entries, Enter
  <2>2. \E f0 : Is(f0)
    BY <1>7
  <2> HIDE DEF Is
  <2> QED
    BY <2>1, <2>2
<1> QED
  BY <1>8, Zenon

\* No token stands for no character.
LEMMA MatchesNone ==
    ASSUME Given, NEW b \in 0..N, NEW e \in 1..(T + 1), NEW i
    PROVE  Matches(b, b, i, e) <=> i = e
<1>1. b \in 0..b
  BY GivenTypes
<1>2. Entries(b, e)[b] = {e}
  BY <1>1, EntriesSteps
<1> QED
  BY <1>2 DEF Matches

\* A star stands for anything.
LEMMA MatchesStar ==
    ASSUME Given, NEW b \in 0..N, NEW e \in 1..(T + 1), NEW a \in 0..(b - 1), NEW i,
           toks[a + 1].star
    PROVE  Matches(a, b, i, e) <=> i \in 1..e /\ \E j \in i..e : Matches(a + 1, b, j, e)
<1>0. N \in Nat /\ T \in Nat /\ b \in Nat /\ e \in Nat /\ a \in 0..b /\ a # b /\ a + 1 \in 0..b
  BY GivenTypes
<1> DEFINE f == Entries(b, e)
<1>1. f[a] = Enter(a, f[a + 1], e)
  BY <1>0, EntriesSteps
<1>2. f[a + 1] = IF a + 1 = b THEN {e} ELSE Enter(a + 1, f[(a + 1) + 1], e)
  BY <1>0, EntriesSteps
<1> HIDE DEF f
<1>3. f[a + 1] \subseteq 1..e
  BY <1>0, <1>2 DEF Enter
<1>4. f[a] = {k \in 1..e : \E j \in f[a + 1] : k <= j}
  BY <1>1 DEF Enter
<1>5. i \in f[a] <=> i \in 1..e /\ \E j \in i..e : j \in f[a + 1]
  BY <1>0, <1>3, <1>4
<1> QED
  BY <1>5 DEF Matches, f

\* Another token stands for one character.
LEMMA MatchesOne ==
    ASSUME Given, NEW b \in 0..N, NEW e \in 1..(T + 1), NEW a \in 0..(b - 1), NEW i,
           ~toks[a + 1].star
    PROVE  Matches(a, b, i, e) <=> /\ i \in 1..(e - 1) /\ Stands(toks[a + 1], text[i])
                                   /\ Matches(a + 1, b, i + 1, e)
<1>0. N \in Nat /\ b \in Nat /\ a \in 0..b /\ a # b
  BY GivenTypes
<1>1. Entries(b, e)[a] = Enter(a, Entries(b, e)[a + 1], e)
  BY <1>0, EntriesSteps
<1>2. Enter(a, Entries(b, e)[a + 1], e)
         = {k \in 1..(e - 1) : Stands(toks[a + 1], text[k]) /\ k + 1 \in Entries(b, e)[a + 1]}
  BY DEF Enter
<1> QED
  BY <1>1, <1>2 DEF Matches

\* Where tokens match is in front of the end, or at it.
LEMMA MatchesWhere ==
    ASSUME Given, NEW b \in 0..N, NEW e \in 1..(T + 1), NEW a \in 0..b, NEW i,
           Matches(a, b, i, e)
    PROVE  i \in 1..e
<1>0. N \in Nat /\ T \in Nat /\ b \in Nat /\ e \in Nat
  BY GivenTypes
<1>1. CASE a = b
  BY <1>0, <1>1, MatchesNone
<1>2. CASE a # b
  <2>1. a \in 0..(b - 1)
    BY <1>0, <1>2
  <2>2. CASE toks[a + 1].star
    BY <2>1, <2>2, MatchesStar
  <2>3. CASE ~toks[a + 1].star
    <3>1. i \in 1..(e - 1)
      BY <2>1, <2>3, MatchesOne
    <3> QED
      BY <1>0, <3>1
  <2> QED
    BY <2>2, <2>3
<1> QED
  BY <1>1, <1>2

\* Between a and b no token is a star.
NoStar(a, b) == \A n \in (a + 1)..b : ~toks[n].star

\* Such tokens stand for as many characters.
LEMMA NoStarLength ==
    ASSUME Given, NEW b \in 0..N, NEW e \in 1..(T + 1), NEW c \in 0..b, NoStar(c, b),
           NEW i, Matches(c, b, i, e)
    PROVE  i = e - (b - c)
<1> DEFINE U == {n \in 0..b : n >= c => \A k : Matches(n, b, k, e) => k = e - (b - n)}
<1>0. N \in Nat /\ T \in Nat /\ b \in Nat /\ e \in Nat /\ c \in Nat
  BY GivenTypes
<1>1. b \in U
  BY <1>0, MatchesNone
<1>2. \A n \in 0..(b - 1) : n + 1 \in U => n \in U
  <2> SUFFICES ASSUME NEW n \in 0..(b - 1), n + 1 \in U, n >= c, NEW k, Matches(n, b, k, e)
               PROVE  k = e - (b - n)
    BY <1>0
  <2>1. ~toks[n + 1].star
    BY <1>0 DEF NoStar
  <2>2. k \in 1..(e - 1) /\ Matches(n + 1, b, k + 1, e)
    BY <2>1, MatchesOne
  <2>3. k + 1 = e - (b - (n + 1))
    BY <1>0, <2>2
  <2> HIDE DEF U
  <2> QED
    BY <1>0, <2>2, <2>3
<1>3. 0..b \subseteq U
  <2> HIDE DEF U
  <2> QED
    BY <1>0, <1>1, <1>2, DownFrom
<1> QED
  BY <1>0, <1>3

\* If what follows bound c has no star, it takes its characters from the end.
LEMMA TailTakesTheEnd ==
    ASSUME Given, NEW b \in 0..N, NEW e \in 1..(T + 1), NEW c \in 0..b, NoStar(c, b),
           NEW a \in 0..c, NEW i
    PROVE  Matches(a, b, i, e) <=>
             /\ e - (b - c) >= 1
             /\ Matches(c, b, e - (b - c), e)
             /\ Matches(a, c, i, e - (b - c))
<1> DEFINE k == e - (b - c)
           Splits(n, x) ==
             Matches(n, b, x, e) <=> k >= 1 /\ Matches(c, b, k, e) /\ Matches(n, c, x, k)
           U == {n \in 0..c : \A x : Splits(n, x)}
<1>0. /\ N \in Nat /\ T \in Nat /\ b \in Nat /\ e \in Nat /\ c \in Nat /\ c \in 0..N
      /\ k \in Int /\ k <= e
  BY GivenTypes
<1> HIDE DEF k
<1>1. c \in U
  <2> SUFFICES ASSUME NEW x PROVE Splits(c, x)
    BY <1>0
  <2>1. Matches(c, b, x, e) => x = k /\ x \in 1..e
    BY <1>0, NoStarLength, MatchesWhere DEF k
  <2>2. k >= 1 => k \in 1..(T + 1)
    BY <1>0
  <2>3. k >= 1 => (Matches(c, c, x, k) <=> x = k)
    BY <1>0, <2>2, MatchesNone
  <2> QED
    BY <2>1, <2>3
<1>2. \A n \in 0..(c - 1) : n + 1 \in U => n \in U
  <2> SUFFICES ASSUME NEW n \in 0..(c - 1), n + 1 \in U, NEW x PROVE Splits(n, x)
    BY <1>0
  <2>0. n \in 0..(b - 1) /\ n + 1 \in 0..c /\ n + 1 \in 0..b
    BY <1>0
  <2>1. \A y : Splits(n + 1, y)
    OBVIOUS
  <2> HIDE DEF U
  <2>2. k >= 1 => k \in 1..(T + 1)
    BY <1>0
  <2>3. CASE toks[n + 1].star
    <3>1. Matches(n, b, x, e) <=> x \in 1..e /\ \E j \in x..e : Matches(n + 1, b, j, e)
      BY <2>0, <2>3, MatchesStar
    <3>2. k >= 1 => (Matches(n, c, x, k) <=> x \in 1..k /\ \E j \in x..k : Matches(n + 1, c, j, k))
      BY <1>0, <2>2, <2>3, MatchesStar
    <3>3. k >= 1 => \A j : Matches(n + 1, c, j, k) => j \in 1..k
      BY <1>0, <2>0, <2>2, MatchesWhere
    <3> QED
      BY <1>0, <2>1, <3>1, <3>2, <3>3
  <2>4. CASE ~toks[n + 1].star
    <3>1. Matches(n, b, x, e) <=> /\ x \in 1..(e - 1) /\ Stands(toks[n + 1], text[x])
                                  /\ Matches(n + 1, b, x + 1, e)
      BY <2>0, <2>4, MatchesOne
    <3>2. k >= 1 => (Matches(n, c, x, k) <=> /\ x \in 1..(k - 1) /\ Stands(toks[n + 1], text[x])
                                             /\ Matches(n + 1, c, x + 1, k))
      BY <1>0, <2>2, <2>4, MatchesOne
    <3>3. k >= 1 => (Matches(n + 1, c, x + 1, k) => x + 1 \in 1..k)
      BY <1>0, <2>0, <2>2, MatchesWhere
    <3>4. Splits(n + 1, x + 1)
      BY <2>1
    <3> QED
      BY <1>0, <3>1, <3>2, <3>3, <3>4
  <2> QED
    BY <2>3, <2>4
<1>3. 0..c \subseteq U
  <2> HIDE DEF U
  <2> QED
    BY <1>0, <1>1, <1>2, DownFrom
<1>4. Splits(a, i)
  BY <1>3
<1> QED
  BY <1>4 DEF k

-----------------------------------------------------------------------------
(* What a pattern stands for component by component, and prefix by prefix *)

\* Where the component behind bound n ends: at a slash, or N + 1.
NextSlash(n) == Min({j \in (n + 1)..Len(toks) : IsSlash(toks[j])} \cup {Len(toks) + 1})

\* The first slash from a place on.
LEMMA SlashOrEndIs ==
    ASSUME Given, NEW i \in 1..(T + 1)
    PROVE  /\ SlashOrEnd(i) \in i..(T + 1)
           /\ SlashOrEnd(i) <= T => text[SlashOrEnd(i)] = "/"
           /\ \A j \in i..(SlashOrEnd(i) - 1) : text[j] # "/"
<1> DEFINE S == {j \in i..T : text[j] = "/"} \cup {T + 1}
<1>0. T \in Nat
  BY GivenTypes
<1>1. S \in SUBSET Nat /\ S # {}
  BY <1>0
<1>2. SlashOrEnd(i) = Min(S)
  BY DEF SlashOrEnd, T
<1>3. Min(S) \in S /\ \A x \in S : Min(S) <= x
  <2> HIDE DEF S
  <2> QED
    BY <1>1, MinIsLeast
<1> DEFINE m == SlashOrEnd(i)
<1> HIDE DEF m
<1>4. m \in S /\ \A x \in S : m <= x
  BY <1>2, <1>3 DEF m
<1>5. m \in i..(T + 1) /\ (m <= T => text[m] = "/")
  BY <1>0, <1>4
<1>6. \A j \in i..(m - 1) : text[j] # "/"
  BY <1>0, <1>4, <1>5
<1> QED
  BY <1>5, <1>6 DEF m

\* The first slash token behind a bound.
LEMMA NextSlashIs ==
    ASSUME Given, NEW n \in 0..N
    PROVE  /\ NextSlash(n) \in (n + 1)..(N + 1)
           /\ NextSlash(n) <= N => IsSlash(toks[NextSlash(n)])
           /\ \A j \in (n + 1)..(NextSlash(n) - 1) : ~IsSlash(toks[j])
<1> DEFINE S == {j \in (n + 1)..N : IsSlash(toks[j])} \cup {N + 1}
<1>0. N \in Nat
  BY GivenTypes
<1>1. S \in SUBSET Nat /\ S # {}
  BY <1>0
<1>2. NextSlash(n) = Min(S)
  BY DEF NextSlash, N
<1>3. Min(S) \in S /\ \A x \in S : Min(S) <= x
  <2> HIDE DEF S
  <2> QED
    BY <1>1, MinIsLeast
<1> DEFINE m == NextSlash(n)
<1> HIDE DEF m
<1>4. m \in S /\ \A x \in S : m <= x
  BY <1>2, <1>3 DEF m
<1>5. m \in (n + 1)..(N + 1) /\ (m <= N => IsSlash(toks[m]))
  BY <1>0, <1>4
<1>6. \A j \in (n + 1)..(m - 1) : ~IsSlash(toks[j])
  BY <1>0, <1>4, <1>5
<1> QED
  BY <1>5, <1>6 DEF m

\* Where the path may be entered for the component behind bound n, if it may be
\* from rest for what follows.
EnterPath(n, rest) ==
    {i \in 1..(Len(text) + 1) :
       LET e == SlashOrEnd(i)
       IN /\ Covers(n, NextSlash(n) - 1, i, e)
          /\ IF NextSlash(n) > Len(toks) THEN e > Len(text) \/ "LEADING_DIR" \in flags
             ELSE e <= Len(text) /\ e + 1 \in rest}

\* There is a function as PathEntries recursively describes it.
LEMMA PathEntriesSteps ==
    ASSUME Given, NEW n \in 0..N
    PROVE  PathEntries[n] = EnterPath(n, PathEntries[NextSlash(n)])
<1> DEFINE D == 0..N
           V == SUBSET (1..(T + 1))
           begin == {x \in D : NextSlash(x) > N}
           first == [x \in D |-> EnterPath(x, {})]
           next == [x \in D |-> NextSlash(x)]
           g == [xv \in D \X V |-> EnterPath(xv[1], xv[2])]
           rank == [x \in D |-> N - x]
           Is(f) == f = [x \in D |-> EnterPath(x, f[NextSlash(x)])]
<1>0. N \in Nat /\ T \in Nat
  BY GivenTypes
<1>1. \A x, v : EnterPath(x, v) \in V
  BY DEF EnterPath, T
<1>2. first \in [D -> V]
  BY <1>1
<1>3. \A x \in D, v \in V : g[<<x, v>>] = EnterPath(x, v) /\ g[<<x, v>>] \in V
  BY <1>1
<1>4. rank \in [D -> Nat] /\ \A x \in D : rank[x] <= N
  BY <1>0
<1>5. \A x \in D : x \notin begin => next[x] \in D /\ rank[next[x]] < rank[x]
  <2> SUFFICES ASSUME NEW x \in D, x \notin begin
               PROVE  next[x] \in D /\ rank[next[x]] < rank[x]
    OBVIOUS
  <2>1. NextSlash(x) \in (x + 1)..N
    <3>1. NextSlash(x) \in (x + 1)..(N + 1)
      BY NextSlashIs
    <3> QED
      BY <1>0, <3>1
  <2>2. next[x] = NextSlash(x) /\ NextSlash(x) \in D
    BY <1>0, <2>1
  <2>3. rank[NextSlash(x)] = N - NextSlash(x) /\ rank[x] = N - x
    BY <2>2
  <2> QED
    BY <1>0, <2>1, <2>2, <2>3
<1>6. PICK f \in [D -> V] : Recursive(f, D, begin, first, next, g)
  <2> HIDE DEF D, V, begin, first, next, g, rank
  <2> QED
    BY <1>0, <1>2, <1>3, <1>4, <1>5, RecursionExists
<1>7. ASSUME NEW x \in D PROVE f[x] = EnterPath(x, f[NextSlash(x)])
  <2>1. f[x] = IF x \in begin THEN first[x] ELSE g[<<x, f[next[x]]>>]
    BY <1>6 DEF Recursive
  <2>2. CASE x \in begin
    <3>1. f[x] = EnterPath(x, {})
      <4> HIDE DEF begin, g, next
      <4> QED
        BY <2>1, <2>2
    <3>2. NextSlash(x) > Len(toks)
      BY <2>2 DEF N
    <3>3. EnterPath(x, {}) = EnterPath(x, f[NextSlash(x)])
      BY <3>2 DEF EnterPath
    <3> QED
      BY <3>1, <3>3
  <2>3. CASE x \notin begin
    <3>1. next[x] = NextSlash(x) /\ next[x] \in D
      BY <2>3, <1>5
    <3>2. f[next[x]] \in V
      <4> HIDE DEF D, V, next
      <4> QED
        BY <1>6, <3>1
    <3>3. g[<<x, f[next[x]]>>] = EnterPath(x, f[next[x]])
      <4> HIDE DEF D, V, next, g
      <4> QED
        BY <1>3, <3>2
    <3> HIDE DEF g, next, begin, first
    <3> QED
      BY <2>1, <2>3, <3>1, <3>3
  <2> QED
    BY <2>2, <2>3
<1>8. Is(f)
  <2> HIDE DEF V
  <2>1. f = [x \in D |-> f[x]]
    BY <1>6
  <2> HIDE DEF D
  <2> QED
    BY <1>7, <2>1
<1>9. Is(PathEntries)
  <2>1. PathEntries = CHOOSE f0 : Is(f0)
    BY DEF PathEntries, EnterPath, NextSlash, N
  <2>2. \E f0 : Is(f0)
    BY <1>8
  <2> HIDE DEF Is
  <2> QED
    BY <2>1, <2>2
<1> QED
  BY <1>9, Zenon

\* A pattern's component stands for the path's, and what follows for the rest.
LEMMA PathStep ==
    ASSUME Given, NEW n \in 0..N, NEW c \in n..N,
           \A j \in (n + 1)..c : ~IsSlash(toks[j]),
           c < N => IsSlash(toks[c + 1]),
           NEW i \in 1..(T + 1)
    PROVE  PathCovers(n, i) <=>
             /\ Covers(n, c, i, SlashOrEnd(i))
             /\ IF c = N THEN SlashOrEnd(i) > T \/ "LEADING_DIR" \in flags
                ELSE SlashOrEnd(i) <= T /\ PathCovers(c + 1, SlashOrEnd(i) + 1)
<1>0. N \in Nat /\ c \in Nat
  BY GivenTypes
<1>1. NextSlash(n) = c + 1
  <2> DEFINE m == NextSlash(n)
  <2>1. /\ m \in (n + 1)..(N + 1)
        /\ m <= N => IsSlash(toks[m])
        /\ \A j \in (n + 1)..(m - 1) : ~IsSlash(toks[j])
    BY NextSlashIs
  <2> HIDE DEF m
  <2>2. ~(m <= c)
    BY <1>0, <2>1
  <2>3. ~(m > c + 1)
    <3> SUFFICES ASSUME m > c + 1 PROVE FALSE
      OBVIOUS
    <3>1. c + 1 \in (n + 1)..(m - 1) /\ c < N
      BY <1>0, <2>1
    <3> QED
      BY <2>1, <3>1
  <2>4. m = c + 1
    BY <1>0, <2>1, <2>2, <2>3
  <2> QED
    BY <2>4 DEF m
<1>2. PathEntries[n] = EnterPath(n, PathEntries[c + 1])
  BY <1>1, PathEntriesSteps
<1>3. NextSlash(n) - 1 = c /\ (NextSlash(n) > Len(toks) <=> c = N)
  BY <1>0, <1>1 DEF N
<1>4. i \in EnterPath(n, PathEntries[c + 1]) <=>
             /\ Covers(n, c, i, SlashOrEnd(i))
             /\ IF c = N THEN SlashOrEnd(i) > T \/ "LEADING_DIR" \in flags
                ELSE SlashOrEnd(i) <= T /\ SlashOrEnd(i) + 1 \in PathEntries[c + 1]
  BY <1>3 DEF EnterPath, T
<1> QED
  BY <1>2, <1>4 DEF PathCovers

\* A prefix that a slash ends, or a later one.
LEMMA PrefixStep ==
    ASSUME Given, NEW f \in 1..(T + 1), "LEADING_DIR" \in flags
    PROVE  PrefixCovers(f) <=>
             \/ Covers(0, N, 1, SlashOrEnd(f))
             \/ SlashOrEnd(f) <= T /\ PrefixCovers(SlashOrEnd(f) + 1)
<1> DEFINE e == SlashOrEnd(f)
<1>0. N \in Nat /\ T \in Nat
  BY GivenTypes
<1>1. /\ e \in f..(T + 1)
      /\ e <= T => text[e] = "/"
      /\ \A j \in f..(e - 1) : text[j] # "/"
  BY SlashOrEndIs
<1> HIDE DEF e
<1>2. \A h : PrefixCovers(h) <=> \/ Covers(0, N, 1, T + 1)
                                \/ \E j \in h..T : text[j] = "/" /\ Covers(0, N, 1, j)
  BY DEF PrefixCovers, N, T
<1>3. CASE e = T + 1
  BY <1>0, <1>1, <1>2, <1>3 DEF e
<1>4. CASE e <= T
  <2>1. (\E j \in f..T : text[j] = "/" /\ Covers(0, N, 1, j))
          <=> \/ Covers(0, N, 1, e)
              \/ \E j \in (e + 1)..T : text[j] = "/" /\ Covers(0, N, 1, j)
    BY <1>0, <1>1, <1>4
  <2> QED
    BY <1>2, <1>4, <2>1 DEF e
<1> QED
  BY <1>0, <1>1, <1>3, <1>4

-----------------------------------------------------------------------------
(* What the code reads *)

\* pat_next and the comparison of a character tell what token a + 1 says.
Reads(t, a) ==
    /\ Bound(a) + t.inc = Bound(a + 1)
    /\ t.c = "STAR" <=> toks[a + 1].star
    /\ t.c # "END"
    /\ t.c = "/" <=> IsSlash(toks[a + 1])
    /\ t.c = "STAR" => t.inc = 1
    /\ ~toks[a + 1].star =>
         \A k \in 1..T : Takes(t, Bound(a), text[k]) <=> Stands(toks[a + 1], text[k])

LEMMA TokenIsRead ==
    ASSUME Given, TokensAreRead, NEW b \in 0..N, NEW a \in 0..(b - 1)
    PROVE  Reads(pat_next(Bound(a), Bound(b)), a)
<1> DEFINE t == pat_next(Bound(a), Bound(b))
<1>0. /\ N \in Nat /\ b \in Nat /\ a \in 0..N /\ a < b /\ a + 1 \in 1..N /\ a \in 0..(N - 1)
  BY GivenTypes
<1>1. /\ t.inc = Len(toks[a + 1].text)
      /\ t.c = "STAR" <=> toks[a + 1].star
      /\ t.c # "END"
      /\ t.c = "/" <=> IsSlash(toks[a + 1])
      /\ ~toks[a + 1].star =>
           \A k \in Range(text) : Takes(t, Bound(a), k) <=> Stands(toks[a + 1], k)
  BY <1>0 DEF TokensAreRead, N
<1> HIDE DEF t
<1>2. Bound(a + 1) = Bound(a) + t.inc
  BY <1>0, <1>1, Bounds DEF Word
<1>3. t.c = "STAR" => t.inc = 1
  BY <1>0, <1>1, GivenTypes DEF Word
<1>4. ~toks[a + 1].star =>
         \A k \in 1..T : Takes(t, Bound(a), text[k]) <=> Stands(toks[a + 1], text[k])
  BY <1>1, GivenTypes
<1>5. Reads(t, a)
  BY <1>1, <1>2, <1>3, <1>4 DEF Reads
<1> QED
  BY <1>5 DEF t

\* At the end of what it is given pat_next finds END.
LEMMA EndIsRead ==
    ASSUME Given, NEW b \in 0..N
    PROVE  pat_next(Bound(b), Bound(b)) = [c |-> "END", inc |-> 0]
<1>1. Bound(b) >= Bound(b)
  BY Bounds
<1> QED
  BY <1>1 DEF pat_next

\* No character is told of at the end of the pattern.
LEMMA EndTakesNone ==
    ASSUME NEW k, k \notin Signs, NEW i, NEW t, t.c = "END"
    PROVE  ~Takes(t, i, k)
<1>1. Kfold(k) # "END" /\ k # "END"
  BY DEF Kfold, casefold, Other, Signs
<1> QED
  BY <1>1 DEF Takes

\* Up to its end the string has no NUL.
LEMMA StringIsRead ==
    ASSUME Given, NEW e \in 1..(T + 1), NEW i \in 1..e
    PROVE  /\ StrAt(i, e) = NUL <=> i = e
           /\ i # e => /\ i \in 1..T /\ i \in 1..(e - 1)
                      /\ StrAt(i, e) = text[i] /\ StrAt(i, e) \notin Signs
<1>0. T \in Nat
  BY GivenTypes
<1>1. CASE i = e
  BY <1>0, <1>1 DEF StrAt
<1>2. CASE i # e
  <2>1. i \in 1..T /\ i < e /\ i \in 1..(e - 1)
    BY <1>0, <1>2
  <2>2. StrAt(i, e) = text[i]
    BY <2>1 DEF StrAt
  <2>3. text[i] # NUL /\ text[i] \notin Signs
    BY <2>1, GivenTypes
  <2> QED
    BY <1>2, <2>1, <2>2, <2>3
<1> QED
  BY <1>1, <1>2

\* None of it depends on the call's own variables.
LEMMA CallerKept ==
    ASSUME UNCHANGED caller
    PROVE  /\ N' = N /\ T' = T /\ Given' = Given /\ TokensAreRead' = TokensAreRead
           /\ Meaning' = Meaning
           /\ \A n : Bound(n)' = Bound(n)
           /\ \A n, i : PathCovers(n, i)' = PathCovers(n, i)
           /\ \A f : PrefixCovers(f)' = PrefixCovers(f)
           /\ \A a, b, i, e : Matches(a, b, i, e)' = Matches(a, b, i, e)
           /\ \A a, b, i, e : Covers(a, b, i, e)' = Covers(a, b, i, e)
<1>1. toks' = toks /\ chars' = chars /\ text' = text /\ flags' = flags
  BY DEF caller
<1>2. N' = N /\ T' = T
  BY <1>1 DEF N, T
<1>3. Given' = Given
  BY <1>1 DEF Given, IsPattern, IsString
<1>4. TokensAreRead' = TokensAreRead
  <2>1. \A i, end : BracketEnd(CloseSearch(i, end), end)' = BracketEnd(CloseSearch(i, end), end)
    BY <1>1 DEF BracketEnd, IsSymbol, SymbolEnds, PatAt, CloseSearch, AfterNegation
  <2>2. \A i, end : pat_next(i, end)' = pat_next(i, end)
    BY <1>1, <2>1 DEF pat_next, PatAt
  <2>3. \A i, k : match_bracket(i, k)' = match_bracket(i, k)
    BY <1>1 DEF match_bracket, ItemHit, IsSymbol, SymbolEnds, PatAt, Kfold
  <2>4. \A t, i, k : Takes(t, i, k)' = Takes(t, i, k)
    BY <1>1, <2>3 DEF Takes, Kfold
  <2>5. \A n : Bound(n)' = Bound(n)
    BY <1>1 DEF Bound
  <2>6. \A tok, k : Stands(tok, k)' = Stands(tok, k)
    BY <1>1 DEF Stands, Kfold
  <2> QED
    BY <1>1, <2>2, <2>4, <2>5, <2>6 DEF TokensAreRead
<1>5. \A n : Bound(n)' = Bound(n)
  BY <1>1 DEF Bound
<1>6. \A a, b, i, e : Matches(a, b, i, e)' = Matches(a, b, i, e)
  BY <1>1 DEF Matches, Entries, Stands, Kfold
<1>7. \A a, b, i, e : Covers(a, b, i, e)' = Covers(a, b, i, e)
  BY <1>1, <1>6 DEF Covers, PeriodOK
<1>8. \A n, i : PathCovers(n, i)' = PathCovers(n, i)
  BY <1>1 DEF PathCovers, PathEntries, Covers, PeriodOK, Matches, Entries, Stands, Kfold, SlashOrEnd
<1>9. \A f : PrefixCovers(f)' = PrefixCovers(f)
  BY <1>1, <1>7 DEF PrefixCovers
<1>10. Meaning' = Meaning
  BY <1>1, <1>8, <1>9 DEF Meaning
<1> QED
  BY <1>2, <1>3, <1>4, <1>5, <1>6, <1>7, <1>8, <1>9, <1>10

-----------------------------------------------------------------------------
(* The inductive invariant *)

\* What fnmatch has still to do after fnmatch_internal, from bound n on.
Frame(n) ==
    \/ last
    \/ /\ fstr \in 1..(T + 1)
       /\ "PATHNAME" \in flags => fpat = Bound(n)

\* The result, if fnmatch_internal is to return ok.
Owes(ok, n) ==
    Meaning <=> IF "PATHNAME" \in flags THEN ok /\ (last \/ PathCovers(n, fstr))
                ELSE ok \/ (~last /\ PrefixCovers(fstr))

\* fnmatch_internal has the tokens between a and b left.
Left(a, b) ==
    /\ a <= b /\ pat = Bound(a) /\ endpat = Bound(b)
    /\ endstr \in 1..(T + 1) /\ str \in 1..endstr

\* They stand for the end of what is left of the string.
SomeEnd(a, b) == \E i \in str..endstr : Matches(a, b, i, endstr)

AtFnmatch ==
    /\ fstr \in 1..(T + 1)
    /\ IF "PATHNAME" \in flags
       THEN \E n \in 0..N : fpat = Bound(n) /\ (Meaning <=> PathCovers(n, fstr))
       ELSE Meaning <=> PrefixCovers(fstr)

\* The component behind n has no slash up to c.
AtComponent ==
    /\ fstr \in 1..(T + 1) /\ "PATHNAME" \in flags
    /\ \E n, c \in 0..N : /\ n <= c /\ fpat = Bound(n) /\ p = Bound(c)
                          /\ \A j \in (n + 1)..c : ~IsSlash(toks[j])
                          /\ Meaning <=> PathCovers(n, fstr)

\* What is given to fnmatch_internal ends at a slash or with all.
AtCall ==
    \E n, a, b \in 0..N :
        /\ Frame(n) /\ Left(a, b) /\ Owes(Covers(a, b, str, endstr), n)
        /\ endstr <= T => text[endstr] = "/"
        /\ b < N => IsSlash(toks[b + 1])

AtHead ==
    \E n, a, b \in 0..N : Frame(n) /\ Left(a, b) /\ Owes(Matches(a, b, str, endstr), n)

\* Between d, which a star precedes or the first star, and c there is none.
Counted(a, b, c, d) ==
    /\ a <= d /\ d <= c /\ c <= b
    /\ p = Bound(c) /\ ptail = Bound(d) /\ tailcnt = c - d
    /\ NoStar(d, c)
    /\ d = a \/ toks[d].star

AtCount ==
    \E n, a, b, c, d \in 0..N :
        Frame(n) /\ Left(a, b) /\ Owes(SomeEnd(a, b), n) /\ Counted(a, b, c, d)

\* The tail is read up to c, and what is left of it is as good as all of it.
Tailed(a, b, c, d) ==
    /\ a <= d /\ d <= c /\ c <= b
    /\ p = Bound(c) /\ ptail = Bound(d) /\ tailcnt = b - d
    /\ NoStar(d, b)
    /\ d = a \/ toks[d].star
    /\ stail >= str /\ s = endstr - (b - c)
    /\ Matches(d, b, stail, endstr) <=> Matches(c, b, s, endstr)

AtTail ==
    \E n, a, b, c, d \in 0..N :
        Frame(n) /\ Left(a, b) /\ Owes(SomeEnd(a, b), n) /\ Tailed(a, b, c, d)

\* What is left of the pattern ends with a star.
AtSea ==
    \E n, a, b \in 0..N :
        /\ Frame(n) /\ Left(a, b) /\ Owes(SomeEnd(a, b), n)
        /\ a < b => toks[b].star

\* The component at a is placed at str up to c; and wherever else it may be placed,
\* the rest of it lies no earlier than here.
Placed(a, b, c) ==
    /\ a <= c /\ c < b /\ toks[b].star
    /\ p = Bound(c) /\ s \in str..endstr
    /\ Matches(a, b, str, endstr) <=> Matches(c, b, s, endstr)
    /\ SomeEnd(a, b) => \E j \in s..endstr : Matches(c, b, j, endstr)

AtTry ==
    \E n, a, b, c \in 0..N :
        Frame(n) /\ Left(a, b) /\ Owes(SomeEnd(a, b), n) /\ Placed(a, b, c)

AtPc ==
    /\ pc = "fnmatch" => AtFnmatch
    /\ pc = "component" => AtComponent
    /\ pc = "call" => AtCall
    /\ pc = "head" => AtHead
    /\ pc = "count" => AtCount
    /\ pc = "tail" => AtTail
    /\ pc = "sea" => AtSea
    /\ pc = "try" => AtTry
    /\ pc = "done" => (result <=> Meaning)

Pcs == {"fnmatch", "component", "call", "head", "count", "tail", "sea", "try", "done"}

IInv ==
    /\ Given /\ TokensAreRead
    /\ pc \in Pcs /\ result \in BOOLEAN
    /\ AtPc

-----------------------------------------------------------------------------
(* The steps *)

\* Where fnmatch_internal returns FNM_NOMATCH.
LEMMA ReturnsFalse ==
    ASSUME UNCHANGED caller, UNCHANGED outer, result \in BOOLEAN,
           NEW n \in 0..N, Frame(n), Owes(FALSE, n), Returned(FALSE)
    PROVE  pc' \in Pcs /\ result' \in BOOLEAN /\ AtPc'
<1>1. /\ fpat' = fpat /\ fstr' = fstr /\ last' = last /\ flags' = flags
  BY DEF outer, caller
<1>2. /\ N' = N /\ T' = T /\ Meaning' = Meaning /\ Bound(n)' = Bound(n)
      /\ \A i : PathCovers(n, i)' = PathCovers(n, i)
      /\ \A f : PrefixCovers(f)' = PrefixCovers(f)
  BY CallerKept
<1>3. CASE last \/ "PATHNAME" \in flags
  <2>1. pc' = "done" /\ result' = FALSE
    BY <1>3 DEF Returned, Return
  <2>2. ~Meaning
    BY <1>3 DEF Owes
  <2> QED
    BY <2>1, <2>2, <1>2 DEF Pcs, AtPc
<1>4. CASE ~(last \/ "PATHNAME" \in flags)
  <2>1. pc' = "fnmatch" /\ result' = result
    BY <1>4 DEF Returned
  <2>2. Meaning <=> PrefixCovers(fstr)
    BY <1>4 DEF Owes
  <2>3. fstr \in 1..(T + 1)
    BY <1>4 DEF Frame
  <2>4. AtFnmatch'
    BY <1>1, <1>2, <1>4, <2>2, <2>3 DEF AtFnmatch
  <2> QED
    BY <2>1, <2>4 DEF Pcs, AtPc
<1> QED
  BY <1>3, <1>4

\* Where it returns 0.
LEMMA ReturnsTrue ==
    ASSUME UNCHANGED caller, UNCHANGED outer, result \in BOOLEAN,
           NEW n \in 0..N, Frame(n), Owes(TRUE, n), Returned(TRUE)
    PROVE  pc' \in Pcs /\ result' \in BOOLEAN /\ AtPc'
<1>1. /\ fpat' = fpat /\ fstr' = fstr /\ last' = last /\ flags' = flags
  BY DEF outer, caller
<1>2. /\ N' = N /\ T' = T /\ Meaning' = Meaning /\ Bound(n)' = Bound(n)
      /\ \A i : PathCovers(n, i)' = PathCovers(n, i)
      /\ \A f : PrefixCovers(f)' = PrefixCovers(f)
  BY CallerKept
<1>3. CASE last \/ "PATHNAME" \notin flags
  <2>1. pc' = "done" /\ result' = TRUE
    BY <1>3 DEF Returned, Return
  <2>2. Meaning
    BY <1>3 DEF Owes
  <2> QED
    BY <2>1, <2>2, <1>2 DEF Pcs, AtPc
<1>4. CASE ~(last \/ "PATHNAME" \notin flags)
  <2>1. pc' = "fnmatch" /\ result' = result
    BY <1>4 DEF Returned
  <2>2. Meaning <=> PathCovers(n, fstr)
    BY <1>4 DEF Owes
  <2>3. fstr \in 1..(T + 1) /\ fpat = Bound(n)
    BY <1>4 DEF Frame
  <2>4. AtFnmatch'
    <3>1. Meaning' <=> PathCovers(n, fstr)'
      BY <1>1, <1>2, <2>2
    <3>2. fpat' = Bound(n)' /\ n \in (0..N)' /\ "PATHNAME" \in flags'
      BY <1>1, <1>2, <1>4, <2>3
    <3>3. (fstr \in 1..(T + 1))'
      BY <1>1, <1>2, <2>3
    <3> QED
      BY <3>1, <3>2, <3>3 DEF AtFnmatch
  <2> QED
    BY <2>1, <2>4 DEF Pcs, AtPc
<1> QED
  BY <1>3, <1>4

\* What fnmatch has to do afterwards stays the same during fnmatch_internal.
LEMMA FrameKept ==
    ASSUME UNCHANGED caller, UNCHANGED outer, NEW n \in 0..N, Frame(n)
    PROVE  Frame(n)'
<1>1. /\ fpat' = fpat /\ fstr' = fstr /\ last' = last /\ flags' = flags
  BY DEF outer, caller
<1>2. T' = T /\ Bound(n)' = Bound(n)
  BY CallerKept
<1> QED
  BY <1>1, <1>2 DEF Frame

\* fnmatch starts with all of the pattern and of the string to be matched.
LEMMA InitHolds ==
    ASSUME Init, TokensAreRead
    PROVE  IInv
<1>1. PICK in \in Inputs : toks \in in.toks /\ text \in in.strs /\ flags \in in.flags
  BY DEF Init
<1>2. IsPattern(toks) /\ IsString(text)
  BY <1>1, InputAssumption
<1>3. Given
  BY <1>2 DEF Given, Init
<1>4. pc = "fnmatch" /\ fpat = 1 /\ fstr = 1 /\ result = FALSE
  BY DEF Init
<1>5. 0 \in 0..N /\ 1 \in 1..(T + 1) /\ Bound(0) = 1
  BY <1>3, GivenTypes, Bounds
<1>6. AtFnmatch
  BY <1>4, <1>5 DEF AtFnmatch, Meaning
<1> QED
  BY <1>3, <1>4, <1>6 DEF IInv, AtPc, Pcs

\* What a step has to show that leaves the caller's variables alone.
LEMMA StepShows ==
    ASSUME IInv, UNCHANGED caller, pc' \in Pcs, result' \in BOOLEAN, AtPc'
    PROVE  IInv'
<1>1. Given' = Given /\ TokensAreRead' = TokensAreRead
  BY CallerKept
<1> QED
  BY <1>1 DEF IInv

\* The search for the end of a component starts where the component does.
LEMMA StartComponentStep ==
    ASSUME IInv, StartComponent
    PROVE  IInv'
<1>1. /\ pc = "fnmatch" /\ pc' = "component" /\ "PATHNAME" \in flags /\ p' = fpat
      /\ fpat' = fpat /\ fstr' = fstr /\ result' = result
      /\ UNCHANGED caller
  BY DEF StartComponent, outer
<1>2. /\ N' = N /\ T' = T /\ Meaning' = Meaning /\ flags' = flags
      /\ \A n : Bound(n)' = Bound(n)
      /\ \A n, i : PathCovers(n, i)' = PathCovers(n, i)
  BY <1>1, CallerKept DEF caller
<1>3. AtFnmatch
  BY <1>1 DEF IInv, AtPc
<1>4. PICK n \in 0..N : fpat = Bound(n) /\ (Meaning <=> PathCovers(n, fstr))
  BY <1>1, <1>3 DEF AtFnmatch
<1>5. AtComponent'
  <2>1. Meaning' <=> PathCovers(n, fstr)'
    BY <1>1, <1>2, <1>4
  <2>2. n \in (0..N)' /\ n <= n /\ fpat' = Bound(n)' /\ p' = Bound(n)'
    BY <1>1, <1>2, <1>4
  <2>3. \A j \in (n + 1)..n : ~IsSlash(toks'[j])
    BY <1>4
  <2>4. (fstr \in 1..(T + 1))' /\ "PATHNAME" \in flags'
    BY <1>1, <1>2, <1>3 DEF AtFnmatch
  <2> QED
    BY <2>1, <2>2, <2>3, <2>4 DEF AtComponent
<1>6. AtPc'
  BY <1>1, <1>5 DEF AtPc
<1> QED
  BY <1>1, <1>6, StepShows DEF IInv, Pcs

\* A token that is not a slash belongs to the component.
LEMMA WithinComponentStep ==
    ASSUME IInv, WithinComponent
    PROVE  IInv'
<1> DEFINE t == NextOfComponent
<1>1. /\ pc = "component" /\ pc' = "component" /\ ~AtItsEnd(t) /\ p' = p + t.inc
      /\ fpat' = fpat /\ fstr' = fstr /\ result' = result
      /\ UNCHANGED caller
  BY DEF WithinComponent, outer
<1> HIDE DEF t
<1>2. /\ N' = N /\ T' = T /\ Meaning' = Meaning /\ flags' = flags /\ toks' = toks
      /\ \A n : Bound(n)' = Bound(n)
      /\ \A n, i : PathCovers(n, i)' = PathCovers(n, i)
  BY <1>1, CallerKept DEF caller
<1>3. AtComponent /\ Given /\ TokensAreRead
  BY <1>1 DEF IInv, AtPc
<1>4. PICK n \in 0..N, c \in 0..N :
        /\ n <= c /\ fpat = Bound(n) /\ p = Bound(c)
        /\ \A j \in (n + 1)..c : ~IsSlash(toks[j])
        /\ Meaning <=> PathCovers(n, fstr)
  BY <1>3 DEF AtComponent
<1>5. N \in Nat /\ N \in 0..N
  BY <1>3, GivenTypes
<1>6. t = pat_next(Bound(c), Bound(N))
  BY <1>3, <1>4, Bounds DEF t, NextOfComponent
<1>7. c # N
  <2> SUFFICES ASSUME c = N PROVE FALSE
    OBVIOUS
  <2>1. t.c = "END"
    BY <1>3, <1>5, <1>6, EndIsRead
  <2> QED
    BY <1>1, <2>1 DEF AtItsEnd
<1>8. Reads(t, c)
  BY <1>3, <1>4, <1>5, <1>6, <1>7, TokenIsRead
<1>9. ~IsSlash(toks[c + 1]) /\ p' = Bound(c + 1)
  BY <1>1, <1>4, <1>8 DEF Reads, AtItsEnd
<1>10. AtComponent'
  <2>1. Meaning' <=> PathCovers(n, fstr)'
    BY <1>1, <1>2, <1>4
  <2>2. n \in (0..N)' /\ c + 1 \in (0..N)' /\ n <= c + 1 /\ fpat' = Bound(n)' /\ p' = Bound(c + 1)'
    BY <1>1, <1>2, <1>4, <1>5, <1>7, <1>9
  <2>3. \A j \in (n + 1)..(c + 1) : ~IsSlash(toks'[j])
    BY <1>2, <1>4, <1>5, <1>9
  <2>4. (fstr \in 1..(T + 1))' /\ "PATHNAME" \in flags'
    BY <1>1, <1>2, <1>3 DEF AtComponent
  <2> QED
    BY <2>1, <2>2, <2>3, <2>4 DEF AtComponent
<1>11. AtPc'
  BY <1>1, <1>10 DEF AtPc
<1> QED
  BY <1>1, <1>11, StepShows DEF IInv, Pcs

\* A component is refused if the other side has too many or too few, else matched.
LEMMA ComponentStep ==
    ASSUME IInv, Component
    PROVE  IInv'
<1> DEFINE t == NextOfComponent
           e == SlashOrEnd(fstr)
           mismatch == /\ (t.c = "END") # (e > T)
                       /\ e > T \/ "LEADING_DIR" \notin flags
<1>1. pc = "component" /\ AtItsEnd(t) /\ UNCHANGED caller
  BY DEF Component
<1>2. IF mismatch THEN Return(FALSE) /\ UNCHANGED <<outer, inner>>
      ELSE /\ Call(fpat, p, fstr, e)
           /\ fpat' = p + t.inc /\ fstr' = e + 1 /\ last' = (t.c = "END")
  BY DEF Component, T
<1> HIDE DEF t, e
<1>3. /\ N' = N /\ T' = T /\ Meaning' = Meaning /\ flags' = flags /\ toks' = toks /\ text' = text
      /\ \A n : Bound(n)' = Bound(n)
      /\ \A n, i : PathCovers(n, i)' = PathCovers(n, i)
      /\ \A a, b, i, k : Covers(a, b, i, k)' = Covers(a, b, i, k)
  BY <1>1, CallerKept DEF caller
<1>4. AtComponent /\ Given /\ TokensAreRead /\ result \in BOOLEAN
  BY <1>1 DEF IInv, AtPc
<1>5. PICK n \in 0..N, c \in 0..N :
        /\ n <= c /\ fpat = Bound(n) /\ p = Bound(c)
        /\ \A j \in (n + 1)..c : ~IsSlash(toks[j])
        /\ Meaning <=> PathCovers(n, fstr)
  BY <1>4 DEF AtComponent
<1>6. N \in Nat /\ N \in 0..N /\ 0 \in 0..N /\ T \in Nat
  BY <1>4, GivenTypes
<1>7. t = pat_next(Bound(c), Bound(N))
  BY <1>4, <1>5, Bounds DEF t, NextOfComponent
<1>8. c = N => t.c = "END"
  BY <1>4, <1>6, <1>7, EndIsRead
<1>9. c # N => Reads(t, c)
  BY <1>4, <1>5, <1>6, <1>7, TokenIsRead
<1>10. c # N => t.c = "/" /\ IsSlash(toks[c + 1]) /\ p + t.inc = Bound(c + 1)
  BY <1>1, <1>5, <1>9 DEF Reads, AtItsEnd
<1>11. fstr \in 1..(T + 1) /\ "PATHNAME" \in flags
  BY <1>4 DEF AtComponent
<1>12. e \in fstr..(T + 1) /\ (e <= T => text[e] = "/")
  BY <1>4, <1>11, SlashOrEndIs DEF e
<1>13. Meaning <=>
         /\ Covers(n, c, fstr, e)
         /\ IF c = N THEN e > T \/ "LEADING_DIR" \in flags ELSE e <= T /\ PathCovers(c + 1, e + 1)
  <2>1. c \in n..N /\ (c < N => IsSlash(toks[c + 1]))
    BY <1>5, <1>6, <1>10
  <2>2. PathCovers(n, fstr) <=>
         /\ Covers(n, c, fstr, e)
         /\ IF c = N THEN e > T \/ "LEADING_DIR" \in flags ELSE e <= T /\ PathCovers(c + 1, e + 1)
    BY <1>4, <1>5, <1>11, <2>1, PathStep DEF e
  <2> QED
    BY <1>5, <2>2
<1>14. t.c = "END" <=> c = N
  BY <1>8, <1>10
<1>15. CASE mismatch
  <2>1. pc' = "done" /\ result' = FALSE
    BY <1>2, <1>15 DEF Return
  <2>2. ~Meaning
    <3>1. CASE c = N
      <4>1. e <= T /\ "LEADING_DIR" \notin flags
        BY <1>6, <1>12, <1>11, <1>14, <1>15, <3>1
      <4> QED
        BY <1>6, <1>11, <1>12, <1>13, <3>1, <4>1
    <3>2. CASE c # N
      <4>1. e > T
        BY <1>14, <1>15, <3>2
      <4> QED
        BY <1>6, <1>11, <1>12, <1>13, <3>2, <4>1
    <3> QED
      BY <3>1, <3>2
  <2>3. AtPc'
    BY <2>1, <2>2, <1>3 DEF AtPc
  <2> QED
    BY <1>1, <2>1, <2>3, StepShows DEF Pcs
<1>16. CASE ~mismatch
  <2>1. /\ pat' = fpat /\ endpat' = p /\ str' = fstr /\ endstr' = e /\ pc' = "call"
        /\ result' = result /\ fpat' = p + t.inc /\ fstr' = e + 1 /\ last' = (t.c = "END")
    BY <1>2, <1>16 DEF Call
  <2>2. c # N => e <= T
    BY <1>6, <1>11, <1>12, <1>14, <1>16
  <2>3. c = N => e > T \/ "LEADING_DIR" \in flags
    BY <1>14, <1>16
  <2>4. PICK m \in 0..N : m = IF c = N THEN 0 ELSE c + 1
    BY <1>5, <1>6
  <2>5. Frame(m)'
    <3>1. CASE c = N
      BY <2>1, <1>14, <3>1 DEF Frame
    <3>2. CASE c # N
      <4>1. fstr' \in 1..(T' + 1) /\ fpat' = Bound(c + 1)'
        BY <1>3, <1>6, <1>10, <1>11, <1>12, <2>1, <2>2, <3>2
      <4>2. m = c + 1
        BY <2>4, <3>2
      <4> QED
        BY <4>1, <4>2 DEF Frame
    <3> QED
      BY <3>1, <3>2
  <2>6. Left(n, c)'
    <3>1. n <= c /\ pat' = Bound(n)' /\ endpat' = Bound(c)'
      BY <1>3, <1>5, <2>1
    <3>2. endstr' \in 1..(T' + 1) /\ str' \in 1..endstr'
      BY <1>3, <1>6, <1>11, <1>12, <2>1
    <3> QED
      BY <3>1, <3>2 DEF Left
  <2>7. Owes(Covers(n, c, str, endstr), m)'
    <3>1. Covers(n, c, str, endstr)' <=> Covers(n, c, fstr, e)
      BY <1>3, <2>1
    <3>2. PathCovers(m, fstr)' <=> PathCovers(m, e + 1)
      BY <1>3, <2>1
    <3>3. Meaning <=> Covers(n, c, fstr, e) /\ (c = N \/ PathCovers(c + 1, e + 1))
      BY <1>13, <2>2, <2>3
    <3>4. CASE c = N
      BY <1>3, <1>11, <1>14, <2>1, <3>1, <3>3, <3>4 DEF Owes
    <3>5. CASE c # N
      <4>1. m = c + 1 /\ ~last'
        BY <2>4, <3>5, <1>14, <2>1
      <4> QED
        BY <1>3, <1>11, <3>1, <3>2, <3>3, <3>5, <4>1 DEF Owes
    <3> QED
      BY <3>4, <3>5
  <2>8. (endstr <= T => text[endstr] = "/")' /\ (c < N => IsSlash(toks[c + 1]))'
    <3>1. (endstr <= T => text[endstr] = "/")'
      BY <1>3, <1>12, <2>1
    <3>2. (c < N => IsSlash(toks[c + 1]))'
      BY <1>3, <1>10
    <3> QED
      BY <3>1, <3>2
  <2>9. AtCall'
    <3>1. n \in (0..N)' /\ c \in (0..N)' /\ m \in (0..N)'
      BY <1>3, <2>4
    <3> QED
      BY <2>5, <2>6, <2>7, <2>8, <3>1 DEF AtCall
  <2>10. AtPc'
    BY <2>1, <2>9 DEF AtPc
  <2> QED
    BY <1>1, <1>4, <2>1, <2>10, StepShows DEF Pcs
<1> QED
  BY <1>15, <1>16

\* Without FNM_PATHNAME: this prefix, or a longer one.
LEMMA PrefixStepHolds ==
    ASSUME IInv, Prefix
    PROVE  IInv'
<1> DEFINE e == IF "LEADING_DIR" \in flags THEN SlashOrEnd(fstr) ELSE T + 1
<1>1. /\ pc = "fnmatch" /\ "PATHNAME" \notin flags
      /\ Call(1, Len(chars) + 1, 1, e)
      /\ fstr' = e + 1 /\ last' = (e > T) /\ UNCHANGED caller
  BY DEF Prefix, T
<1>2. /\ N' = N /\ T' = T /\ Meaning' = Meaning /\ flags' = flags /\ toks' = toks /\ text' = text
      /\ \A n : Bound(n)' = Bound(n)
      /\ \A f : PrefixCovers(f)' = PrefixCovers(f)
      /\ \A a, b, i, k : Covers(a, b, i, k)' = Covers(a, b, i, k)
  BY <1>1, CallerKept DEF caller
<1>3. AtFnmatch /\ Given /\ result \in BOOLEAN
  BY <1>1 DEF IInv, AtPc
<1>4. N \in Nat /\ N \in 0..N /\ 0 \in 0..N /\ T \in Nat
  BY <1>3, GivenTypes
<1>5. fstr \in 1..(T + 1) /\ (Meaning <=> PrefixCovers(fstr))
  BY <1>1, <1>3 DEF AtFnmatch
<1>6. e \in 1..(T + 1) /\ (e <= T => "LEADING_DIR" \in flags /\ text[e] = "/")
  <2>1. /\ SlashOrEnd(fstr) \in fstr..(T + 1)
        /\ SlashOrEnd(fstr) <= T => text[SlashOrEnd(fstr)] = "/"
    BY <1>3, <1>5, SlashOrEndIs
  <2> QED
    BY <1>4, <1>5, <2>1
<1>7. PrefixCovers(fstr) <=> Covers(0, N, 1, e) \/ (e <= T /\ PrefixCovers(e + 1))
  <2>1. CASE "LEADING_DIR" \in flags
    BY <1>3, <1>5, <2>1, PrefixStep
  <2>2. CASE "LEADING_DIR" \notin flags
    <3>1. e = T + 1
      BY <2>2
    <3>2. PrefixCovers(fstr) <=> Covers(0, N, 1, T + 1)
      BY <2>2 DEF PrefixCovers, N, T
    <3> HIDE DEF e
    <3> QED
      BY <1>4, <3>1, <3>2
  <2> QED
    BY <2>1, <2>2
<1> HIDE DEF e
<1>8. /\ pat' = 1 /\ endpat' = Len(chars) + 1 /\ str' = 1 /\ endstr' = e /\ pc' = "call"
      /\ result' = result
  BY <1>1 DEF Call
<1>9. Frame(0)'
  <2>1. CASE e > T
    BY <1>1, <2>1 DEF Frame
  <2>2. CASE ~(e > T)
    <3>1. fstr' \in 1..(T' + 1) /\ "PATHNAME" \notin flags'
      BY <1>1, <1>2, <1>4, <1>6, <2>2
    <3> QED
      BY <3>1 DEF Frame
  <2> QED
    BY <2>1, <2>2
<1> PICK n \in 0..N : n = N
  BY <1>4
<1>10. Left(0, n)'
  <2>1. 0 <= n /\ pat' = Bound(0)' /\ endpat' = Bound(n)'
    <3>1. Bound(0) = 1 /\ Bound(n) = Len(chars) + 1
      BY <1>3, Bounds
    <3> QED
      BY <1>2, <1>4, <1>8, <3>1
  <2>2. endstr' \in 1..(T' + 1) /\ str' \in 1..endstr'
    BY <1>2, <1>4, <1>6, <1>8
  <2> QED
    BY <2>1, <2>2 DEF Left
<1>11. Owes(Covers(0, n, str, endstr), 0)'
  <2>1. Covers(0, n, str, endstr)' <=> Covers(0, N, 1, e)
    BY <1>2, <1>8
  <2>2. PrefixCovers(fstr)' <=> PrefixCovers(e + 1)
    BY <1>1, <1>2
  <2>3. (e > T) <=> ~(e <= T)
    BY <1>4, <1>6
  <2>4. last' <=> ~(e <= T)
    BY <1>1, <2>3, Zenon
  <2> QED
    BY <1>1, <1>2, <1>5, <1>7, <2>1, <2>2, <2>4 DEF Owes
<1>12. AtCall'
  <2>1. (endstr <= T => text[endstr] = "/")'
    BY <1>2, <1>6, <1>8
  <2>2. ~(n < N')
    BY <1>2, <1>4
  <2>3. n \in (0..N)' /\ 0 \in (0..N)'
    BY <1>2, <1>4
  <2> QED
    BY <1>9, <1>10, <1>11, <2>1, <2>2, <2>3 DEF AtCall
<1>13. AtPc'
  BY <1>8, <1>12 DEF AtPc
<1> QED
  BY <1>1, <1>3, <1>8, <1>13, StepShows DEF Pcs

\* What the steps of fnmatch_internal leave alone.
LEMMA OuterKept ==
    ASSUME UNCHANGED caller, UNCHANGED outer
    PROVE  /\ N' = N /\ T' = T /\ toks' = toks /\ text' = text
           /\ Meaning' = Meaning /\ flags' = flags /\ last' = last
           /\ \A n : Bound(n)' = Bound(n)
           /\ \A n : PathCovers(n, fstr)' = PathCovers(n, fstr)
           /\ PrefixCovers(fstr)' = PrefixCovers(fstr)
           /\ \A a, b, i, e : Matches(a, b, i, e)' = Matches(a, b, i, e)
<1>1. fpat' = fpat /\ fstr' = fstr /\ last' = last /\ flags' = flags /\ toks' = toks /\ text' = text
  BY DEF outer, caller
<1>2. /\ N' = N /\ T' = T /\ Meaning' = Meaning
      /\ \A n : Bound(n)' = Bound(n)
      /\ \A n, i : PathCovers(n, i)' = PathCovers(n, i)
      /\ \A f : PrefixCovers(f)' = PrefixCovers(f)
      /\ \A a, b, i, e : Matches(a, b, i, e)' = Matches(a, b, i, e)
  BY CallerKept
<1>3. \A n : PathCovers(n, fstr)' = PathCovers(n, fstr)
  BY <1>1, <1>2
<1>4. PrefixCovers(fstr)' = PrefixCovers(fstr)
  BY <1>1, <1>2
<1> QED
  BY <1>1, <1>2, <1>3, <1>4

\* The pattern's first character is a period only if its first token says so.
LEMMA PeriodIsRead ==
    ASSUME Given, NEW a \in 0..N, NEW b \in 0..N, Left(a, b),
           endstr <= T => text[endstr] = "/", b < N => IsSlash(toks[b + 1])
    PROVE  PeriodOK(a, b, str, endstr) <=>
             ~(/\ "PERIOD" \in flags
               /\ StrAt(str, Len(text) + 1) = "." /\ PatAt(pat, Len(chars) + 1) # ".")
<1>0. /\ N \in Nat /\ T \in Nat /\ a <= b /\ pat = Bound(a)
      /\ endstr \in 1..(T + 1) /\ str \in 1..endstr
  BY GivenTypes DEF Left
<1>1. StrAt(str, Len(text) + 1) = "." <=> str < endstr /\ text[str] = "."
  <2>1. CASE str <= T
    <3>1. StrAt(str, Len(text) + 1) = text[str]
      BY <1>0, <2>1 DEF StrAt, T
    <3>2. str = endstr => text[str] # "."
      BY <2>1
    <3>3. str = endstr \/ str < endstr
      BY <1>0
    <3> QED
      BY <3>1, <3>2, <3>3
  <2>2. CASE ~(str <= T)
    <3>1. str = T + 1 /\ ~(str < endstr)
      BY <1>0, <2>2
    <3>2. StrAt(str, Len(text) + 1) = NUL
      BY <1>0, <3>1 DEF StrAt, T
    <3>3. NUL # "."
      BY DEF NUL
    <3> QED
      BY <3>1, <3>2, <3>3
  <2> QED
    BY <2>1, <2>2
<1>2. PatAt(pat, Len(chars) + 1) = "." <=> a < b /\ toks[a + 1].text[1] = "."
  <2>1. CASE a < N
    <3>1. a \in 0..(N - 1)
      BY <1>0, <2>1
    <3>2. Bound(a) \in 1..Len(chars) /\ chars[Bound(a)] = toks[a + 1].text[1] /\ Len(chars) \in Nat
      <4>1. Bound(N) \in Nat /\ Bound(N) = Len(chars) + 1 /\ Bound(a) \in 1..Len(chars)
        BY <1>0, <3>1, Bounds, FirstOfToken
      <4> QED
        BY <3>1, <4>1, FirstOfToken DEF Word
    <3>3. PatAt(pat, Len(chars) + 1) = toks[a + 1].text[1]
      BY <1>0, <3>2 DEF PatAt
    <3>4. a = b => toks[a + 1].text[1] # "."
      <4> SUFFICES ASSUME a = b PROVE toks[a + 1].text[1] # "."
        OBVIOUS
      <4>1. toks[a + 1].text \in {<<"/">>, <<"\\", "/">>}
        BY <2>1 DEF IsSlash
      <4> QED
        BY <4>1
    <3> QED
      BY <1>0, <3>3, <3>4
  <2>2. CASE ~(a < N)
    <3>1. a = N /\ ~(a < b)
      BY <1>0, <2>2
    <3>2. PatAt(pat, Len(chars) + 1) = NUL
      <4>1. Bound(N) = Len(chars) + 1 /\ Bound(N) \in Nat
        BY <1>0, Bounds
      <4> QED
        BY <1>0, <3>1, <4>1 DEF PatAt
    <3>3. NUL # "."
      BY DEF NUL
    <3> QED
      BY <3>1, <3>2, <3>3
  <2> QED
    BY <2>1, <2>2
<1> QED
  BY <1>1, <1>2, Zenon DEF PeriodOK

\* A leading period that the pattern does not start with cannot be matched.
LEMMA PeriodStep ==
    ASSUME IInv, Period
    PROVE  IInv'
<1> DEFINE hidden == /\ "PERIOD" \in flags
                     /\ StrAt(str, Len(text) + 1) = "." /\ PatAt(pat, Len(chars) + 1) # "."
<1>1. /\ pc = "call" /\ UNCHANGED caller /\ UNCHANGED outer
      /\ pat' = pat /\ endpat' = endpat /\ str' = str /\ endstr' = endstr
      /\ IF hidden THEN Returned(FALSE) ELSE pc' = "head" /\ result' = result
  BY DEF Period, inner
<1>2. AtCall /\ Given /\ result \in BOOLEAN
  BY <1>1 DEF IInv, AtPc
<1>3. PICK n \in 0..N, a \in 0..N, b \in 0..N :
        /\ Frame(n) /\ Left(a, b) /\ Owes(Covers(a, b, str, endstr), n)
        /\ endstr <= T => text[endstr] = "/"
        /\ b < N => IsSlash(toks[b + 1])
  BY <1>2 DEF AtCall
<1>4. PeriodOK(a, b, str, endstr) <=> ~hidden
  BY <1>2, <1>3, PeriodIsRead
<1> HIDE DEF hidden
<1>5. CASE hidden
  <2>1. Owes(FALSE, n)
    BY <1>3, <1>4, <1>5 DEF Owes, Covers
  <2>2. pc' \in Pcs /\ result' \in BOOLEAN /\ AtPc'
    BY <1>1, <1>2, <1>3, <1>5, <2>1, ReturnsFalse
  <2> QED
    BY <1>1, <2>2, StepShows
<1>6. CASE ~hidden
  <2>1. pc' = "head" /\ result' = result
    BY <1>1, <1>6
  <2>2. Frame(n)'
    BY <1>1, <1>3, FrameKept
  <2>3. Left(a, b)'
    BY <1>1, <1>3, OuterKept DEF Left
  <2>4. Owes(Matches(a, b, str, endstr), n)'
    <3>1. Matches(a, b, str, endstr)' = Matches(a, b, str, endstr)
      BY <1>1, OuterKept
    <3>2. Covers(a, b, str, endstr) <=> Matches(a, b, str, endstr)
      BY <1>4, <1>6 DEF Covers
    <3>3. Owes(Matches(a, b, str, endstr), n)
      BY <1>3, <3>2 DEF Owes
    <3> QED
      BY <1>1, <3>1, <3>3, OuterKept DEF Owes
  <2>5. AtHead'
    <3>1. n \in (0..N)' /\ a \in (0..N)' /\ b \in (0..N)'
      BY <1>1, OuterKept
    <3> QED
      BY <2>2, <2>3, <2>4, <3>1 DEF AtHead
  <2>6. AtPc'
    BY <2>1, <2>5 DEF AtPc
  <2> QED
    BY <1>1, <1>2, <2>1, <2>6, StepShows DEF Pcs
<1> QED
  BY <1>5, <1>6

\* What is left at the next token: nothing, a star, or another.
LEMMA NextToken ==
    ASSUME Given, TokensAreRead, NEW a \in 0..N, NEW b \in 0..N, a <= b
    PROVE  /\ a = b => pat_next(Bound(a), Bound(b)) = [c |-> "END", inc |-> 0]
           /\ a # b => a \in 0..(b - 1) /\ a + 1 \in 0..N /\ Reads(pat_next(Bound(a), Bound(b)), a)
<1>0. N \in Nat
  BY GivenTypes
<1>1. a = b => pat_next(Bound(a), Bound(b)) = [c |-> "END", inc |-> 0]
  BY EndIsRead
<1>2. a # b => a \in 0..(b - 1) /\ a + 1 \in 0..N
  BY <1>0
<1>3. a # b => Reads(pat_next(Bound(a), Bound(b)), a)
  BY <1>2, TokenIsRead
<1> QED
  BY <1>1, <1>2, <1>3

\* A token of the head and a character go together, or nothing matches.
LEMMA MatchHeadStep ==
    ASSUME IInv, MatchHead
    PROVE  IInv'
<1> DEFINE t == pat_next(pat, endpat)
           k == StrAt(str, endstr)
<1>1. /\ pc = "head" /\ UNCHANGED caller /\ UNCHANGED outer
      /\ endpat' = endpat /\ endstr' = endstr
  BY DEF MatchHead
<1>2. \/ /\ t.c = "STAR"
         /\ pat' = pat + 1 /\ p' = pat + 1 /\ ptail' = pat + 1 /\ tailcnt' = 0
         /\ pc' = "count" /\ str' = str /\ result' = result
      \/ t.c # "STAR" /\ k = NUL /\ Returned(t.c = "END")
      \/ /\ t.c # "STAR" /\ k # NUL
         /\ IF Takes(t, pat, k)
            THEN pat' = pat + t.inc /\ str' = str + 1 /\ pc' = pc /\ result' = result
            ELSE Returned(FALSE)
  BY DEF MatchHead
<1> HIDE DEF t, k
<1>3. AtHead /\ Given /\ TokensAreRead /\ result \in BOOLEAN
  BY <1>1 DEF IInv, AtPc
<1>4. PICK n \in 0..N, a \in 0..N, b \in 0..N :
        Frame(n) /\ Left(a, b) /\ Owes(Matches(a, b, str, endstr), n)
  BY <1>3 DEF AtHead
<1>5. /\ N \in Nat /\ T \in Nat /\ a <= b /\ pat = Bound(a) /\ endpat = Bound(b)
      /\ endstr \in 1..(T + 1) /\ str \in 1..endstr
  BY <1>3, <1>4, GivenTypes DEF Left
<1>6. /\ a = b => t = [c |-> "END", inc |-> 0]
      /\ a # b => a \in 0..(b - 1) /\ a + 1 \in 0..N /\ Reads(t, a)
  BY <1>3, <1>5, NextToken DEF t
<1>7. /\ k = NUL <=> str = endstr
      /\ str # endstr => str \in 1..T /\ str \in 1..(endstr - 1) /\ k = text[str] /\ k \notin Signs
  BY <1>3, <1>5, StringIsRead DEF k
<1>8. Frame(n)'
  BY <1>1, <1>4, FrameKept
<1>9. n \in (0..N)' /\ a \in (0..N)' /\ b \in (0..N)'
  BY <1>1, OuterKept
<1>10. CASE t.c = "STAR"
  <2>1. /\ pat' = pat + 1 /\ p' = pat + 1 /\ ptail' = pat + 1 /\ tailcnt' = 0
        /\ pc' = "count" /\ str' = str /\ result' = result
    BY <1>2, <1>10
  <2>2. a # b
    BY <1>6, <1>10
  <2>3. toks[a + 1].star /\ t.inc = 1 /\ Bound(a) + 1 = Bound(a + 1)
    BY <1>6, <1>10, <2>2 DEF Reads
  <2>4. Left(a + 1, b)'
    <3>1. a + 1 <= b /\ pat' = Bound(a + 1)' /\ endpat' = Bound(b)'
      BY <1>1, <1>5, <1>6, <2>1, <2>2, <2>3, OuterKept
    <3>2. endstr' \in 1..(T' + 1) /\ str' \in 1..endstr'
      BY <1>1, <1>5, <2>1, OuterKept
    <3> QED
      BY <3>1, <3>2 DEF Left
  <2>5. Matches(a, b, str, endstr) <=> SomeEnd(a + 1, b)
    <3>1. Matches(a, b, str, endstr) <=> str \in 1..endstr /\ \E j \in str..endstr : Matches(a + 1, b, j, endstr)
      BY <1>3, <1>5, <1>6, <2>2, <2>3, MatchesStar
    <3> QED
      BY <1>5, <3>1 DEF SomeEnd
  <2>6. Owes(SomeEnd(a + 1, b), n)'
    <3>1. SomeEnd(a + 1, b)' <=> SomeEnd(a + 1, b)
      BY <1>1, <2>1, OuterKept DEF SomeEnd
    <3>2. Owes(SomeEnd(a + 1, b), n)
      BY <1>4, <2>5 DEF Owes
    <3> QED
      BY <1>1, <3>1, <3>2, OuterKept DEF Owes
  <2>7. Counted(a + 1, b, a + 1, a + 1)'
    <3>1. p' = Bound(a + 1)' /\ ptail' = Bound(a + 1)' /\ tailcnt' = (a + 1) - (a + 1)
      BY <1>1, <1>5, <2>1, <2>3, OuterKept
    <3>2. a + 1 <= a + 1 /\ a + 1 <= b
      BY <1>6, <2>2, <1>5
    <3>3. NoStar(a + 1, a + 1)'
      BY DEF NoStar
    <3> QED
      BY <3>1, <3>2, <3>3 DEF Counted
  <2>8. AtCount'
    <3>1. a + 1 \in (0..N)'
      BY <1>1, <1>6, <2>2, OuterKept
    <3> QED
      BY <1>8, <1>9, <2>4, <2>6, <2>7, <3>1 DEF AtCount
  <2>9. AtPc'
    BY <2>1, <2>8 DEF AtPc
  <2> QED
    BY <1>1, <1>3, <2>1, <2>9, StepShows DEF Pcs
<1>11. CASE t.c # "STAR" /\ str = endstr
  <2>1. Returned(t.c = "END")
    BY <1>2, <1>7, <1>11
  <2>2. CASE a = b
    <3>1. Returned(TRUE)
      <4>1. (t.c = "END") = TRUE
        BY <1>6, <2>2
      <4> QED
        BY <2>1, <4>1, Zenon
    <3>2. Matches(a, b, str, endstr)
      BY <1>3, <1>5, <1>11, <2>2, MatchesNone
    <3>3. Owes(TRUE, n)
      BY <1>4, <3>2 DEF Owes
    <3>4. pc' \in Pcs /\ result' \in BOOLEAN /\ AtPc'
      BY <1>1, <1>3, <1>4, <3>1, <3>3, ReturnsTrue
    <3> QED
      BY <1>1, <3>4, StepShows
  <2>3. CASE a # b
    <3>0. Reads(t, a) /\ a \in 0..(b - 1)
      BY <1>6, <2>3
    <3>1. Returned(FALSE)
      BY <2>1, <3>0 DEF Reads, Returned, Return
    <3>2. ~Matches(a, b, str, endstr)
      <4>1. ~toks[a + 1].star
        BY <1>11, <3>0 DEF Reads
      <4>2. Matches(a, b, str, endstr) => str \in 1..(endstr - 1)
        BY <1>3, <1>5, <3>0, <4>1, MatchesOne
      <4> QED
        BY <1>5, <1>11, <4>2
    <3>3. Owes(FALSE, n)
      BY <1>4, <3>2 DEF Owes
    <3>4. pc' \in Pcs /\ result' \in BOOLEAN /\ AtPc'
      BY <1>1, <1>3, <1>4, <3>1, <3>3, ReturnsFalse
    <3> QED
      BY <1>1, <3>4, StepShows
  <2> QED
    BY <2>2, <2>3
<1>12. CASE t.c # "STAR" /\ str # endstr
  <2>1. IF Takes(t, pat, k)
        THEN pat' = pat + t.inc /\ str' = str + 1 /\ pc' = pc /\ result' = result
        ELSE Returned(FALSE)
    BY <1>2, <1>7, <1>12
  <2>2. CASE a = b
    <3>1. ~Takes(t, pat, k)
      <4>1. t.c = "END" /\ k \notin Signs
        BY <1>6, <1>7, <1>12, <2>2
      <4> QED
        BY <4>1, EndTakesNone
    <3>2. Returned(FALSE)
      BY <2>1, <3>1
    <3>3. ~Matches(a, b, str, endstr)
      BY <1>3, <1>5, <1>12, <2>2, MatchesNone
    <3>4. Owes(FALSE, n)
      BY <1>4, <3>3 DEF Owes
    <3>5. pc' \in Pcs /\ result' \in BOOLEAN /\ AtPc'
      BY <1>1, <1>3, <1>4, <3>2, <3>4, ReturnsFalse
    <3> QED
      BY <1>1, <3>5, StepShows
  <2>3. CASE a # b
    <3>0. Reads(t, a) /\ a \in 0..(b - 1) /\ a + 1 \in 0..N /\ ~toks[a + 1].star
      BY <1>6, <1>12, <2>3 DEF Reads
    <3>1. Takes(t, pat, k) <=> Stands(toks[a + 1], text[str])
      BY <1>5, <1>7, <1>12, <3>0 DEF Reads
    <3>2. Matches(a, b, str, endstr) <=> /\ Stands(toks[a + 1], text[str])
                                         /\ Matches(a + 1, b, str + 1, endstr)
      BY <1>3, <1>5, <1>7, <1>12, <3>0, MatchesOne
    <3>3. CASE Takes(t, pat, k)
      <4>1. pat' = pat + t.inc /\ str' = str + 1 /\ pc' = pc /\ result' = result
        BY <2>1, <3>3
      <4>2. Left(a + 1, b)'
        <5>1. a + 1 <= b /\ pat' = Bound(a + 1)' /\ endpat' = Bound(b)'
          BY <1>1, <1>5, <3>0, <4>1, OuterKept DEF Reads
        <5>2. endstr' \in 1..(T' + 1) /\ str' \in 1..endstr'
          BY <1>1, <1>5, <1>7, <1>12, <4>1, OuterKept
        <5> QED
          BY <5>1, <5>2 DEF Left
      <4>3. Owes(Matches(a + 1, b, str, endstr), n)'
        <5>1. Matches(a + 1, b, str, endstr)' <=> Matches(a + 1, b, str + 1, endstr)
          BY <1>1, <4>1, OuterKept
        <5>2. Owes(Matches(a + 1, b, str + 1, endstr), n)
          BY <1>4, <3>1, <3>2, <3>3 DEF Owes
        <5> QED
          BY <1>1, <5>1, <5>2, OuterKept DEF Owes
      <4>4. AtHead'
        <5>1. a + 1 \in (0..N)'
          BY <1>1, <3>0, OuterKept
        <5> QED
          BY <1>8, <1>9, <4>2, <4>3, <5>1 DEF AtHead
      <4>5. AtPc'
        BY <1>1, <4>1, <4>4 DEF AtPc
      <4> QED
        BY <1>1, <1>3, <4>1, <4>5, StepShows DEF Pcs
    <3>4. CASE ~Takes(t, pat, k)
      <4>1. Owes(FALSE, n)
        BY <1>4, <3>1, <3>2, <3>4 DEF Owes
      <4>2. pc' \in Pcs /\ result' \in BOOLEAN /\ AtPc'
        BY <1>1, <1>3, <1>4, <2>1, <3>4, <4>1, ReturnsFalse
      <4> QED
        BY <1>1, <4>2, StepShows
    <3> QED
      BY <3>3, <3>4
  <2> QED
    BY <2>2, <2>3
<1> QED
  BY <1>10, <1>11, <1>12

\* The tail counted so far starts behind the last star.
LEMMA CountTailStep ==
    ASSUME IInv, CountTail
    PROVE  IInv'
<1> DEFINE t == pat_next(p, endpat)
<1>1. /\ pc = "count" /\ p < endpat /\ UNCHANGED caller /\ UNCHANGED outer
      /\ pat' = pat /\ endpat' = endpat /\ str' = str /\ endstr' = endstr
      /\ pc' = pc /\ result' = result /\ p' = p + t.inc
      /\ IF t.c = "STAR" THEN ptail' = p + 1 /\ tailcnt' = 0
         ELSE tailcnt' = tailcnt + 1 /\ ptail' = ptail
  BY DEF CountTail, inner
<1> HIDE DEF t
<1>2. AtCount /\ Given /\ TokensAreRead /\ result \in BOOLEAN
  BY <1>1 DEF IInv, AtPc
<1>3. PICK n \in 0..N, a \in 0..N, b \in 0..N, c \in 0..N, d \in 0..N :
        Frame(n) /\ Left(a, b) /\ Owes(SomeEnd(a, b), n) /\ Counted(a, b, c, d)
  BY <1>2 DEF AtCount
<1>4. /\ N \in Nat /\ endpat = Bound(b) /\ a <= d /\ d <= c /\ c <= b
      /\ p = Bound(c) /\ ptail = Bound(d) /\ tailcnt = c - d /\ NoStar(d, c)
      /\ d = a \/ toks[d].star
  BY <1>2, <1>3, GivenTypes DEF Left, Counted
<1>5. c # b
  BY <1>1, <1>2, <1>4, BoundsOrdered
<1>6. c + 1 \in 0..N /\ c + 1 <= b /\ Reads(t, c)
  BY <1>2, <1>4, <1>5, NextToken DEF t
<1>7. Frame(n)' /\ n \in (0..N)' /\ a \in (0..N)' /\ b \in (0..N)' /\ d \in (0..N)' /\ c + 1 \in (0..N)'
  BY <1>1, <1>3, <1>6, FrameKept, OuterKept
<1>8. Left(a, b)'
  BY <1>1, <1>3, OuterKept DEF Left
<1>9. Owes(SomeEnd(a, b), n)'
  <2>1. SomeEnd(a, b)' <=> SomeEnd(a, b)
    BY <1>1, OuterKept DEF SomeEnd
  <2> QED
    BY <1>1, <1>3, <2>1, OuterKept DEF Owes
<1>10. p' = Bound(c + 1)'
  BY <1>1, <1>4, <1>6, OuterKept DEF Reads
<1>11. AtCount'
  <2>1. CASE t.c = "STAR"
    <3>1. toks[c + 1].star /\ t.inc = 1 /\ ptail' = p + 1 /\ tailcnt' = 0
      BY <1>1, <1>6, <2>1 DEF Reads
    <3>2. ptail' = Bound(c + 1)' /\ tailcnt' = (c + 1) - (c + 1)
      BY <1>4, <1>1, <1>6, <3>1, OuterKept DEF Reads
    <3>3. toks'[c + 1].star
      BY <1>1, <3>1, OuterKept
    <3>4. NoStar(c + 1, c + 1)'
      BY DEF NoStar
    <3>5. a <= c + 1 /\ c + 1 <= c + 1
      BY <1>4
    <3>6. Counted(a, b, c + 1, c + 1)'
      BY <1>6, <1>10, <3>2, <3>3, <3>4, <3>5 DEF Counted
    <3> QED
      BY <1>7, <1>8, <1>9, <3>6 DEF AtCount
  <2>2. CASE t.c # "STAR"
    <3>1. ~toks[c + 1].star /\ ptail' = ptail /\ tailcnt' = tailcnt + 1
      BY <1>1, <1>6, <2>2 DEF Reads
    <3>2. ptail' = Bound(d)' /\ tailcnt' = (c + 1) - d
      BY <1>1, <1>4, <3>1, OuterKept
    <3>3. NoStar(d, c + 1)'
      <4>1. \A m \in (d + 1)..(c + 1) : ~toks[m].star
        BY <1>4, <3>1 DEF NoStar
      <4> QED
        BY <1>1, <4>1, OuterKept DEF NoStar
    <3>4. (d = a \/ toks[d].star)'
      BY <1>1, <1>4, OuterKept
    <3>5. d <= c + 1
      BY <1>4
    <3>6. Counted(a, b, c + 1, d)'
      BY <1>4, <1>6, <1>10, <3>2, <3>3, <3>4, <3>5 DEF Counted
    <3> QED
      BY <1>7, <1>8, <1>9, <3>6 DEF AtCount
  <2> QED
    BY <2>1, <2>2
<1>12. AtPc'
  BY <1>1, <1>11 DEF AtPc
<1> QED
  BY <1>1, <1>2, <1>12, StepShows DEF Pcs

\* Tokens without a star take their characters from the end, or do not fit.
LEMMA TailIsTheEnd ==
    ASSUME Given, NEW a \in 0..N, NEW b \in 0..N, NEW d \in 0..N, Left(a, b),
           a <= d, d <= b, NoStar(d, b), NEW cnt, cnt = b - d
    PROVE  SomeEnd(a, b) <=> /\ endstr - cnt >= str
                             /\ Matches(d, b, endstr - cnt, endstr)
                             /\ \E i \in str..(endstr - cnt) : Matches(a, d, i, endstr - cnt)
<1> DEFINE k == endstr - (b - d)
<1>0. /\ N \in Nat /\ T \in Nat /\ a \in 0..d /\ d \in 0..b /\ k \in Int /\ k <= endstr
      /\ endstr \in 1..(T + 1) /\ str \in 1..endstr /\ endstr - cnt = k
  BY GivenTypes DEF Left
<1> HIDE DEF k
<1>1. \A i : Matches(a, b, i, endstr) <=>
               k >= 1 /\ Matches(d, b, k, endstr) /\ Matches(a, d, i, k)
  BY <1>0, TailTakesTheEnd DEF k
<1>2. \A i : k >= 1 /\ Matches(a, d, i, k) => i \in 1..k
  <2>1. k >= 1 => k \in 1..(T + 1)
    BY <1>0
  <2> QED
    BY <1>0, <2>1, MatchesWhere
<1>3. SomeEnd(a, b) => /\ k >= str /\ Matches(d, b, k, endstr)
                       /\ \E i \in str..k : Matches(a, d, i, k)
  <2> SUFFICES ASSUME NEW i \in str..endstr, Matches(a, b, i, endstr)
               PROVE  /\ k >= str /\ Matches(d, b, k, endstr)
                      /\ \E j \in str..k : Matches(a, d, j, k)
    BY DEF SomeEnd
  <2>1. k >= 1 /\ Matches(d, b, k, endstr) /\ Matches(a, d, i, k) /\ i \in 1..k
    BY <1>1, <1>2
  <2>2. i \in str..k /\ k >= str
    BY <1>0, <2>1
  <2> QED
    BY <2>1, <2>2
<1>4. /\ k >= str /\ Matches(d, b, k, endstr)
      /\ \E i \in str..k : Matches(a, d, i, k)
      => SomeEnd(a, b)
  <2> SUFFICES ASSUME k >= str, Matches(d, b, k, endstr), NEW i \in str..k, Matches(a, d, i, k)
               PROVE  SomeEnd(a, b)
    OBVIOUS
  <2>1. k >= 1 /\ i \in str..endstr
    BY <1>0
  <2>2. Matches(a, b, i, endstr)
    BY <1>1, <2>1
  <2> QED
    BY <2>1, <2>2 DEF SomeEnd
<1> QED
  BY <1>0, <1>3, <1>4

\* The tail fits in front of the end, or nothing matches.
LEMMA FindTailStep ==
    ASSUME IInv, FindTail
    PROVE  IInv'
<1>1. /\ pc = "count" /\ p >= endpat /\ UNCHANGED caller /\ UNCHANGED outer
      /\ pat' = pat /\ endpat' = endpat /\ str' = str /\ endstr' = endstr
      /\ ptail' = ptail /\ tailcnt' = tailcnt
      /\ IF stail < str THEN Returned(FALSE)
         ELSE p' = ptail /\ s' = stail /\ pc' = "tail" /\ result' = result
  BY DEF FindTail, inner, tail
<1>2. AtCount /\ Given /\ TokensAreRead /\ result \in BOOLEAN
  BY <1>1 DEF IInv, AtPc
<1>3. PICK n \in 0..N, a \in 0..N, b \in 0..N, c \in 0..N, d \in 0..N :
        Frame(n) /\ Left(a, b) /\ Owes(SomeEnd(a, b), n) /\ Counted(a, b, c, d)
  BY <1>2 DEF AtCount
<1>4. /\ N \in Nat /\ T \in Nat /\ endpat = Bound(b) /\ a <= d /\ d <= c /\ c <= b
      /\ p = Bound(c) /\ ptail = Bound(d) /\ tailcnt = c - d /\ NoStar(d, c)
      /\ d = a \/ toks[d].star
      /\ endstr \in 1..(T + 1) /\ str \in 1..endstr
  BY <1>2, <1>3, GivenTypes DEF Left, Counted
<1>5. c = b
  BY <1>1, <1>2, <1>4, BoundsOrdered
<1>6. NoStar(d, b) /\ tailcnt = b - d /\ d <= b
  BY <1>4, <1>5
<1>7. CASE stail < str
  <2>1. ~SomeEnd(a, b)
    <3>1. SomeEnd(a, b) => endstr - tailcnt >= str
      BY <1>2, <1>3, <1>4, <1>6, TailIsTheEnd
    <3> QED
      BY <1>4, <1>6, <1>7, <3>1 DEF stail
  <2>2. Owes(FALSE, n)
    BY <1>3, <2>1 DEF Owes
  <2>3. pc' \in Pcs /\ result' \in BOOLEAN /\ AtPc'
    BY <1>1, <1>2, <1>3, <1>7, <2>2, ReturnsFalse
  <2> QED
    BY <1>1, <2>3, StepShows
<1>8. CASE ~(stail < str)
  <2>1. p' = ptail /\ s' = stail /\ pc' = "tail" /\ result' = result
    BY <1>1, <1>8
  <2>2. Frame(n)' /\ n \in (0..N)' /\ a \in (0..N)' /\ b \in (0..N)' /\ d \in (0..N)'
    BY <1>1, <1>3, FrameKept, OuterKept
  <2>3. Left(a, b)'
    BY <1>1, <1>3, OuterKept DEF Left
  <2>4. Owes(SomeEnd(a, b), n)'
    <3>1. SomeEnd(a, b)' <=> SomeEnd(a, b)
      BY <1>1, OuterKept DEF SomeEnd
    <3> QED
      BY <1>1, <1>3, <3>1, OuterKept DEF Owes
  <2>5. Tailed(a, b, d, d)'
    <3>1. stail' = stail /\ stail = endstr - (b - d) /\ s' = stail'
      BY <1>1, <1>6, <2>1 DEF stail
    <3>2. p' = Bound(d)' /\ ptail' = Bound(d)' /\ tailcnt' = b - d
      BY <1>1, <1>4, <1>6, <2>1, OuterKept
    <3>3. NoStar(d, b)' /\ (d = a \/ toks[d].star)'
      BY <1>1, <1>4, <1>6, OuterKept DEF NoStar
    <3>4. stail' >= str' /\ s' = endstr' - (b - d)
      BY <1>1, <1>4, <1>8, <3>1
    <3>5. (Matches(d, b, stail, endstr) <=> Matches(d, b, s, endstr))'
      BY <3>1
    <3>6. d <= d
      BY <1>4
    <3> QED
      BY <1>4, <1>6, <3>2, <3>3, <3>4, <3>5, <3>6 DEF Tailed
  <2>6. AtTail'
    BY <2>2, <2>3, <2>4, <2>5 DEF AtTail
  <2>7. AtPc'
    BY <2>1, <2>6 DEF AtPc
  <2> QED
    BY <1>1, <1>2, <2>1, <2>7, StepShows DEF Pcs
<1> QED
  BY <1>7, <1>8

\* The tail, all of it, is cut off both ends.
LEMMA MatchTailStep ==
    ASSUME IInv, MatchTail
    PROVE  IInv'
<1> DEFINE t == pat_next(p, endpat)
           k == StrAt(s, endstr)
<1>1. /\ pc = "tail" /\ UNCHANGED caller /\ UNCHANGED outer
      /\ pat' = pat /\ str' = str /\ ptail' = ptail /\ tailcnt' = tailcnt
  BY DEF MatchTail, tail
<1>2. \/ /\ k = NUL /\ t.c = "END"
         /\ endstr' = stail /\ endpat' = ptail /\ pc' = "sea" /\ result' = result
      \/ /\ k # NUL /\ Takes(t, p, k)
         /\ p' = p + t.inc /\ s' = s + 1
         /\ endpat' = endpat /\ endstr' = endstr /\ pc' = pc /\ result' = result
      \/ /\ IF k = NUL THEN t.c # "END" ELSE ~Takes(t, p, k)
         /\ Returned(FALSE)
  BY DEF MatchTail
<1> HIDE DEF t, k
<1>3. AtTail /\ Given /\ TokensAreRead /\ result \in BOOLEAN
  BY <1>1 DEF IInv, AtPc
<1>4. PICK n \in 0..N, a \in 0..N, b \in 0..N, c \in 0..N, d \in 0..N :
        Frame(n) /\ Left(a, b) /\ Owes(SomeEnd(a, b), n) /\ Tailed(a, b, c, d)
  BY <1>3 DEF AtTail
<1>5. /\ N \in Nat /\ T \in Nat /\ endpat = Bound(b) /\ a <= d /\ d <= c /\ c <= b
      /\ p = Bound(c) /\ ptail = Bound(d) /\ tailcnt = b - d /\ NoStar(d, b)
      /\ d = a \/ toks[d].star
      /\ stail = endstr - tailcnt /\ stail >= str /\ s = endstr - (b - c)
      /\ Matches(d, b, stail, endstr) <=> Matches(c, b, s, endstr)
      /\ endstr \in 1..(T + 1) /\ str \in 1..endstr
  BY <1>3, <1>4, GivenTypes DEF Left, Tailed, stail
<1>6. s \in 1..endstr /\ (s = endstr <=> c = b)
  BY <1>5
<1>7. /\ k = NUL <=> s = endstr
      /\ s # endstr => s \in 1..T /\ s \in 1..(endstr - 1) /\ k = text[s]
  BY <1>3, <1>5, <1>6, StringIsRead DEF k
<1>8. /\ c = b => t = [c |-> "END", inc |-> 0]
      /\ c # b => c \in 0..(b - 1) /\ c + 1 \in 0..N /\ Reads(t, c)
  BY <1>3, <1>5, NextToken DEF t
<1>9. Frame(n)' /\ n \in (0..N)' /\ a \in (0..N)' /\ b \in (0..N)' /\ d \in (0..N)'
  BY <1>1, <1>4, FrameKept, OuterKept
<1>10. SomeEnd(a, b) <=> /\ Matches(c, b, s, endstr)
                         /\ \E i \in str..stail : Matches(a, d, i, stail)
  <2>1. SomeEnd(a, b) <=> /\ endstr - tailcnt >= str
                          /\ Matches(d, b, endstr - tailcnt, endstr)
                          /\ \E i \in str..(endstr - tailcnt) : Matches(a, d, i, endstr - tailcnt)
    <3>1. d <= b
      BY <1>5
    <3> QED
      BY <1>3, <1>4, <1>5, <3>1, TailIsTheEnd
  <2> QED
    BY <1>5, <2>1
<1>11. CASE c = b
  <2>1. t.c = "END" /\ k = NUL
    BY <1>6, <1>7, <1>8, <1>11
  <2>2. endstr' = stail /\ endpat' = ptail /\ pc' = "sea" /\ result' = result
    BY <1>2, <2>1
  <2>3. Matches(c, b, s, endstr)
    BY <1>3, <1>5, <1>6, <1>11, MatchesNone
  <2>4. Left(a, d)'
    <3>1. pat' = Bound(a)' /\ endpat' = Bound(d)'
      BY <1>1, <1>4, <1>5, <2>2, OuterKept DEF Left
    <3>2. endstr' \in 1..(T' + 1) /\ str' \in 1..endstr'
      BY <1>1, <1>5, <2>2, OuterKept
    <3> QED
      BY <1>5, <3>1, <3>2 DEF Left
  <2>5. Owes(SomeEnd(a, d), n)'
    <3>1. SomeEnd(a, d)' <=> \E i \in str..stail : Matches(a, d, i, stail)
      BY <1>1, <2>2, OuterKept DEF SomeEnd
    <3>2. SomeEnd(a, d)' <=> SomeEnd(a, b)
      BY <1>10, <2>3, <3>1
    <3> QED
      BY <1>1, <1>4, <3>2, OuterKept DEF Owes
  <2>6. (a < d => toks[d].star)'
    BY <1>1, <1>5, OuterKept
  <2>7. AtSea'
    BY <1>9, <2>4, <2>5, <2>6 DEF AtSea
  <2>8. AtPc'
    BY <2>2, <2>7 DEF AtPc
  <2> QED
    BY <1>1, <1>3, <2>2, <2>8, StepShows DEF Pcs
<1>12. CASE c # b
  <2>1. /\ IF Takes(t, p, k)
           THEN /\ p' = p + t.inc /\ s' = s + 1
                /\ endpat' = endpat /\ endstr' = endstr /\ pc' = pc /\ result' = result
           ELSE Returned(FALSE)
    BY <1>2, <1>6, <1>7, <1>12
  <2>2. c \in 0..(b - 1) /\ c + 1 \in 0..N /\ Reads(t, c) /\ ~toks[c + 1].star
    BY <1>5, <1>8, <1>12 DEF NoStar
  <2>3. Takes(t, p, k) <=> Stands(toks[c + 1], text[s])
    BY <1>5, <1>6, <1>7, <1>12, <2>2 DEF Reads
  <2>4. Matches(c, b, s, endstr) <=> /\ Stands(toks[c + 1], text[s])
                                     /\ Matches(c + 1, b, s + 1, endstr)
    BY <1>3, <1>5, <1>6, <1>7, <1>12, <2>2, MatchesOne
  <2>5. CASE Takes(t, p, k)
    <3>1. /\ p' = p + t.inc /\ s' = s + 1
          /\ endpat' = endpat /\ endstr' = endstr /\ pc' = pc /\ result' = result
      BY <2>1, <2>5
    <3>2. Left(a, b)'
      BY <1>1, <1>4, <3>1, OuterKept DEF Left
    <3>3. Owes(SomeEnd(a, b), n)'
      <4>1. SomeEnd(a, b)' <=> SomeEnd(a, b)
        BY <1>1, <3>1, OuterKept DEF SomeEnd
      <4> QED
        BY <1>1, <1>4, <4>1, OuterKept DEF Owes
    <3>4. Tailed(a, b, c + 1, d)'
      <4>1. p' = Bound(c + 1)' /\ ptail' = Bound(d)' /\ tailcnt' = b - d
        BY <1>1, <1>5, <2>2, <3>1, OuterKept DEF Reads
      <4>2. NoStar(d, b)' /\ (d = a \/ toks[d].star)'
        BY <1>1, <1>5, OuterKept DEF NoStar
      <4>3. stail' = stail /\ stail' >= str' /\ s' = endstr' - (b - (c + 1))
        BY <1>1, <1>5, <3>1 DEF stail
      <4>4. (Matches(d, b, stail, endstr) <=> Matches(c + 1, b, s, endstr))'
        BY <1>1, <1>5, <2>3, <2>4, <2>5, <3>1, <4>3, OuterKept
      <4>5. d <= c + 1 /\ c + 1 <= b
        BY <1>5, <2>2
      <4> QED
        BY <1>5, <4>1, <4>2, <4>3, <4>4, <4>5 DEF Tailed
    <3>5. AtTail'
      <4>1. c + 1 \in (0..N)'
        BY <1>1, <2>2, OuterKept
      <4> QED
        BY <1>9, <3>2, <3>3, <3>4, <4>1 DEF AtTail
    <3>6. AtPc'
      BY <1>1, <3>1, <3>5 DEF AtPc
    <3> QED
      BY <1>1, <1>3, <3>1, <3>6, StepShows DEF Pcs
  <2>6. CASE ~Takes(t, p, k)
    <3>1. Owes(FALSE, n)
      BY <1>4, <1>10, <2>3, <2>4, <2>6 DEF Owes
    <3>2. pc' \in Pcs /\ result' \in BOOLEAN /\ AtPc'
      BY <1>1, <1>3, <1>4, <2>1, <2>6, <3>1, ReturnsFalse
    <3> QED
      BY <1>1, <3>2, StepShows
  <2> QED
    BY <2>5, <2>6
<1> QED
  BY <1>11, <1>12

\* What ends with a star takes nothing if there are no more tokens.
LEMMA SeaStep ==
    ASSUME IInv, Sea
    PROVE  IInv'
<1>1. /\ pc = "sea" /\ UNCHANGED caller /\ UNCHANGED outer
      /\ pat' = pat /\ endpat' = endpat /\ str' = str /\ endstr' = endstr
      /\ IF pat >= endpat THEN Returned(TRUE)
         ELSE p' = pat /\ s' = str /\ pc' = "try" /\ result' = result
  BY DEF Sea, inner
<1>2. AtSea /\ Given /\ TokensAreRead /\ result \in BOOLEAN
  BY <1>1 DEF IInv, AtPc
<1>3. PICK n \in 0..N, a \in 0..N, b \in 0..N :
        /\ Frame(n) /\ Left(a, b) /\ Owes(SomeEnd(a, b), n)
        /\ a < b => toks[b].star
  BY <1>2 DEF AtSea
<1>4. /\ N \in Nat /\ T \in Nat /\ a <= b /\ pat = Bound(a) /\ endpat = Bound(b)
      /\ endstr \in 1..(T + 1) /\ str \in 1..endstr
  BY <1>2, <1>3, GivenTypes DEF Left
<1>5. pat >= endpat <=> a = b
  <2>1. pat >= endpat <=> a >= b
    BY <1>2, <1>4, BoundsOrdered
  <2> QED
    BY <1>4, <2>1
<1>6. CASE a = b
  <2>1. SomeEnd(a, b)
    <3>1. endstr \in str..endstr
      BY <1>4
    <3>2. Matches(a, b, endstr, endstr)
      BY <1>2, <1>4, <1>6, MatchesNone
    <3> QED
      BY <3>1, <3>2 DEF SomeEnd
  <2>2. Owes(TRUE, n)
    BY <1>3, <2>1 DEF Owes
  <2>3. Returned(TRUE)
    BY <1>1, <1>5, <1>6
  <2>4. pc' \in Pcs /\ result' \in BOOLEAN /\ AtPc'
    BY <1>1, <1>2, <1>3, <2>2, <2>3, ReturnsTrue
  <2> QED
    BY <1>1, <2>4, StepShows
<1>7. CASE a # b
  <2>1. p' = pat /\ s' = str /\ pc' = "try" /\ result' = result
    BY <1>1, <1>5, <1>7
  <2>2. Frame(n)' /\ n \in (0..N)' /\ a \in (0..N)' /\ b \in (0..N)'
    BY <1>1, <1>3, FrameKept, OuterKept
  <2>3. Left(a, b)'
    BY <1>1, <1>3, OuterKept DEF Left
  <2>4. SomeEnd(a, b)' <=> SomeEnd(a, b)
    BY <1>1, OuterKept DEF SomeEnd
  <2>5. Owes(SomeEnd(a, b), n)'
    BY <1>1, <1>3, <2>4, OuterKept DEF Owes
  <2>6. Placed(a, b, a)'
    <3>1. a <= a /\ a < b /\ toks'[b].star
      BY <1>1, <1>3, <1>4, <1>7, OuterKept
    <3>2. p' = Bound(a)' /\ s' \in str'..endstr'
      BY <1>1, <1>4, <2>1, OuterKept
    <3>3. (Matches(a, b, str, endstr) <=> Matches(a, b, s, endstr))'
      BY <1>1, <2>1
    <3>4. (SomeEnd(a, b) => \E j \in s..endstr : Matches(a, b, j, endstr))'
      BY <1>1, <2>1 DEF SomeEnd
    <3> QED
      BY <3>1, <3>2, <3>3, <3>4 DEF Placed
  <2>7. AtTry'
    BY <2>2, <2>3, <2>5, <2>6 DEF AtTry
  <2>8. AtPc'
    BY <2>1, <2>7 DEF AtPc
  <2> QED
    BY <1>1, <1>2, <2>1, <2>8, StepShows DEF Pcs
<1> QED
  BY <1>6, <1>7

\* A component that fits here need not be tried elsewhere; one that does not fit here
\* fits at a later place or nowhere.
LEMMA TryStep ==
    ASSUME IInv, Try
    PROVE  IInv'
<1> DEFINE t == pat_next(p, endpat)
           k == StrAt(s, endstr)
<1>1. /\ pc = "try" /\ UNCHANGED caller /\ UNCHANGED outer
      /\ endpat' = endpat /\ endstr' = endstr
  BY DEF Try
<1>2. \/ /\ t.c = "STAR"
         /\ pat' = p + 1 /\ str' = s /\ pc' = "sea" /\ result' = result
      \/ t.c # "STAR" /\ k = NUL /\ Returned(FALSE)
      \/ /\ t.c # "STAR" /\ k # NUL /\ pat' = pat /\ result' = result
         /\ IF Takes(t, p, k) THEN p' = p + t.inc /\ s' = s + 1 /\ str' = str /\ pc' = pc
            ELSE str' = str + 1 /\ pc' = "sea"
  BY DEF Try, AfterMisfit
<1> HIDE DEF t, k
<1>3. AtTry /\ Given /\ TokensAreRead /\ result \in BOOLEAN
  BY <1>1 DEF IInv, AtPc
<1>4. PICK n \in 0..N, a \in 0..N, b \in 0..N, c \in 0..N :
        Frame(n) /\ Left(a, b) /\ Owes(SomeEnd(a, b), n) /\ Placed(a, b, c)
  BY <1>3 DEF AtTry
<1>5. /\ N \in Nat /\ T \in Nat /\ pat = Bound(a) /\ endpat = Bound(b) /\ a <= c /\ c < b
      /\ toks[b].star /\ p = Bound(c) /\ s \in str..endstr
      /\ endstr \in 1..(T + 1) /\ str \in 1..endstr
  BY <1>3, <1>4, GivenTypes DEF Left, Placed
<1>6. /\ Matches(a, b, str, endstr) <=> Matches(c, b, s, endstr)
      /\ SomeEnd(a, b) => \E j \in s..endstr : Matches(c, b, j, endstr)
  BY <1>4 DEF Placed
<1>7. c \in 0..(b - 1) /\ c + 1 \in 0..N /\ Reads(t, c)
  BY <1>3, <1>5, NextToken DEF t
<1>8. s \in 1..endstr
  BY <1>5
<1>9. /\ k = NUL <=> s = endstr
      /\ s # endstr => s \in 1..T /\ s \in 1..(endstr - 1) /\ k = text[s]
  BY <1>3, <1>5, <1>8, StringIsRead DEF k
<1>10. Frame(n)' /\ n \in (0..N)' /\ a \in (0..N)' /\ b \in (0..N)' /\ c + 1 \in (0..N)'
  BY <1>1, <1>4, <1>7, FrameKept, OuterKept
<1>11. CASE t.c = "STAR"
  <2>1. pat' = p + 1 /\ str' = s /\ pc' = "sea" /\ result' = result
    BY <1>2, <1>11
  <2>2. toks[c + 1].star /\ p + 1 = Bound(c + 1)
    BY <1>5, <1>7, <1>11 DEF Reads
  <2>3. \A j : Matches(c, b, j, endstr) <=>
                 j \in 1..endstr /\ \E i \in j..endstr : Matches(c + 1, b, i, endstr)
    BY <1>3, <1>5, <1>7, <2>2, MatchesStar
  <2>4. SomeEnd(a, b) => \E i \in s..endstr : Matches(c + 1, b, i, endstr)
    <3> SUFFICES ASSUME NEW j \in s..endstr, Matches(c, b, j, endstr)
                 PROVE  \E i \in s..endstr : Matches(c + 1, b, i, endstr)
      BY <1>6
    <3>1. PICK i \in j..endstr : Matches(c + 1, b, i, endstr)
      BY <2>3
    <3>2. i \in s..endstr
      BY <1>5
    <3> QED
      BY <3>1, <3>2
  <2>5. (\E i \in s..endstr : Matches(c + 1, b, i, endstr)) => SomeEnd(a, b)
    <3> SUFFICES ASSUME NEW i \in s..endstr, Matches(c + 1, b, i, endstr)
                 PROVE  SomeEnd(a, b)
      OBVIOUS
    <3>1. Matches(c, b, s, endstr)
      BY <1>8, <2>3
    <3>2. Matches(a, b, str, endstr) /\ str \in str..endstr
      BY <1>5, <1>6, <3>1
    <3> QED
      BY <3>2 DEF SomeEnd
  <2>6. Left(c + 1, b)'
    <3>1. c + 1 <= b /\ pat' = Bound(c + 1)' /\ endpat' = Bound(b)'
      BY <1>1, <1>5, <1>7, <2>1, <2>2, OuterKept
    <3>2. endstr' \in 1..(T' + 1) /\ str' \in 1..endstr'
      BY <1>1, <1>5, <1>8, <2>1, OuterKept
    <3> QED
      BY <3>1, <3>2 DEF Left
  <2>7. Owes(SomeEnd(c + 1, b), n)'
    <3>1. SomeEnd(c + 1, b)' <=> \E i \in s..endstr : Matches(c + 1, b, i, endstr)
      BY <1>1, <2>1, OuterKept DEF SomeEnd
    <3>2. SomeEnd(c + 1, b)' <=> SomeEnd(a, b)
      BY <2>4, <2>5, <3>1
    <3> QED
      BY <1>1, <1>4, <3>2, OuterKept DEF Owes
  <2>8. (c + 1 < b => toks[b].star)'
    BY <1>1, <1>5, OuterKept
  <2>9. AtSea'
    BY <1>10, <2>6, <2>7, <2>8 DEF AtSea
  <2>10. AtPc'
    BY <2>1, <2>9 DEF AtPc
  <2> QED
    BY <1>1, <1>3, <2>1, <2>10, StepShows DEF Pcs
<1>12. CASE t.c # "STAR"
  <2>1. ~toks[c + 1].star
    BY <1>7, <1>12 DEF Reads
  <2>2. \A j : Matches(c, b, j, endstr) <=> /\ j \in 1..(endstr - 1) /\ Stands(toks[c + 1], text[j])
                                            /\ Matches(c + 1, b, j + 1, endstr)
    BY <1>3, <1>5, <1>7, <2>1, MatchesOne
  <2>3. CASE s = endstr
    <3>1. Returned(FALSE)
      BY <1>2, <1>9, <1>12, <2>3
    <3>2. ~SomeEnd(a, b)
      <4> SUFFICES ASSUME NEW j \in s..endstr, Matches(c, b, j, endstr) PROVE FALSE
        BY <1>6
      <4>1. j \in 1..(endstr - 1)
        BY <2>2
      <4> QED
        BY <1>5, <2>3, <4>1
    <3>3. Owes(FALSE, n)
      BY <1>4, <3>2 DEF Owes
    <3>4. pc' \in Pcs /\ result' \in BOOLEAN /\ AtPc'
      BY <1>1, <1>3, <1>4, <3>1, <3>3, ReturnsFalse
    <3> QED
      BY <1>1, <3>4, StepShows
  <2>4. CASE s # endstr
    <3>1. /\ pat' = pat /\ result' = result
          /\ IF Takes(t, p, k) THEN p' = p + t.inc /\ s' = s + 1 /\ str' = str /\ pc' = pc
             ELSE str' = str + 1 /\ pc' = "sea"
      BY <1>2, <1>9, <1>12, <2>4
    <3>2. Takes(t, p, k) <=> Stands(toks[c + 1], text[s])
      BY <1>5, <1>7, <1>9, <2>1, <2>4 DEF Reads
    <3>3. Matches(c, b, s, endstr) <=> /\ Stands(toks[c + 1], text[s])
                                       /\ Matches(c + 1, b, s + 1, endstr)
      BY <1>9, <2>2, <2>4
    <3>4. CASE Takes(t, p, k)
      <4>1. p' = p + t.inc /\ s' = s + 1 /\ str' = str /\ pc' = pc
        BY <3>1, <3>4
      <4>2. Left(a, b)'
        BY <1>1, <1>4, <3>1, <4>1, OuterKept DEF Left
      <4>3. SomeEnd(a, b)' <=> SomeEnd(a, b)
        BY <1>1, <4>1, OuterKept DEF SomeEnd
      <4>4. Owes(SomeEnd(a, b), n)'
        BY <1>1, <1>4, <4>3, OuterKept DEF Owes
      <4>5. Placed(a, b, c + 1)'
        <5>1. a <= c + 1 /\ c + 1 < b /\ toks'[b].star
          <6>1. c + 1 # b
            BY <1>5, <2>1
          <6> QED
            BY <1>1, <1>5, <6>1, OuterKept
        <5>2. p' = Bound(c + 1)' /\ s' \in str'..endstr'
          BY <1>1, <1>5, <1>7, <2>4, <4>1, OuterKept DEF Reads
        <5>3. (Matches(a, b, str, endstr) <=> Matches(c + 1, b, s, endstr))'
          BY <1>1, <1>6, <3>2, <3>3, <3>4, <4>1, OuterKept
        <5>4. SomeEnd(a, b) => \E j \in (s + 1)..endstr : Matches(c + 1, b, j, endstr)
          <6> SUFFICES ASSUME NEW j \in s..endstr, Matches(c, b, j, endstr)
                       PROVE  \E i \in (s + 1)..endstr : Matches(c + 1, b, i, endstr)
            BY <1>6
          <6>1. Matches(c + 1, b, j + 1, endstr) /\ j \in 1..(endstr - 1)
            BY <2>2
          <6>2. j + 1 \in (s + 1)..endstr
            BY <1>5, <6>1
          <6> QED
            BY <6>1, <6>2
        <5>5. (SomeEnd(a, b) => \E j \in s..endstr : Matches(c + 1, b, j, endstr))'
          BY <1>1, <4>1, <4>3, <5>4, OuterKept
        <5> QED
          BY <5>1, <5>2, <5>3, <5>5 DEF Placed
      <4>6. AtTry'
        BY <1>10, <4>2, <4>4, <4>5 DEF AtTry
      <4>7. AtPc'
        BY <1>1, <4>1, <4>6 DEF AtPc
      <4> QED
        BY <1>1, <1>3, <3>1, <4>1, <4>7, StepShows DEF Pcs
    <3>5. CASE ~Takes(t, p, k)
      <4>1. str' = str + 1 /\ pc' = "sea"
        BY <3>1, <3>5
      <4>2. ~Matches(a, b, str, endstr)
        BY <1>6, <3>2, <3>3, <3>5
      <4>3. Left(a, b)'
        <5>1. a <= b /\ pat' = Bound(a)' /\ endpat' = Bound(b)'
          BY <1>1, <1>5, <3>1, OuterKept
        <5>2. endstr' \in 1..(T' + 1) /\ str' \in 1..endstr'
          BY <1>1, <1>5, <2>4, <4>1, OuterKept
        <5> QED
          BY <5>1, <5>2 DEF Left
      <4>4. SomeEnd(a, b) <=> \E i \in (str + 1)..endstr : Matches(a, b, i, endstr)
        <5>1. \A i : i \in str..endstr /\ i # str <=> i \in (str + 1)..endstr
          BY <1>5
        <5> QED
          BY <4>2, <5>1 DEF SomeEnd
      <4>5. Owes(SomeEnd(a, b), n)'
        <5>1. SomeEnd(a, b)' <=> \E i \in (str + 1)..endstr : Matches(a, b, i, endstr)
          BY <1>1, <4>1, OuterKept DEF SomeEnd
        <5>2. SomeEnd(a, b)' <=> SomeEnd(a, b)
          BY <4>4, <5>1
        <5> QED
          BY <1>1, <1>4, <5>2, OuterKept DEF Owes
      <4>6. (a < b => toks[b].star)'
        BY <1>1, <1>5, OuterKept
      <4>7. AtSea'
        BY <1>10, <4>3, <4>5, <4>6 DEF AtSea
      <4>8. AtPc'
        BY <4>1, <4>7 DEF AtPc
      <4> QED
        BY <1>1, <1>3, <3>1, <4>1, <4>8, StepShows DEF Pcs
    <3> QED
      BY <3>4, <3>5
  <2> QED
    BY <2>3, <2>4
<1> QED
  BY <1>11, <1>12

-----------------------------------------------------------------------------
(* The theorems *)

\* The invariant is about these variables only.
LEMMA StutteringKeeps ==
    ASSUME IInv, UNCHANGED vars
    PROVE  IInv'
<1>1. /\ UNCHANGED caller /\ UNCHANGED outer /\ UNCHANGED inner /\ UNCHANGED loop
      /\ UNCHANGED tail /\ pc' = pc /\ result' = result
  BY DEF vars
<1>2. /\ pat' = pat /\ endpat' = endpat /\ str' = str /\ endstr' = endstr
      /\ p' = p /\ s' = s /\ ptail' = ptail /\ tailcnt' = tailcnt
      /\ fpat' = fpat /\ fstr' = fstr /\ last' = last
  BY <1>1 DEF inner, loop, tail, outer
<1>3. /\ N' = N /\ T' = T /\ toks' = toks /\ text' = text
      /\ Meaning' = Meaning /\ flags' = flags /\ last' = last
      /\ \A n : Bound(n)' = Bound(n)
      /\ \A n, i : PathCovers(n, i)' = PathCovers(n, i)
      /\ \A f : PrefixCovers(f)' = PrefixCovers(f)
      /\ \A a, b, i, e : Matches(a, b, i, e)' = Matches(a, b, i, e)
      /\ \A a, b, i, e : Covers(a, b, i, e)' = Covers(a, b, i, e)
  BY <1>1, CallerKept DEF caller, outer
<1>4. \A n : Frame(n)' <=> Frame(n)
  BY <1>2, <1>3 DEF Frame
<1>5. \A a, b : Left(a, b)' <=> Left(a, b)
  BY <1>2, <1>3 DEF Left
<1>6. \A a, b : SomeEnd(a, b)' <=> SomeEnd(a, b)
  BY <1>2, <1>3 DEF SomeEnd
<1>7. \A a, b, n : Owes(SomeEnd(a, b), n)' <=> Owes(SomeEnd(a, b), n)
  BY <1>3, <1>6, <1>1 DEF Owes, outer
<1>8. \A a, b, c, d : Counted(a, b, c, d)' <=> Counted(a, b, c, d)
  BY <1>2, <1>3 DEF Counted, NoStar
<1>9. \A a, b, c, d : Tailed(a, b, c, d)' <=> Tailed(a, b, c, d)
  BY <1>2, <1>3 DEF Tailed, NoStar, stail
<1>10. AtPc'
  <2> USE <1>1, <1>2, <1>3, <1>4, <1>5, <1>6, <1>7, <1>8, <1>9
  <2>1. AtFnmatch' <=> AtFnmatch
    BY DEF AtFnmatch
  <2>2. AtComponent' <=> AtComponent
    BY DEF AtComponent
  <2>3. AtCall' <=> AtCall
    BY DEF AtCall, Owes
  <2>4. AtHead' <=> AtHead
    BY DEF AtHead, Owes
  <2>5. AtCount' <=> AtCount
    BY DEF AtCount
  <2>6. AtTail' <=> AtTail
    BY DEF AtTail
  <2>7. AtSea' <=> AtSea
    BY DEF AtSea
  <2>8. AtTry' <=> AtTry
    BY DEF AtTry, Placed
  <2>9. AtPc
    BY DEF IInv
  <2> QED
    BY <2>1, <2>2, <2>3, <2>4, <2>5, <2>6, <2>7, <2>8, <2>9 DEF AtPc
<1> QED
  BY <1>1, <1>10, StepShows DEF IInv

\* Each step keeps the invariant.
LEMMA StepKeeps ==
    ASSUME IInv, [Next]_vars
    PROVE  IInv'
<1>1. CASE StartComponent
  BY <1>1, StartComponentStep
<1>2. CASE WithinComponent
  BY <1>2, WithinComponentStep
<1>3. CASE Component
  BY <1>3, ComponentStep
<1>4. CASE Prefix
  BY <1>4, PrefixStepHolds
<1>5. CASE Period
  BY <1>5, PeriodStep
<1>6. CASE MatchHead
  BY <1>6, MatchHeadStep
<1>7. CASE CountTail
  BY <1>7, CountTailStep
<1>8. CASE FindTail
  BY <1>8, FindTailStep
<1>9. CASE MatchTail
  BY <1>9, MatchTailStep
<1>10. CASE Sea
  BY <1>10, SeaStep
<1>11. CASE Try
  BY <1>11, TryStep
<1>12. CASE UNCHANGED vars
  BY <1>12, StutteringKeeps
<1> QED
  BY <1>1, <1>2, <1>3, <1>4, <1>5, <1>6, <1>7, <1>8, <1>9, <1>10, <1>11, <1>12 DEF Next

\* IInv holds always where the scanners agree on the pattern, which no step changes.
LEMMA InvariantHolds == Spec /\ []ScannersAgree => []IInv
<1>1. Init /\ ScannersAgree => IInv
  BY InitHolds DEF ScannersAgree, Init
<1>2. IInv /\ [Next]_vars => IInv'
  BY StepKeeps
<1> QED
  BY <1>1, <1>2, PTL DEF Spec

\* fnmatch returns 0 exactly for a string that the pattern stands for (297 to 320),
\* if its two scanners of the pattern agree on what is written there.
THEOREM ResultIsMeaningHolds == Spec /\ []ScannersAgree => []ResultIsMeaning
<1>1. IInv => ResultIsMeaning
  BY DEF IInv, AtPc, ResultIsMeaning
<1> QED
  BY <1>1, InvariantHolds, PTL

\* A bound is that of its number of tokens.
LEMMA ThereIs ==
    ASSUME Given, NEW a \in 0..N
    PROVE  a \in Before(Bound(a))
BY DEF Before, N

\* What fnmatch_internal has cut off it never needs again (169 to 294): at every
\* moment what is left has the answer.
THEOREM LeftIsAsGoodHolds == Spec /\ []ScannersAgree => []LeftIsAsGood
<1>1. ASSUME IInv PROVE LeftIsAsGood
  <2>0. Given /\ AtPc /\ N \in Nat
    BY <1>1, GivenTypes DEF IInv
  <2> DEFINE this(a, b) == CASE pc = "call" -> Covers(a, b, str, endstr)
                             [] pc = "head" -> Matches(a, b, str, endstr)
                             [] OTHER -> \E i \in str..endstr : Matches(a, b, i, endstr)
  <2> SUFFICES ASSUME pc \in {"call", "head", "count", "tail", "sea", "try"}
               PROVE  \E a \in Before(pat), b \in Before(endpat) :
                        Meaning <=> IF "PATHNAME" \in flags
                                    THEN this(a, b) /\ (last \/ \E n \in Before(fpat) : PathCovers(n, fstr))
                                    ELSE this(a, b) \/ (~last /\ PrefixCovers(fstr))
    BY DEF LeftIsAsGood
  <2>1. PICK n \in 0..N, a \in 0..N, b \in 0..N :
          Frame(n) /\ Left(a, b) /\ Owes(this(a, b), n)
    <3>1. CASE pc = "call"
      <4>1. PICK n \in 0..N, a \in 0..N, b \in 0..N :
              Frame(n) /\ Left(a, b) /\ Owes(Covers(a, b, str, endstr), n)
        BY <2>0, <3>1 DEF AtPc, AtCall
      <4>2. this(a, b) <=> Covers(a, b, str, endstr)
        BY <3>1
      <4> HIDE DEF this
      <4>3. Owes(this(a, b), n)
        BY <4>1, <4>2 DEF Owes
      <4> QED
        BY <4>1, <4>3
    <3>2. CASE pc = "head"
      <4>1. PICK n \in 0..N, a \in 0..N, b \in 0..N :
              Frame(n) /\ Left(a, b) /\ Owes(Matches(a, b, str, endstr), n)
        BY <2>0, <3>2 DEF AtPc, AtHead
      <4>2. this(a, b) <=> Matches(a, b, str, endstr)
        BY <3>2
      <4> HIDE DEF this
      <4>3. Owes(this(a, b), n)
        BY <4>1, <4>2 DEF Owes
      <4> QED
        BY <4>1, <4>3
    <3>3. CASE pc \in {"count", "tail", "sea", "try"}
      <4>1. PICK n \in 0..N, a \in 0..N, b \in 0..N :
              Frame(n) /\ Left(a, b) /\ Owes(SomeEnd(a, b), n)
        <5>1. AtCount \/ AtTail \/ AtSea \/ AtTry
          BY <2>0, <3>3 DEF AtPc
        <5> QED
          BY <5>1 DEF AtCount, AtTail, AtSea, AtTry
      <4>2. this(a, b) <=> SomeEnd(a, b)
        BY <3>3 DEF SomeEnd
      <4> HIDE DEF this
      <4>3. Owes(this(a, b), n)
        BY <4>1, <4>2 DEF Owes
      <4> QED
        BY <4>1, <4>3
    <3> QED
      BY <3>1, <3>2, <3>3
  <2> HIDE DEF this
  <2>2. a \in Before(pat) /\ b \in Before(endpat)
    BY <2>0, <2>1, ThereIs DEF Left
  <2>3. "PATHNAME" \in flags =>
          ((last \/ PathCovers(n, fstr)) <=> (last \/ \E m \in Before(fpat) : PathCovers(m, fstr)))
    <3>1. CASE last
      BY <3>1
    <3>2. CASE ~last /\ "PATHNAME" \in flags
      <4>1. fpat = Bound(n)
        BY <2>1, <3>2 DEF Frame
      <4>2. ASSUME NEW m \in Before(fpat) PROVE m = n
        <5>1. m \in 0..N /\ Bound(m) = Bound(n)
          BY <4>1 DEF Before, N
        <5> QED
          BY <2>0, <5>1, BoundsOrdered
      <4>3. n \in Before(fpat)
        BY <2>0, <4>1, ThereIs
      <4> QED
        BY <4>2, <4>3
    <3> QED
      BY <3>1, <3>2
  <2> QED
    BY <2>1, <2>2, <2>3 DEF Owes
<1> QED
  BY <1>1, InvariantHolds, PTL

-----------------------------------------------------------------------------
(* How a bracket is read *)

\* BracketEnd's search from each place on.
Close(first, end) ==
  LET close[k \in first..end] ==
        IF PatAt(k, end) \in {NUL, "]"} THEN k
        ELSE IF ~IsSymbol(k, end) THEN close[k + 1]
        ELSE IF SymbolEnds(k, end) = {} THEN end
        ELSE close[Min(SymbolEnds(k, end)) + 1]
  IN close

\* There is a function as BracketEnd recursively describes it.
LEMMA CloseSteps ==
    ASSUME NEW end \in Nat, NEW first \in 0..end, NEW k \in first..end
    PROVE  Close(first, end)[k] =
             IF PatAt(k, end) \in {NUL, "]"} THEN k
             ELSE IF ~IsSymbol(k, end) THEN Close(first, end)[k + 1]
             ELSE IF SymbolEnds(k, end) = {} THEN end
             ELSE Close(first, end)[Min(SymbolEnds(k, end)) + 1]
<1> DEFINE D == first..end
           begin == {x \in D : PatAt(x, end) \in {NUL, "]"} \/ (IsSymbol(x, end) /\ SymbolEnds(x, end) = {})}
           start == [x \in D |-> IF PatAt(x, end) \in {NUL, "]"} THEN x ELSE end]
           next == [x \in D |-> IF IsSymbol(x, end) THEN Min(SymbolEnds(x, end)) + 1 ELSE x + 1]
           g == [xv \in D \X D |-> xv[2]]
           rank == [x \in D |-> end - x]
           Step(f, x) == IF PatAt(x, end) \in {NUL, "]"} THEN x
                         ELSE IF ~IsSymbol(x, end) THEN f[x + 1]
                         ELSE IF SymbolEnds(x, end) = {} THEN end
                         ELSE f[Min(SymbolEnds(x, end)) + 1]
           Is(f) == f = [x \in D |-> Step(f, x)]
<1>0. first \in Nat /\ end \in D /\ D \subseteq Nat
  OBVIOUS
<1>1. start \in [D -> D]
  BY <1>0
<1>2. \A x \in D, v \in D : g[<<x, v>>] = v
  OBVIOUS
<1>3. rank \in [D -> Nat] /\ \A x \in D : rank[x] <= end
  BY <1>0
<1>4. ASSUME NEW x \in D, x \notin begin PROVE next[x] \in D /\ rank[next[x]] < rank[x]
  <2>1. x \in Nat /\ x < end
    <3>1. x # end
      <4>1. PatAt(end, end) = NUL
        BY DEF PatAt
      <4>2. PatAt(x, end) # NUL
        BY <1>4
      <4> QED
        BY <4>1, <4>2
    <3> QED
      BY <1>0, <3>1
  <2>2. CASE IsSymbol(x, end)
    <3>1. SymbolEnds(x, end) # {} /\ SymbolEnds(x, end) \in SUBSET Nat
      BY <1>4, <2>1, <2>2 DEF SymbolEnds
    <3>2. Min(SymbolEnds(x, end)) \in SymbolEnds(x, end)
      BY <3>1, MinIsLeast
    <3>3. Min(SymbolEnds(x, end)) \in (x + 3)..(end - 1)
      BY <3>2 DEF SymbolEnds
    <3>4. next[x] = Min(SymbolEnds(x, end)) + 1
      BY <2>2
    <3> HIDE DEF next
    <3>5. next[x] \in D /\ x < next[x]
      BY <2>1, <3>3, <3>4
    <3> QED
      BY <2>1, <3>5
  <2>3. CASE ~IsSymbol(x, end)
    <3>1. next[x] = x + 1
      BY <2>3
    <3> HIDE DEF next
    <3> QED
      BY <2>1, <3>1
  <2> QED
    BY <2>2, <2>3
<1>5. PICK f \in [D -> D] : Recursive(f, D, begin, start, next, g)
  <2> HIDE DEF D, begin, start, next, g, rank
  <2>1. \A x \in D, v \in D : g[<<x, v>>] \in D
    BY <1>2
  <2> QED
    BY <2>1, <1>1, <1>3, <1>4, RecursionExists
<1>6. ASSUME NEW x \in D PROVE f[x] = Step(f, x)
  <2>1. f[x] = IF x \in begin THEN start[x] ELSE g[<<x, f[next[x]]>>]
    BY <1>5 DEF Recursive
  <2>2. CASE x \in begin
    BY <2>1, <2>2
  <2>3. CASE x \notin begin
    <3>1. next[x] \in D
      BY <1>4, <2>3
    <3>2. f[next[x]] \in D
      BY <3>1, <1>5
    <3>3. f[x] = f[next[x]]
      <4> HIDE DEF D, begin, start, next, g
      <4> QED
        BY <2>1, <2>3, <3>2, <1>2
    <3>4. PatAt(x, end) \notin {NUL, "]"} /\ ~(IsSymbol(x, end) /\ SymbolEnds(x, end) = {})
      BY <2>3
    <3>5. next[x] = IF IsSymbol(x, end) THEN Min(SymbolEnds(x, end)) + 1 ELSE x + 1
      OBVIOUS
    <3> HIDE DEF D, begin, start, next, g
    <3> QED
      BY <3>3, <3>4, <3>5
  <2> QED
    BY <2>2, <2>3
<1>7. Is(f)
  <2>1. f = [x \in D |-> f[x]]
    BY <1>5
  <2> HIDE DEF D, Step
  <2> QED
    BY <1>6, <2>1
<1>8. Is(Close(first, end))
  <2>1. Close(first, end) = CHOOSE f0 : Is(f0)
    BY DEF Close
  <2>2. \E f0 : Is(f0)
    BY <1>7
  <2> HIDE DEF Is
  <2> QED
    BY <2>1, <2>2
<1>9. Close(first, end)[k] = Step(Close(first, end), k)
  <2> HIDE DEF Step
  <2> QED
    BY <1>8, Zenon
<1> QED
  BY <1>9

\* A bracket without a class is closed by the first "]" behind where the search starts.
LEMMA BracketCloses ==
    ASSUME NEW end \in Nat, NEW first \in 0..end, NEW z \in first..(end - 1), chars[z] = "]",
           \A k \in first..(z - 1) : PatAt(k, end) \notin {NUL, "]"} /\ ~IsSymbol(k, end)
    PROVE  BracketEnd(first, end) = z
<1> DEFINE S == {k \in 0..z : k < first \/ Close(first, end)[k] = z}
<1>0. first \in Nat /\ z \in Nat /\ z \in first..end /\ first \in first..end
  OBVIOUS
<1>1. z \in S
  <2>1. PatAt(z, end) = "]"
    BY DEF PatAt
  <2>2. Close(first, end)[z] = z
    BY <1>0, <2>1, CloseSteps
  <2> QED
    BY <1>0, <2>2
<1>2. \A k \in 0..(z - 1) : k + 1 \in S => k \in S
  <2> SUFFICES ASSUME NEW k \in 0..(z - 1), k + 1 \in S, ~(k < first) PROVE Close(first, end)[k] = z
    BY <1>0
  <2>1. k \in first..(z - 1) /\ k \in first..end /\ ~(k + 1 < first)
    BY <1>0
  <2>2. Close(first, end)[k] = Close(first, end)[k + 1]
    BY <2>1, CloseSteps
  <2> QED
    BY <2>1, <2>2
<1>3. 0..z \subseteq S
  <2> HIDE DEF S
  <2> QED
    BY <1>0, <1>1, <1>2, DownFrom
<1>4. Close(first, end)[first] = z
  BY <1>0, <1>3
<1> QED
  BY <1>4 DEF BracketEnd, Close

\* ItemHit's search from each place on, with each character a range may start at.
Hit(start, ks) ==
  LET end == Len(chars) + 1
      hit[at \in (start..end) \X Range(chars)] ==
        LET i == at[1]
            wc == at[2]
            c == PatAt(i, end)
            next == PatAt(i + 1, end)
            ends == SymbolEnds(i, end)
        IN IF c \in {NUL, "]"} THEN FALSE
           ELSE IF c = "-" /\ next # "]"
           THEN (\E k \in ks : Code(k) \in Code(wc)..Code(next)) \/ hit[<<i + 1, wc>>]
           ELSE IF IsSymbol(i, end)
           THEN \/ next = ":" /\ ks \cap Class[chars[i + 2]] # {}
                \/ ends # {} /\ hit[<<Min(ends) + 1, wc>>]
           ELSE c \in ks \/ hit[<<i + 1, c>>]
  IN hit

End == Len(chars) + 1
InRange(at, ks) == \E k \in ks : Code(k) \in Code(at[2])..Code(PatAt(at[1] + 1, End))
InClass(at, ks) == PatAt(at[1] + 1, End) = ":" /\ ks \cap Class[chars[at[1] + 2]] # {}

\* What is looked at in one step of the search, and where it goes on.
IsEnd(at) == PatAt(at[1], End) \in {NUL, "]"}
IsRange(at) == PatAt(at[1], End) = "-" /\ PatAt(at[1] + 1, End) # "]"
Found(at, ks) ==
    IF IsRange(at) THEN InRange(at, ks)
    ELSE IF IsSymbol(at[1], End) THEN InClass(at, ks)
    ELSE PatAt(at[1], End) \in ks
IsLast(at) == IsEnd(at) \/ (~IsRange(at) /\ IsSymbol(at[1], End) /\ SymbolEnds(at[1], End) = {})
GoesOn(at) ==
    IF IsRange(at) THEN <<at[1] + 1, at[2]>>
    ELSE IF IsSymbol(at[1], End) THEN <<Min(SymbolEnds(at[1], End)) + 1, at[2]>>
    ELSE <<at[1] + 1, PatAt(at[1], End)>>
Step(f, at, ks) ==
    IF IsEnd(at) THEN FALSE
    ELSE IF IsLast(at) THEN Found(at, ks)
    ELSE Found(at, ks) \/ f[GoesOn(at)]

\* One step as ItemHit has it.
StepOf(hit, at, ks) ==
  LET i == at[1]
      wc == at[2]
      c == PatAt(i, End)
      next == PatAt(i + 1, End)
      ends == SymbolEnds(i, End)
  IN IF c \in {NUL, "]"} THEN FALSE
     ELSE IF c = "-" /\ next # "]"
     THEN (\E k \in ks : Code(k) \in Code(wc)..Code(next)) \/ hit[<<i + 1, wc>>]
     ELSE IF IsSymbol(i, End)
     THEN \/ next = ":" /\ ks \cap Class[chars[i + 2]] # {}
          \/ ends # {} /\ hit[<<Min(ends) + 1, wc>>]
     ELSE c \in ks \/ hit[<<i + 1, c>>]

\* There is a function as ItemHit recursively describes it.
LEMMA HitSteps ==
    ASSUME chars \in Seq(Range(chars)), NEW ks, NEW start \in 1..End,
           NEW at \in (start..End) \X Range(chars)
    PROVE  /\ Hit(start, ks)[at] <=> Step(Hit(start, ks), at, ks)
           /\ Hit(start, ks)[at] \in BOOLEAN
<1> DEFINE D == (start..End) \X Range(chars)
           begin == {x \in D : IsLast(x)}
           first == [x \in D |-> ~IsEnd(x) /\ Found(x, ks)]
           next == [x \in D |-> GoesOn(x)]
           g == [xv \in D \X BOOLEAN |-> Found(xv[1], ks) \/ xv[2]]
           rank == [x \in D |-> End - x[1]]
           Is(f) == f = [x \in D |-> StepOf(f, x, ks)]
<1>0. End \in Nat /\ start \in Nat /\ DOMAIN chars = 1..(End - 1)
  BY DEF End
<1>a. \A x \in D : x[1] \in start..End /\ x[1] \in Nat /\ x[2] \in Range(chars) /\ x = <<x[1], x[2]>>
  BY <1>0
<1>b. \A x, c : Found(x, c) \in BOOLEAN /\ IsEnd(x) \in BOOLEAN /\ IsLast(x) \in BOOLEAN
  <2>1. \A x, c : InRange(x, c) \in BOOLEAN /\ InClass(x, c) \in BOOLEAN
    BY DEF InRange, InClass
  <2>2. \A x, c : Found(x, c) \in BOOLEAN
    <3> SUFFICES ASSUME NEW x, NEW c PROVE Found(x, c) \in BOOLEAN
      OBVIOUS
    <3>1. CASE IsRange(x)
      BY <2>1, <3>1 DEF Found
    <3>2. CASE ~IsRange(x) /\ IsSymbol(x[1], End)
      BY <2>1, <3>2 DEF Found
    <3>3. CASE ~IsRange(x) /\ ~IsSymbol(x[1], End)
      BY <3>3 DEF Found
    <3> QED
      BY <3>1, <3>2, <3>3
  <2>3. \A x : IsEnd(x) \in BOOLEAN /\ IsLast(x) \in BOOLEAN
    BY DEF IsEnd, IsLast
  <2> QED
    BY <2>2, <2>3
<1>c. \A f, x : StepOf(f, x, ks) = Step(f, x, ks)
  <2> SUFFICES ASSUME NEW f, NEW x PROVE StepOf(f, x, ks) = Step(f, x, ks)
    OBVIOUS
  <2>1. CASE IsEnd(x)
    BY <2>1 DEF StepOf, Step, IsEnd
  <2>2. CASE ~IsEnd(x) /\ IsRange(x)
    BY <2>2 DEF StepOf, Step, IsEnd, IsLast, IsRange, Found, InRange, GoesOn
  <2>3. CASE ~IsEnd(x) /\ ~IsRange(x) /\ IsSymbol(x[1], End)
    BY <2>3 DEF StepOf, Step, IsEnd, IsLast, IsRange, Found, InClass, GoesOn
  <2>4. CASE ~IsEnd(x) /\ ~IsRange(x) /\ ~IsSymbol(x[1], End)
    BY <2>4 DEF StepOf, Step, IsEnd, IsLast, IsRange, Found, GoesOn
  <2> QED
    BY <2>1, <2>2, <2>3, <2>4
<1>1. first \in [D -> BOOLEAN]
  <2> HIDE DEF D
  <2> QED
    OBVIOUS
<1>2. ASSUME NEW x \in D, NEW v \in BOOLEAN PROVE g[<<x, v>>] = (Found(x, ks) \/ v)
  <2> HIDE DEF D
  <2> QED
    OBVIOUS
<1>3. rank \in [D -> Nat] /\ \A x \in D : rank[x] <= End
  <2>1. \A x \in D : End - x[1] \in Nat /\ End - x[1] <= End
    BY <1>0, <1>a
  <2> HIDE DEF D
  <2> QED
    BY <2>1
<1>4. ASSUME NEW x \in D, x \notin begin PROVE next[x] \in D /\ rank[next[x]] < rank[x]
  <2>0. ~IsLast(x) /\ x[1] \in start..End /\ x[1] \in Nat
    BY <1>4, <1>a
  <2>1. x[1] < End /\ PatAt(x[1], End) \in Range(chars)
    <3>1. PatAt(x[1], End) # NUL
      BY <2>0 DEF IsLast, IsEnd
    <3>2. x[1] < End /\ PatAt(x[1], End) = chars[x[1]]
      BY <3>1 DEF PatAt
    <3>3. x[1] \in DOMAIN chars
      BY <1>0, <2>0, <3>2
    <3> QED
      BY <3>2, <3>3 DEF Range
  <2>2. GoesOn(x) \in D /\ GoesOn(x)[1] > x[1]
    <3>1. CASE IsRange(x)
      <4>1. GoesOn(x) = <<x[1] + 1, x[2]>>
        BY <3>1 DEF GoesOn
      <4> QED
        BY <1>0, <1>a, <2>0, <2>1, <4>1
    <3>2. CASE ~IsRange(x) /\ IsSymbol(x[1], End)
      <4>1. SymbolEnds(x[1], End) # {} /\ SymbolEnds(x[1], End) \in SUBSET Nat
        BY <1>0, <2>0, <3>2 DEF SymbolEnds, IsLast
      <4>2. Min(SymbolEnds(x[1], End)) \in SymbolEnds(x[1], End)
        BY <4>1, MinIsLeast
      <4>3. Min(SymbolEnds(x[1], End)) \in (x[1] + 3)..(End - 1)
        BY <4>2 DEF SymbolEnds
      <4>4. GoesOn(x) = <<Min(SymbolEnds(x[1], End)) + 1, x[2]>>
        BY <3>2 DEF GoesOn
      <4> QED
        BY <1>0, <1>a, <2>0, <2>1, <4>3, <4>4
    <3>3. CASE ~IsRange(x) /\ ~IsSymbol(x[1], End)
      <4>1. GoesOn(x) = <<x[1] + 1, PatAt(x[1], End)>>
        BY <3>3 DEF GoesOn
      <4> QED
        BY <1>0, <2>0, <2>1, <4>1
    <3> QED
      BY <3>1, <3>2, <3>3
  <2>3. next[x] = GoesOn(x) /\ rank[x] = End - x[1] /\ rank[GoesOn(x)] = End - GoesOn(x)[1]
    <3> HIDE DEF D
    <3> QED
      BY <2>2
  <2>4. GoesOn(x)[1] \in Nat
    BY <2>2, <1>a
  <2> HIDE DEF next, rank, D
  <2> QED
    BY <1>0, <2>0, <2>2, <2>3, <2>4
<1>5. PICK f \in [D -> BOOLEAN] : Recursive(f, D, begin, first, next, g)
  <2>1. \A x \in D, v \in BOOLEAN : g[<<x, v>>] \in BOOLEAN
    BY <1>2, <1>b
  <2> HIDE DEF D, begin, first, next, g, rank
  <2> QED
    BY <2>1, <1>0, <1>1, <1>3, <1>4, RecursionExists
<1>6. ASSUME NEW x \in D PROVE f[x] = Step(f, x, ks)
  <2>1. f[x] = IF x \in begin THEN first[x] ELSE g[<<x, f[next[x]]>>]
    BY <1>5 DEF Recursive
  <2>2. CASE x \in begin
    <3>1. IsLast(x) /\ f[x] = (~IsEnd(x) /\ Found(x, ks))
      BY <2>1, <2>2
    <3> QED
      BY <3>1, <1>b, Zenon DEF Step
  <2>3. CASE x \notin begin
    <3>1. next[x] \in D /\ next[x] = GoesOn(x)
      BY <1>4, <2>3
    <3>2. f[GoesOn(x)] \in BOOLEAN
      BY <3>1, <1>5
    <3>3. f[x] = (Found(x, ks) \/ f[GoesOn(x)])
      <4>1. g[<<x, f[GoesOn(x)]>>] = (Found(x, ks) \/ f[GoesOn(x)])
        BY <3>2, <1>2
      <4> HIDE DEF D, begin, first, next, g
      <4> QED
        BY <2>1, <2>3, <3>1, <4>1, Zenon
    <3>4. ~IsLast(x) /\ ~IsEnd(x)
      BY <2>3 DEF IsLast
    <3> HIDE DEF D, begin, first, next, g
    <3> QED
      BY <3>3, <3>4, Zenon DEF Step
  <2> QED
    BY <2>2, <2>3
<1>7. Is(f)
  <2>1. f = [x \in D |-> f[x]]
    BY <1>5
  <2> HIDE DEF D
  <2> QED
    BY <1>6, <1>c, <2>1, Zenon
<1>8. Is(Hit(start, ks))
  <2>1. Hit(start, ks) = CHOOSE f0 : Is(f0)
    BY DEF Hit, StepOf, End
  <2>2. \E f0 : Is(f0)
    BY <1>7
  <2> HIDE DEF Is
  <2> QED
    BY <2>1, <2>2
<1>9. Hit(start, ks)[at] = Step(Hit(start, ks), at, ks)
  BY <1>8, <1>c, Zenon
<1>10. Step(Hit(start, ks), at, ks) \in BOOLEAN
  <2>1. CASE IsEnd(at)
    BY <2>1 DEF Step
  <2>2. CASE ~IsEnd(at) /\ IsLast(at)
    BY <1>b, <2>2 DEF Step
  <2>3. CASE ~IsEnd(at) /\ ~IsLast(at)
    BY <2>3 DEF Step
  <2> QED
    BY <2>1, <2>2, <2>3
<1> QED
  BY <1>9, <1>10, Zenon

\* The item of a bracket at place j of its text, where the items are those from f on: a
\* character, or the characters of the range that the "-" there is the sign of.
IsRangeSign(w, f, j) == w[j] = "-" /\ f < j /\ j < Len(w) - 1
IsItem(w, f, j, k) ==
    IF IsRangeSign(w, f, j) THEN Code(k) \in Code(w[j - 1])..Code(w[j + 1]) ELSE k = w[j]

\* The characters of the string, and their other cases.
Compared == Range(text) \cup {Kfold(k) : k \in Range(text)}

\* A bracket of characters and ranges, perhaps negated, perhaps with a first "]" or a
\* first or last "-", but without a class and without a range that ends in "-".
FirstItem(tok) == IF tok.inv THEN 3 ELSE 2
PlainBracket(tok) ==
    LET w == tok.text
        f == FirstItem(tok)
        z == Len(w)
    IN /\ f < z /\ w[1] = "[" /\ w[z] = "]"
       /\ tok.inv \in BOOLEAN /\ (tok.inv <=> w[2] \in {"^", "!"})
       /\ \A j \in (f + 1)..(z - 1) : w[j] # "]"
       /\ \A j \in f..(z - 1) : w[j] = "[" => w[j + 1] \notin {":", ".", "="}
       /\ \A j \in f..(z - 1) : IsRangeSign(w, f, j) => w[j + 1] # "-"
       /\ \A k \in Compared : k \in tok.set <=> \E j \in f..(z - 1) : IsItem(w, f, j, k)

\* The characters of a bracket where they are in the pattern, cut behind it or later.
LEMMA BracketCharacters ==
    ASSUME Given, NEW a \in 0..(N - 1), PlainBracket(toks[a + 1])
    PROVE  LET w == toks[a + 1].text
               i == Bound(a)
               f == FirstItem(toks[a + 1])
           IN /\ Len(w) \in Nat /\ i \in Nat /\ f \in {2, 3} /\ f < Len(w)
              /\ \A j \in 1..Len(w) : /\ i + j - 1 \in 1..Len(chars) /\ chars[i + j - 1] = w[j]
                                      /\ w[j] \notin Signs \cup {NUL}
              /\ \A end \in Nat, j \in 1..Len(w) :
                   i + Len(w) <= end => PatAt(i + j - 1, end) = w[j]
              /\ i + Len(w) <= Len(chars) + 1
<1> DEFINE w == toks[a + 1].text
           i == Bound(a)
<1>0. a \in 0..N /\ a + 1 \in 1..N /\ N \in Nat /\ DOMAIN toks = 1..N
  BY GivenTypes
<1>1. w \in Seq(Range(w)) /\ Range(w) \cap (Signs \cup {NUL}) = {}
  BY <1>0 DEF Given, IsPattern, IsString
<1>2. i \in Nat /\ Len(w) \in Nat
  BY <1>0, <1>1, Bounds
<1>3. \A j \in 1..Len(w) : i + j - 1 \in 1..Len(chars) /\ chars[i + j - 1] = w[j]
  BY CharacterOfToken DEF Word
<1>4. FirstItem(toks[a + 1]) \in {2, 3} /\ FirstItem(toks[a + 1]) < Len(w)
  BY DEF FirstItem, PlainBracket
<1> HIDE DEF w, i
<1>5. \A j \in 1..Len(w) : w[j] \in Range(w)
  BY <1>1
<1>6. \A j \in 1..Len(w) : w[j] \notin Signs \cup {NUL}
  BY <1>1, <1>5
<1>7. ASSUME NEW end \in Nat, NEW j \in 1..Len(w), i + Len(w) <= end
      PROVE  PatAt(i + j - 1, end) = w[j]
  <2>1. i + j - 1 < end
    BY <1>2, <1>7
  <2> QED
    BY <1>3, <2>1 DEF PatAt
<1>8. i + Len(w) <= Len(chars) + 1
  <2>1. Len(w) \in 1..Len(w)
    BY <1>2, <1>4
  <2>2. i + Len(w) - 1 \in 1..Len(chars)
    BY <1>3, <2>1
  <2>3. Len(chars) \in Nat
    BY GivenTypes, Bounds, <1>0
  <2> QED
    BY <1>2, <2>2, <2>3
<1> QED
  BY <1>2, <1>3, <1>4, <1>6, <1>7, <1>8 DEF w, i

\* match_bracket finds a character from an item on if it is one of it or of those behind.
LEMMA ItemsAreHit ==
    ASSUME Given, NEW a \in 0..(N - 1), PlainBracket(toks[a + 1]), NEW ks,
           NEW h \in FirstItem(toks[a + 1])..Len(toks[a + 1].text),
           h = FirstItem(toks[a + 1]) => toks[a + 1].text[h] \notin {"]", "-"}
    PROVE  LET w == toks[a + 1].text
               i == Bound(a)
               items == ItemHit(i + h - 1, chars[i + h - 2], ks)
           IN /\ items \in BOOLEAN
              /\ items <=> \E j \in h..(Len(w) - 1) : \E k \in ks : IsItem(w, FirstItem(toks[a + 1]), j, k)
<1> DEFINE w == toks[a + 1].text
           i == Bound(a)
           f == FirstItem(toks[a + 1])
           z == Len(w)
           start == i + h - 1
           Item(j) == \E k \in ks : IsItem(w, f, j, k)
           hit == Hit(start, ks)
           Claim(j) == \A wc \in Range(chars) :
                         (IsRangeSign(w, f, j) => wc = w[j - 1]) =>
                           (hit[<<i + j - 1, wc>>] <=> \E m \in j..(z - 1) : Item(m))
           S == {j \in 0..z : j < h \/ Claim(j)}
<1>1. /\ z \in Nat /\ i \in Nat /\ f \in {2, 3} /\ f < z
      /\ \A j \in 1..z : /\ i + j - 1 \in 1..Len(chars) /\ chars[i + j - 1] = w[j]
                         /\ w[j] \notin Signs \cup {NUL}
      /\ i + z <= Len(chars) + 1
  BY BracketCharacters
<1>2. \A end \in Nat, j \in 1..z : i + z <= end => PatAt(i + j - 1, end) = w[j]
  BY BracketCharacters
<1>3. /\ \A j \in (f + 1)..(z - 1) : w[j] # "]"
      /\ \A j \in f..(z - 1) : w[j] = "[" => w[j + 1] \notin {":", ".", "="}
      /\ \A j \in f..(z - 1) : IsRangeSign(w, f, j) => w[j + 1] # "-"
      /\ w[z] = "]"
  BY DEF PlainBracket
<1>4. h \in f..z /\ (h = f => w[h] \notin {"]", "-"}) /\ h \in Nat
  BY <1>1
<1>5. chars \in Seq(Range(chars)) /\ Len(chars) \in Nat /\ DOMAIN chars = 1..Len(chars)
  <2>1. chars \in Seq(Characters)
    <3>1. N \in 0..N
      BY GivenTypes
    <3> QED
      BY <3>1, UpToTokenSteps
  <2> QED
    BY <2>1 DEF Range
<1> HIDE DEF w, i, f, z
<1>6. End \in Nat /\ start \in 1..End /\ i + z <= End /\ End = Len(chars) + 1
  <2>1. 1 \in 1..z
    BY <1>1
  <2>2. i >= 1
    BY <1>1, <2>1
  <2> QED
    BY <1>1, <1>4, <1>5, <2>2 DEF End
<1>7. ASSUME NEW j \in h..z
      PROVE  /\ j \in 1..z /\ i + j - 1 \in start..End /\ PatAt(i + j - 1, End) = w[j]
             /\ w[j] \in Range(chars)
  <2>1. j \in 1..z
    BY <1>1, <1>4
  <2>2. i + j - 1 \in start..End
    BY <1>1, <1>4, <1>6, <2>1
  <2>3. PatAt(i + j - 1, End) = w[j]
    BY <1>2, <1>6, <2>1
  <2>4. w[j] \in Range(chars)
    BY <1>1, <1>5, <2>1 DEF Range
  <2> QED
    BY <2>1, <2>2, <2>3, <2>4
<1>8. z \in S
  <2>1. ASSUME NEW wc \in Range(chars) PROVE ~hit[<<i + z - 1, wc>>]
    <3>1. z \in h..z
      BY <1>1, <1>4
    <3>2. <<i + z - 1, wc>> \in (start..End) \X Range(chars) /\ PatAt(i + z - 1, End) = "]"
      BY <1>3, <1>7, <3>1
    <3>3. IsEnd(<<i + z - 1, wc>>)
      BY <3>2 DEF IsEnd
    <3>4. hit[<<i + z - 1, wc>>] <=> Step(hit, <<i + z - 1, wc>>, ks)
      BY <1>5, <1>6, <3>2, HitSteps
    <3> HIDE DEF hit
    <3> QED
      BY <3>3, <3>4 DEF Step
  <2>2. ~ \E m \in z..(z - 1) : Item(m)
    BY <1>1
  <2> HIDE DEF hit, Item
  <2> QED
    BY <1>1, <2>1, <2>2
<1>9. \A j \in 0..(z - 1) : j + 1 \in S => j \in S
  <2> SUFFICES ASSUME NEW j \in 0..(z - 1), j + 1 \in S, ~(j < h) PROVE Claim(j)
    <3> HIDE DEF Claim
    <3> QED
      BY <1>1
  <2>0. j \in h..z /\ j \in h..(z - 1) /\ j + 1 \in h..z /\ ~(j + 1 < h) /\ j \in f..(z - 1)
    <3> HIDE DEF S
    <3> QED
      BY <1>1, <1>4
  <2>1. Claim(j + 1)
    BY <2>0
  <2>2. PatAt(i + j - 1, End) = w[j] /\ PatAt(i + j, End) = w[j + 1]
    <3>1. i + (j + 1) - 1 = i + j
      BY <1>1
    <3> QED
      BY <1>7, <2>0, <3>1
  <2>3. w[j] \notin {NUL, "]"}
    <3>1. w[j] # NUL
      BY <1>1, <1>7, <2>0
    <3>2. w[j] # "]"
      BY <1>1, <1>3, <1>4, <2>0
    <3> QED
      BY <3>1, <3>2
  <2>4. ~IsSymbol(i + j - 1, End)
    <3>1. PatAt(i + j - 1 + 1, End) = w[j + 1]
      BY <1>1, <2>2
    <3> QED
      BY <1>3, <2>0, <2>2, <3>1 DEF IsSymbol
  <2>5. IsRangeSign(w, f, j) <=> w[j] = "-" /\ w[j + 1] # "]"
    <3>1. CASE j = z - 1
      <4>1. w[j + 1] = "]"
        BY <1>1, <1>3, <3>1
      <4> QED
        BY <1>1, <3>1, <4>1 DEF IsRangeSign, z
    <3>2. CASE j < z - 1
      <4>1. w[j + 1] # "]"
        BY <1>1, <1>3, <2>0, <3>2
      <4>2. w[j] = "-" => f < j
        BY <1>1, <1>4, <2>0
      <4> QED
        BY <3>2, <4>1, <4>2 DEF IsRangeSign, z
    <3> QED
      BY <1>1, <2>0, <3>1, <3>2
  <2>6. (\E m \in j..(z - 1) : Item(m)) <=> Item(j) \/ \E m \in (j + 1)..(z - 1) : Item(m)
    <3> HIDE DEF Item
    <3>1. \A m \in j..(z - 1) : m = j \/ m \in (j + 1)..(z - 1)
      BY <1>1, <2>0
    <3>2. \A m \in (j + 1)..(z - 1) : m \in j..(z - 1)
      BY <1>1, <2>0
    <3>3. j \in j..(z - 1)
      BY <1>1, <2>0
    <3> QED
      BY <3>1, <3>2, <3>3
  <2>7. ASSUME NEW wc \in Range(chars), IsRangeSign(w, f, j) => wc = w[j - 1]
        PROVE  hit[<<i + j - 1, wc>>] <=> \E m \in j..(z - 1) : Item(m)
    <3> DEFINE at == <<i + j - 1, wc>>
    <3>1. at[1] = i + j - 1 /\ at[2] = wc /\ at \in (start..End) \X Range(chars)
      BY <1>7, <2>0
    <3> HIDE DEF at
    <3>2. at[1] + 1 = i + j
      <4>1. i \in Int /\ j \in Int
        BY <1>1, <2>0
      <4>2. i + j - 1 + 1 = i + j
        BY <4>1
      <4> QED
        BY <3>1, <4>2
    <3>3. ~IsEnd(at) /\ (IsRange(at) <=> IsRangeSign(w, f, j)) /\ ~IsLast(at)
      <4>1. ~IsEnd(at)
        BY <2>2, <2>3, <3>1 DEF IsEnd
      <4>2. IsRange(at) <=> IsRangeSign(w, f, j)
        BY <2>2, <2>5, <3>1, <3>2 DEF IsRange
      <4>3. ~IsLast(at)
        BY <2>4, <3>1, <4>1 DEF IsLast
      <4> QED
        BY <4>1, <4>2, <4>3
    <3>4. Found(at, ks) <=> Item(j)
      <4>1. CASE IsRangeSign(w, f, j)
        <5>1. Found(at, ks) <=> \E k \in ks : Code(k) \in Code(w[j - 1])..Code(w[j + 1])
          BY <2>2, <2>7, <3>1, <3>2, <3>3, <4>1 DEF Found, InRange
        <5> QED
          BY <4>1, <5>1 DEF IsItem
      <4>2. CASE ~IsRangeSign(w, f, j)
        <5>1. Found(at, ks) <=> w[j] \in ks
          BY <2>2, <2>4, <3>1, <3>3, <4>2 DEF Found
        <5> QED
          BY <4>2, <5>1 DEF IsItem
      <4> QED
        BY <4>1, <4>2
    <3>5. hit[GoesOn(at)] <=> \E m \in (j + 1)..(z - 1) : Item(m)
      <4> DEFINE wc1 == IF IsRangeSign(w, f, j) THEN wc ELSE w[j]
      <4>1. GoesOn(at) = <<i + (j + 1) - 1, wc1>>
        <5>1. i + (j + 1) - 1 = at[1] + 1
          BY <1>1, <3>2
        <5> QED
          BY <2>2, <2>4, <3>1, <3>3, <5>1 DEF GoesOn
      <4>2. wc1 \in Range(chars)
        BY <1>7, <2>0
      <4>3. IsRangeSign(w, f, j + 1) => wc1 = w[(j + 1) - 1]
        <5>1. (j + 1) - 1 = j
          BY <2>0
        <5>2. IsRangeSign(w, f, j + 1) => ~IsRangeSign(w, f, j)
          BY <1>3, <2>0 DEF IsRangeSign
        <5> QED
          BY <5>1, <5>2
      <4> HIDE DEF wc1, hit, Item
      <4> QED
        BY <2>1, <4>1, <4>2, <4>3
    <3>6. hit[at] <=> Step(hit, at, ks)
      BY <1>5, <1>6, <3>1, HitSteps
    <3>7. Step(hit, at, ks) <=> Found(at, ks) \/ hit[GoesOn(at)]
      BY <3>3, Zenon DEF Step
    <3> HIDE DEF hit, Item
    <3>8. hit[at] <=> \E m \in j..(z - 1) : Item(m)
      BY <2>6, <3>4, <3>5, <3>6, <3>7
    <3> QED
      BY <3>8 DEF at
  <2> QED
    BY <2>7
<1>10. 0..z \subseteq S
  <2> HIDE DEF S
  <2> QED
    BY <1>1, <1>8, <1>9, DownFrom
<1>11. Claim(h)
  <2>1. h \in S /\ ~(h < h)
    BY <1>1, <1>4, <1>10
  <2> HIDE DEF Claim
  <2> QED
    BY <2>1
<1>12. chars[i + h - 2] \in Range(chars) /\ (IsRangeSign(w, f, h) => chars[i + h - 2] = w[h - 1])
  <2>1. h - 1 \in 1..z /\ i + (h - 1) - 1 = i + h - 2
    BY <1>1, <1>4
  <2>2. chars[i + h - 2] = w[h - 1] /\ i + h - 2 \in 1..Len(chars)
    BY <1>1, <2>1
  <2> QED
    BY <1>5, <2>2 DEF Range
<1>13. hit[<<i + h - 1, chars[i + h - 2]>>] <=> \E m \in h..(z - 1) : Item(m)
  <2> HIDE DEF hit, Item
  <2> QED
    BY <1>11, <1>12
<1>14. ItemHit(i + h - 1, chars[i + h - 2], ks) = hit[<<i + h - 1, chars[i + h - 2]>>]
  BY DEF ItemHit, Hit
<1>15. hit[<<i + h - 1, chars[i + h - 2]>>] \in BOOLEAN
  BY <1>5, <1>6, <1>7, <1>12, HitSteps
<1> HIDE DEF hit
<1> QED
  BY <1>13, <1>14, <1>15 DEF w, i, f, z

\* pat_next finds the end of such a bracket, and match_bracket what it stands for.
LEMMA BracketIsRead ==
    ASSUME Given, NEW b \in 0..N, NEW a \in 0..(b - 1), PlainBracket(toks[a + 1])
    PROVE  LET tok == toks[a + 1]
               t   == pat_next(Bound(a), Bound(b))
           IN /\ t.inc = Len(tok.text)
              /\ t.c = "STAR" <=> tok.star
              /\ t.c # "END"
              /\ t.c = "/" <=> IsSlash(tok)
              /\ ~tok.star => \A k \in Range(text) : Takes(t, Bound(a), k) <=> Stands(tok, k)
<1> DEFINE tok == toks[a + 1]
           w   == tok.text
           i   == Bound(a)
           end == Bound(b)
           f   == FirstItem(tok)
           z   == Len(w)
           t   == pat_next(i, end)
<1>0. N \in Nat /\ a \in 0..(N - 1) /\ a + 1 \in 0..N /\ a + 1 \in 1..N /\ DOMAIN toks = 1..N
  BY GivenTypes
<1>1. /\ z \in Nat /\ i \in Nat /\ f \in {2, 3} /\ f < z
      /\ \A j \in 1..z : /\ i + j - 1 \in 1..Len(chars) /\ chars[i + j - 1] = w[j]
                         /\ w[j] \notin Signs \cup {NUL}
      /\ i + z <= Len(chars) + 1
  BY <1>0, BracketCharacters
<1>2. \A e \in Nat, j \in 1..z : i + z <= e => PatAt(i + j - 1, e) = w[j]
  BY <1>0, BracketCharacters
<1>3. /\ \A j \in (f + 1)..(z - 1) : w[j] # "]"
      /\ \A j \in f..(z - 1) : w[j] = "[" => w[j + 1] \notin {":", ".", "="}
      /\ w[1] = "[" /\ w[z] = "]"
      /\ tok.inv \in BOOLEAN /\ (tok.inv <=> w[2] \in {"^", "!"})
  BY DEF PlainBracket
<1>4. \A k \in Compared : k \in tok.set <=> \E j \in f..(z - 1) : IsItem(w, f, j, k)
  BY DEF PlainBracket
<1>5. end \in Nat /\ i + z <= end
  <2>1. Bound(a + 1) = i + z /\ end \in Nat /\ Bound(a + 1) \in Nat
    BY <1>0, Bounds DEF Word
  <2>2. Bound(a + 1) <= end
    <3>1. a + 1 = b \/ a + 1 < b
      BY <1>0
    <3>2. a + 1 < b => Bound(a + 1) < end
      BY <1>0, BoundsGrow
    <3> QED
      BY <2>1, <3>1, <3>2
  <2> QED
    BY <2>1, <2>2
<1>6. f = IF w[2] \in {"^", "!"} THEN 3 ELSE 2
  BY <1>3 DEF FirstItem
<1>7. ~tok.star /\ ~IsSlash(tok)
  <2>1. tok.star => w = <<"*">>
    BY <1>0 DEF Given, IsPattern
  <2>2. w # <<"*">> /\ w # <<"/">> /\ w # <<"\\", "/">>
    BY <1>1, <1>3
  <2> QED
    BY <2>1, <2>2 DEF IsSlash
<1> HIDE DEF tok, w, i, end, f, z
<1>8. PatAt(i + 1, end) = w[2] /\ chars[i + 1] = w[2] /\ chars[i] = "[" /\ i < end
  <2>1. 1 \in 1..z /\ 2 \in 1..z /\ i + 1 - 1 = i /\ i + 2 - 1 = i + 1
    BY <1>1
  <2> QED
    BY <1>1, <1>2, <1>3, <1>5, <2>1
<1>9. AfterNegation(i, end) = i + f - 1 /\ PatAt(i + f - 1, end) = w[f] /\ chars[i + f - 1] = w[f]
  <2>1. f \in 1..z
    BY <1>1
  <2>2. PatAt(i + f - 1, end) = w[f] /\ chars[i + f - 1] = w[f]
    BY <1>1, <1>2, <1>5, <2>1
  <2>3. AfterNegation(i, end) = IF w[2] \in {"^", "!"} THEN i + 2 ELSE i + 1
    BY <1>8 DEF AfterNegation
  <2>4. AfterNegation(i, end) = i + f - 1
    BY <1>1, <1>6, <2>3
  <2> QED
    BY <2>2, <2>4
<1>10. BracketEnd(CloseSearch(i, end), end) = i + z - 1
  <2> DEFINE y == i + z - 1
  <2> DEFINE h == IF w[f] = "]" THEN f + 1 ELSE f
             first == i + h - 1
  <2>1. CloseSearch(i, end) = first
    BY <1>1, <1>9 DEF CloseSearch
  <2>2. h \in f..z /\ h \in Nat /\ (w[f] = "]" => h = f + 1)
    BY <1>1
  <2> HIDE DEF h
  <2>3. first \in 0..end /\ y \in first..(end - 1) /\ first \in Nat
    BY <1>1, <1>5, <2>2
  <2>4. chars[y] = "]"
    <3>1. z \in 1..z
      BY <1>1
    <3> QED
      BY <1>1, <1>3, <3>1
  <2>5. ASSUME NEW k \in first..(y - 1)
        PROVE  PatAt(k, end) \notin {NUL, "]"} /\ ~IsSymbol(k, end)
    <3> DEFINE j == k - i + 1
    <3>1. /\ j \in h..(z - 1) /\ k = i + j - 1 /\ k + 1 = i + (j + 1) - 1
          /\ j \in 1..z /\ j + 1 \in 1..z /\ j \in f..(z - 1) /\ (j = f \/ j \in (f + 1)..(z - 1))
      BY <1>1, <2>2, <2>3
    <3> HIDE DEF j
    <3>2. PatAt(k, end) = w[j] /\ PatAt(k + 1, end) = w[j + 1] /\ w[j] # NUL
      BY <1>1, <1>2, <1>5, <3>1
    <3>3. w[j] # "]"
      <4>1. CASE j = f
        <5>1. w[f] # "]"
          BY <1>1, <2>2, <3>1, <4>1
        <5> QED
          BY <4>1, <5>1
      <4>2. CASE j \in (f + 1)..(z - 1)
        BY <1>3, <4>2
      <4> QED
        BY <3>1, <4>1, <4>2
    <3>4. w[j] = "[" => w[j + 1] \notin {":", ".", "="}
      BY <1>3, <3>1
    <3> QED
      BY <3>2, <3>3, <3>4 DEF IsSymbol
  <2> HIDE DEF first, y
  <2>6. BracketEnd(first, end) = y
    BY <1>5, <2>1, <2>3, <2>4, <2>5, BracketCloses
  <2> QED
    BY <2>1, <2>6 DEF y
<1>11. t = [c |-> "BRACKET", inc |-> z]
  <2>1. i + z - 1 < end /\ i + z - 1 + 1 - i = z
    BY <1>1, <1>5
  <2>2. ~(i >= end)
    BY <1>1, <1>5, <1>8
  <2> QED
    BY <1>8, <1>10, <2>1, <2>2 DEF pat_next
<1>12. ASSUME NEW k \in Range(text) PROVE Takes(t, i, k) <=> Stands(tok, k)
  <2> DEFINE ks == {k, Kfold(k)}
             Item(j) == \E c \in ks : IsItem(w, f, j, c)
             hit == \E j \in f..(z - 1) : Item(j)
  <2>1. Takes(t, i, k) <=> match_bracket(i, k)
    BY <1>11 DEF Takes
  <2>2. k \in Compared /\ Kfold(k) \in Compared
    BY DEF Compared
  <2>3. ks \cap tok.set # {} <=> hit
    <3>1. \A c \in ks : c \in tok.set <=> \E j \in f..(z - 1) : IsItem(w, f, j, c)
      BY <1>4, <2>2
    <3> HIDE DEF ks
    <3> QED
      BY <3>1
  <2>4. Stands(tok, k) <=> (hit <=> ~tok.inv)
    <3>1. Stands(tok, k) <=> ((ks \cap tok.set # {}) # tok.inv)
      BY DEF Stands
    <3> HIDE DEF ks, hit
    <3> QED
      BY <1>3, <2>3, <3>1
  <2> DEFINE first == i + f - 1
             found == IF chars[first] \in {"]", "-"}
                      THEN k = chars[first] \/ ItemHit(first + 1, chars[first], ks)
                      ELSE ItemHit(first, chars[first - 1], ks)
  <2>5. (found <=> hit) /\ found \in BOOLEAN
    <3>1. CASE w[f] \in {"]", "-"}
      <4>1. ItemHit(first + 1, chars[first], ks) <=> \E j \in (f + 1)..(z - 1) : Item(j)
        <5>1. f + 1 \in f..z /\ f + 1 # f
          BY <1>1
        <5>2. first + 1 = i + (f + 1) - 1 /\ first = i + (f + 1) - 2
          BY <1>1
        <5> HIDE DEF ks, first
        <5> QED
          BY <1>0, <5>1, <5>2, ItemsAreHit DEF i, w, f, z, tok
      <4>2. Item(f) <=> k = w[f]
        <5>1. Item(f) <=> w[f] \in ks
          BY <1>1 DEF IsItem, IsRangeSign
        <5>2. Kfold(k) = w[f] => k = w[f]
          BY <3>1 DEF Kfold, casefold, Other
        <5> QED
          BY <5>1, <5>2
      <4>3. \A j \in f..(z - 1) : j = f \/ j \in (f + 1)..(z - 1)
        BY <1>1
      <4>4. f \in f..(z - 1) /\ \A j \in (f + 1)..(z - 1) : j \in f..(z - 1)
        BY <1>1
      <4>5. found = (k = w[f] \/ ItemHit(first + 1, chars[first], ks))
        BY <1>9, <3>1
      <4> HIDE DEF Item, ks, found, first
      <4> QED
        BY <4>1, <4>2, <4>3, <4>4, <4>5
    <3>2. CASE w[f] \notin {"]", "-"}
      <4>1. /\ ItemHit(first, chars[first - 1], ks) \in BOOLEAN
            /\ ItemHit(first, chars[first - 1], ks) <=> \E j \in f..(z - 1) : Item(j)
        <5>1. f \in f..z
          BY <1>1
        <5>2. first - 1 = i + f - 2
          BY <1>1
        <5> HIDE DEF ks
        <5> QED
          BY <1>0, <3>2, <5>1, <5>2, ItemsAreHit DEF i, w, f, z, tok
      <4>2. found = ItemHit(first, chars[first - 1], ks)
        BY <1>9, <3>2
      <4> HIDE DEF Item, ks, found, first
      <4> QED
        BY <4>1, <4>2
    <3> QED
      BY <3>1, <3>2
  <2>6. match_bracket(i, k) <=> (found <=> ~tok.inv)
    <3>1. (IF chars[i + 1] \in {"^", "!"} THEN i + 2 ELSE i + 1) = first
      BY <1>1, <1>6, <1>8
    <3>2. match_bracket(i, k) = (found # (chars[i + 1] \in {"^", "!"}))
      <4> HIDE DEF ks
      <4> QED
        BY <3>1 DEF match_bracket, ks
    <3>3. tok.inv = (chars[i + 1] \in {"^", "!"})
      BY <1>3, <1>8
    <3> HIDE DEF found
    <3>4. match_bracket(i, k) = (found # tok.inv)
      BY <3>2, <3>3
    <3> QED
      BY <1>3, <2>5, <3>4
  <2> HIDE DEF hit, found
  <2> QED
    BY <2>1, <2>4, <2>5, <2>6
<1> HIDE DEF t
<1>13. t.c = "BRACKET" /\ t.inc = z
  BY <1>11
<1> QED
  BY <1>7, <1>12, <1>13 DEF t, tok, w, i, end, z

-----------------------------------------------------------------------------
(* Patterns without classes *)

\* A token that is a star, a question mark, an ordinary character or an escaped one.
Plain(tok) ==
    \/ tok.star
    \/ /\ tok.inv = FALSE
       /\ \/ tok.text = <<"?">> /\ Range(text) \subseteq tok.set
          \/ \E c : /\ c \notin {"[", "*", "?"} /\ (c = "\\" => "NOESCAPE" \in flags)
                    /\ tok.text = <<c>> /\ tok.set = {c}
          \/ \E c : "NOESCAPE" \notin flags /\ tok.text = <<"\\", c>> /\ tok.set = {c}

\* What the caller gives has no classes and no range that ends in "-".
PlainPattern == \A i \in 1..Len(toks) : Plain(toks[i]) \/ PlainBracket(toks[i])

\* What pat_next finds where a token of two characters begins, or of one.
LEMMA FirstTwo ==
    ASSUME Given, NEW b \in 0..N, NEW a \in 0..(b - 1)
    PROVE  /\ Bound(a) < Bound(b) /\ Bound(a) \in Nat /\ Bound(b) \in Nat
           /\ chars[Bound(a)] = toks[a + 1].text[1]
           /\ Len(toks[a + 1].text) = 2 =>
                /\ PatAt(Bound(a) + 1, Bound(b)) = toks[a + 1].text[2]
                /\ chars[Bound(a) + 1] = toks[a + 1].text[2]
           /\ \A i \in 1..Len(toks[a + 1].text) : toks[a + 1].text[i] \notin Signs \cup {NUL}
<1>0. /\ N \in Nat /\ b \in Nat /\ a \in 0..N /\ a < b /\ a + 1 \in 1..N /\ a \in 0..(N - 1)
      /\ a + 1 \in 0..N /\ DOMAIN toks = 1..N
  BY GivenTypes
<1>1. Bound(a) < Bound(b) /\ Bound(a) \in Nat /\ Bound(b) \in Nat /\ Bound(a + 1) \in Nat
  BY <1>0, Bounds, BoundsGrow
<1>2. chars[Bound(a)] = toks[a + 1].text[1]
  BY <1>0, FirstOfToken DEF Word
<1>3. ASSUME Len(toks[a + 1].text) = 2
      PROVE  /\ PatAt(Bound(a) + 1, Bound(b)) = toks[a + 1].text[2]
             /\ chars[Bound(a) + 1] = toks[a + 1].text[2]
  <2>1. chars[Bound(a) + 2 - 1] = toks[a + 1].text[2]
    <3>1. 2 \in 1..Len(Word(a + 1))
      BY <1>3 DEF Word
    <3> QED
      BY <1>0, <3>1, CharacterOfToken DEF Word
  <2>2. Bound(a) + 2 - 1 = Bound(a) + 1
    BY <1>1
  <2>3. Bound(a + 1) = Bound(a) + 2
    BY <1>0, <1>3, Bounds DEF Word
  <2>4. a + 1 = b \/ Bound(a + 1) < Bound(b)
    BY <1>0, BoundsGrow
  <2>5. Bound(a) + 1 < Bound(b)
    BY <1>1, <2>3, <2>4
  <2> QED
    BY <2>1, <2>2, <2>5 DEF PatAt
<1>4. \A i \in 1..Len(toks[a + 1].text) : toks[a + 1].text[i] \notin Signs \cup {NUL}
  <2> DEFINE w == toks[a + 1].text
  <2>1. w \in Seq(Range(w)) /\ Range(w) \cap (Signs \cup {NUL}) = {}
    BY <1>0 DEF Given, IsPattern, IsString
  <2> HIDE DEF w
  <2>2. \A i \in 1..Len(w) : w[i] \in Range(w)
    BY <2>1
  <2>3. \A i \in 1..Len(w) : w[i] \notin Signs \cup {NUL}
    BY <2>1, <2>2
  <2> QED
    BY <2>3 DEF w
<1> QED
  BY <1>1, <1>2, <1>3, <1>4

\* pat_next on a plain token.
LEMMA PlainIsRead ==
    ASSUME Given, NEW b \in 0..N, NEW a \in 0..(b - 1), Plain(toks[a + 1])
    PROVE  LET tok == toks[a + 1]
               t   == pat_next(Bound(a), Bound(b))
           IN /\ t.inc = Len(tok.text)
              /\ t.c = "STAR" <=> tok.star
              /\ t.c # "END"
              /\ t.c = "/" <=> IsSlash(tok)
              /\ ~tok.star => \A k \in Range(text) : Takes(t, Bound(a), k) <=> Stands(tok, k)
<1> DEFINE tok == toks[a + 1]
           t   == pat_next(Bound(a), Bound(b))
           w   == tok.text
           i   == Bound(a)
           end == Bound(b)
<1>0. a + 1 \in 1..N /\ N \in Nat /\ DOMAIN toks = 1..N
  BY GivenTypes
<1>1. /\ ~(i >= end) /\ chars[i] = w[1]
      /\ Len(w) = 2 => PatAt(i + 1, end) = w[2] /\ chars[i + 1] = w[2]
      /\ \A j \in 1..Len(w) : w[j] \notin Signs \cup {NUL}
  <2>1. ~(i >= end)
    BY FirstTwo
  <2> QED
    BY <2>1, FirstTwo, Zenon
<1>2. Plain(tok) /\ tok.star \in BOOLEAN /\ (tok.star => w = <<"*">>)
  BY <1>0 DEF N, Given, IsPattern
<1>3. \A k \in Range(text) : k \notin Signs
  BY DEF Given, IsString
<1> HIDE DEF i, end, w, tok
<1>4. CASE tok.star
  <2>1. w = <<"*">> /\ chars[i] = "*"
    BY <1>1, <1>2, <1>4
  <2>2. t = [c |-> "STAR", inc |-> 1]
    BY <1>1, <2>1 DEF pat_next, i, end
  <2>3. ~IsSlash(tok) /\ Len(w) = 1
    BY <2>1 DEF IsSlash, w
  <2> QED
    BY <1>4, <2>2, <2>3 DEF tok, w
<1>5. CASE ~tok.star
  <2>0. tok.inv = FALSE
    BY <1>2, <1>5 DEF Plain
  <2>2. ASSUME NEW c, c \notin Signs, t.c = c, tok.set = {c}
        PROVE  \A k \in Range(text) : Takes(t, Bound(a), k) <=> Stands(tok, k)
    <3> SUFFICES ASSUME NEW k \in Range(text) PROVE Takes(t, Bound(a), k) <=> Stands(tok, k)
      OBVIOUS
    <3> HIDE DEF t
    <3>1. Takes(t, Bound(a), k) <=> c \in {k, Kfold(k)}
      BY <2>2 DEF Takes, Signs
    <3>2. Stands(tok, k) <=> c \in {k, Kfold(k)}
      <4>1. Stands(tok, k) <=> {k, Kfold(k)} \cap {c} # {}
        BY <2>0, <2>2 DEF Stands
      <4> QED
        BY <4>1
    <3> QED
      BY <3>1, <3>2
  <2>3. ASSUME NEW c, c \notin {"[", "*", "?"}, c = "\\" => "NOESCAPE" \in flags,
               w = <<c>>, tok.set = {c}
        PROVE  /\ t.inc = Len(w) /\ t.c # "STAR" /\ t.c # "END" /\ (t.c = "/" <=> IsSlash(tok))
               /\ \A k \in Range(text) : Takes(t, Bound(a), k) <=> Stands(tok, k)
    <3>1. chars[i] = c /\ Len(w) = 1 /\ c \notin Signs
      BY <1>1, <2>3
    <3>2. t = [c |-> c, inc |-> 1]
      BY <1>1, <2>3, <3>1 DEF pat_next, i, end
    <3>3. c = "/" <=> IsSlash(tok)
      BY <2>3 DEF IsSlash, w
    <3>4. \A k \in Range(text) : Takes(t, Bound(a), k) <=> Stands(tok, k)
      BY <2>2, <2>3, <3>1, <3>2
    <3> QED
      BY <3>1, <3>2, <3>3, <3>4 DEF Signs
  <2>4. ASSUME NEW c, "NOESCAPE" \notin flags, w = <<"\\", c>>, tok.set = {c}
        PROVE  /\ t.inc = Len(w) /\ t.c # "STAR" /\ t.c # "END" /\ (t.c = "/" <=> IsSlash(tok))
               /\ \A k \in Range(text) : Takes(t, Bound(a), k) <=> Stands(tok, k)
    <3>1. Len(w) = 2 /\ w[1] = "\\" /\ w[2] = c
      BY <2>4
    <3>2. chars[i] = "\\" /\ chars[i + 1] = c /\ PatAt(i + 1, end) # NUL /\ c \notin Signs
      BY <1>1, <3>1
    <3>3. t = [c |-> c, inc |-> 2]
      BY <1>1, <2>4, <3>2 DEF pat_next, i, end
    <3>4. c = "/" <=> IsSlash(tok)
      BY <2>4 DEF IsSlash, w
    <3>5. \A k \in Range(text) : Takes(t, Bound(a), k) <=> Stands(tok, k)
      BY <2>2, <2>4, <3>2, <3>3
    <3> QED
      BY <3>1, <3>2, <3>3, <3>4, <3>5 DEF Signs
  <2>5. /\ t.inc = Len(w) /\ t.c # "STAR" /\ t.c # "END" /\ (t.c = "/" <=> IsSlash(tok))
        /\ \A k \in Range(text) : Takes(t, Bound(a), k) <=> Stands(tok, k)
    <3>1. CASE w = <<"?">> /\ Range(text) \subseteq tok.set
      <4>1. chars[i] = "?" /\ Len(w) = 1
        BY <1>1, <3>1
      <4>2. t = [c |-> "QUESTION", inc |-> 1]
        BY <1>1, <4>1 DEF pat_next, i, end
      <4>3. ~IsSlash(tok)
        BY <3>1 DEF IsSlash, w
      <4>4. \A k \in Range(text) : Takes(t, Bound(a), k) <=> Stands(tok, k)
        <5> SUFFICES ASSUME NEW k \in Range(text) PROVE Takes(t, Bound(a), k) <=> Stands(tok, k)
          OBVIOUS
        <5>1. Takes(t, Bound(a), k)
          BY <4>2 DEF Takes
        <5>2. {k, Kfold(k)} \cap tok.set # {}
          BY <3>1
        <5>3. Stands(tok, k)
          BY <2>0, <5>2 DEF Stands
        <5> QED
          BY <5>1, <5>3
      <4> QED
        BY <4>1, <4>2, <4>3, <4>4
    <3> QED
      BY <1>2, <1>5, <2>3, <2>4, <3>1 DEF Plain, w
  <2> QED
    BY <1>5, <2>5 DEF tok, w
<1> QED
  BY <1>4, <1>5

\* The two scanners agree on a pattern of plain tokens.
LEMMA PlainPatternIsRead ==
    ASSUME Given, PlainPattern
    PROVE  TokensAreRead
<1> SUFFICES ASSUME NEW a \in 0..Len(toks), NEW b \in 0..Len(toks), a < b
             PROVE  LET tok == toks[a + 1]
                        t   == pat_next(Bound(a), Bound(b))
                    IN /\ t.inc = Len(tok.text)
                       /\ t.c = "STAR" <=> tok.star
                       /\ t.c # "END"
                       /\ t.c = "/" <=> IsSlash(tok)
                       /\ ~tok.star =>
                            \A k \in Range(text) : Takes(t, Bound(a), k) <=> Stands(tok, k)
  BY DEF TokensAreRead
<1>1. N \in Nat /\ b \in 0..N /\ a \in 0..(b - 1) /\ a + 1 \in 1..N
  BY GivenTypes DEF N
<1>2. Plain(toks[a + 1]) \/ PlainBracket(toks[a + 1])
  BY <1>1 DEF PlainPattern, N
<1>3. CASE Plain(toks[a + 1])
  BY <1>1, <1>3, PlainIsRead
<1>4. CASE PlainBracket(toks[a + 1])
  BY <1>1, <1>4, BracketIsRead
<1> QED
  BY <1>2, <1>3, <1>4

\* No step changes what the caller gave.
LEMMA CallerUnchanged ==
    ASSUME [Next]_vars
    PROVE  UNCHANGED caller
BY DEF Next, vars, StartComponent, WithinComponent, Component, Prefix, Period, MatchHead, CountTail,
       FindTail, MatchTail, Sea, Try

\* The caller's pattern and string stay.
LEMMA CallerStays == Init /\ [][Next]_vars => []Given
<1>1. Init => Given
  <2> SUFFICES ASSUME Init PROVE Given
    OBVIOUS
  <2>1. PICK in \in Inputs : toks \in in.toks /\ text \in in.strs /\ flags \in in.flags
    BY DEF Init
  <2>2. IsPattern(toks) /\ IsString(text)
    BY <2>1, InputAssumption
  <2> QED
    BY <2>2 DEF Given, Init
<1>2. Given /\ [Next]_vars => Given'
  BY CallerUnchanged, CallerKept
<1> QED
  BY <1>1, <1>2, PTL

\* A pattern of stars, question marks, ordinary and escaped characters and brackets
\* without classes is read as it is written (48 to 160), wherever it is cut.
THEOREM PlainPatternsAreRead == Spec /\ PlainPattern => []ScannersAgree
<1>1. Given /\ PlainPattern => ScannersAgree
  BY PlainPatternIsRead DEF ScannersAgree
<1>2. PlainPattern /\ [Next]_vars => PlainPattern'
  <2> SUFFICES ASSUME [Next]_vars PROVE PlainPattern' = PlainPattern
    OBVIOUS
  <2>1. toks' = toks /\ text' = text /\ flags' = flags
    BY CallerUnchanged DEF caller
  <2>2. Compared' = Compared
    BY <2>1 DEF Compared, Kfold
  <2>3. \A i \in 1..Len(toks) : PlainBracket(toks[i])' = PlainBracket(toks[i])
    BY <2>1, <2>2 DEF PlainBracket, FirstItem, IsItem, IsRangeSign
  <2>4. \A i \in 1..Len(toks) : Plain(toks[i])' = Plain(toks[i])
    BY <2>1 DEF Plain
  <2> QED
    BY <2>1, <2>3, <2>4 DEF PlainPattern
<1> QED
  BY <1>1, <1>2, CallerStays, PTL DEF Spec

\* For such patterns nothing else is assumed: fnmatch decides what the pattern means, and
\* each step keeps the answer.
THEOREM PlainPatternsMatch == Spec /\ PlainPattern => [](ResultIsMeaning /\ LeftIsAsGood)
BY PlainPatternsAreRead, ResultIsMeaningHolds, LeftIsAsGoodHolds, PTL
=============================================================================
