--------------------------- MODULE Getopt_proofs ---------------------------
(***************************************************************************)
(* Theorems about getopt, for all argument vectors, option tables, option  *)
(* string prefixes, entries, settings of POSIXLY_CORRECT, and any number  *)
(* of scans one after the other.                                           *)
(*                                                                         *)
(* One invariant, IInv, carries all three.  In the middle of a scan it     *)
(* says where the words are (Arranged) and what was returned (Told): words *)
(* that were passed and are left to the caller are at [first_nonopt,       *)
(* last_nonopt), the others before and after them, and the results are     *)
(* those of the words passed, up to the letter the scan is at.  The proof  *)
(* follows a call through its parts: Permute, DashDash, BackOver, then     *)
(* ShortOption, LongOption or an operand.                                  *)
(*                                                                         *)
(* Classes, FlattenSeq and InOrder are recursive functions.  Of each the   *)
(* proofs first show that there is such a function, by the least number    *)
(* for which there were none.                                              *)
(***************************************************************************)
EXTENDS Getopt, WellFoundedInduction, TLAPS

-----------------------------------------------------------------------------
(* The invariant *)

N == Len(words)
Class == Classes(Ordering)
Kept == Left(Ordering)

\* The records are known by their fields.
Fields == {"argv", "initialized", "ordering", "optind", "first_nonopt", "last_nonopt",
           "nextchar"}
DataFields == Fields \ {"argv"}
IsState(s) == s = [x \in Fields |-> s[x]]
IsData(s) == s = [x \in DataFields |-> s[x]]

\* Vector a has every word once, and either kind of words in the order given.
Stable(a) ==
    /\ a \in [0..N -> 0..N]
    /\ a[0] = 0
    /\ \A w \in 0..N : \E i \in 0..N : a[i] = w
    /\ \A i, j \in 0..N : a[i] = a[j] => i = j
    /\ \A i, j \in 1..N : i < j /\ (a[i] \in Kept <=> a[j] \in Kept) => a[i] < a[j]

\* From optind o on nothing was moved yet; of the words before it those that are
\* left to the caller are at [f, l).
Arranged(a, f, l, o) ==
    /\ Stable(a)
    /\ \A i \in o..N : a[i] = i
    /\ \A i \in 1..(o - 1) : a[i] \in 1..(o - 1)
    /\ \A i \in 1..(o - 1) : a[i] \in Kept <=> f <= i /\ i < l

\* Word i is not the argument of the word before, nor behind the end of the options.
IsNew(i) ==
    Class[i - 1] \notin {"end", "rest"} /\ ~(Class[i - 1] = "option" /\ TakesNext(words[i - 1]))

\* The scan is inside word i, and chars are the letters to come.
InCluster(i, chars) ==
    LET text == words[i].text
        passed == Len(text) - Len(chars)
    IN /\ i \in 1..N
       /\ IsNew(i)
       /\ words[i].type = "short"
       /\ passed \in 0..(LastLetter(words[i]) - 1)
       /\ chars = SubSeq(text, passed + 1, Len(text))

Segments(s) ==
    /\ s.optind \in 1..argc
    /\ s.first_nonopt \in Nat /\ 1 <= s.first_nonopt
    /\ s.last_nonopt \in Nat /\ s.first_nonopt <= s.last_nonopt /\ s.last_nonopt <= s.optind
    /\ s.ordering # "PERMUTE" => s.first_nonopt = s.last_nonopt
    /\ Arranged(s.argv, s.first_nonopt, s.last_nonopt, s.optind)

\* A scan that can go on.
Scanning(s) ==
    /\ IsState(s)
    /\ s.initialized = TRUE
    /\ s.ordering = Ordering
    /\ Segments(s)
    /\ s.optind < argc /\ s.nextchar = << >> => IsNew(s.optind)
    /\ s.nextchar # << >> => InCluster(s.optind, s.nextchar)

\* What the words up to k are expected to return.
Part(i) ==
    IF Class[i] = "operand" /\ Ordering = "RETURN_IN_ORDER" THEN <<Result("operand", Word(i))>>
    ELSE IF Class[i] # "option" THEN << >>
    ELSE IF words[i].type = "long" THEN <<LongResult(i)>>
    ELSE [j \in 1..LastLetter(words[i]) |-> LetterResult(i, j)]
Parts == [i \in 1..N |-> Part(i)]
Flat == LET flatten[i \in 1..N] == IF i = 1 THEN Parts[i] ELSE flatten[i - 1] \o Parts[i]
        IN flatten
UpToWord(k) == IF k = 0 THEN << >> ELSE Flat[k]

\* res is what a scan that has come to s was to return.
Told(s, res) ==
    res = UpToWord(s.optind - 1) \o
            (IF s.nextchar = << >> THEN << >>
             ELSE SubSeq(Part(s.optind), 1, Len(words[s.optind].text) - Len(s.nextchar)))

State == [field \in {"argv"} \cup DOMAIN d |-> IF field = "argv" THEN argv ELSE Begin[field]]

\* A scan that has not begun.
Fresh ==
    /\ argv = Given(words)
    /\ results = << >>
    /\ \/ optreset = 1
       \/ optind = 0
       \/ optind = 1 /\ d.initialized = FALSE
       \/ /\ optind = 1
          /\ d.initialized = TRUE
          /\ d.ordering = Ordering
          /\ d.nextchar = << >>
          /\ d.first_nonopt \in Nat /\ 1 <= d.first_nonopt
          /\ d.last_nonopt \in Nat /\ 1 <= d.last_nonopt

Midway ==
    /\ optreset = 0
    /\ optind # 0
    /\ \E s \in {State}, res \in {results} : Scanning(s) /\ Told(s, res)

\* At its end the words that are left to the caller are those from optind on.
EndsWell(s, res) ==
    /\ IsState(s)
    /\ s.initialized = TRUE
    /\ s.ordering = Ordering
    /\ s.nextchar = << >>
    /\ s.optind \in 1..argc
    /\ s.first_nonopt \in Nat /\ 1 <= s.first_nonopt
    /\ s.last_nonopt \in Nat /\ 1 <= s.last_nonopt
    /\ Stable(s.argv)
    /\ \A i \in 1..N : s.argv[i] \in Kept <=> s.optind <= i
    /\ res = UpToWord(N)

Ended == optreset = 0 /\ \E s \in {State}, res \in {results} : EndsWell(s, res)

Inputs ==
    /\ words \in Arguments \cup LaterArguments
    /\ prefix \in OptstringPrefixes
    /\ IsData(d)

IInv ==
    /\ Inputs
    /\ done \in BOOLEAN
    /\ ~done => Fresh \/ Midway
    /\ done => Ended

-----------------------------------------------------------------------------
(* Induction, over the least element of a set *)

LEMMA LeastElement ==
    ASSUME NEW T \in SUBSET Nat, T # {}
    PROVE  \E x \in T : \A y \in T : x <= y
<1> DEFINE R == OpToRel(<, Nat)
<1>1. IsWellFoundedOn(R, Nat)
  BY NatLessThanWellFounded, Zenon
<1>2. \A x, y \in Nat : <<x, y>> \in R <=> x < y
  BY DEF OpToRel
<1> HIDE DEF R
<1>3. PICK x \in T : \A y \in T : ~(<<y, x>> \in R)
  BY <1>1, WFMin
<1>4. \A y \in T : x <= y
  <2> SUFFICES ASSUME NEW y \in T, ~(x <= y) PROVE FALSE
    OBVIOUS
  <2>1. x \in Nat /\ y \in Nat /\ y < x
    OBVIOUS
  <2> QED
    BY <1>2, <1>3, <2>1
<1> QED
  BY <1>4

\* Induction up to n, over the set of the numbers for which something holds.
LEMMA UpTo ==
    ASSUME NEW n \in Nat, NEW S, 0 \in S, \A k \in 1..n : k - 1 \in S => k \in S
    PROVE  0..n \subseteq S
<1> SUFFICES ASSUME (0..n) \ S # {} PROVE FALSE
  OBVIOUS
<1> DEFINE T == (0..n) \ S
<1>1. T \in SUBSET Nat /\ T # {}
  OBVIOUS
<1>2. PICK k \in T : \A j \in T : k <= j
  BY <1>1, LeastElement
<1>3. k \in 1..n /\ k - 1 \in 0..n /\ k - 1 < k
  BY <1>2
<1>4. k - 1 \in S
  BY <1>2, <1>3
<1> QED
  BY <1>2, <1>3, <1>4

-----------------------------------------------------------------------------
(* The words and their classes *)

LEMMA WordsAreWords ==
    ASSUME Inputs
    PROVE  /\ N \in Nat
           /\ argc = N + 1
           /\ \A i \in 1..N : IsWord(words[i])
<1>1. words \in Seq(ToSet(words)) /\ \A i \in DOMAIN words : IsWord(words[i])
  BY ArgumentsAssumption DEF Inputs
<1>2. N \in Nat /\ DOMAIN words = 1..N
  BY <1>1 DEF N
<1> QED
  BY <1>1, <1>2 DEF N, argc

LEMMA OrderingValues ==
    ASSUME Inputs
    PROVE  Ordering \in {"RETURN_IN_ORDER", "REQUIRE_ORDER", "PERMUTE"}
<1>1. prefix \in {"", "+", "-", ":", "+:", "-:"}
  BY OptionAssumption DEF Inputs
<1> QED
  BY <1>1 DEF Ordering, posixly_correct

\* The class of a word by that of the word before.
ClassAfter(class, i) ==
    IF class \in {"end", "rest"} THEN "rest"
    ELSE IF class = "option" /\ TakesNext(words[i - 1]) THEN "argument"
    ELSE IF words[i].type = "operand"
         THEN IF Ordering = "REQUIRE_ORDER" THEN "rest" ELSE "operand"
    ELSE IF words[i].type = "end" THEN "end" ELSE "option"

\* There is a function as Classes recursively describes it.
LEMMA ClassesExist ==
    ASSUME Inputs
    PROVE  Class = [i \in 0..N |-> IF i = 0 THEN "program" ELSE ClassAfter(Class[i - 1], i)]
<1> DEFINE Is(f, m) == f = [i \in 0..m |-> IF i = 0 THEN "program"
                                           ELSE ClassAfter(f[i - 1], i)]
           Has(m) == \E f : Is(f, m)
           S == {m \in 0..N : Has(m)}
<1>0. N \in Nat
  BY WordsAreWords
<1>1. 0 \in S
  <2> DEFINE f == [i \in 0..0 |-> "program"]
  <2>1. Is(f, 0)
    OBVIOUS
  <2>2. Has(0)
    BY <2>1
  <2> HIDE DEF Has
  <2> QED
    BY <1>0, <2>2
<1>2. \A k \in 1..N : k - 1 \in S => k \in S
  <2> SUFFICES ASSUME NEW k \in 1..N, Has(k - 1) PROVE Has(k)
    <3> HIDE DEF Has
    <3> QED
      BY <1>0
  <2>1. PICK e : Is(e, k - 1)
    OBVIOUS
  <2> DEFINE f == [i \in 0..k |-> IF i < k THEN e[i] ELSE ClassAfter(e[k - 1], k)]
  <2>2. k \in Nat /\ k - 1 \in 0..(k - 1) /\ DOMAIN e = 0..(k - 1)
    BY <1>0, <2>1
  <2>3. \A i \in 0..(k - 1) : f[i] = e[i] /\ i \in 0..k /\ i # k
    BY <2>2
  <2>4. ASSUME NEW i \in 0..k
        PROVE  f[i] = IF i = 0 THEN "program" ELSE ClassAfter(f[i - 1], i)
    <3>1. CASE i < k
      <4>1. i \in 0..(k - 1) /\ (i # 0 => i - 1 \in 0..(k - 1))
        BY <2>2, <3>1
      <4>2. e[i] = IF i = 0 THEN "program" ELSE ClassAfter(e[i - 1], i)
        BY <2>1, <4>1
      <4> QED
        BY <2>3, <4>1, <4>2
    <3>2. CASE i = k
      <4>1. f[k] = ClassAfter(e[k - 1], k) /\ k # 0
        BY <2>2
      <4>2. f[k - 1] = e[k - 1]
        BY <2>2, <2>3
      <4> QED
        BY <3>2, <4>1, <4>2
    <3> QED
      BY <2>2, <3>1, <3>2
  <2>5. f = [i \in 0..k |-> f[i]]
    OBVIOUS
  <2> HIDE DEF f
  <2>6. Is(f, k)
    BY <2>4, <2>5
  <2> QED
    BY <2>6
<1>3. N \in S
  <2>1. 0..N \subseteq S
    <3> HIDE DEF S
    <3> QED
      BY <1>0, <1>1, <1>2, UpTo
  <2>2. N \in 0..N
    BY <1>0
  <2> HIDE DEF S
  <2> QED
    BY <2>1, <2>2
<1>4. \E f : Is(f, N)
  <2>1. Has(N)
    <3> HIDE DEF Has
    <3> QED
      BY <1>3
  <2> QED
    BY <2>1
<1>5. Class = CHOOSE f : Is(f, N)
  BY DEF Class, Classes, ClassAfter, N
<1>6. Is(Class, N)
  BY <1>4, <1>5
<1> QED
  BY <1>6

LEMMA ClassSteps ==
    ASSUME Inputs
    PROVE  /\ Class[0] = "program"
           /\ \A i \in 1..N : Class[i] = ClassAfter(Class[i - 1], i)
<1>0. N \in Nat
  BY WordsAreWords
<1>1. Class = [i \in 0..N |-> IF i = 0 THEN "program" ELSE ClassAfter(Class[i - 1], i)]
  BY ClassesExist
<1>2. Class[0] = "program"
  BY <1>0, <1>1
<1>3. ASSUME NEW i \in 1..N PROVE Class[i] = ClassAfter(Class[i - 1], i)
  <2>1. i \in 0..N /\ i # 0
    BY <1>0
  <2> QED
    BY <1>1, <2>1
<1> QED
  BY <1>2, <1>3

\* The class of a word the scan looks at is that of its type.
LEMMA ClassOfNew ==
    ASSUME Inputs, NEW i \in 1..N, IsNew(i)
    PROVE  Class[i] = IF words[i].type = "operand"
                      THEN IF Ordering = "REQUIRE_ORDER" THEN "rest" ELSE "operand"
                      ELSE IF words[i].type = "end" THEN "end" ELSE "option"
  BY ClassSteps DEF ClassAfter, IsNew

LEMMA FirstIsNew == ASSUME Inputs PROVE IsNew(1)
<1>1. 1 - 1 = 0
  OBVIOUS
<1> QED
  BY <1>1, ClassSteps DEF IsNew

\* Nothing behind the end of the options is an option.
LEMMA RestIsRest ==
    ASSUME Inputs, NEW i \in 0..N, Class[i] \in {"end", "rest"},
           NEW j \in (i + 1)..N
    PROVE  Class[j] = "rest"
<1> DEFINE S == {k \in 0..N : k > i => Class[k] = "rest"}
<1>0. N \in Nat
  BY WordsAreWords
<1>1. 0 \in S
  BY <1>0
<1>2. \A k \in 1..N : k - 1 \in S => k \in S
  <2> SUFFICES ASSUME NEW k \in 1..N, k - 1 \in S, k > i PROVE Class[k] = "rest"
    BY <1>0
  <2>1. Class[k - 1] \in {"end", "rest"}
    <3>1. CASE k - 1 = i
      BY <3>1
    <3>2. CASE k - 1 # i
      <4>1. k - 1 > i
        BY <3>2, <1>0
      <4> QED
        BY <4>1
    <3> QED
      BY <3>1, <3>2
  <2> QED
    BY <2>1, ClassSteps DEF ClassAfter
<1>3. 0..N \subseteq S
  <2> HIDE DEF S
  <2> QED
    BY <1>0, <1>1, <1>2, UpTo
<1>4. j \in 0..N /\ j > i
  BY <1>0
<1> QED
  BY <1>3, <1>4

LEMMA KeptWords ==
    ASSUME Inputs
    PROVE  \A w : w \in Kept <=>
                /\ w \in 1..N
                /\ Class[w] \in IF Ordering = "PERMUTE" THEN {"operand", "rest"} ELSE {"rest"}
  BY DEF Kept, Left, Class, N

-----------------------------------------------------------------------------
(* The results *)

\* The letter takes an argument, or may take one.
TakesSome(c) == c \in DOMAIN Takes /\ Takes[c] # "none"

\* The last letter is the first that takes an argument, if there is one.
LEMMA LastLetterIs ==
    ASSUME NEW w, w.text \in Seq(ToSet(w.text)) \ {<< >>}
    PROVE  /\ Len(w.text) \in Nat
           /\ LastLetter(w) \in 1..Len(w.text)
           /\ \A j \in 1..(LastLetter(w) - 1) : ~TakesSome(w.text[j])
           /\ LastLetter(w) # Len(w.text) => TakesSome(w.text[LastLetter(w)])
<1> DEFINE len == Len(w.text)
           ends == {j \in DOMAIN w.text : TakesSome(w.text[j])}
<1>1. len \in Nat /\ DOMAIN w.text = 1..len /\ len # 0
  OBVIOUS
<1>2. ends \in SUBSET Nat /\ ends \subseteq 1..len
  BY <1>1
<1>3. LastLetter(w) = IF ends = {} THEN len ELSE CHOOSE j \in ends : \A k \in ends : j <= k
  BY DEF LastLetter, TakesSome
<1> HIDE DEF len
<1>4. CASE ends = {}
  <2>1. LastLetter(w) = len /\ len \in 1..len
    BY <1>1, <1>3, <1>4
  <2>2. \A j \in 1..len : ~TakesSome(w.text[j])
    BY <1>1, <1>4
  <2> QED
    BY <1>1, <2>1, <2>2 DEF len
<1>5. CASE ends # {}
  <2>1. \E j \in ends : \A k \in ends : j <= k
    BY <1>2, <1>5, LeastElement
  <2>2. LastLetter(w) \in ends /\ \A k \in ends : LastLetter(w) <= k
    BY <1>3, <1>5, <2>1
  <2>3. LastLetter(w) \in 1..len
    BY <1>2, <2>2
  <2>4. TakesSome(w.text[LastLetter(w)])
    BY <2>2
  <2>5. ASSUME NEW j \in 1..(LastLetter(w) - 1) PROVE ~TakesSome(w.text[j])
    <3>1. j \in 1..len /\ j < LastLetter(w)
      BY <1>1, <2>3
    <3>2. j \notin ends
      BY <1>1, <2>2, <2>3, <3>1
    <3> QED
      BY <1>1, <3>1, <3>2
  <2> QED
    BY <1>1, <2>3, <2>4, <2>5 DEF len
<1> QED
  BY <1>4, <1>5

\* All there is to be returned.
Returned == UNION {{Part(i)[j] : j \in 1..Len(Part(i))} : i \in 1..N}

LEMMA OptionHasType ==
    ASSUME Inputs, NEW i \in 1..N, Class[i] = "option"
    PROVE  /\ words[i].type \in {"short", "long"}
           /\ words[i].type = "short" => words[i].text \in Seq(ToSet(words[i].text)) \ {<< >>}
<1>1. IsWord(words[i])
  BY WordsAreWords
<1>2. words[i].type \notin {"operand", "end"}
  BY ClassSteps DEF ClassAfter
<1> QED
  BY <1>1, <1>2 DEF IsWord

LEMMA PartsAreSequences ==
    ASSUME Inputs, NEW i \in 1..N
    PROVE  Part(i) \in Seq(Returned)
<1>1. /\ Len(Part(i)) \in Nat
      /\ Part(i) = [j \in 1..Len(Part(i)) |-> Part(i)[j]]
  <2>1. CASE Class[i] = "operand" /\ Ordering = "RETURN_IN_ORDER"
    <3> DEFINE e == Result("operand", Word(i))
    <3>1. Part(i) = <<e>>
      BY <2>1 DEF Part
    <3> HIDE DEF e
    <3> QED
      BY <3>1
  <2>2. CASE Class[i] # "option" /\ ~(Class[i] = "operand" /\ Ordering = "RETURN_IN_ORDER")
    <3>1. Part(i) = << >>
      BY <2>2 DEF Part
    <3> QED
      BY <3>1
  <2>3. CASE Class[i] = "option" /\ words[i].type = "long"
    <3> DEFINE e == LongResult(i)
    <3>1. Part(i) = <<e>>
      BY <2>3 DEF Part
    <3> HIDE DEF e
    <3> QED
      BY <3>1
  <2>4. CASE Class[i] = "option" /\ words[i].type # "long"
    <3> DEFINE m == LastLetter(words[i])
    <3>1. m \in Nat
      BY <2>4, OptionHasType, LastLetterIs
    <3>2. Part(i) = [j \in 1..m |-> LetterResult(i, j)]
      BY <2>4 DEF Part
    <3> HIDE DEF m
    <3>3. Len(Part(i)) = m
      BY <3>1, <3>2
    <3> QED
      BY <3>1, <3>2, <3>3
  <2> QED
    BY <2>1, <2>2, <2>3, <2>4
<1>2. \A j \in 1..Len(Part(i)) : Part(i)[j] \in Returned
  BY DEF Returned
<1> DEFINE p == Part(i)
           m == Len(p)
<1>3. p = [j \in 1..m |-> p[j]] /\ m \in Nat /\ \A j \in 1..m : p[j] \in Returned
  BY <1>1, <1>2
<1> HIDE DEF p, m
<1>4. p \in [1..m -> Returned]
  BY <1>3
<1>5. p \in Seq(Returned)
  BY <1>3, <1>4
<1> QED
  BY <1>5 DEF p

\* How FlattenSeq goes on.
FlatAfter(flat, i) == IF i = 1 THEN Parts[i] ELSE flat[i - 1] \o Parts[i]

\* There is a function as FlattenSeq recursively describes it.
LEMMA FlatExists ==
    ASSUME Inputs
    PROVE  Flat = [i \in 1..N |-> FlatAfter(Flat, i)]
<1> DEFINE Is(f, m) == f = [i \in 1..m |-> FlatAfter(f, i)]
           Has(m) == \E f : Is(f, m)
           S == {m \in 0..N : Has(m)}
<1>0. N \in Nat
  BY WordsAreWords
<1>1. 0 \in S
  <2> DEFINE f == [i \in 1..0 |-> << >>]
  <2>1. Is(f, 0)
    <3>1. 1..0 = {}
      OBVIOUS
    <3> QED
      BY <3>1
  <2>2. Has(0)
    BY <2>1
  <2> HIDE DEF Has
  <2> QED
    BY <1>0, <2>2
<1>2. \A k \in 1..N : k - 1 \in S => k \in S
  <2> SUFFICES ASSUME NEW k \in 1..N, Has(k - 1) PROVE Has(k)
    <3> HIDE DEF Has
    <3> QED
      BY <1>0
  <2>1. PICK e : Is(e, k - 1)
    OBVIOUS
  <2> DEFINE f == [i \in 1..k |-> IF i < k THEN e[i] ELSE FlatAfter(e, k)]
  <2>2. k \in Nat /\ DOMAIN e = 1..(k - 1)
    BY <1>0, <2>1
  <2>3. \A i \in 1..(k - 1) : f[i] = e[i] /\ i \in 1..k /\ i # k
    BY <2>2
  <2>4. ASSUME NEW i \in 1..k PROVE f[i] = FlatAfter(f, i)
    <3>0. i # 1 => i - 1 \in 1..(k - 1)
      BY <2>2
    <3>1. FlatAfter(f, i) = FlatAfter(e, i)
      BY <2>3, <3>0 DEF FlatAfter
    <3>2. CASE i < k
      <4>1. i \in 1..(k - 1)
        BY <2>2, <3>2
      <4>2. e[i] = FlatAfter(e, i)
        BY <2>1, <4>1
      <4> QED
        BY <2>3, <3>1, <4>1, <4>2
    <3>3. CASE i = k
      <4>1. f[k] = FlatAfter(e, k)
        BY <2>2
      <4> QED
        BY <3>1, <3>3, <4>1
    <3> QED
      BY <2>2, <3>2, <3>3
  <2>5. f = [i \in 1..k |-> f[i]]
    OBVIOUS
  <2> HIDE DEF f
  <2>6. Is(f, k)
    BY <2>4, <2>5
  <2> QED
    BY <2>6
<1>3. N \in S
  <2>1. 0..N \subseteq S
    <3> HIDE DEF S
    <3> QED
      BY <1>0, <1>1, <1>2, UpTo
  <2>2. N \in 0..N
    BY <1>0
  <2> HIDE DEF S
  <2> QED
    BY <2>1, <2>2
<1>4. \E f : Is(f, N)
  <2>1. Has(N)
    <3> HIDE DEF Has
    <3> QED
      BY <1>3
  <2> QED
    BY <2>1
<1>5. Flat = CHOOSE f : Is(f, N)
  BY DEF Flat, FlatAfter
<1>6. Is(Flat, N)
  BY <1>4, <1>5
<1> QED
  BY <1>6

LEMMA UpToSteps ==
    ASSUME Inputs
    PROVE  /\ UpToWord(0) = << >>
           /\ \A k \in 0..N : UpToWord(k) \in Seq(Returned)
           /\ \A k \in 1..N : UpToWord(k) = UpToWord(k - 1) \o Part(k)
<1> DEFINE S == {k \in 0..N : UpToWord(k) \in Seq(Returned)}
<1>0. N \in Nat
  BY WordsAreWords
<1>1. UpToWord(0) = << >>
  BY DEF UpToWord
<1>2. \A k \in 1..N : UpToWord(k) = UpToWord(k - 1) \o Part(k)
  <2> SUFFICES ASSUME NEW k \in 1..N PROVE UpToWord(k) = UpToWord(k - 1) \o Part(k)
    OBVIOUS
  <2>1. UpToWord(k) = FlatAfter(Flat, k)
    BY <1>0, FlatExists DEF UpToWord
  <2>2. CASE k = 1
    <3>1. Parts[k] = Part(k) /\ Part(k) \in Seq(Returned)
      BY PartsAreSequences DEF Parts
    <3>2. << >> \o Part(k) = Part(k)
      BY <3>1
    <3>3. UpToWord(k - 1) = << >>
      BY <1>1, <2>2
    <3> QED
      BY <2>1, <2>2, <3>1, <3>2, <3>3 DEF FlatAfter
  <2>3. CASE k # 1
    <3>1. Parts[k] = Part(k)
      BY DEF Parts
    <3>2. UpToWord(k - 1) = Flat[k - 1]
      BY <2>3, <1>0 DEF UpToWord
    <3> QED
      BY <2>1, <2>3, <3>1, <3>2 DEF FlatAfter
  <2> QED
    BY <2>2, <2>3
<1>3. 0 \in S
  <2>1. << >> \in Seq(Returned)
    OBVIOUS
  <2>2. 0 \in 0..N
    BY <1>0
  <2>3. UpToWord(0) \in Seq(Returned)
    BY <1>1, <2>1, Zenon
  <2> QED
    BY <2>2, <2>3, Zenon
<1>4. \A k \in 1..N : k - 1 \in S => k \in S
  <2> SUFFICES ASSUME NEW k \in 1..N, k - 1 \in S PROVE k \in S
    OBVIOUS
  <2>1. Part(k) \in Seq(Returned)
    BY PartsAreSequences
  <2>2. UpToWord(k - 1) \in Seq(Returned)
    OBVIOUS
  <2>3. UpToWord(k - 1) \o Part(k) \in Seq(Returned)
    <3> DEFINE p == UpToWord(k - 1)
               q == Part(k)
    <3> HIDE DEF p, q
    <3>1. p \o q \in Seq(Returned)
      BY <2>1, <2>2 DEF p, q
    <3> QED
      BY <3>1 DEF p, q
  <2>4. k \in 0..N
    BY <1>0
  <2>5. UpToWord(k) \in Seq(Returned)
    BY <1>2, <2>3, Zenon
  <2> QED
    BY <2>4, <2>5, Zenon
<1>5. 0..N \subseteq S
  <2> HIDE DEF S
  <2> QED
    BY <1>0, <1>3, <1>4, UpTo
<1> QED
  BY <1>1, <1>2, <1>5

LEMMA ExpectedIsFlat ==
    ASSUME Inputs
    PROVE  Expected(Ordering) = UpToWord(N)
<1>1. N \in Nat
  BY WordsAreWords
<1>2. Expected(Ordering) = FlattenSeq(Parts)
  BY DEF Expected, Parts, Part, Class, N
<1>3. Len(Parts) = N
  BY <1>1 DEF Parts
<1>4. FlattenSeq(Parts) = IF N = 0 THEN Parts ELSE Flat[N]
  BY <1>3 DEF FlattenSeq, Flat
<1>5. N = 0 => Parts = << >>
  BY DEF Parts
<1> QED
  BY <1>2, <1>4, <1>5 DEF UpToWord

-----------------------------------------------------------------------------
(* What is moved *)

\* In this section and the next: bounds of the three segments.
Bounds(f, l, o) ==
    /\ f \in Nat /\ l \in Nat /\ o \in Nat
    /\ 1 <= f /\ f <= l /\ l <= o /\ o <= N + 1

LEMMA GivenIsArranged ==
    ASSUME Inputs
    PROVE  Arranged(Given(words), 1, 1, 1)
<1> DEFINE a == Given(words)
<1>0. N \in Nat
  BY WordsAreWords
<1>1. a = [i \in 0..N |-> i]
  BY DEF Given, N
<1> HIDE DEF a
<1>2. Stable(a)
  <2>1. a \in [0..N -> 0..N] /\ a[0] = 0
    BY <1>0, <1>1
  <2>2. \A w \in 0..N : \E i \in 0..N : a[i] = w
    BY <1>1
  <2> QED
    BY <1>0, <1>1, <2>1, <2>2 DEF Stable
<1>3. \A i \in 1..N : a[i] = i
  BY <1>0, <1>1
<1>4. 1..(1 - 1) = {}
  OBVIOUS
<1>5. \A i \in 1..(1 - 1) : a[i] \in 1..(1 - 1) /\ (a[i] \in Kept <=> 1 <= i /\ i < 1)
  BY <1>4
<1>6. Arranged(a, 1, 1, 1)
  BY <1>2, <1>3, <1>5, Zenon DEF Arranged
<1> QED
  BY <1>6 DEF a

\* Words that are not left to the caller are passed.
LEMMA PassOthers ==
    ASSUME Inputs, NEW a, NEW f, NEW l, NEW o, Bounds(f, l, o), Arranged(a, f, l, o),
           NEW k \in o..(N + 1), \A w \in o..(k - 1) : w \notin Kept
    PROVE  Arranged(a, f, l, k)
<1>0. N \in Nat /\ f \in Nat /\ l \in Nat /\ o \in Nat /\ l <= o /\ 1 <= o /\ k \in Nat
  BY WordsAreWords DEF Bounds
<1>1. \A i \in k..N : a[i] = i
  BY <1>0 DEF Arranged
<1>2. ASSUME NEW i \in 1..(k - 1)
      PROVE  a[i] \in 1..(k - 1) /\ (a[i] \in Kept <=> f <= i /\ i < l)
  <2>1. CASE i < o
    <3>1. i \in 1..(o - 1)
      BY <1>0, <2>1
    <3>2. a[i] \in 1..(o - 1) /\ (a[i] \in Kept <=> f <= i /\ i < l)
      BY <3>1 DEF Arranged
    <3> QED
      BY <1>0, <3>2
  <2>2. CASE o <= i
    <3>1. i \in o..N /\ i \in o..(k - 1)
      BY <1>0, <2>2
    <3>2. a[i] = i
      BY <3>1 DEF Arranged
    <3> QED
      BY <1>0, <2>2, <3>1, <3>2
  <2> QED
    BY <1>0, <2>1, <2>2
<1> QED
  BY <1>1, <1>2 DEF Arranged

\* Words that are left to the caller are passed, directly behind others such.
LEMMA PassKept ==
    ASSUME Inputs, NEW a, NEW f, NEW o, Bounds(f, o, o), Arranged(a, f, o, o),
           NEW k \in o..(N + 1), \A w \in o..(k - 1) : w \in Kept
    PROVE  Arranged(a, f, k, k)
<1>0. N \in Nat /\ f \in Nat /\ o \in Nat /\ 1 <= f /\ f <= o /\ k \in Nat
  BY WordsAreWords DEF Bounds
<1>1. \A i \in k..N : a[i] = i
  BY <1>0 DEF Arranged
<1>2. ASSUME NEW i \in 1..(k - 1)
      PROVE  a[i] \in 1..(k - 1) /\ (a[i] \in Kept <=> f <= i /\ i < k)
  <2>1. CASE i < o
    <3>1. i \in 1..(o - 1)
      BY <1>0, <2>1
    <3>2. a[i] \in 1..(o - 1) /\ (a[i] \in Kept <=> f <= i /\ i < o)
      BY <3>1 DEF Arranged
    <3>3. i < o /\ i < k
      BY <1>0, <2>1, <3>1
    <3>4. a[i] \in 1..(k - 1)
      BY <1>0, <3>2
    <3> QED
      BY <3>2, <3>3, <3>4
  <2>2. CASE o <= i
    <3>1. i \in o..N /\ i \in o..(k - 1)
      BY <1>0, <2>2
    <3>2. a[i] = i
      BY <3>1 DEF Arranged
    <3> QED
      BY <1>0, <2>2, <3>1, <3>2
  <2> QED
    BY <1>0, <2>1, <2>2
<1> QED
  BY <1>1, <1>2 DEF Arranged

\* A segment with no words may be anywhere.
LEMMA EmptySegment ==
    ASSUME Inputs, NEW a, NEW f, NEW o, Bounds(f, f, o), Arranged(a, f, f, o),
           NEW g \in Nat
    PROVE  Arranged(a, g, g, o)
<1>1. N \in Nat /\ f \in Nat /\ o \in Nat
  BY WordsAreWords DEF Bounds
<1> QED
  BY <1>1 DEF Arranged

\* Where the word that the exchange brings to k was.
Source(f, l, o, k) ==
    IF f <= k /\ k < f + (o - l) THEN k + (l - f)
    ELSE IF f + (o - l) <= k /\ k < o THEN k - (o - l)
    ELSE k

\* The exchange brings the words that are left behind all others passed.
LEMMA ExchangeArranges ==
    ASSUME Inputs, NEW a, NEW f, NEW l, NEW o, Bounds(f, l, o), Arranged(a, f, l, o)
    PROVE  Arranged(Exchanged(a, f, l, o), f + (o - l), o, o)
<1> DEFINE b == Exchanged(a, f, l, o)
           src(k) == Source(f, l, o, k)
<1>0. /\ N \in Nat /\ f \in Nat /\ l \in Nat /\ o \in Nat
      /\ 1 <= f /\ f <= l /\ l <= o /\ o <= N + 1
  BY WordsAreWords DEF Bounds
<1>1. /\ a \in [0..N -> 0..N] /\ a[0] = 0
      /\ \A w \in 0..N : \E i \in 0..N : a[i] = w
      /\ \A i, j \in 0..N : a[i] = a[j] => i = j
      /\ \A i, j \in 1..N : i < j /\ (a[i] \in Kept <=> a[j] \in Kept) => a[i] < a[j]
  BY DEF Arranged, Stable
<1>2. /\ \A i \in o..N : a[i] = i
      /\ \A i \in 1..(o - 1) : a[i] \in 1..(o - 1)
      /\ \A i \in 1..(o - 1) : a[i] \in Kept <=> f <= i /\ i < l
  BY DEF Arranged
<1>3. b = [k \in 0..N |-> a[src(k)]]
  BY <1>1 DEF Exchanged, Source
<1>4. /\ \A k \in 0..N : src(k) \in 0..N
      /\ \A k \in 1..N : src(k) \in 1..N
      /\ \A k \in 1..(o - 1) : src(k) \in 1..(o - 1)
      /\ \A k \in o..N : src(k) = k
      /\ src(0) = 0
      /\ \A j, k \in 0..N : src(j) = src(k) => j = k
  BY <1>0 DEF Source
<1>5. ASSUME NEW i \in 0..N PROVE \E k \in 0..N : src(k) = i
  <2>1. CASE f <= i /\ i < l
    <3>1. i + (o - l) \in 0..N /\ src(i + (o - l)) = i
      BY <1>0, <2>1 DEF Source
    <3> QED
      BY <3>1
  <2>2. CASE l <= i /\ i < o
    <3>1. i - (l - f) \in 0..N /\ src(i - (l - f)) = i
      BY <1>0, <2>2 DEF Source
    <3> QED
      BY <3>1
  <2>3. CASE i < f \/ o <= i
    <3>1. src(i) = i
      BY <1>0, <2>3 DEF Source
    <3> QED
      BY <3>1
  <2> QED
    BY <1>0, <2>1, <2>2, <2>3
<1>6. \A k \in 1..(o - 1) : f <= src(k) /\ src(k) < l <=> f + (o - l) <= k /\ k < o
  BY <1>0 DEF Source
<1>7. \A j, k \in 1..N :
        j < k /\ (f <= src(j) /\ src(j) < l <=> f <= src(k) /\ src(k) < l) => src(j) < src(k)
  BY <1>0 DEF Source
<1> HIDE DEF b, src
<1>8. \A k \in 0..N : b[k] = a[src(k)]
  BY <1>3
<1>9. \A i \in 1..(o - 1) : b[i] \in 1..(o - 1)
                            /\ (b[i] \in Kept <=> f + (o - l) <= i /\ i < o)
  <2> SUFFICES ASSUME NEW i \in 1..(o - 1)
               PROVE  b[i] \in 1..(o - 1)
                      /\ (b[i] \in Kept <=> f + (o - l) <= i /\ i < o)
    OBVIOUS
  <2>1. src(i) \in 1..(o - 1) /\ i \in 0..N
    BY <1>0, <1>4
  <2>2. b[i] = a[src(i)]
    BY <1>8, <2>1
  <2>3. a[src(i)] \in 1..(o - 1) /\ (a[src(i)] \in Kept <=> f <= src(i) /\ src(i) < l)
    BY <1>2, <2>1
  <2> QED
    BY <1>6, <2>2, <2>3
<1>10. \A i \in o..N : b[i] = i
  BY <1>0, <1>2, <1>4, <1>8
<1>11. Stable(b)
  <2>1. b \in [0..N -> 0..N]
    BY <1>1, <1>3, <1>4
  <2>2. b[0] = 0
    <3>1. 0 \in 0..N
      BY <1>0
    <3>2. b[0] = a[src(0)] /\ src(0) = 0
      BY <1>4, <1>8, <3>1
    <3> QED
      BY <1>1, <3>2
  <2>3. ASSUME NEW w \in 0..N PROVE \E k \in 0..N : b[k] = w
    <3>1. PICK i \in 0..N : a[i] = w
      BY <1>1
    <3>2. PICK k \in 0..N : src(k) = i
      BY <1>5
    <3> QED
      BY <1>8, <3>1, <3>2
  <2>4. ASSUME NEW i \in 0..N, NEW j \in 0..N, b[i] = b[j] PROVE i = j
    <3>1. src(i) \in 0..N /\ src(j) \in 0..N
      BY <1>4
    <3>2. a[src(i)] = a[src(j)]
      BY <1>8, <2>4
    <3>3. src(i) = src(j)
      BY <1>1, <3>1, <3>2
    <3> QED
      BY <1>4, <3>3
  <2>5. ASSUME NEW i \in 1..N, NEW j \in 1..N, i < j, b[i] \in Kept <=> b[j] \in Kept
        PROVE  b[i] < b[j]
    <3>1. i \in 0..N /\ j \in 0..N /\ src(i) \in 1..N /\ src(j) \in 1..N
      BY <1>0, <1>4
    <3>2. b[i] = a[src(i)] /\ b[j] = a[src(j)]
      BY <1>8, <3>1
    <3>3. CASE j < o
      <4>1. i \in 1..(o - 1) /\ j \in 1..(o - 1)
        BY <1>0, <2>5, <3>3
      <4>2. f <= src(i) /\ src(i) < l <=> f <= src(j) /\ src(j) < l
        BY <1>6, <1>9, <2>5, <4>1
      <4>3. src(i) < src(j)
        BY <1>7, <2>5, <4>2
      <4>4. a[src(i)] \in Kept <=> a[src(j)] \in Kept
        BY <2>5, <3>2
      <4> QED
        BY <1>1, <3>1, <3>2, <4>3, <4>4
    <3>4. CASE o <= j /\ i < o
      <4>1. b[j] = j /\ b[i] \in 1..(o - 1)
        BY <1>0, <1>9, <1>10, <3>4
      <4> QED
        BY <1>0, <3>4, <4>1
    <3>5. CASE o <= i
      <4>1. b[j] = j /\ b[i] = i
        BY <1>0, <1>10, <2>5, <3>5
      <4> QED
        BY <2>5, <4>1
    <3> QED
      BY <1>0, <3>3, <3>4, <3>5
  <2> QED
    BY <2>1, <2>2, <2>3, <2>4, <2>5 DEF Stable
<1>12. Arranged(b, f + (o - l), o, o)
  BY <1>9, <1>10, <1>11 DEF Arranged
<1> QED
  BY <1>12 DEF b

-----------------------------------------------------------------------------
(* Words that return nothing *)

LEMMA NothingMore ==
    ASSUME Inputs, NEW k \in 1..N, Part(k) = << >>
    PROVE  UpToWord(k) = UpToWord(k - 1)
<1> DEFINE u == UpToWord(k - 1)
<1>1. k - 1 \in 0..N
  BY WordsAreWords
<1>2. u \in Seq(Returned)
  BY <1>1, UpToSteps
<1>3. UpToWord(k) = u \o << >>
  BY UpToSteps
<1> HIDE DEF u
<1>4. u \o << >> = u
  BY <1>2
<1> QED
  BY <1>3, <1>4 DEF u

LEMMA RestReturnsNothing ==
    ASSUME Inputs, NEW i \in 1..N, Class[i] \in {"end", "rest"}
    PROVE  UpToWord(N) = UpToWord(i - 1)
<1> DEFINE S == {k \in 0..N : k >= i - 1 => UpToWord(k) = UpToWord(i - 1)}
<1>0. N \in Nat
  BY WordsAreWords
<1>1. 0 \in S
  <2>1. 0 >= i - 1 => i - 1 = 0
    BY <1>0
  <2> QED
    BY <1>0, <2>1
<1>2. \A k \in 1..N : k - 1 \in S => k \in S
  <2> SUFFICES ASSUME NEW k \in 1..N, k - 1 \in S, k >= i - 1
               PROVE  UpToWord(k) = UpToWord(i - 1)
    BY <1>0
  <2>1. CASE k = i - 1
    BY <2>1
  <2>2. CASE k # i - 1
    <3>1. k = i \/ k \in (i + 1)..N
      BY <1>0, <2>2
    <3>2. Class[k] \in {"end", "rest"}
      <4>1. i \in 0..N
        BY <1>0
      <4> QED
        BY <3>1, <4>1, RestIsRest
    <3>3. Part(k) = << >>
      BY <3>2 DEF Part
    <3>4. UpToWord(k) = UpToWord(k - 1)
      BY <3>3, NothingMore
    <3>5. k - 1 >= i - 1
      BY <1>0, <3>1
    <3> QED
      BY <3>4, <3>5
  <2> QED
    BY <2>1, <2>2
<1>3. 0..N \subseteq S
  <2> HIDE DEF S
  <2> QED
    BY <1>0, <1>1, <1>2, UpTo
<1>4. N \in 0..N /\ N >= i - 1
  BY <1>0
<1> QED
  BY <1>3, <1>4

\* Operands from o to k - 1 are passed.
LEMMA OperandsArePassed ==
    ASSUME Inputs, Ordering = "PERMUTE", NEW o \in 1..(N + 1), NEW k \in o..(N + 1),
           o <= N => IsNew(o),
           \A i \in o..(k - 1) : words[i].type = "operand"
    PROVE  /\ \A i \in o..(k - 1) : Class[i] = "operand"
           /\ k <= N => IsNew(k)
           /\ UpToWord(k - 1) = UpToWord(o - 1)
<1>0. N \in Nat /\ k \in Nat /\ o \in Nat /\ k - o \in Nat
  BY WordsAreWords
<1> DEFINE S == {j \in 0..(k - o) : /\ o + j <= N => IsNew(o + j)
                                    /\ UpToWord(o + j - 1) = UpToWord(o - 1)}
<1>1. 0 \in S
  <2>1. o + 0 = o /\ o + 0 - 1 = o - 1
    BY <1>0
  <2> QED
    BY <1>0, <2>1
<1>2. \A j \in 1..(k - o) : j - 1 \in S => j \in S /\ Class[o + j - 1] = "operand"
  <2> SUFFICES ASSUME NEW j \in 1..(k - o), j - 1 \in S
               PROVE  j \in S /\ Class[o + j - 1] = "operand"
    OBVIOUS
  <2> DEFINE i == o + j - 1
  <2>1. i \in 1..N /\ i \in o..(k - 1) /\ o + (j - 1) = i /\ i <= N
    BY <1>0
  <2>2. IsNew(i) /\ UpToWord(i - 1) = UpToWord(o - 1)
    BY <2>1
  <2>3. words[i].type = "operand"
    BY <2>1
  <2>4. Class[i] = "operand"
    BY <2>1, <2>2, <2>3, ClassOfNew
  <2>5. Part(i) = << >>
    BY <2>4 DEF Part
  <2>6. UpToWord(i) = UpToWord(o - 1)
    BY <2>1, <2>2, <2>5, NothingMore
  <2>7. o + j - 1 = i /\ (o + j) - 1 = i
    BY <1>0
  <2>8. IsNew(o + j)
    BY <2>4, <2>7 DEF IsNew
  <2> QED
    BY <2>4, <2>6, <2>7, <2>8
<1>3. 0..(k - o) \subseteq S
  <2> HIDE DEF S
  <2>1. \A j \in 1..(k - o) : j - 1 \in S => j \in S
    BY <1>2
  <2> QED
    BY <1>0, <1>1, <2>1, UpTo
<1>4. ASSUME NEW i \in o..(k - 1) PROVE Class[i] = "operand"
  <2>1. i - o + 1 \in 1..(k - o) /\ (i - o + 1) - 1 \in 0..(k - o) /\ o + (i - o + 1) - 1 = i
    BY <1>0
  <2> HIDE DEF S
  <2> QED
    BY <1>2, <1>3, <2>1
<1>5. k - o \in S /\ o + (k - o) = k /\ o + (k - o) - 1 = k - 1
  <2> HIDE DEF S
  <2> QED
    BY <1>0, <1>3
<1> QED
  BY <1>4, <1>5

LEMMA PastOperandsIs ==
    ASSUME NEW s, argc \in Nat, s.optind \in 1..argc
    PROVE  /\ PastOperands(s) \in s.optind..argc
           /\ \A i \in s.optind..(PastOperands(s) - 1) : NONOPTION_P(s, i)
           /\ PastOperands(s) < argc => ~NONOPTION_P(s, PastOperands(s))
<1> DEFINE o == s.optind
           T == {k \in o..argc : k < argc => ~NONOPTION_P(s, k)}
<1>1. T \in SUBSET Nat /\ argc \in T
  OBVIOUS
<1> HIDE DEF T
<1>2. PICK k \in T : \A j \in T : k <= j
  BY <1>1, LeastElement
<1>3. k \in o..argc /\ (k < argc => ~NONOPTION_P(s, k))
  BY DEF T
<1>4. ASSUME NEW i \in o..(k - 1) PROVE NONOPTION_P(s, i)
  <2>1. i \notin T
    BY <1>2, <1>3
  <2>2. i \in o..argc
    BY <1>3
  <2> QED
    BY <2>1, <2>2 DEF T
<1>5. \E m \in o..argc : /\ \A i \in o..(m - 1) : NONOPTION_P(s, i)
                         /\ m < argc => ~NONOPTION_P(s, m)
  BY <1>3, <1>4
<1> DEFINE P == PastOperands(s)
<1>6. P \in o..argc /\ (\A i \in o..(P - 1) : NONOPTION_P(s, i))
      /\ (P < argc => ~NONOPTION_P(s, P))
  BY <1>5, Zenon DEF PastOperands
<1> QED
  BY <1>6

-----------------------------------------------------------------------------
(* The parts of a call *)

\* Between two words what is returned is that of the words passed.
LEMMA ToldBetweenWords ==
    ASSUME Inputs, NEW s, NEW res, s.nextchar = << >>, s.optind \in 1..argc
    PROVE  Told(s, res) <=> res = UpToWord(s.optind - 1)
<1> DEFINE u == UpToWord(s.optind - 1)
<1>1. s.optind - 1 \in 0..N
  BY WordsAreWords
<1>2. u \in Seq(Returned)
  BY <1>1, UpToSteps
<1> HIDE DEF u
<1>3. u \o << >> = u
  BY <1>2
<1>4. Told(s, res) <=> res = u \o << >>
  BY DEF Told, u
<1> QED
  BY <1>3, <1>4 DEF u

\* t differs from s at most in where it is.
SameButPlace(s, t) ==
    /\ IsState(t)
    /\ t.initialized = s.initialized
    /\ t.ordering = s.ordering
    /\ t.nextchar = s.nextchar

LEMMA ClipKeeps ==
    ASSUME Inputs, NEW s, Scanning(s)
    PROVE  Clip(s) = s
<1>1. /\ IsState(s)
      /\ s.first_nonopt \in Nat /\ s.last_nonopt \in Nat /\ s.optind \in Nat
      /\ s.first_nonopt <= s.last_nonopt /\ s.last_nonopt <= s.optind
  BY WordsAreWords DEF Scanning, Segments
<1>2. ~(s.last_nonopt > s.optind) /\ ~(s.first_nonopt > s.optind)
  BY <1>1
<1> DEFINE t == Clip(s)
<1>3. t = [x \in Fields |-> t[x]] /\ \A x \in Fields : t[x] = s[x]
  BY <1>1, <1>2 DEF IsState, Clip, Fields
<1> HIDE DEF t
<1>4. t = s
  BY <1>1, <1>3 DEF IsState
<1> QED
  BY <1>4 DEF t

LEMMA ExchangeFields ==
    ASSUME NEW s, IsState(s)
    PROVE  /\ SameButPlace(s, exchange(s))
           /\ exchange(s).argv
                = Exchanged(s.argv, s.first_nonopt, s.last_nonopt, s.optind)
           /\ exchange(s).first_nonopt = s.first_nonopt + (s.optind - s.last_nonopt)
           /\ exchange(s).last_nonopt = s.optind
           /\ exchange(s).optind = s.optind
  BY DEF IsState, SameButPlace, exchange, Fields

LEMMA SegmentBounds ==
    ASSUME Inputs, NEW s, Segments(s)
    PROVE  /\ Bounds(s.first_nonopt, s.last_nonopt, s.optind)
           /\ Arranged(s.argv, s.first_nonopt, s.last_nonopt, s.optind)
<1>1. N \in Nat /\ argc = N + 1
  BY WordsAreWords
<1>2. s.optind \in 1..argc
  BY DEF Segments
<1> QED
  BY <1>1, <1>2 DEF Segments, Bounds

\* The first step of Permute: the operands passed are directly before optind.
Gathered(s) ==
    IF s.first_nonopt # s.last_nonopt /\ s.last_nonopt # s.optind
    THEN exchange(s)
    ELSE IF s.last_nonopt # s.optind
         THEN [s EXCEPT !.first_nonopt = s.optind]
         ELSE s

LEMMA GatheredIs ==
    ASSUME Inputs, NEW s, IsState(s), Segments(s)
    PROVE  LET m == Gathered(s)
               f == IF s.first_nonopt = s.last_nonopt THEN s.optind
                    ELSE s.first_nonopt + (s.optind - s.last_nonopt)
           IN /\ SameButPlace(s, m)
              /\ m.optind = s.optind
              /\ m.first_nonopt = f
              /\ Bounds(f, s.optind, s.optind)
              /\ Arranged(m.argv, f, s.optind, s.optind)
<1> DEFINE m == Gathered(s)
           a == s.argv
           f == s.first_nonopt
           l == s.last_nonopt
           o == s.optind
           g == IF f = l THEN o ELSE f + (o - l)
<1>1. Bounds(f, l, o) /\ Arranged(a, f, l, o)
  BY SegmentBounds
<1>2. N \in Nat /\ f \in Nat /\ l \in Nat /\ o \in Nat /\ 1 <= f /\ f <= l /\ l <= o
      /\ o <= N + 1
  BY <1>1, WordsAreWords DEF Bounds
<1>3. Bounds(g, o, o)
  BY <1>2 DEF Bounds
<1>4. CASE f # l /\ l # o
  <2>1. m = exchange(s)
    BY <1>4 DEF Gathered
  <2>2. Arranged(Exchanged(a, f, l, o), f + (o - l), o, o)
    BY <1>1, ExchangeArranges
  <2> QED
    BY <1>3, <1>4, <2>1, <2>2, ExchangeFields
<1>5. CASE f = l /\ l # o
  <2>1. m = [s EXCEPT !.first_nonopt = o]
    BY <1>5 DEF Gathered
  <2>2. SameButPlace(s, m) /\ m.argv = a /\ m.first_nonopt = o /\ m.optind = o
    BY <2>1 DEF IsState, SameButPlace, Fields
  <2>3. Arranged(a, o, o, o)
    BY <1>1, <1>2, <1>5, EmptySegment
  <2> QED
    BY <1>3, <1>5, <2>2, <2>3
<1>6. CASE l = o
  <2>1. m = s
    BY <1>6 DEF Gathered
  <2>2. g = f
    BY <1>2, <1>6
  <2>3. SameButPlace(s, s)
    BY DEF SameButPlace
  <2> QED
    BY <1>1, <1>3, <1>6, <2>1, <2>2, <2>3
<1> QED
  BY <1>4, <1>5, <1>6

\* After Permute the word at optind is new, and no operand that is to be left.
AtWord(s, res) ==
    /\ Scanning(s)
    /\ s.nextchar = << >>
    /\ Told(s, res)
    /\ s.ordering = "PERMUTE" => s.last_nonopt = s.optind
    /\ s.ordering = "PERMUTE" /\ s.optind < argc => words[s.optind].type # "operand"

LEMMA PermuteStep ==
    ASSUME Inputs, NEW s, NEW res, Scanning(s), s.nextchar = << >>, Told(s, res)
    PROVE  AtWord(Permute(s), res)
<1>0. /\ N \in Nat /\ argc = N + 1 /\ s.optind \in 1..argc /\ IsState(s)
      /\ s.ordering = Ordering /\ s.initialized = TRUE
  BY WordsAreWords DEF Scanning, Segments
<1>1. CASE Ordering # "PERMUTE"
  <2>1. Permute(s) = s
    BY <1>0, <1>1 DEF Permute
  <2> QED
    BY <1>0, <1>1, <2>1 DEF AtWord
<1>2. CASE Ordering = "PERMUTE"
  <2> DEFINE m == Gathered(s)
             o == s.optind
             k == PastOperands(m)
             t == [m EXCEPT !.optind = k, !.last_nonopt = k]
             f == IF s.first_nonopt = s.last_nonopt THEN o
                  ELSE s.first_nonopt + (o - s.last_nonopt)
  <2>1. /\ SameButPlace(s, m) /\ m.optind = o /\ m.first_nonopt = f
        /\ Bounds(f, o, o) /\ Arranged(m.argv, f, o, o)
    BY <1>0, GatheredIs DEF Scanning
  <2>2. Permute(s) = t
    BY <1>0, <1>2 DEF Permute, Gathered
  <2> HIDE DEF m
  <2>3. /\ k \in o..argc
        /\ \A i \in o..(k - 1) : NONOPTION_P(m, i)
        /\ k < argc => ~NONOPTION_P(m, k)
    <3>1. argc \in Nat /\ m.optind \in 1..argc
      BY <1>0, <2>1
    <3> HIDE DEF k
    <3> QED
      BY <2>1, <3>1, PastOperandsIs DEF k
  <2> HIDE DEF k, f
  <2>4. \A i \in o..N : m.argv[i] = i
    BY <2>1 DEF Arranged
  <2>5. \A i \in o..(k - 1) : words[i].type = "operand"
    <3> SUFFICES ASSUME NEW i \in o..(k - 1) PROVE words[i].type = "operand"
      OBVIOUS
    <3>1. i \in o..N
      BY <1>0, <2>3
    <3> QED
      BY <2>3, <2>4, <3>1 DEF NONOPTION_P, WordAt
  <2>6. k < argc => words[k].type # "operand"
    <3>1. k < argc => k \in o..N
      BY <1>0, <2>3
    <3> QED
      BY <2>3, <2>4, <3>1 DEF NONOPTION_P, WordAt
  <2>7. /\ \A i \in o..(k - 1) : Class[i] = "operand"
        /\ k <= N => IsNew(k)
        /\ UpToWord(k - 1) = UpToWord(o - 1)
    <3>1. o \in 1..(N + 1) /\ k \in o..(N + 1)
      BY <1>0, <2>3
    <3>2. o <= N => IsNew(o)
      BY <1>0 DEF Scanning
    <3> QED
      BY <1>2, <2>5, <3>1, <3>2, OperandsArePassed
  <2>8. Arranged(m.argv, f, k, k)
    <3>1. \A i \in o..(k - 1) : i \in Kept
      <4> SUFFICES ASSUME NEW i \in o..(k - 1) PROVE i \in Kept
        OBVIOUS
      <4>1. i \in 1..N
        BY <1>0, <2>3
      <4>2. Class[i] = "operand"
        BY <2>7
      <4> QED
        BY <1>2, <4>1, <4>2, KeptWords
    <3>2. k \in o..(N + 1)
      BY <1>0, <2>3
    <3> QED
      BY <2>1, <3>1, <3>2, PassKept
  <2>9. /\ IsState(t) /\ t.initialized = TRUE /\ t.ordering = Ordering /\ t.nextchar = << >>
        /\ t.argv = m.argv /\ t.first_nonopt = f /\ t.last_nonopt = k /\ t.optind = k
    BY <1>0, <2>1 DEF IsState, SameButPlace, Fields
  <2> HIDE DEF t
  <2>10. /\ k \in 1..argc /\ f \in Nat /\ 1 <= f /\ f <= k
    BY <1>0, <2>1, <2>3 DEF Bounds
  <2>11. Segments(t)
    BY <1>0, <1>2, <2>8, <2>9, <2>10 DEF Segments
  <2>12. Scanning(t)
    <3>1. k < argc => IsNew(k)
      BY <1>0, <2>7, <2>10
    <3> QED
      BY <2>9, <2>11, <3>1 DEF Scanning
  <2>13. Told(t, res)
    <3>1. res = UpToWord(o - 1)
      BY <1>0, ToldBetweenWords
    <3>2. t.optind \in 1..argc
      BY <2>9, <2>10
    <3> QED
      BY <2>7, <2>9, <3>1, <3>2, ToldBetweenWords
  <2> QED
    BY <2>2, <2>6, <2>9, <2>12, <2>13 DEF AtWord
<1> QED
  BY <1>1, <1>2

\* The scan has passed all words, and knows where those are that are left.
Past(s, res) ==
    /\ IsState(s)
    /\ s.initialized = TRUE
    /\ s.ordering = Ordering
    /\ s.nextchar = << >>
    /\ s.optind = argc
    /\ Bounds(s.first_nonopt, s.last_nonopt, argc)
    /\ s.first_nonopt = s.last_nonopt \/ s.last_nonopt = argc
    /\ Arranged(s.argv, s.first_nonopt, s.last_nonopt, argc)
    /\ res = UpToWord(N)

\* No word up to "--" is passed twice, and what is behind it joins the operands.
LEMMA BehindTheEnd ==
    ASSUME Inputs, NEW a, NEW f, NEW l, NEW o, Bounds(f, l, o), Arranged(a, f, l, o),
           o <= N, Class[o] = "end"
    PROVE  /\ f = l => Arranged(a, o + 1, argc, argc)
           /\ Arranged(Exchanged(a, f, l, o + 1), f + ((o + 1) - l), argc, argc)
<1>0. N \in Nat /\ argc = N + 1 /\ f \in Nat /\ l \in Nat /\ o \in Nat /\ o \in 1..N
      /\ 1 <= f /\ f <= l /\ l <= o /\ o \in 0..N
  BY WordsAreWords DEF Bounds
<1>1. \A w \in (o + 1)..(argc - 1) : w \in Kept
  <2> SUFFICES ASSUME NEW w \in (o + 1)..(argc - 1) PROVE w \in Kept
    OBVIOUS
  <2>1. w \in (o + 1)..N /\ w \in 1..N
    BY <1>0
  <2>2. Class[w] = "rest"
    BY <1>0, <2>1, RestIsRest
  <2> QED
    BY <2>1, <2>2, KeptWords
<1>2. o \notin Kept
  BY KeptWords
<1>3. Bounds(f, l, o + 1)
  BY <1>0 DEF Bounds
<1>4. Arranged(a, f, l, o + 1)
  <2>1. o + 1 \in o..(N + 1)
    BY <1>0
  <2>2. \A w \in o..((o + 1) - 1) : w \notin Kept
    <3>1. \A w \in o..((o + 1) - 1) : w = o
      BY <1>0
    <3> QED
      BY <1>2, <3>1
  <2> QED
    BY <2>1, <2>2, PassOthers
<1>5. argc \in (o + 1)..(N + 1)
  BY <1>0
<1>6. ASSUME f = l PROVE Arranged(a, o + 1, argc, argc)
  <2>1. Arranged(a, o + 1, o + 1, o + 1)
    BY <1>0, <1>3, <1>4, <1>6, EmptySegment
  <2>2. Bounds(o + 1, o + 1, o + 1)
    BY <1>0 DEF Bounds
  <2> QED
    BY <1>1, <1>5, <2>1, <2>2, PassKept
<1>7. Arranged(Exchanged(a, f, l, o + 1), f + ((o + 1) - l), argc, argc)
  <2> DEFINE b == Exchanged(a, f, l, o + 1)
             g == f + ((o + 1) - l)
  <2>1. Arranged(b, g, o + 1, o + 1)
    <3> DEFINE p == o + 1
    <3>1. Bounds(f, l, p) /\ Arranged(a, f, l, p)
      BY <1>3, <1>4
    <3> HIDE DEF p
    <3>2. Arranged(Exchanged(a, f, l, p), f + (p - l), p, p)
      BY <3>1, ExchangeArranges
    <3> QED
      BY <3>2 DEF p
  <2>2. Bounds(g, o + 1, o + 1)
    BY <1>0 DEF Bounds
  <2> HIDE DEF b, g
  <2>3. Arranged(b, g, argc, argc)
    BY <1>1, <1>5, <2>1, <2>2, PassKept
  <2> QED
    BY <2>3 DEF b, g
<1> QED
  BY <1>6, <1>7

LEMMA DashDashStep ==
    ASSUME Inputs, NEW s, NEW res, AtWord(s, res)
    PROVE  IF DashDash(s).optind = argc THEN Past(DashDash(s), res)
           ELSE DashDash(s) = s /\ words[s.optind].type # "end"
<1> DEFINE a == s.argv
           f == s.first_nonopt
           l == s.last_nonopt
           o == s.optind
<1>0. /\ N \in Nat /\ argc = N + 1 /\ o \in 1..argc /\ IsState(s)
      /\ s.ordering = Ordering /\ s.initialized = TRUE /\ s.nextchar = << >> /\ Segments(s)
      /\ Told(s, res)
  BY WordsAreWords DEF AtWord, Scanning, Segments
<1>1. Bounds(f, l, o) /\ Arranged(a, f, l, o)
  BY <1>0, SegmentBounds
<1>2. f \in Nat /\ l \in Nat /\ o \in Nat /\ 1 <= f /\ f <= l /\ l <= o
  BY <1>1 DEF Bounds
<1>3. res = UpToWord(o - 1)
  BY <1>0, ToldBetweenWords
<1>4. CASE o = argc
  <2>1. DashDash(s) = s
    BY <1>4 DEF DashDash
  <2>2. f = l \/ l = argc
    BY <1>0, <1>4 DEF AtWord, Segments
  <2>3. o - 1 = N
    BY <1>0, <1>4
  <2> QED
    BY <1>0, <1>1, <1>3, <1>4, <2>1, <2>2, <2>3 DEF Past
<1>5. CASE o # argc
  <2>1. o \in 1..N /\ o <= N
    BY <1>0, <1>5
  <2>2. WordAt(s, o) = words[o]
    <3>1. a[o] = o
      BY <1>0, <1>1, <2>1 DEF Arranged
    <3> QED
      BY <3>1 DEF WordAt
  <2>3. CASE words[o].type # "end"
    <3>1. DashDash(s) = s
      BY <2>2, <2>3 DEF DashDash
    <3> QED
      BY <1>5, <2>3, <3>1
  <2>4. CASE words[o].type = "end"
    <3> DEFINE passed == [s EXCEPT !.optind = @ + 1]
               moved == IF passed.first_nonopt # passed.last_nonopt
                              /\ passed.last_nonopt # passed.optind
                        THEN exchange(passed)
                        ELSE IF passed.first_nonopt = passed.last_nonopt
                             THEN [passed EXCEPT !.first_nonopt = passed.optind]
                             ELSE passed
               t == [moved EXCEPT !.last_nonopt = argc, !.optind = argc]
    <3>1. DashDash(s) = t
      BY <1>5, <2>2, <2>4 DEF DashDash
    <3>2. /\ SameButPlace(s, passed)
          /\ passed.argv = a /\ passed.first_nonopt = f /\ passed.last_nonopt = l
          /\ passed.optind = o + 1
      BY <1>0 DEF IsState, SameButPlace, Fields
    <3> HIDE DEF passed
    <3>3. Class[o] = "end"
      <4>1. IsNew(o)
        BY <1>0, <1>5, <2>1 DEF AtWord, Scanning
      <4> QED
        BY <2>1, <2>4, <4>1, ClassOfNew
    <3>4. /\ f = l => Arranged(a, o + 1, argc, argc)
          /\ Arranged(Exchanged(a, f, l, o + 1), f + ((o + 1) - l), argc, argc)
      BY <1>1, <2>1, <3>3, BehindTheEnd
    <3>5. l # o + 1
      BY <1>2
    <3>6. /\ SameButPlace(s, moved)
          /\ moved.first_nonopt = IF f = l THEN o + 1 ELSE f + ((o + 1) - l)
          /\ Arranged(moved.argv, moved.first_nonopt, argc, argc)
      <4>1. CASE f = l
        <5>1. moved = [passed EXCEPT !.first_nonopt = o + 1]
          BY <3>2, <4>1
        <5>2. SameButPlace(passed, moved) /\ moved.argv = a /\ moved.first_nonopt = o + 1
          BY <3>2, <5>1 DEF IsState, SameButPlace, Fields
        <5> HIDE DEF moved
        <5> QED
          BY <3>2, <3>4, <4>1, <5>2 DEF SameButPlace
      <4>2. CASE f # l
        <5>1. moved = exchange(passed)
          BY <3>2, <3>5, <4>2
        <5> HIDE DEF moved
        <5>2. IsState(passed)
          BY <3>2 DEF SameButPlace
        <5>3. /\ SameButPlace(passed, moved)
              /\ moved.argv = Exchanged(a, f, l, o + 1)
              /\ moved.first_nonopt = f + ((o + 1) - l)
          <6>1. /\ SameButPlace(passed, exchange(passed))
                /\ exchange(passed).argv
                     = Exchanged(passed.argv, passed.first_nonopt, passed.last_nonopt,
                                 passed.optind)
                /\ exchange(passed).first_nonopt
                     = passed.first_nonopt + (passed.optind - passed.last_nonopt)
            BY <5>2, ExchangeFields
          <6> QED
            BY <3>2, <5>1, <6>1
        <5> QED
          BY <3>2, <3>4, <4>2, <5>3 DEF SameButPlace
      <4> QED
        BY <4>1, <4>2
    <3> HIDE DEF moved
    <3>7. /\ SameButPlace(s, t)
          /\ t.argv = moved.argv /\ t.first_nonopt = moved.first_nonopt
          /\ t.last_nonopt = argc /\ t.optind = argc
      BY <3>6 DEF IsState, SameButPlace, Fields
    <3> HIDE DEF t
    <3>8. Bounds(t.first_nonopt, t.last_nonopt, argc)
      <4> DEFINE g == moved.first_nonopt
      <4>1. g = IF f = l THEN o + 1 ELSE f + ((o + 1) - l)
        BY <3>6
      <4> HIDE DEF g
      <4>2. g \in Nat /\ 1 <= g /\ g <= argc
        BY <1>0, <1>2, <2>1, <4>1
      <4>3. Bounds(g, argc, argc)
        BY <1>0, <4>2 DEF Bounds
      <4> QED
        BY <3>7, <4>3 DEF g
    <3>9. res = UpToWord(N)
      BY <1>3, <2>1, <3>3, RestReturnsNothing
    <3>10. Past(t, res)
      BY <1>0, <3>6, <3>7, <3>8, <3>9 DEF Past, SameButPlace
    <3> QED
      BY <3>1, <3>7, <3>10
  <2> QED
    BY <2>3, <2>4
<1> QED
  BY <1>4, <1>5

LEMMA BackOverStep ==
    ASSUME Inputs, NEW s, NEW res, Past(s, res)
    PROVE  EndsWell(BackOver(s), res)
<1> DEFINE a == s.argv
           f == s.first_nonopt
           l == s.last_nonopt
           t == BackOver(s)
<1>0. /\ N \in Nat /\ argc = N + 1 /\ f \in Nat /\ l \in Nat
      /\ 1 <= f /\ f <= l /\ l <= argc
  BY WordsAreWords DEF Past, Bounds
<1>1. \A i \in 1..N : a[i] \in Kept <=> f <= i /\ i < l
  <2>1. \A i \in 1..N : i \in 1..(argc - 1)
    BY <1>0
  <2> QED
    BY <2>1 DEF Past, Arranged
<1>2. CASE f # l
  <2>1. t = [s EXCEPT !.optind = f]
    BY <1>2 DEF BackOver
  <2>2. SameButPlace(s, t) /\ t.argv = a /\ t.first_nonopt = f /\ t.last_nonopt = l
        /\ t.optind = f
    BY <2>1 DEF IsState, SameButPlace, Fields, Past
  <2> HIDE DEF t
  <2>3. l = argc
    BY <1>2 DEF Past
  <2>4. \A i \in 1..N : i < l
    BY <1>0, <2>3
  <2>5. \A i \in 1..N : a[i] \in Kept <=> f <= i
    BY <1>1, <2>4
  <2>6. Stable(a)
    BY DEF Past, Arranged
  <2>7. f \in 1..argc /\ 1 <= l
    BY <1>0
  <2>8. \A i \in 1..N : t.argv[i] \in Kept <=> t.optind <= i
    BY <2>2, <2>5
  <2>9. /\ IsState(t) /\ t.initialized = TRUE /\ t.ordering = Ordering
        /\ t.nextchar = << >> /\ Stable(t.argv) /\ res = UpToWord(N)
    BY <2>2, <2>6 DEF Past, SameButPlace
  <2>10. EndsWell(t, res)
    BY <1>0, <2>2, <2>7, <2>8, <2>9 DEF EndsWell
  <2> QED
    BY <2>10 DEF t
<1>3. CASE f = l
  <2>1. t = s
    BY <1>3 DEF BackOver
  <2>2. \A i \in 1..N : ~(f <= i /\ i < l) /\ ~(argc <= i)
    BY <1>0, <1>3
  <2>3. \A i \in 1..N : a[i] \in Kept <=> argc <= i
    BY <1>1, <2>2
  <2>4. Stable(a)
    BY DEF Past, Arranged
  <2>5. argc \in 1..argc /\ 1 <= l
    BY <1>0
  <2> HIDE DEF t
  <2>6. \A i \in 1..N : t.argv[i] \in Kept <=> t.optind <= i
    BY <2>1, <2>3 DEF Past
  <2>7. /\ IsState(t) /\ t.initialized = TRUE /\ t.ordering = Ordering
        /\ t.nextchar = << >> /\ Stable(t.argv) /\ res = UpToWord(N)
    BY <2>1, <2>4 DEF Past
  <2>8. t.optind = argc /\ t.first_nonopt = f /\ t.last_nonopt = l
    BY <2>1 DEF Past
  <2>9. EndsWell(t, res)
    BY <1>0, <2>5, <2>6, <2>7, <2>8 DEF EndsWell
  <2> QED
    BY <2>9 DEF t
<1> QED
  BY <1>2, <1>3

-----------------------------------------------------------------------------
(* Options *)

LEMMA ShortOptionIs ==
    ASSUME NEW s
    PROVE  LET c == Head(s.nextchar)
               rest == Tail(s.nextchar)
               passed == [s EXCEPT !.nextchar = rest,
                                   !.optind = IF rest = << >> THEN @ + 1 ELSE @]
               ended == [passed EXCEPT !.nextchar = << >>]
           IN ShortOption(s) =
                IF c \notin DOMAIN Takes THEN Returns(passed, "?", NoArg)
                ELSE IF Takes[c] = "none" THEN Returns(passed, c, NoArg)
                ELSE IF rest # << >> THEN Returns([ended EXCEPT !.optind = @ + 1], c, Text(rest))
                ELSE IF Takes[c] = "optional" THEN Returns(ended, c, NoArg)
                ELSE TakeNext(ended, c)
<1> DEFINE c == Head(s.nextchar)
           rest == Tail(s.nextchar)
           passed == [s EXCEPT !.nextchar = rest,
                               !.optind = IF rest = << >> THEN @ + 1 ELSE @]
           ended == [passed EXCEPT !.nextchar = << >>]
           r == ShortOption(s)
<1>1. c \in DOMAIN Takes => Takes[c] \in {"none", "required", "optional"}
  BY OptionAssumption DEF ArgumentKind
<1>2. r = CASE c \notin DOMAIN Takes -> Returns(passed, "?", NoArg)
         [] c \in DOMAIN Takes /\ Takes[c] = "none" -> Returns(passed, c, NoArg)
         [] c \in DOMAIN Takes /\ Takes[c] # "none" /\ rest # << >> ->
                Returns([ended EXCEPT !.optind = @ + 1], c, Text(rest))
         [] c \in DOMAIN Takes /\ Takes[c] = "optional" /\ rest = << >> ->
                Returns(ended, c, NoArg)
         [] c \in DOMAIN Takes /\ Takes[c] = "required" /\ rest = << >> -> TakeNext(ended, c)
  BY Zenon DEF ShortOption
<1> HIDE DEF c, rest, passed, ended, r
<1>3. r = IF c \notin DOMAIN Takes THEN Returns(passed, "?", NoArg)
          ELSE IF Takes[c] = "none" THEN Returns(passed, c, NoArg)
          ELSE IF rest # << >> THEN Returns([ended EXCEPT !.optind = @ + 1], c, Text(rest))
          ELSE IF Takes[c] = "optional" THEN Returns(ended, c, NoArg)
          ELSE TakeNext(ended, c)
  BY <1>1, <1>2
<1> QED
  BY <1>3 DEF c, rest, passed, ended, r

LEMMA LongOptionIs ==
    ASSUME NEW s, NEW w, w = WordAt(s, s.optind),
           w.match \in {"unknown", "ambiguous"} \cup ArgumentKind, w.value \in BOOLEAN
    PROVE  LET passed == [s EXCEPT !.optind = @ + 1, !.nextchar = << >>]
           IN LongOption(s) =
                IF w.match \in {"unknown", "ambiguous"} \/ (w.match = "none" /\ w.value)
                THEN Returns(passed, "?", NoArg)
                ELSE IF w.value THEN Returns(passed, "long", Text(<<"=">>))
                ELSE IF w.match = "required" THEN TakeNext(passed, "long")
                ELSE Returns(passed, "long", NoArg)
<1> DEFINE passed == [s EXCEPT !.optind = @ + 1, !.nextchar = << >>]
           r == LongOption(s)
<1>1. r = CASE w.match \in {"unknown", "ambiguous"} -> Returns(passed, "?", NoArg)
         [] w.match = "none" /\ w.value -> Returns(passed, "?", NoArg)
         [] w.match \in {"required", "optional"} /\ w.value ->
                Returns(passed, "long", Text(<<"=">>))
         [] w.match = "required" /\ ~w.value -> TakeNext(passed, "long")
         [] w.match \in {"none", "optional"} /\ ~w.value -> Returns(passed, "long", NoArg)
  BY DEF LongOption
<1> HIDE DEF passed, r
<1>2. r = IF w.match \in {"unknown", "ambiguous"} \/ (w.match = "none" /\ w.value)
          THEN Returns(passed, "?", NoArg)
          ELSE IF w.value THEN Returns(passed, "long", Text(<<"=">>))
          ELSE IF w.match = "required" THEN TakeNext(passed, "long")
          ELSE Returns(passed, "long", NoArg)
  <2> DEFINE m == w.match
             v == w.value
  <2>1. m \in {"unknown", "ambiguous", "none", "required", "optional"} /\ v \in BOOLEAN
    BY DEF ArgumentKind
  <2>2. r = CASE m \in {"unknown", "ambiguous"} -> Returns(passed, "?", NoArg)
           [] m = "none" /\ v -> Returns(passed, "?", NoArg)
           [] m \in {"required", "optional"} /\ v -> Returns(passed, "long", Text(<<"=">>))
           [] m = "required" /\ ~v -> TakeNext(passed, "long")
           [] m \in {"none", "optional"} /\ ~v -> Returns(passed, "long", NoArg)
    BY <1>1
  <2> HIDE DEF m, v
  <2>3. r = IF m \in {"unknown", "ambiguous"} \/ (m = "none" /\ v)
            THEN Returns(passed, "?", NoArg)
            ELSE IF v THEN Returns(passed, "long", Text(<<"=">>))
            ELSE IF m = "required" THEN TakeNext(passed, "long")
            ELSE Returns(passed, "long", NoArg)
    <3>1. CASE m \in {"unknown", "ambiguous"}
      BY <2>2, <3>1, Zenon
    <3>2. CASE m = "none" /\ v
      BY <2>2, <3>2, Zenon
    <3>3. CASE m = "none" /\ ~v
      BY <2>2, <3>3, Zenon
    <3>4. CASE m = "required" /\ v
      BY <2>2, <3>4, Zenon
    <3>5. CASE m = "required" /\ ~v
      BY <2>2, <3>5, Zenon
    <3>6. CASE m = "optional" /\ v
      BY <2>2, <3>6, Zenon
    <3>7. CASE m = "optional" /\ ~v
      BY <2>2, <3>7, Zenon
    <3> QED
      BY <2>1, <3>1, <3>2, <3>3, <3>4, <3>5, <3>6, <3>7
  <2> QED
    BY <2>3 DEF m, v
<1> QED
  BY <1>2 DEF passed, r

\* The scan looks at an option.
AtOption(s) ==
    /\ IsState(s)
    /\ s.initialized = TRUE
    /\ s.ordering = Ordering
    /\ Segments(s)
    /\ s.optind < argc
    /\ IsNew(s.optind)
    /\ words[s.optind].type \in {"short", "long"}

\* t differs from s at most in optind and nextchar.
SameWords(s, t) ==
    /\ IsState(t)
    /\ t.initialized = s.initialized
    /\ t.ordering = s.ordering
    /\ t.argv = s.argv
    /\ t.first_nonopt = s.first_nonopt
    /\ t.last_nonopt = s.last_nonopt

LEMMA AtOptionIs ==
    ASSUME Inputs, NEW s, AtOption(s)
    PROVE  /\ N \in Nat /\ argc = N + 1
           /\ s.optind \in 1..N
           /\ Class[s.optind] = "option"
           /\ s.argv[s.optind] = s.optind
           /\ WordAt(s, s.optind) = words[s.optind]
           /\ s.optind + 1 <= N => s.argv[s.optind + 1] = s.optind + 1
<1>1. N \in Nat /\ argc = N + 1 /\ s.optind \in 1..argc
  BY WordsAreWords DEF AtOption, Segments
<1>2. s.optind \in 1..N
  BY <1>1 DEF AtOption
<1>3. Class[s.optind] = "option"
  BY <1>2, ClassOfNew DEF AtOption
<1>4. \A i \in s.optind..N : s.argv[i] = i
  BY SegmentBounds DEF AtOption, Arranged
<1>5. s.argv[s.optind] = s.optind
  BY <1>1, <1>2, <1>4
<1>6. s.optind + 1 <= N => s.argv[s.optind + 1] = s.optind + 1
  BY <1>1, <1>2, <1>4
<1> QED
  BY <1>1, <1>2, <1>3, <1>5, <1>6 DEF WordAt

\* Words from optind up to k that are none to be left are passed.
LEMMA SegmentsPass ==
    ASSUME Inputs, NEW s, Segments(s), NEW t, SameWords(s, t),
           t.optind \in s.optind..argc,
           \A w \in s.optind..(t.optind - 1) : w \notin Kept
    PROVE  Segments(t)
<1> DEFINE a == s.argv
           f == s.first_nonopt
           l == s.last_nonopt
           o == s.optind
           k == t.optind
<1>1. N \in Nat /\ argc = N + 1 /\ o \in 1..argc
  BY WordsAreWords DEF Segments
<1>2. Bounds(f, l, o) /\ Arranged(a, f, l, o)
  BY SegmentBounds
<1>3. k \in o..(N + 1) /\ \A w \in o..(k - 1) : w \notin Kept
  BY <1>1
<1>4. Arranged(a, f, l, k)
  <2> HIDE DEF a, f, l, o, k
  <2> QED
    BY <1>2, <1>3, PassOthers
<1>5. k \in 1..argc /\ o <= k
  BY <1>1
<1> QED
  BY <1>1, <1>2, <1>4, <1>5 DEF Segments, SameWords, Bounds

\* An option is passed.
LEMMA OptionPassed ==
    ASSUME Inputs, NEW s, AtOption(s), NEW t, SameWords(s, t),
           t.nextchar = << >>, t.optind = s.optind + 1,
           s.optind < N => ~TakesNext(words[s.optind])
    PROVE  Scanning(t)
<1> DEFINE o == s.optind
<1>1. N \in Nat /\ argc = N + 1 /\ o \in 1..N /\ Class[o] = "option"
  BY AtOptionIs
<1>2. Segments(t)
  <2>1. \A w \in o..((o + 1) - 1) : w \notin Kept
    <3>1. \A w \in o..((o + 1) - 1) : w = o
      BY <1>1
    <3>2. o \notin Kept
      BY <1>1, KeptWords
    <3> QED
      BY <3>1, <3>2
  <2>2. o + 1 \in o..argc
    BY <1>1
  <2>3. Segments(s)
    BY DEF AtOption
  <2> QED
    BY <2>1, <2>2, <2>3, SegmentsPass
<1>3. o + 1 < argc => IsNew(o + 1)
  <2>1. (o + 1) - 1 = o
    BY <1>1
  <2> QED
    BY <1>1, <2>1 DEF IsNew
<1> QED
  BY <1>2, <1>3 DEF Scanning, SameWords, AtOption

\* An option is passed with its argument.
LEMMA ArgumentPassed ==
    ASSUME Inputs, NEW s, AtOption(s), NEW t, SameWords(s, t),
           t.nextchar = << >>, t.optind = s.optind + 2,
           s.optind < N, TakesNext(words[s.optind])
    PROVE  Scanning(t) /\ UpToWord(t.optind - 1) = UpToWord(s.optind)
<1> DEFINE o == s.optind
<1>1. N \in Nat /\ argc = N + 1 /\ o \in 1..N /\ Class[o] = "option"
  BY AtOptionIs
<1>2. o + 1 \in 1..N /\ (o + 1) - 1 = o /\ (o + 2) - 1 = o + 1
  BY <1>1
<1>3. Class[o + 1] = "argument"
  <2>1. Class[o + 1] = ClassAfter(Class[o], o + 1)
    BY <1>2, ClassSteps
  <2> QED
    BY <1>1, <1>2, <2>1 DEF ClassAfter
<1>4. Segments(t)
  <2>1. \A w \in o..((o + 2) - 1) : w \notin Kept
    <3>1. \A w \in o..((o + 2) - 1) : w = o \/ w = o + 1
      BY <1>1
    <3>2. o \notin Kept /\ o + 1 \notin Kept
      BY <1>1, <1>3, KeptWords
    <3> QED
      BY <3>1, <3>2
  <2>2. o + 2 \in o..argc
    BY <1>1
  <2>3. Segments(s)
    BY DEF AtOption
  <2> QED
    BY <2>1, <2>2, <2>3, SegmentsPass
<1>5. IsNew(o + 2)
  BY <1>2, <1>3 DEF IsNew
<1>6. UpToWord(o + 1) = UpToWord(o)
  <2>1. Part(o + 1) = << >>
    BY <1>3 DEF Part
  <2> QED
    BY <1>2, <2>1, NothingMore
<1>7. Scanning(t)
  BY <1>4, <1>5 DEF Scanning, SameWords, AtOption
<1> QED
  BY <1>2, <1>6, <1>7

\* What TakeNext returns is what the scan of the words expects.
LEMMA TakeNextStep ==
    ASSUME Inputs, NEW s, AtOption(s), NEW t, SameWords(s, t),
           t.nextchar = << >>, t.optind = s.optind + 1,
           TakesNext(words[s.optind]), NEW code, code # "-1"
    PROVE  LET r == TakeNext(t, code) IN
           /\ r.code # "-1"
           /\ Scanning(r.s)
           /\ r.s.nextchar = << >>
           /\ UpToWord(r.s.optind - 1) = UpToWord(s.optind)
           /\ Result(r.code, r.arg) = NextArgument(s.optind, code)
<1> DEFINE o == s.optind
           r == TakeNext(t, code)
<1>1. /\ N \in Nat /\ argc = N + 1 /\ o \in 1..N
      /\ o + 1 <= N => s.argv[o + 1] = o + 1
  BY AtOptionIs
<1>2. CASE o < N
  <2> DEFINE u == [t EXCEPT !.optind = @ + 1]
  <2>1. t.optind < argc /\ t.argv[t.optind] = o + 1
    BY <1>1, <1>2 DEF SameWords
  <2>2. r = Returns(u, code, Word(o + 1))
    BY <2>1 DEF TakeNext
  <2>3. (o + 1) + 1 = o + 2
    BY <1>1
  <2>4. SameWords(s, u) /\ u.nextchar = << >> /\ u.optind = o + 2
    BY <2>3 DEF SameWords, IsState, Fields
  <2> HIDE DEF u
  <2>5. Scanning(u) /\ UpToWord(u.optind - 1) = UpToWord(o)
    BY <1>2, <2>4, ArgumentPassed
  <2>6. NextArgument(o, code) = Result(code, Word(o + 1))
    BY <1>2 DEF NextArgument, N
  <2> QED
    BY <2>2, <2>4, <2>5, <2>6 DEF Returns
<1>3. CASE ~(o < N)
  <2>1. ~(t.optind < argc)
    BY <1>1, <1>3
  <2>2. r = Returns(t, Missing, NoArg)
    BY <2>1 DEF TakeNext
  <2>3. Missing # "-1"
    BY DEF Missing
  <2>4. Scanning(t)
    BY <1>3, OptionPassed
  <2>5. NextArgument(o, code) = Result(Missing, NoArg)
    BY <1>3 DEF NextArgument, N
  <2>6. t.optind - 1 = o
    BY <1>1
  <2> QED
    BY <2>2, <2>3, <2>4, <2>5, <2>6 DEF Returns
<1> QED
  BY <1>2, <1>3

LEMMA EmptyIs == ASSUME NEW S, NEW y \in Seq(S) PROVE y = << >> <=> Len(y) = 0
  OBVIOUS

LEMMA PartGrows ==
    ASSUME NEW u \in Seq(Returned), NEW p \in Seq(Returned), NEW j \in 0..(Len(p) - 1)
    PROVE  /\ Append(u \o SubSeq(p, 1, j), p[j + 1]) = u \o SubSeq(p, 1, j + 1)
           /\ SubSeq(p, 1, Len(p)) = p
           /\ SubSeq(p, 1, 0) = << >>
<1>1. Len(p) \in Nat /\ Len(u) \in Nat /\ j \in Nat /\ j + 1 \in 1..Len(p)
  OBVIOUS
<1> DEFINE x == SubSeq(p, 1, j)
           y == SubSeq(p, 1, j + 1)
<1>2. x \in Seq(Returned) /\ Len(x) = j /\ \A i \in 1..j : x[i] = p[i]
  OBVIOUS
<1>3. y \in Seq(Returned) /\ Len(y) = j + 1 /\ \A i \in 1..(j + 1) : y[i] = p[i]
  OBVIOUS
<1>4. p[j + 1] \in Returned
  BY <1>1
<1> HIDE DEF x, y
<1> DEFINE a == Append(u \o x, p[j + 1])
           b == u \o y
<1>5. a \in Seq(Returned) /\ b \in Seq(Returned)
  BY <1>2, <1>3, <1>4
<1>6. Len(a) = Len(u) + j + 1 /\ Len(b) = Len(u) + j + 1
  <2> DEFINE v == u \o x
  <2>1. v \in Seq(Returned) /\ Len(v) = Len(u) + j
    <3>1. v \in Seq(Returned)
      BY <1>2
    <3>2. Len(v) = Len(u) + Len(x)
      BY <1>2
    <3> QED
      BY <1>2, <3>1, <3>2
  <2>2. Len(b) = Len(u) + (j + 1)
    BY <1>3
  <2> HIDE DEF v
  <2>3. Len(Append(v, p[j + 1])) = Len(v) + 1
    BY <1>4, <2>1
  <2> QED
    BY <1>1, <2>1, <2>2, <2>3 DEF v
<1>7. ASSUME NEW i \in 1..(Len(u) + j + 1) PROVE a[i] = b[i]
  <2>1. CASE i <= Len(u)
    <3>1. a[i] = u[i] /\ b[i] = u[i]
      BY <1>1, <1>2, <1>3, <1>4, <2>1
    <3> QED
      BY <3>1
  <2>2. CASE i > Len(u) /\ i <= Len(u) + j
    <3>1. a[i] = x[i - Len(u)] /\ b[i] = y[i - Len(u)]
      BY <1>1, <1>2, <1>3, <1>4, <2>2
    <3>2. i - Len(u) \in 1..j /\ i - Len(u) \in 1..(j + 1)
      BY <1>1, <2>2
    <3> QED
      BY <1>2, <1>3, <3>1, <3>2
  <2>3. CASE i = Len(u) + j + 1
    <3>1. a[i] = p[j + 1] /\ b[i] = y[j + 1]
      BY <1>1, <1>2, <1>3, <1>4, <2>3
    <3> QED
      BY <1>1, <1>3, <3>1
  <2> HIDE DEF a, b
  <2> QED
    BY <1>1, <2>1, <2>2, <2>3
<1>8. a = b
  <2> HIDE DEF a, b
  <2> QED
    BY <1>5, <1>6, <1>7
<1>9. Append(u \o SubSeq(p, 1, j), p[j + 1]) = u \o SubSeq(p, 1, j + 1)
  BY <1>8 DEF x, y
<1>10. SubSeq(p, 1, Len(p)) = p
  OBVIOUS
<1>11. SubSeq(p, 1, 0) = << >>
  OBVIOUS
<1> QED
  BY <1>9, <1>10, <1>11

\* A return: the scan has ended, or can go on.
Goes(r, res) ==
    IF r.code = "-1" THEN EndsWell(r.s, res)
    ELSE Scanning(r.s) /\ Told(r.s, Append(res, Result(r.code, r.arg)))

\* The result of a word with one result, or the last of a cluster.
LEMMA WordIsTold ==
    ASSUME Inputs, NEW s, AtOption(s), NEW p \in Nat, NEW res, NEW r,
           Len(Part(s.optind)) = p + 1,
           res = UpToWord(s.optind - 1) \o SubSeq(Part(s.optind), 1, p),
           Result(r.code, r.arg) = Part(s.optind)[p + 1],
           r.code # "-1", Scanning(r.s), r.s.nextchar = << >>,
           UpToWord(r.s.optind - 1) = UpToWord(s.optind)
    PROVE  Goes(r, res)
<1> DEFINE o == s.optind
           u == UpToWord(o - 1)
           q == Part(o)
<1>1. N \in Nat /\ argc = N + 1 /\ o \in 1..N
  BY AtOptionIs
<1>2. q \in Seq(Returned) /\ Len(q) = p + 1
  BY <1>1, PartsAreSequences
<1>3. u \in Seq(Returned)
  <2>1. o - 1 \in 0..N
    BY <1>1
  <2> QED
    BY <2>1, UpToSteps
<1>4. UpToWord(o) = u \o q
  BY <1>1, UpToSteps
<1>5. res = u \o SubSeq(q, 1, p) /\ Result(r.code, r.arg) = q[p + 1]
  OBVIOUS
<1>6. Append(res, Result(r.code, r.arg)) = UpToWord(o)
  <2> HIDE DEF u, q
  <2>1. p \in 0..(Len(q) - 1)
    BY <1>2
  <2>2. Append(u \o SubSeq(q, 1, p), q[p + 1]) = u \o SubSeq(q, 1, p + 1)
        /\ SubSeq(q, 1, Len(q)) = q
    BY <1>2, <1>3, <2>1, PartGrows
  <2> QED
    BY <1>2, <1>4, <1>5, <2>2
<1>7. r.s.optind \in 1..argc
  BY DEF Scanning, Segments
<1>8. Told(r.s, Append(res, Result(r.code, r.arg)))
  BY <1>6, <1>7, ToldBetweenWords
<1> QED
  BY <1>8 DEF Goes

\* The letters behind the first of chars.
LEMMA ClusterIs ==
    ASSUME Inputs, NEW i \in 1..N, NEW chars, chars # << >>, InCluster(i, chars)
    PROVE  LET text == words[i].text
               p == Len(text) - Len(chars)
           IN /\ words[i].type = "short" /\ Class[i] = "option"
              /\ Len(text) \in Nat
              /\ p \in Nat /\ p + 1 \in 1..LastLetter(words[i])
              /\ LastLetter(words[i]) \in 1..Len(text)
              /\ Head(chars) = text[p + 1]
              /\ Tail(chars) = SubSeq(text, p + 2, Len(text))
              /\ Tail(chars) = << >> <=> p + 1 = Len(text)
              /\ Len(Tail(chars)) = Len(text) - (p + 1)
<1> DEFINE text == words[i].text
           len == Len(text)
           p == len - Len(chars)
           T == ToSet(text)
<1>1. words[i].type = "short" /\ IsNew(i) /\ p \in 0..(LastLetter(words[i]) - 1)
      /\ chars = SubSeq(text, p + 1, len)
  BY DEF InCluster
<1>2. Class[i] = "option"
  BY <1>1, ClassOfNew
<1>3. text \in Seq(T) \ {<< >>}
  BY <1>1, <1>2, OptionHasType
<1>4. len \in Nat /\ LastLetter(words[i]) \in 1..len
  BY <1>3, LastLetterIs
<1>5. p \in Nat /\ p + 1 \in 1..LastLetter(words[i]) /\ p + 1 \in 1..len
  BY <1>1, <1>4
<1>6. /\ Head(chars) = text[p + 1]
      /\ Tail(chars) = SubSeq(text, p + 2, len)
      /\ Len(Tail(chars)) = len - (p + 1)
  <2> DEFINE k == p + 1
             x == SubSeq(text, k, len)
  <2> HIDE DEF T, len, p, text
  <2>1. text \in Seq(T) /\ len = Len(text) /\ k \in 1..len /\ p \in Nat
    BY <1>3, <1>5 DEF len
  <2>2. x \in Seq(T) /\ Len(x) = len - p /\ \A n \in 1..(len - p) : x[n] = text[p + n]
    BY <2>1
  <2> HIDE DEF x, k
  <2>3. x # << >> /\ Head(x) = text[p + 1]
    BY <1>4, <1>5, <2>1, <2>2
  <2>4. Tail(x) \in Seq(T) /\ Len(Tail(x)) = len - (p + 1)
        /\ \A n \in 1..(len - (p + 1)) : Tail(x)[n] = text[(p + 1) + n]
    BY <1>4, <1>5, <2>2, <2>3
  <2> DEFINE y == SubSeq(text, p + 2, len)
  <2>5. y \in Seq(T) /\ Len(y) = len - (p + 1)
        /\ \A n \in 1..(len - (p + 1)) : y[n] = text[(p + 1) + n]
    <3>1. p + 2 \in Nat /\ 1 <= p + 2 /\ p + 2 <= len + 1 /\ len \in Nat
      BY <1>4, <1>5, <2>1
    <3> DEFINE start == p + 2
    <3> HIDE DEF start
    <3>2. /\ SubSeq(text, start, len) \in Seq(T)
          /\ Len(SubSeq(text, start, len)) = (len + 1) - start
          /\ \A n \in 1..((len + 1) - start) :
                SubSeq(text, start, len)[n] = text[start + n - 1]
      BY <2>1, <3>1 DEF start
    <3>3. (len + 1) - start = len - (p + 1)
      BY <2>1, <3>1 DEF start
    <3>4. \A n \in 1..(len - (p + 1)) : start + n - 1 = (p + 1) + n
      BY <2>1, <3>1 DEF start
    <3> QED
      BY <3>2, <3>3, <3>4 DEF start
  <2> HIDE DEF y
  <2>6. Tail(x) = y
    BY <2>4, <2>5
  <2>7. chars = x
    BY <1>1 DEF x, k, len, text
  <2> QED
    BY <2>3, <2>4, <2>6, <2>7 DEF y
<1>7. Tail(chars) = << >> <=> p + 1 = len
  <2> DEFINE y == SubSeq(text, p + 2, len)
  <2>1. y \in Seq(T) /\ Len(y) = len - (p + 1)
    <3> HIDE DEF T, len, p, text
    <3> QED
      BY <1>3, <1>4, <1>5 DEF len
  <2> HIDE DEF y
  <2>2. y = << >> <=> Len(y) = 0
    BY <2>1, EmptyIs
  <2>3. len \in Nat /\ p \in Nat
    BY <1>4, <1>5
  <2>4. Tail(chars) = y
    BY <1>6 DEF y
  <2> HIDE DEF len, p
  <2> QED
    BY <2>1, <2>2, <2>3, <2>4
<1> QED
  BY <1>1, <1>2, <1>4, <1>5, <1>6, <1>7

\* A letter that takes no argument leads to the next one.
LEMMA ClusterGoesOn ==
    ASSUME Inputs, NEW s, AtOption(s), NEW chars, InCluster(s.optind, chars),
           NEW t, SameWords(s, t), t.optind = s.optind, t.nextchar = chars, chars # << >>
    PROVE  Scanning(t)
<1>1. s.optind \in 1..N /\ argc = N + 1 /\ N \in Nat
  BY AtOptionIs
<1>2. Segments(t)
  <2>1. s.optind..(t.optind - 1) = {} /\ t.optind \in s.optind..argc
    BY <1>1
  <2> QED
    BY <2>1, SegmentsPass DEF AtOption
<1> QED
  BY <1>2 DEF Scanning, SameWords, AtOption

LEMMA ShortOptionStep ==
    ASSUME Inputs, NEW s, NEW res, AtOption(s), s.nextchar # << >>,
           InCluster(s.optind, s.nextchar),
           res = UpToWord(s.optind - 1) \o
                    SubSeq(Part(s.optind), 1, Len(words[s.optind].text) - Len(s.nextchar))
    PROVE  Goes(ShortOption(s), res)
<1> DEFINE o == s.optind
           w == words[o]
           text == w.text
           len == Len(text)
           p == len - Len(s.nextchar)
           last == LastLetter(w)
           c == Head(s.nextchar)
           rest == Tail(s.nextchar)
           passed == [s EXCEPT !.nextchar = rest,
                               !.optind = IF rest = << >> THEN @ + 1 ELSE @]
           ended == [passed EXCEPT !.nextchar = << >>]
           full == [ended EXCEPT !.optind = @ + 1]
           r == ShortOption(s)
           R == Result(r.code, r.arg)
<1>1. N \in Nat /\ argc = N + 1 /\ o \in 1..N
  BY AtOptionIs
<1>2. /\ w.type = "short" /\ Class[o] = "option"
      /\ len \in Nat
      /\ p \in Nat /\ p + 1 \in 1..last /\ last \in 1..len
      /\ c = text[p + 1]
      /\ rest = SubSeq(text, p + 2, len)
      /\ rest = << >> <=> p + 1 = len
      /\ Len(rest) = len - (p + 1)
  BY <1>1, ClusterIs
<1>3. text \in Seq(ToSet(text)) \ {<< >>}
  BY <1>1, <1>2, OptionHasType
<1>4. /\ p + 1 < last => ~TakesSome(c)
      /\ last # len => TakesSome(text[last])
  <2>1. \A j \in 1..(last - 1) : ~TakesSome(text[j])
    BY <1>3, LastLetterIs
  <2>2. last # len => TakesSome(text[last])
    BY <1>3, LastLetterIs
  <2> HIDE DEF text, last, p, c, len, rest
  <2> QED
    BY <1>2, <2>1, <2>2
<1>5. TakesNext(w) <=> last = len /\ text[len] \in DOMAIN Takes /\ Takes[text[len]] = "required"
  BY <1>2 DEF TakesNext
<1>6. Part(o) = [j \in 1..last |-> LetterResult(o, j)]
  BY <1>2 DEF Part
<1>7. Len(Part(o)) = last /\ Part(o)[p + 1] = LetterResult(o, p + 1)
  <2> HIDE DEF last, p, len, rest, c
  <2> QED
    BY <1>2, <1>6
<1>8. LetterResult(o, p + 1) =
        IF c \notin DOMAIN Takes THEN Result("?", NoArg)
        ELSE IF Takes[c] # "none" /\ rest # << >> THEN Result(c, Text(rest))
        ELSE IF Takes[c] = "required" THEN NextArgument(o, c)
        ELSE Result(c, NoArg)
  <2>1. (p + 1) + 1 = p + 2
    BY <1>2
  <2>2. SubSeq(words[o].text, (p + 1) + 1, Len(words[o].text)) = rest
    BY <1>2, <2>1
  <2>3. words[o].text[p + 1] = c
    BY <1>2
  <2> HIDE DEF rest, c, p
  <2> QED
    BY <2>2, <2>3 DEF LetterResult
<1>9. r = IF c \notin DOMAIN Takes THEN Returns(passed, "?", NoArg)
          ELSE IF Takes[c] = "none" THEN Returns(passed, c, NoArg)
          ELSE IF rest # << >> THEN Returns(full, c, Text(rest))
          ELSE IF Takes[c] = "optional" THEN Returns(ended, c, NoArg)
          ELSE TakeNext(ended, c)
  BY ShortOptionIs, Zenon
<1> HIDE DEF r, rest, c
<1>10. /\ SameWords(s, passed) /\ passed.nextchar = rest
       /\ passed.optind = IF rest = << >> THEN o + 1 ELSE o
  BY DEF AtOption, SameWords, IsState, Fields
<1> HIDE DEF passed
<1>11. /\ SameWords(s, ended) /\ ended.nextchar = << >> /\ ended.optind = passed.optind
  BY <1>10 DEF SameWords, IsState, Fields
<1> HIDE DEF ended
<1>12. /\ SameWords(s, full) /\ full.nextchar = << >> /\ full.optind = passed.optind + 1
  BY <1>11 DEF SameWords, IsState, Fields
<1> HIDE DEF full
<1> SUFFICES Goes(r, res)
  BY DEF r
<1>13. c \in DOMAIN Takes => c # "-1" /\ Takes[c] \in {"none", "required", "optional"}
  BY OptionAssumption DEF ArgumentKind
<1>14. res = UpToWord(o - 1) \o SubSeq(Part(o), 1, p)
  OBVIOUS
<1> HIDE DEF text, len, p, last, w
<1>15. ASSUME p + 1 = last, r.code # "-1", Scanning(r.s), r.s.nextchar = << >>,
              UpToWord(r.s.optind - 1) = UpToWord(o), R = LetterResult(o, p + 1)
       PROVE  Goes(r, res)
  BY <1>2, <1>7, <1>14, <1>15, WordIsTold
<1>22. len - Len(rest) = p + 1
  <2>1. Len(rest) = len - (p + 1) /\ len \in Nat /\ p \in Nat
    BY <1>2
  <2> QED
    BY <2>1
<1>16. CASE ~TakesSome(c)
  <2> DEFINE code == IF c \notin DOMAIN Takes THEN "?" ELSE c
  <2>1. r = Returns(passed, code, NoArg) /\ code # "-1"
    BY <1>9, <1>13, <1>16 DEF TakesSome
  <2>2. r.s = passed /\ r.code = code /\ r.arg = NoArg
    BY <2>1 DEF Returns
  <2>3. R = LetterResult(o, p + 1)
    BY <1>8, <1>16, <2>2 DEF TakesSome
  <2> HIDE DEF code
  <2>4. CASE rest # << >>
    <3>1. p + 1 < last
      <4>1. p + 1 # len
        BY <1>2, <2>4
      <4> QED
        BY <1>2, <1>4, <1>16, <4>1
    <3>2. InCluster(o, rest)
      <4>1. Len(text) - Len(rest) = p + 1
        BY <1>22 DEF len
      <4>2. p + 1 \in 0..(last - 1)
        BY <1>2, <3>1
      <4>3. rest = SubSeq(text, (p + 1) + 1, Len(text))
        <5>1. (p + 1) + 1 = p + 2
          BY <1>2
        <5> QED
          BY <1>2, <5>1 DEF len
      <4>4. o \in 1..N /\ IsNew(o) /\ words[o].type = "short"
        BY <1>1, <1>2 DEF AtOption, w
      <4> QED
        BY <4>1, <4>2, <4>3, <4>4 DEF InCluster, text, last, w
    <3>3. Scanning(passed)
      BY <1>10, <2>4, <3>2, ClusterGoesOn
    <3>4. Append(res, R) = UpToWord(o - 1) \o SubSeq(Part(o), 1, p + 1)
      <4> DEFINE u == UpToWord(o - 1)
                 q == Part(o)
      <4>1. u \in Seq(Returned)
        <5>1. o - 1 \in 0..N
          BY <1>1
        <5> QED
          BY <5>1, UpToSteps
      <4>2. q \in Seq(Returned)
        BY <1>1, PartsAreSequences
      <4>3. p \in 0..(Len(q) - 1)
        BY <1>2, <1>7
      <4>4. res = u \o SubSeq(q, 1, p) /\ R = q[p + 1]
        BY <1>7, <1>14, <2>3
      <4> HIDE DEF u, q, R
      <4>5. Append(u \o SubSeq(q, 1, p), q[p + 1]) = u \o SubSeq(q, 1, p + 1)
        BY <4>1, <4>2, <4>3, PartGrows
      <4>6. Append(res, R) = u \o SubSeq(q, 1, p + 1)
        BY <4>4, <4>5
      <4> QED
        BY <4>6 DEF u, q
    <3>5. Told(passed, Append(res, R))
      <4>1. passed.nextchar = rest /\ passed.optind = o
        BY <1>10, <2>4
      <4>2. Len(words[o].text) - Len(rest) = p + 1
        BY <1>22 DEF len, text, w
      <4> QED
        BY <2>4, <3>4, <4>1, <4>2 DEF Told
    <3> QED
      BY <2>1, <2>2, <3>3, <3>5 DEF Goes
  <2>5. CASE rest = << >>
    <3>1. p + 1 = len /\ p + 1 = last
      BY <1>2, <2>5
    <3>2. ~TakesNext(w)
      BY <1>2, <1>5, <1>16, <3>1 DEF TakesSome
    <3>3. passed.optind = o + 1 /\ passed.nextchar = << >>
      BY <1>10, <2>5
    <3>4. Scanning(passed)
      BY <1>10, <3>2, <3>3, OptionPassed DEF w
    <3>5. passed.optind - 1 = o
      BY <1>1, <3>3
    <3> QED
      BY <1>15, <2>1, <2>2, <2>3, <3>1, <3>3, <3>4, <3>5
  <2> QED
    BY <2>4, <2>5
<1>17. CASE TakesSome(c) /\ rest # << >>
  <2>1. r = Returns(full, c, Text(rest)) /\ c # "-1"
    BY <1>9, <1>13, <1>17 DEF TakesSome
  <2>2. r.s = full /\ r.code = c /\ r.arg = Text(rest)
    BY <2>1 DEF Returns
  <2>3. R = LetterResult(o, p + 1)
    BY <1>8, <1>17, <2>2 DEF TakesSome
  <2>4. p + 1 = last /\ last # len
    <3>1. p + 1 # len
      BY <1>2, <1>17
    <3>2. ~(p + 1 < last)
      BY <1>4, <1>17
    <3> QED
      BY <1>2, <3>1, <3>2
  <2>5. ~TakesNext(w)
    BY <1>5, <2>4
  <2>6. full.optind = o + 1
    BY <1>10, <1>11, <1>12, <1>17
  <2>7. Scanning(full)
    BY <1>12, <2>5, <2>6, OptionPassed DEF w
  <2>8. full.optind - 1 = o
    BY <1>1, <2>6
  <2> QED
    BY <1>12, <1>15, <2>1, <2>2, <2>3, <2>4, <2>7, <2>8
<1>18. CASE TakesSome(c) /\ rest = << >> /\ Takes[c] = "optional"
  <2>1. r = Returns(ended, c, NoArg) /\ c # "-1"
    BY <1>9, <1>13, <1>18 DEF TakesSome
  <2>2. r.s = ended /\ r.code = c /\ r.arg = NoArg
    BY <2>1 DEF Returns
  <2>3. R = LetterResult(o, p + 1)
    BY <1>8, <1>18, <2>2 DEF TakesSome
  <2>4. p + 1 = last /\ last = len
    BY <1>2, <1>18
  <2>5. ~TakesNext(w)
    BY <1>2, <1>5, <1>18, <2>4
  <2>6. ended.optind = o + 1
    BY <1>10, <1>11, <1>18
  <2>7. Scanning(ended)
    BY <1>11, <2>5, <2>6, OptionPassed DEF w
  <2>8. ended.optind - 1 = o
    BY <1>1, <2>6
  <2> QED
    BY <1>11, <1>15, <2>1, <2>2, <2>3, <2>4, <2>7, <2>8
<1>19. CASE TakesSome(c) /\ rest = << >> /\ Takes[c] = "required"
  <2>1. r = TakeNext(ended, c) /\ c # "-1"
    BY <1>9, <1>13, <1>19 DEF TakesSome
  <2>2. p + 1 = last /\ last = len
    BY <1>2, <1>19
  <2>3. TakesNext(w)
    BY <1>2, <1>5, <1>19, <2>2 DEF TakesSome
  <2>4. ended.optind = o + 1
    BY <1>10, <1>11, <1>19
  <2>5. /\ r.code # "-1" /\ Scanning(r.s) /\ r.s.nextchar = << >>
        /\ UpToWord(r.s.optind - 1) = UpToWord(o)
        /\ Result(r.code, r.arg) = NextArgument(o, c)
    <3>1. TakesNext(words[s.optind])
      BY <2>3 DEF w
    <3> QED
      BY <1>11, <2>1, <2>4, <3>1, TakeNextStep
  <2>6. R = LetterResult(o, p + 1)
    BY <1>8, <1>19, <2>5 DEF TakesSome
  <2> QED
    BY <1>15, <2>2, <2>5, <2>6
<1>20. TakesSome(c) => Takes[c] \in {"required", "optional"}
  BY <1>13 DEF TakesSome
<1> QED
  BY <1>16, <1>17, <1>18, <1>19, <1>20

LEMMA LongOptionStep ==
    ASSUME Inputs, NEW s, NEW res, AtOption(s), words[s.optind].type = "long",
           res = UpToWord(s.optind - 1)
    PROVE  Goes(LongOption(s), res)
<1> DEFINE o == s.optind
           w == words[o]
           passed == [s EXCEPT !.optind = @ + 1, !.nextchar = << >>]
           r == LongOption(s)
<1>1. /\ N \in Nat /\ argc = N + 1 /\ o \in 1..N /\ Class[o] = "option"
      /\ WordAt(s, o) = w
  BY AtOptionIs
<1>2. w.match \in {"unknown", "ambiguous"} \cup ArgumentKind /\ w.value \in BOOLEAN
  <2>1. IsWord(w)
    BY <1>1, WordsAreWords
  <2> QED
    BY <2>1 DEF IsWord
<1>3. r = IF w.match \in {"unknown", "ambiguous"} \/ (w.match = "none" /\ w.value)
          THEN Returns(passed, "?", NoArg)
          ELSE IF w.value THEN Returns(passed, "long", Text(<<"=">>))
          ELSE IF w.match = "required" THEN TakeNext(passed, "long")
          ELSE Returns(passed, "long", NoArg)
  BY <1>1, <1>2, LongOptionIs, Zenon
<1>4. LongResult(o) = IF w.match \in {"unknown", "ambiguous"} \/ (w.match = "none" /\ w.value)
                      THEN Result("?", NoArg)
                      ELSE IF w.value THEN Result("long", Text(<<"=">>))
                      ELSE IF w.match = "required" THEN NextArgument(o, "long")
                      ELSE Result("long", NoArg)
  BY Zenon DEF LongResult
<1>5. TakesNext(w) <=> w.match = "required" /\ ~w.value
  BY Zenon DEF TakesNext
<1>6. /\ Part(o) = <<LongResult(o)>>
      /\ Len(Part(o)) = 0 + 1
      /\ Part(o)[0 + 1] = LongResult(o)
  <2> DEFINE e == LongResult(o)
  <2>1. Part(o) = <<e>>
    BY <1>1, Zenon DEF Part
  <2> HIDE DEF e
  <2>2. Len(<<e>>) = 0 + 1 /\ <<e>>[0 + 1] = e
    OBVIOUS
  <2> QED
    BY <2>1, <2>2 DEF e
<1>7. res = UpToWord(o - 1) \o SubSeq(Part(o), 1, 0)
  <2> DEFINE u == UpToWord(o - 1)
             q == Part(o)
  <2>1. u \in Seq(Returned)
    <3>1. o - 1 \in 0..N
      BY <1>1
    <3> QED
      BY <3>1, UpToSteps
  <2>2. q \in Seq(Returned)
    BY <1>1, PartsAreSequences
  <2> HIDE DEF u, q
  <2>3. SubSeq(q, 1, 0) = << >> /\ u \o << >> = u
    BY <2>1, <2>2
  <2> QED
    BY <2>3 DEF u, q
<1>8. SameWords(s, passed) /\ passed.nextchar = << >> /\ passed.optind = o + 1
  BY DEF AtOption, SameWords, IsState, Fields
<1> HIDE DEF passed, r
<1> SUFFICES Goes(r, res)
  BY DEF r
<1>9. ASSUME r.code # "-1", Scanning(r.s), r.s.nextchar = << >>,
             UpToWord(r.s.optind - 1) = UpToWord(o), Result(r.code, r.arg) = LongResult(o)
      PROVE  Goes(r, res)
  BY <1>6, <1>7, <1>9, WordIsTold
<1>10. passed.optind - 1 = o
  BY <1>1, <1>8
<1>11. ASSUME NEW code, NEW arg, r = Returns(passed, code, arg), code # "-1",
              ~(w.match = "required" /\ ~w.value), LongResult(o) = Result(code, arg)
       PROVE  Goes(r, res)
  <2>1. r.s = passed /\ r.code = code /\ r.arg = arg
    BY <1>11 DEF Returns
  <2>2. ~TakesNext(words[s.optind])
    BY <1>5, <1>11
  <2>3. Scanning(passed)
    BY <1>8, <2>2, OptionPassed
  <2> QED
    BY <1>8, <1>9, <1>10, <1>11, <2>1, <2>3
<1>12. CASE w.match \in {"unknown", "ambiguous"} \/ (w.match = "none" /\ w.value)
  <2>1. r = Returns(passed, "?", NoArg) /\ LongResult(o) = Result("?", NoArg)
    BY <1>3, <1>4, <1>12, Zenon
  <2>2. ~(w.match = "required" /\ ~w.value)
    BY <1>12
  <2> QED
    BY <1>11, <2>1, <2>2
<1>13. CASE ~(w.match \in {"unknown", "ambiguous"} \/ (w.match = "none" /\ w.value)) /\ w.value
  <2>1. r = Returns(passed, "long", Text(<<"=">>)) /\ LongResult(o) = Result("long", Text(<<"=">>))
    BY <1>3, <1>4, <1>13, Zenon
  <2> QED
    BY <1>11, <1>13, <2>1
<1>14. CASE w.match = "required" /\ ~w.value
  <2>1. w.match \notin {"unknown", "ambiguous"} /\ w.match # "none"
    BY <1>14
  <2>2. r = TakeNext(passed, "long") /\ LongResult(o) = NextArgument(o, "long")
    BY <1>3, <1>4, <1>14, <2>1, Zenon
  <2>3. TakesNext(words[s.optind])
    BY <1>5, <1>14
  <2>4. /\ r.code # "-1" /\ Scanning(r.s) /\ r.s.nextchar = << >>
        /\ UpToWord(r.s.optind - 1) = UpToWord(o)
        /\ Result(r.code, r.arg) = NextArgument(o, "long")
    BY <1>8, <2>2, <2>3, TakeNextStep
  <2> QED
    BY <1>9, <2>2, <2>4
<1>15. CASE /\ ~(w.match \in {"unknown", "ambiguous"} \/ (w.match = "none" /\ w.value))
            /\ ~w.value /\ w.match # "required"
  <2>1. r = Returns(passed, "long", NoArg) /\ LongResult(o) = Result("long", NoArg)
    BY <1>3, <1>4, <1>15, Zenon
  <2> QED
    BY <1>11, <1>15, <2>1
<1> QED
  BY <1>2, <1>12, <1>13, <1>14, <1>15, Zenon

\* In RETURN_IN_ORDER an operand is returned like an option.
LEMMA OperandStep ==
    ASSUME Inputs, NEW s, NEW res, AtWord(s, res), s.optind < argc,
           words[s.optind].type = "operand"
    PROVE  Goes(NextWord(s), res)
<1> DEFINE o == s.optind
           a == s.argv
           r == NextWord(s)
<1>1. /\ N \in Nat /\ argc = N + 1 /\ o \in 1..argc /\ IsState(s) /\ Segments(s)
      /\ s.ordering = Ordering /\ s.initialized = TRUE /\ s.nextchar = << >> /\ Scanning(s)
      /\ Told(s, res)
  BY WordsAreWords DEF AtWord, Scanning, Segments
<1>2. o \in 1..N
  BY <1>1
<1>3. IsNew(o)
  BY <1>1 DEF Scanning
<1>4. \A i \in o..N : a[i] = i
  BY <1>1, SegmentBounds DEF Arranged
<1>5. a[o] = o /\ WordAt(s, o) = words[o]
  <2>1. a[o] = o
    BY <1>2, <1>4
  <2> QED
    BY <2>1 DEF WordAt
<1>6. Ordering # "PERMUTE"
  BY <1>1 DEF AtWord
<1>7. res = UpToWord(o - 1)
  BY <1>1, ToldBetweenWords
<1>8. CASE Ordering = "REQUIRE_ORDER"
  <2>1. r = Returns(s, "-1", NoArg)
    BY <1>1, <1>5, <1>8 DEF NextWord
  <2>2. r.s = s /\ r.code = "-1"
    BY <2>1 DEF Returns
  <2>3. Class[o] = "rest"
    BY <1>2, <1>3, <1>8, ClassOfNew
  <2>4. res = UpToWord(N)
    BY <1>2, <1>7, <2>3, RestReturnsNothing
  <2>5. s.first_nonopt = s.last_nonopt
    BY <1>1, <1>8 DEF Segments
  <2>6. ASSUME NEW i \in 1..N PROVE a[i] \in Kept <=> o <= i
    <3>1. CASE i < o
      <4>1. i \in 1..(o - 1)
        BY <1>1, <3>1
      <4>2. a[i] \in Kept <=> s.first_nonopt <= i /\ i < s.last_nonopt
        BY <1>1, <4>1, SegmentBounds DEF Arranged
      <4>3. s.first_nonopt \in Nat
        BY <1>1 DEF Segments
      <4>4. ~(s.first_nonopt <= i /\ i < s.last_nonopt) /\ ~(o <= i)
        BY <1>2, <2>5, <3>1, <4>3
      <4> QED
        BY <4>2, <4>4
    <3>2. CASE o <= i
      <4>1. a[i] = i
        BY <1>4, <3>2, <1>1
      <4>2. Class[i] = "rest"
        <5>1. i = o \/ i \in (o + 1)..N
          BY <1>1, <3>2
        <5>2. o \in 0..N
          BY <1>2
        <5> QED
          BY <2>3, <5>1, <5>2, RestIsRest
      <4>3. i \in Kept
        BY <4>2, KeptWords
      <4> QED
        BY <3>2, <4>1, <4>3
    <3> QED
      BY <1>1, <3>1, <3>2
  <2>7. EndsWell(s, res)
    <3>1. Stable(a)
      BY <1>1, SegmentBounds DEF Arranged
    <3>2. /\ s.first_nonopt \in Nat /\ 1 <= s.first_nonopt
          /\ s.last_nonopt \in Nat /\ 1 <= s.last_nonopt
      BY <1>1, <2>5 DEF Segments
    <3> QED
      BY <1>1, <2>4, <2>6, <3>1, <3>2 DEF EndsWell
  <2> QED
    BY <2>2, <2>7 DEF Goes
<1>9. CASE Ordering # "REQUIRE_ORDER"
  <2> DEFINE t == [s EXCEPT !.optind = @ + 1]
  <2>1. r = Returns(t, "operand", Word(o))
    BY <1>1, <1>5, <1>9 DEF NextWord
  <2>2. r.s = t /\ r.code = "operand" /\ r.arg = Word(o)
    BY <2>1 DEF Returns
  <2>3. SameWords(s, t) /\ t.nextchar = << >> /\ t.optind = o + 1
    BY <1>1 DEF SameWords, IsState, Fields
  <2> HIDE DEF t, r
  <2>4. Ordering = "RETURN_IN_ORDER"
    BY <1>6, <1>9, OrderingValues
  <2>5. Class[o] = "operand"
    BY <1>2, <1>3, <1>9, ClassOfNew
  <2>6. Segments(t)
    <3>1. \A x \in o..(t.optind - 1) : x \notin Kept
      <4>1. \A x \in o..((o + 1) - 1) : x = o
        BY <1>2
      <4>2. o \notin Kept
        BY <1>6, <2>5, KeptWords
      <4> QED
        BY <2>3, <4>1, <4>2
    <3>2. t.optind \in o..argc
      BY <1>1, <1>2, <2>3
    <3> QED
      BY <1>1, <2>3, <3>1, <3>2, SegmentsPass
  <2>7. Scanning(t)
    <3>1. (o + 1) - 1 = o
      BY <1>1
    <3>2. IsNew(o + 1)
      BY <2>5, <3>1 DEF IsNew
    <3> QED
      BY <1>1, <2>3, <2>6, <3>2 DEF Scanning, SameWords
  <2>8. Append(res, Result("operand", Word(o))) = UpToWord(o)
    <3> DEFINE u == UpToWord(o - 1)
               e == Result("operand", Word(o))
    <3>1. Part(o) = <<e>>
      BY <2>4, <2>5 DEF Part
    <3>2. u \in Seq(Returned)
      <4>1. o - 1 \in 0..N
        BY <1>2, <1>1
      <4> QED
        BY <4>1, UpToSteps
    <3>3. UpToWord(o) = u \o <<e>>
      BY <1>2, <3>1, UpToSteps
    <3> HIDE DEF u, e
    <3>4. Append(u, e) = u \o <<e>>
      BY <3>2
    <3> QED
      BY <1>7, <3>3, <3>4 DEF u, e
  <2>9. Told(t, Append(res, Result("operand", Word(o))))
    <3>1. t.optind - 1 = o /\ t.optind \in 1..argc
      BY <1>1, <1>2, <2>3
    <3> QED
      BY <2>3, <2>8, <3>1, ToldBetweenWords
  <2>10. Goes(r, res)
    BY <2>2, <2>7, <2>9 DEF Goes
  <2> QED
    BY <2>10 DEF r
<1> QED
  BY <1>8, <1>9

LEMMA NextWordStep ==
    ASSUME Inputs, NEW s, NEW res, AtWord(s, res), s.optind < argc,
           words[s.optind].type # "end"
    PROVE  Goes(NextWord(s), res)
<1> DEFINE o == s.optind
           w == words[o]
           r == NextWord(s)
<1>1. /\ N \in Nat /\ argc = N + 1 /\ o \in 1..argc /\ IsState(s) /\ Segments(s)
      /\ s.ordering = Ordering /\ s.initialized = TRUE /\ s.nextchar = << >> /\ Scanning(s)
      /\ Told(s, res)
  BY WordsAreWords DEF AtWord, Scanning, Segments
<1>2. o \in 1..N /\ IsNew(o)
  BY <1>1 DEF Scanning
<1>3. IsWord(w)
  BY <1>2, WordsAreWords
<1>4. w.type \in {"operand", "short", "long"}
  BY <1>3 DEF IsWord
<1>5. CASE w.type = "operand"
  BY <1>5, OperandStep
<1>6. CASE w.type # "operand"
  <2>1. AtOption(s)
    BY <1>1, <1>2, <1>4, <1>6 DEF AtOption
  <2>2. WordAt(s, o) = w
    BY <2>1, AtOptionIs
  <2>3. res = UpToWord(o - 1)
    BY <1>1, ToldBetweenWords
  <2>4. CASE w.type = "long"
    <3>1. r = LongOption(s)
      BY <2>2, <2>4 DEF NextWord
    <3> QED
      BY <2>1, <2>3, <2>4, <3>1, LongOptionStep
  <2>5. CASE w.type = "short"
    <3> DEFINE t == [s EXCEPT !.nextchar = w.text]
               len == Len(w.text)
               T == ToSet(w.text)
    <3>1. r = ShortOption(t)
      BY <2>2, <2>5 DEF NextWord
    <3>2. SameWords(s, t) /\ t.nextchar = w.text /\ t.optind = o
      BY <1>1 DEF SameWords, IsState, Fields
    <3> HIDE DEF t
    <3>3. w.text \in Seq(T) \ {<< >>}
      BY <1>3, <2>5 DEF IsWord
    <3>4. len \in Nat /\ LastLetter(w) \in 1..len
      BY <3>3, LastLetterIs
    <3>5. SubSeq(w.text, 0 + 1, len) = w.text /\ len - len = 0
      <4> HIDE DEF T
      <4> QED
        BY <3>3
    <3>6. InCluster(o, w.text)
      BY <1>2, <2>5, <3>4, <3>5 DEF InCluster
    <3>7. AtOption(t)
      <4>1. Segments(t)
        BY <1>1, <3>2 DEF Segments, SameWords
      <4> QED
        BY <2>1, <3>2, <4>1 DEF AtOption, SameWords
    <3>8. res = UpToWord(o - 1) \o SubSeq(Part(o), 1, len - Len(w.text))
      <4> DEFINE u == UpToWord(o - 1)
                 q == Part(o)
      <4>1. u \in Seq(Returned)
        <5>1. o - 1 \in 0..N
          BY <1>1, <1>2
        <5> QED
          BY <5>1, UpToSteps
      <4>2. q \in Seq(Returned)
        BY <1>2, PartsAreSequences
      <4> HIDE DEF u, q
      <4>3. SubSeq(q, 1, 0) = << >> /\ u \o << >> = u
        BY <4>1, <4>2
      <4>4. res = u
        BY <2>3 DEF u
      <4>5. res = u \o SubSeq(q, 1, len - Len(w.text))
        BY <3>5, <4>3, <4>4
      <4> QED
        BY <4>5 DEF u, q
    <3>9. w.text # << >>
      BY <3>3
    <3>10. Goes(ShortOption(t), res)
      BY <3>2, <3>6, <3>7, <3>8, <3>9, ShortOptionStep
    <3> QED
      BY <3>1, <3>10
  <2> QED
    BY <1>4, <1>6, <2>4, <2>5
<1> QED
  BY <1>5, <1>6

-----------------------------------------------------------------------------
(* What a step that keeps the words keeps *)

\* Nothing said of a scan depends on more than the words and the option string.
LEMMA SameInputs ==
    ASSUME words' = words, prefix' = prefix
    PROVE  N' = N /\ argc' = argc /\ Ordering' = Ordering
  BY DEF N, argc, Ordering, posixly_correct

LEMMA SameClasses ==
    ASSUME Inputs, Inputs', words' = words, prefix' = prefix
    PROVE  Class' = Class
<1> DEFINE S == {i \in 0..N : Class'[i] = Class[i]}
<1>0. N \in Nat
  BY WordsAreWords
<1>1. Class = [i \in 0..N |-> IF i = 0 THEN "program" ELSE ClassAfter(Class[i - 1], i)]
  BY ClassesExist
<1>2. (Inputs => Class = [i \in 0..N |-> IF i = 0 THEN "program"
                                         ELSE ClassAfter(Class[i - 1], i)])'
  BY ClassesExist, PTL
<1>3. \A class, i : ClassAfter(class, i)' = ClassAfter(class, i)
  BY SameInputs DEF ClassAfter
<1>4. Class' = [i \in 0..N |-> IF i = 0 THEN "program" ELSE ClassAfter(Class'[i - 1], i)]
  BY <1>2, <1>3, SameInputs
<1> DEFINE C == Class
           D == Class'
<1> HIDE DEF C, D
<1>5. 0 \in S
  <2>1. 0 \in 0..N
    BY <1>0
  <2> QED
    BY <1>1, <1>4, <2>1
<1>6. \A k \in 1..N : k - 1 \in S => k \in S
  <2> SUFFICES ASSUME NEW k \in 1..N, k - 1 \in S PROVE k \in S
    OBVIOUS
  <2>1. k \in 0..N /\ k # 0
    BY <1>0
  <2>2. Class'[k] = ClassAfter(Class'[k - 1], k) /\ Class[k] = ClassAfter(Class[k - 1], k)
    BY <1>1, <1>4, <2>1
  <2>3. Class'[k - 1] = Class[k - 1]
    OBVIOUS
  <2>4. Class'[k] = Class[k]
    BY <2>2, <2>3
  <2> QED
    BY <2>1, <2>4
<1>7. 0..N \subseteq S
  <2> HIDE DEF S
  <2> QED
    BY <1>0, <1>5, <1>6, UpTo
<1>8. \A i \in 0..N : Class'[i] = Class[i]
  BY <1>7
<1>9. D = [i \in 0..N |-> D[i]] /\ C = [i \in 0..N |-> C[i]]
  BY <1>1, <1>4 DEF C, D
<1>10. \A i \in 0..N : D[i] = C[i]
  BY <1>8 DEF C, D
<1>11. D = C
  BY <1>9, <1>10
<1> QED
  BY <1>11 DEF C, D

\* A step that changes neither the words nor the option string.
SameScan == words' = words /\ prefix' = prefix /\ Inputs /\ Inputs'

LEMMA SameKept ==
    ASSUME SameScan
    PROVE  Kept' = Kept
  BY SameInputs, SameClasses DEF Kept, Left, Class, SameScan

LEMMA SamePart ==
    ASSUME SameScan, NEW i
    PROVE  Part(i)' = Part(i)
  BY SameInputs, SameClasses DEF Part, LongResult, LetterResult, NextArgument, Missing, SameScan

\* UpToWord as it is computed, as a formula of its own so that it can be primed.
UpToIsRecursive ==
    /\ UpToWord(0) = << >>
    /\ \A k \in 1..N : UpToWord(k) = UpToWord(k - 1) \o Part(k)

LEMMA UpToIs == Inputs => UpToIsRecursive
  BY UpToSteps DEF UpToIsRecursive

LEMMA SameUpTo ==
    ASSUME SameScan, NEW k \in 0..N
    PROVE  UpToWord(k)' = UpToWord(k)
<1> DEFINE S == {i \in 0..N : UpToWord(i)' = UpToWord(i)}
<1>0. N \in Nat /\ N' = N
  BY WordsAreWords, SameInputs DEF SameScan
<1>1. /\ UpToWord(0) = << >>
      /\ \A i \in 1..N : UpToWord(i) = UpToWord(i - 1) \o Part(i)
  BY UpToSteps DEF SameScan
<1>2. UpToIsRecursive'
  <2>1. (Inputs => UpToIsRecursive)'
    BY UpToIs, PTL
  <2>2. Inputs'
    BY DEF SameScan
  <2> QED
    BY <2>1, <2>2
<1>4. UpToWord(0)' = << >>
  BY <1>2 DEF UpToIsRecursive
<1>5. \A i \in 1..N : UpToWord(i)' = UpToWord(i - 1)' \o Part(i)
  BY <1>0, <1>2, SamePart DEF UpToIsRecursive
<1>6. 0 \in S
  BY <1>0, <1>1, <1>4
<1>7. \A i \in 1..N : i - 1 \in S => i \in S
  <2> SUFFICES ASSUME NEW i \in 1..N, i - 1 \in S PROVE i \in S
    OBVIOUS
  <2>1. UpToWord(i - 1)' = UpToWord(i - 1)
    OBVIOUS
  <2>2. UpToWord(i)' = UpToWord(i - 1)' \o Part(i)
    BY <1>5
  <2>3. UpToWord(i) = UpToWord(i - 1) \o Part(i)
    BY <1>1
  <2>4. UpToWord(i)' = UpToWord(i)
    BY <2>1, <2>2, <2>3, Zenon
  <2>5. i \in 0..N
    BY <1>0
  <2> QED
    BY <2>4, <2>5, Zenon
<1>8. 0..N \subseteq S
  <2> HIDE DEF S
  <2> QED
    BY <1>0, <1>6, <1>7, UpTo
<1> QED
  BY <1>8

LEMMA SameArrangement ==
    ASSUME SameScan
    PROVE  /\ \A a : Stable(a)' <=> Stable(a)
           /\ \A a, f, l, o : Arranged(a, f, l, o)' <=> Arranged(a, f, l, o)
<1>1. N' = N /\ Kept' = Kept
  BY SameInputs, SameKept DEF SameScan
<1>2. \A a : Stable(a)' <=> Stable(a)
  BY <1>1 DEF Stable
<1>3. \A a, f, l, o : Arranged(a, f, l, o)' <=> Arranged(a, f, l, o)
  BY <1>1, <1>2 DEF Arranged
<1> QED
  BY <1>2, <1>3

LEMMA SameScanning ==
    ASSUME SameScan, NEW s, Scanning(s)
    PROVE  Scanning(s)'
<1>1. N' = N /\ argc' = argc /\ Ordering' = Ordering /\ Class' = Class /\ words' = words
  BY SameInputs, SameClasses DEF SameScan
<1>2. \A i : IsNew(i)' <=> IsNew(i)
  BY <1>1 DEF IsNew
<1>3. \A i, chars : InCluster(i, chars)' <=> InCluster(i, chars)
  BY <1>1, <1>2 DEF InCluster
<1>4. Segments(s)' <=> Segments(s)
  BY <1>1, SameArrangement DEF Segments
<1> QED
  BY <1>1, <1>2, <1>3, <1>4 DEF Scanning

LEMMA SameTold ==
    ASSUME SameScan, NEW s, NEW res, s.optind \in 1..argc, Told(s, res)
    PROVE  Told(s, res)'
<1>1. s.optind - 1 \in 0..N
  BY WordsAreWords DEF SameScan
<1>2. UpToWord(s.optind - 1)' = UpToWord(s.optind - 1)
  BY <1>1, SameUpTo
<1>3. Part(s.optind)' = Part(s.optind) /\ words' = words
  BY SamePart DEF SameScan
<1> QED
  BY <1>2, <1>3 DEF Told

LEMMA SameEnd ==
    ASSUME SameScan, NEW s, NEW res, EndsWell(s, res)
    PROVE  EndsWell(s, res)'
<1>1. N' = N /\ argc' = argc /\ Ordering' = Ordering /\ Kept' = Kept
  BY SameInputs, SameKept DEF SameScan
<1>2. N \in 0..N
  BY WordsAreWords DEF SameScan
<1>3. UpToWord(N)' = UpToWord(N)
  <2>1. \A k \in 0..N : UpToWord(k)' = UpToWord(k)
    BY SameUpTo
  <2> QED
    BY <1>1, <1>2, <2>1
<1> QED
  BY <1>1, <1>3, SameArrangement DEF EndsWell

-----------------------------------------------------------------------------
(* A call *)

LEMMA StateIs ==
    ASSUME IsData(d)
    PROVE  /\ IsState(State)
           /\ State.argv = argv
           /\ optreset = 1 => State.initialized = FALSE /\ State.optind = 1
           /\ optreset # 1 => /\ State.optind = optind
                              /\ State.initialized = d.initialized
                              /\ State.ordering = d.ordering
                              /\ State.nextchar = d.nextchar
                              /\ State.first_nonopt = d.first_nonopt
                              /\ State.last_nonopt = d.last_nonopt
<1> DEFINE b == Begin
<1>1. CASE optreset = 1
  <2>1. b = [Zeroed EXCEPT !.optind = 1]
    BY <1>1 DEF Begin
  <2>2. b.initialized = FALSE /\ b.optind = 1
    BY <2>1 DEF Zeroed
  <2> HIDE DEF b
  <2>3. State = [x \in {"argv"} \cup DOMAIN d |-> IF x = "argv" THEN argv ELSE b[x]]
    BY DEF State, b
  <2> QED
    BY <1>1, <2>2, <2>3 DEF IsState, IsData, Fields, DataFields
<1>2. CASE optreset # 1
  <2>1. b = [d EXCEPT !.optind = optind]
    BY <1>2 DEF Begin
  <2>2. /\ b.optind = optind /\ b.initialized = d.initialized /\ b.ordering = d.ordering
        /\ b.nextchar = d.nextchar /\ b.first_nonopt = d.first_nonopt
        /\ b.last_nonopt = d.last_nonopt
    BY <2>1 DEF IsData, Fields, DataFields
  <2> HIDE DEF b
  <2>3. State = [x \in {"argv"} \cup DOMAIN d |-> IF x = "argv" THEN argv ELSE b[x]]
    BY DEF State, b
  <2> QED
    BY <1>2, <2>2, <2>3 DEF IsState, IsData, Fields, DataFields
<1> QED
  BY <1>1, <1>2

\* The start of a scan.
AtStart(s) ==
    /\ IsState(s)
    /\ s.argv = Given(words)
    /\ s.initialized = TRUE
    /\ s.ordering = Ordering
    /\ s.nextchar = << >>
    /\ s.optind = 1 /\ s.first_nonopt = 1 /\ s.last_nonopt = 1

LEMMA StartIsScanning ==
    ASSUME Inputs, NEW s, AtStart(s)
    PROVE  Scanning(s) /\ Told(s, << >>)
<1>1. N \in Nat /\ argc = N + 1 /\ 1 \in 1..argc
  BY WordsAreWords
<1>2. Segments(s)
  <2>1. Arranged(Given(words), 1, 1, 1)
    BY GivenIsArranged
  <2> QED
    BY <1>1, <2>1 DEF Segments, AtStart
<1>3. Scanning(s)
  BY <1>2, FirstIsNew DEF Scanning, AtStart
<1>4. Told(s, << >>)
  <2>1. UpToWord(1 - 1) = << >>
    <3>1. 1 - 1 = 0
      OBVIOUS
    <3> QED
      BY <3>1, UpToSteps
  <2> QED
    BY <1>1, <2>1, ToldBetweenWords DEF AtStart
<1> QED
  BY <1>3, <1>4

LEMMA InitializeIs ==
    ASSUME NEW s, IsState(s), s.optind \in {0, 1}, s.argv = Given(words)
    PROVE  AtStart(Clip(Initialize(s))) /\ Initialize(s).nextchar = << >>
<1> DEFINE t == Initialize(s)
           u == Clip(t)
           start == IF s.optind = 0 THEN 1 ELSE s.optind
<1>1. start = 1
  OBVIOUS
<1>2. t = [s EXCEPT !.optind = start, !.first_nonopt = start, !.last_nonopt = start,
                    !.nextchar = << >>, !.ordering = Ordering, !.initialized = TRUE]
  BY DEF Initialize
<1> HIDE DEF start, t
<1>3. AtStart(t)
  BY <1>1, <1>2 DEF AtStart, IsState, Fields
<1>4. AtStart(u)
  <2>1. ~(t.last_nonopt > t.optind) /\ ~(t.first_nonopt > t.optind)
    BY <1>3 DEF AtStart
  <2> QED
    BY <1>3, <2>1 DEF AtStart, Clip, IsState, Fields
<1> QED
  BY <1>3, <1>4 DEF t, AtStart

\* Where a call finds the scan.
LEMMA ReadyIs ==
    ASSUME Inputs, Fresh \/ Midway
    PROVE  LET r == Ready(State) IN
           /\ Scanning(Clip(r)) /\ Told(Clip(r), results)
           /\ Clip(r).nextchar = r.nextchar
           /\ r.nextchar # << >> => Clip(r) = r
<1> DEFINE r == Ready(State)
<1>1. /\ IsState(State)
      /\ State.argv = argv
      /\ optreset = 1 => State.initialized = FALSE /\ State.optind = 1
      /\ optreset # 1 => /\ State.optind = optind
                         /\ State.initialized = d.initialized
                         /\ State.ordering = d.ordering
                         /\ State.nextchar = d.nextchar
                         /\ State.first_nonopt = d.first_nonopt
                         /\ State.last_nonopt = d.last_nonopt
  BY StateIs DEF Inputs
<1> DEFINE s == State
<1>2. CASE Midway
  <2>1. optreset # 1 /\ optind # 0 /\ Scanning(s) /\ Told(s, results)
    BY <1>2 DEF Midway
  <2>2. s.optind # 0 /\ s.initialized = TRUE
    BY <1>1, <2>1 DEF Scanning
  <2>3. r = s
    BY <2>2 DEF Ready
  <2>4. Clip(s) = s
    BY <2>1, ClipKeeps
  <2> QED
    BY <2>1, <2>3, <2>4
<1>3. CASE Fresh /\ (s.optind = 0 \/ s.initialized = FALSE)
  <2>1. r = Initialize(s)
    BY <1>3 DEF Ready
  <2>2. s.optind \in {0, 1} /\ s.argv = Given(words) /\ results = << >>
    BY <1>1, <1>3 DEF Fresh
  <2> HIDE DEF s
  <2>3. AtStart(Clip(r)) /\ r.nextchar = << >>
    BY <1>1, <2>1, <2>2, InitializeIs DEF s
  <2>4. Scanning(Clip(r)) /\ Told(Clip(r), << >>)
    BY <2>3, StartIsScanning
  <2> QED
    BY <2>2, <2>3, <2>4 DEF AtStart
<1>4. CASE Fresh /\ ~(s.optind = 0 \/ s.initialized = FALSE)
  <2>1. optreset # 1 /\ optind = 1 /\ results = << >> /\ argv = Given(words)
        /\ d.initialized = TRUE /\ d.ordering = Ordering /\ d.nextchar = << >>
        /\ d.first_nonopt \in Nat /\ 1 <= d.first_nonopt
        /\ d.last_nonopt \in Nat /\ 1 <= d.last_nonopt
    BY <1>1, <1>4 DEF Fresh
  <2>2. /\ IsState(s) /\ s.argv = Given(words) /\ s.initialized = TRUE
        /\ s.ordering = Ordering /\ s.nextchar = << >> /\ s.optind = 1
        /\ s.first_nonopt \in Nat /\ 1 <= s.first_nonopt
        /\ s.last_nonopt \in Nat /\ 1 <= s.last_nonopt
    BY <1>1, <2>1
  <2>3. r = s
    BY <2>2 DEF Ready
  <2> HIDE DEF s
  <2>4. AtStart(Clip(s))
    <3>1. /\ IF s.last_nonopt > s.optind THEN s.optind = 1 ELSE s.last_nonopt = 1
          /\ IF s.first_nonopt > s.optind THEN s.optind = 1 ELSE s.first_nonopt = 1
      BY <2>2
    <3> QED
      BY <2>2, <3>1 DEF AtStart, Clip, IsState, Fields
  <2>5. Scanning(Clip(s)) /\ Told(Clip(s), << >>)
    BY <2>4, StartIsScanning
  <2> QED
    BY <2>1, <2>2, <2>3, <2>4, <2>5 DEF AtStart
<1> QED
  BY <1>2, <1>3, <1>4

\* A call.
LEMMA CallGoes ==
    ASSUME Inputs, Fresh \/ Midway
    PROVE  Goes(_getopt_internal_r(State), results)
<1> DEFINE ready == Ready(State)
           s == Clip(ready)
           p == Permute(s)
           advanced == DashDash(p)
           r == _getopt_internal_r(State)
<1>1. /\ Scanning(s) /\ Told(s, results)
      /\ s.nextchar = ready.nextchar
      /\ ready.nextchar # << >> => s = ready
  BY ReadyIs
<1>2. r = IF ready.nextchar # << >> THEN ShortOption(ready)
          ELSE IF advanced.optind = argc THEN Returns(BackOver(advanced), "-1", NoArg)
          ELSE NextWord(advanced)
  BY DEF _getopt_internal_r
<1> HIDE DEF r, advanced, p, s, ready
<1> SUFFICES Goes(r, results)
  BY DEF r
<1>3. CASE ready.nextchar # << >>
  <2>1. r = ShortOption(s) /\ s.nextchar # << >>
    BY <1>1, <1>2, <1>3
  <2>2. InCluster(s.optind, s.nextchar) /\ s.optind \in 1..argc
    BY <1>1, <2>1 DEF Scanning, Segments
  <2>3. AtOption(s)
    <3>1. s.optind < argc
      BY <2>2, WordsAreWords DEF InCluster
    <3> QED
      BY <1>1, <2>2, <3>1 DEF AtOption, Scanning, InCluster
  <2>4. results = UpToWord(s.optind - 1) \o
                    SubSeq(Part(s.optind), 1, Len(words[s.optind].text) - Len(s.nextchar))
    BY <1>1, <2>1 DEF Told
  <2> QED
    BY <2>1, <2>2, <2>3, <2>4, ShortOptionStep
<1>4. CASE ready.nextchar = << >>
  <2>1. AtWord(p, results)
    BY <1>1, <1>4, PermuteStep DEF p
  <2>2. IF advanced.optind = argc THEN Past(advanced, results)
        ELSE advanced = p /\ words[p.optind].type # "end"
    BY <2>1, DashDashStep DEF advanced
  <2>3. CASE advanced.optind = argc
    <3>1. r = Returns(BackOver(advanced), "-1", NoArg)
      BY <1>2, <1>4, <2>3
    <3>2. r.code = "-1" /\ r.s = BackOver(advanced)
      BY <3>1 DEF Returns
    <3>3. EndsWell(BackOver(advanced), results)
      BY <2>2, <2>3, BackOverStep
    <3> QED
      BY <3>2, <3>3 DEF Goes
  <2>4. CASE advanced.optind # argc
    <3>1. r = NextWord(p) /\ p.optind # argc /\ words[p.optind].type # "end"
      BY <1>2, <1>4, <2>2, <2>4
    <3>2. p.optind < argc
      <4>1. p.optind \in 1..argc
        BY <2>1 DEF AtWord, Scanning, Segments
      <4> QED
        BY <3>1, <4>1, WordsAreWords
    <3> QED
      BY <2>1, <3>1, <3>2, NextWordStep
  <2> QED
    BY <2>3, <2>4
<1> QED
  BY <1>3, <1>4

-----------------------------------------------------------------------------
(* Every step *)

\* The state a call leaves is the one the next call finds.
LEMMA CallLeaves ==
    ASSUME IsData(d), getopt, NEW r, r = _getopt_internal_r(State), IsState(r.s)
    PROVE  /\ IsData(d')
           /\ State' = r.s
           /\ optind' = r.s.optind
           /\ optreset' = 0
           /\ done' = (r.code = "-1")
           /\ results' = IF r.code = "-1" THEN results
                         ELSE Append(results, Result(r.code, r.arg))
<1>1. /\ d' = [field \in DOMAIN d |-> r.s[field]]
      /\ argv' = r.s.argv
      /\ optind' = r.s.optind
      /\ optreset' = 0
      /\ done' = (r.code = "-1")
      /\ results' = IF r.code = "-1" THEN results
                    ELSE Append(results, Result(r.code, r.arg))
  BY DEF getopt, State, Result
<1>2. IsData(d') /\ \A x \in DataFields : d'[x] = r.s[x]
  BY <1>1 DEF IsData, DataFields, Fields
<1>3. Begin' = [d' EXCEPT !.optind = optind']
  BY <1>1 DEF Begin
<1>4. \A x \in DataFields : Begin'[x] = r.s[x]
  BY <1>1, <1>2, <1>3 DEF IsData, DataFields, Fields
<1>5. State' = [x \in {"argv"} \cup DOMAIN d' |-> IF x = "argv" THEN argv' ELSE Begin'[x]]
  BY DEF State
<1>6. State' = r.s
  <2>1. DOMAIN d' = DataFields
    BY <1>2 DEF IsData
  <2>2. {"argv"} \cup DataFields = Fields
    BY DEF DataFields, Fields
  <2>3. \A x \in Fields : (IF x = "argv" THEN argv' ELSE Begin'[x]) = r.s[x]
    BY <1>1, <1>4, <2>2
  <2>4. State' = [x \in Fields |-> r.s[x]]
    BY <1>5, <2>1, <2>2, <2>3
  <2> QED
    BY <2>4 DEF IsState
<1> QED
  BY <1>1, <1>2, <1>6

LEMMA CallKeepsInvariant ==
    ASSUME IInv, getopt
    PROVE  IInv'
<1>1. Inputs /\ ~done /\ (Fresh \/ Midway)
  BY DEF IInv, getopt
<1>2. PICK r : r = _getopt_internal_r(State)
  OBVIOUS
<1>3. Goes(r, results)
  BY <1>1, <1>2, CallGoes
<1>4. IsState(r.s)
  BY <1>3 DEF Goes, EndsWell, Scanning
<1>5. /\ IsData(d')
      /\ State' = r.s
      /\ optind' = r.s.optind
      /\ optreset' = 0
      /\ done' = (r.code = "-1")
      /\ results' = IF r.code = "-1" THEN results
                    ELSE Append(results, Result(r.code, r.arg))
  BY <1>1, <1>2, <1>4, CallLeaves DEF Inputs
<1>6. words' = words /\ prefix' = prefix
  BY DEF getopt
<1>7. Inputs'
  BY <1>1, <1>5, <1>6 DEF Inputs
<1>8. SameScan
  BY <1>1, <1>6, <1>7 DEF SameScan
<1>9. PICK res : res = results'
  OBVIOUS
<1>10. done' \in BOOLEAN
  BY <1>5
<1>11. CASE r.code = "-1"
  <2>1. EndsWell(r.s, res)
    BY <1>3, <1>5, <1>9, <1>11 DEF Goes
  <2>2. PICK s : s = r.s
    OBVIOUS
  <2>3. EndsWell(s, res)'
    BY <1>8, <2>1, <2>2, SameEnd
  <2>4. Ended'
    BY <1>5, <1>9, <2>2, <2>3 DEF Ended
  <2>5. done' = TRUE
    BY <1>5, <1>11
  <2> QED
    BY <1>7, <1>10, <2>4, <2>5 DEF IInv
<1>12. CASE r.code # "-1"
  <2>1. Scanning(r.s) /\ Told(r.s, res)
    BY <1>3, <1>5, <1>9, <1>12 DEF Goes
  <2>2. PICK s : s = r.s
    OBVIOUS
  <2>3. s.optind \in 1..argc /\ s.optind # 0
    BY <2>1, <2>2 DEF Scanning, Segments
  <2>4. Scanning(s)' /\ Told(s, res)'
    BY <1>8, <2>1, <2>2, <2>3, SameScanning, SameTold
  <2>5. Midway'
    BY <1>5, <1>9, <2>2, <2>3, <2>4 DEF Midway
  <2>6. done' = FALSE
    BY <1>5, <1>12
  <2> QED
    BY <1>7, <1>10, <2>5, <2>6 DEF IInv
<1> QED
  BY <1>11, <1>12

LEMMA NewScanKeepsInvariant ==
    ASSUME IInv, NEW ws \in LaterArguments, NEW p \in OptstringPrefixes, NewScan(ws, p)
    PROVE  IInv'
<1>1. /\ words' = ws /\ argv' = Given(ws) /\ prefix' = p /\ results' = << >>
      /\ done' = FALSE /\ d' = d
  BY DEF NewScan
<1>2. Inputs'
  BY <1>1 DEF IInv, Inputs
<1>3. Given(words') = Given(ws)
  BY <1>1
<1>4. Fresh'
  <2>1. argv' = Given(words)' /\ results' = << >>
    BY <1>1 DEF Given
  <2>2. CASE optreset' = 1
    BY <2>1, <2>2 DEF Fresh
  <2>3. CASE optind' = 0
    BY <2>1, <2>3 DEF Fresh
  <2>4. CASE done /\ p = prefix /\ optind' = 1 /\ optreset' # 1
    <3>1. Ordering' = Ordering
      BY <1>1, <2>4 DEF Ordering, posixly_correct
    <3>2. optreset = 0 /\ EndsWell(State, results) /\ IsData(d)
      BY <2>4 DEF IInv, Ended, Inputs
    <3>3. /\ d.initialized = TRUE /\ d.ordering = Ordering /\ d.nextchar = << >>
          /\ d.first_nonopt \in Nat /\ 1 <= d.first_nonopt
          /\ d.last_nonopt \in Nat /\ 1 <= d.last_nonopt
      <4>1. /\ State.initialized = d.initialized /\ State.ordering = d.ordering
            /\ State.nextchar = d.nextchar /\ State.first_nonopt = d.first_nonopt
            /\ State.last_nonopt = d.last_nonopt
        BY <3>2, StateIs
      <4> QED
        BY <3>2, <4>1 DEF EndsWell
    <3> QED
      BY <1>1, <2>1, <2>4, <3>1, <3>3 DEF Fresh
  <2> QED
    BY <2>2, <2>3, <2>4 DEF NewScan
<1> QED
  BY <1>1, <1>2, <1>4 DEF IInv

LEMMA InitInvariant == Init => IInv
<1> SUFFICES ASSUME Init PROVE IInv
  OBVIOUS
<1>1. IsData(d)
  BY DEF Init, Zeroed, IsData, DataFields, Fields
<1>2. Inputs
  BY <1>1 DEF Init, Inputs
<1>3. Fresh
  BY DEF Init, Fresh, Zeroed
<1> QED
  BY <1>2, <1>3 DEF Init, IInv

LEMMA StutterKeepsInvariant ==
    ASSUME IInv, UNCHANGED vars
    PROVE  IInv'
<1>1. /\ words' = words /\ argv' = argv /\ prefix' = prefix /\ optind' = optind
      /\ optreset' = optreset /\ d' = d /\ results' = results /\ done' = done
  BY DEF vars
<1>2. Inputs /\ Inputs'
  BY <1>1 DEF IInv, Inputs
<1>3. SameScan
  BY <1>1, <1>2 DEF SameScan
<1>4. State' = State
  <2>1. Begin' = Begin
    BY <1>1 DEF Begin
  <2> QED
    BY <1>1, <2>1 DEF State
<1>5. PICK s : s = State
  OBVIOUS
<1>6. PICK res : res = results
  OBVIOUS
<1>7. CASE done
  <2>1. optreset = 0 /\ EndsWell(s, res)
    BY <1>5, <1>6, <1>7 DEF IInv, Ended
  <2>2. EndsWell(s, res)'
    BY <1>3, <2>1, SameEnd
  <2>3. Ended'
    BY <1>1, <1>4, <1>5, <1>6, <2>1, <2>2 DEF Ended
  <2> QED
    BY <1>1, <1>2, <1>7, <2>3 DEF IInv
<1>8. CASE ~done /\ Fresh
  <2>1. Fresh'
    BY <1>1, <1>8, SameInputs DEF Fresh, Given
  <2> QED
    BY <1>1, <1>2, <1>8, <2>1 DEF IInv
<1>9. CASE ~done /\ Midway
  <2>1. optreset = 0 /\ optind # 0 /\ Scanning(s) /\ Told(s, res)
    BY <1>5, <1>6, <1>9 DEF Midway
  <2>2. s.optind \in 1..argc
    BY <2>1 DEF Scanning, Segments
  <2>3. Scanning(s)' /\ Told(s, res)'
    BY <1>3, <2>1, <2>2, SameScanning, SameTold
  <2>4. Midway'
    BY <1>1, <1>4, <1>5, <1>6, <2>1, <2>3 DEF Midway
  <2> QED
    BY <1>1, <1>2, <1>9, <2>4 DEF IInv
<1> QED
  BY <1>7, <1>8, <1>9 DEF IInv

LEMMA InvariantHolds == Spec => []IInv
<1>1. Init => IInv
  BY InitInvariant
<1>2. IInv /\ [Next]_vars => IInv'
  <2> SUFFICES ASSUME IInv, [Next]_vars PROVE IInv'
    OBVIOUS
  <2>1. CASE getopt
    BY <2>1, CallKeepsInvariant
  <2>2. CASE \E ws \in LaterArguments, p \in OptstringPrefixes : NewScan(ws, p)
    BY <2>2, NewScanKeepsInvariant
  <2>3. CASE UNCHANGED vars
    BY <2>3, StutterKeepsInvariant
  <2> QED
    BY <2>1, <2>2, <2>3 DEF Next
<1> QED
  BY <1>1, <1>2, PTL DEF Spec

-----------------------------------------------------------------------------
(* What the caller is promised *)

LEMMA ArgvIsStable == IInv => Stable(argv)
<1> SUFFICES ASSUME IInv PROVE Stable(argv)
  OBVIOUS
<1>1. Inputs /\ State.argv = argv
  BY StateIs DEF IInv, Inputs
<1>2. CASE done
  BY <1>1, <1>2 DEF IInv, Ended, EndsWell
<1>3. CASE ~done /\ Fresh
  BY <1>1, <1>3, GivenIsArranged DEF Fresh, Arranged
<1>4. CASE ~done /\ Midway
  <2>1. Segments(State)
    BY <1>4 DEF Midway, Scanning
  <2> QED
    BY <1>1, <2>1, SegmentBounds DEF Arranged
<1> QED
  BY <1>2, <1>3, <1>4 DEF IInv

LEMMA StableVectors == IInv => ArgvStaysStable
<1> SUFFICES ASSUME IInv PROVE ArgvStaysStable
  OBVIOUS
<1> DEFINE place(w) == CHOOSE i \in DOMAIN argv : argv[i] = w
<1>0. N \in Nat
  BY WordsAreWords DEF IInv
<1>1. /\ argv \in [0..N -> 0..N]
      /\ argv[0] = 0
      /\ \A w \in 0..N : \E i \in 0..N : argv[i] = w
      /\ \A i, j \in 0..N : argv[i] = argv[j] => i = j
      /\ \A i, j \in 1..N : i < j /\ (argv[i] \in Kept <=> argv[j] \in Kept) => argv[i] < argv[j]
  BY ArgvIsStable DEF Stable
<1>2. {argv[i] : i \in DOMAIN argv} = 0..Len(words)
  <2>1. DOMAIN argv = 0..N
    BY <1>1
  <2>2. ASSUME NEW i \in 0..N PROVE argv[i] \in 0..N
    BY <1>1
  <2>3. {argv[i] : i \in 0..N} = 0..N
    BY <1>1, <2>2
  <2> QED
    BY <2>1, <2>3 DEF N
<1>3. \A w \in 1..N : place(w) \in 1..N /\ argv[place(w)] = w
  <2> SUFFICES ASSUME NEW w \in 1..N PROVE place(w) \in 1..N /\ argv[place(w)] = w
    OBVIOUS
  <2>1. DOMAIN argv = 0..N /\ w \in 0..N /\ w # 0
    BY <1>0, <1>1
  <2>2. \E i \in DOMAIN argv : argv[i] = w
    BY <1>1, <2>1
  <2>3. place(w) \in 0..N /\ argv[place(w)] = w
    BY <2>1, <2>2
  <2>4. place(w) # 0
    BY <1>1, <2>1, <2>3
  <2> HIDE DEF place
  <2> QED
    BY <1>0, <2>3, <2>4
<1>4. ASSUME NEW v \in 1..N, NEW w \in 1..N, v < w, v \in Kept <=> w \in Kept
      PROVE  place(v) < place(w)
  <2> HIDE DEF place
  <2> SUFFICES ASSUME ~(place(v) < place(w)) PROVE FALSE
    OBVIOUS
  <2>1. /\ place(v) \in 1..N /\ place(w) \in 1..N
        /\ argv[place(v)] = v /\ argv[place(w)] = w
    BY <1>3
  <2>2. place(v) # place(w)
    <3>1. v # w
      BY <1>4, <1>0
    <3> QED
      BY <2>1, <3>1
  <2>3. place(w) < place(v)
    BY <1>0, <2>1, <2>2
  <2>4. argv[place(w)] \in Kept <=> argv[place(v)] \in Kept
    BY <1>4, <2>1
  <2>5. argv[place(w)] < argv[place(v)]
    BY <1>1, <2>1, <2>3, <2>4
  <2>6. w < v
    BY <2>1, <2>5
  <2> QED
    BY <1>0, <1>4, <2>6
<1> QED
  BY <1>2, <1>4 DEF ArgvStaysStable, Kept, N

\* Between calls argv holds every word once, the words left to the caller among
\* themselves and the others among themselves in the order given: exchange
\* (getopt.c:125-178) moves segments past each other, never words within one.
THEOREM ArgumentsStayStable == Spec => []ArgvStaysStable
  BY InvariantHolds, StableVectors, PTL

\* How InOrder goes on.
OrderedAfter(ws, seq, i) == IF i \in ws THEN Append(seq, i) ELSE seq

\* The function InOrder recursively describes.
Ordered(ws) ==
    CHOOSE f : f = [i \in 0..N |-> IF i = 0 THEN << >> ELSE OrderedAfter(ws, f[i - 1], i)]

LEMMA OrderedExists ==
    ASSUME Inputs, NEW ws
    PROVE  Ordered(ws) = [i \in 0..N |-> IF i = 0 THEN << >>
                                         ELSE OrderedAfter(ws, Ordered(ws)[i - 1], i)]
<1> DEFINE Is(f, m) == f = [i \in 0..m |-> IF i = 0 THEN << >>
                                           ELSE OrderedAfter(ws, f[i - 1], i)]
           Has(m) == \E f : Is(f, m)
           S == {m \in 0..N : Has(m)}
<1>0. N \in Nat
  BY WordsAreWords
<1>1. 0 \in S
  <2> DEFINE f == [i \in 0..0 |-> << >>]
  <2>1. Is(f, 0)
    OBVIOUS
  <2>2. Has(0)
    BY <2>1
  <2> HIDE DEF Has
  <2> QED
    BY <1>0, <2>2
<1>2. \A k \in 1..N : k - 1 \in S => k \in S
  <2> SUFFICES ASSUME NEW k \in 1..N, Has(k - 1) PROVE Has(k)
    <3> HIDE DEF Has
    <3> QED
      BY <1>0
  <2>1. PICK e : Is(e, k - 1)
    OBVIOUS
  <2> DEFINE f == [i \in 0..k |-> IF i < k THEN e[i] ELSE OrderedAfter(ws, e[k - 1], k)]
  <2>2. k \in Nat /\ k - 1 \in 0..(k - 1) /\ DOMAIN e = 0..(k - 1)
    BY <1>0, <2>1
  <2>3. \A i \in 0..(k - 1) : f[i] = e[i] /\ i \in 0..k /\ i # k
    BY <2>2
  <2>4. ASSUME NEW i \in 0..k
        PROVE  f[i] = IF i = 0 THEN << >> ELSE OrderedAfter(ws, f[i - 1], i)
    <3>1. CASE i < k
      <4>1. i \in 0..(k - 1) /\ (i # 0 => i - 1 \in 0..(k - 1))
        BY <2>2, <3>1
      <4>2. e[i] = IF i = 0 THEN << >> ELSE OrderedAfter(ws, e[i - 1], i)
        BY <2>1, <4>1
      <4> QED
        BY <2>3, <4>1, <4>2
    <3>2. CASE i = k
      <4>1. f[k] = OrderedAfter(ws, e[k - 1], k) /\ k # 0
        BY <2>2
      <4>2. f[k - 1] = e[k - 1]
        BY <2>2, <2>3
      <4> QED
        BY <3>2, <4>1, <4>2
    <3> QED
      BY <2>2, <3>1, <3>2
  <2>5. f = [i \in 0..k |-> f[i]]
    OBVIOUS
  <2> HIDE DEF f
  <2>6. Is(f, k)
    BY <2>4, <2>5
  <2> QED
    BY <2>6
<1>3. N \in S
  <2>1. 0..N \subseteq S
    <3> HIDE DEF S
    <3> QED
      BY <1>0, <1>1, <1>2, UpTo
  <2>2. N \in 0..N
    BY <1>0
  <2> HIDE DEF S
  <2> QED
    BY <2>1, <2>2
<1>4. \E f : Is(f, N)
  <2>1. Has(N)
    <3> HIDE DEF Has
    <3> QED
      BY <1>3
  <2> QED
    BY <2>1
<1>5. Is(Ordered(ws), N)
  BY <1>4 DEF Ordered
<1> QED
  BY <1>5

LEMMA InOrderIs ==
    ASSUME Inputs, NEW ws
    PROVE  /\ InOrder(ws) = Ordered(ws)[N]
           /\ Ordered(ws)[0] = << >>
           /\ \A i \in 1..N : Ordered(ws)[i] = OrderedAfter(ws, Ordered(ws)[i - 1], i)
<1>0. N \in Nat
  BY WordsAreWords
<1>1. InOrder(ws) = Ordered(ws)[N]
  BY DEF InOrder, Ordered, OrderedAfter, N
<1> DEFINE f == Ordered(ws)
<1>2. f = [i \in 0..N |-> IF i = 0 THEN << >> ELSE OrderedAfter(ws, f[i - 1], i)]
  BY OrderedExists
<1> HIDE DEF f
<1>3. f[0] = << >>
  BY <1>0, <1>2
<1>4. ASSUME NEW i \in 1..N PROVE f[i] = OrderedAfter(ws, f[i - 1], i)
  <2>1. i \in 0..N /\ i # 0
    BY <1>0
  <2> QED
    BY <1>2, <2>1
<1> QED
  BY <1>1, <1>3, <1>4 DEF f

\* Behind low and up to high vector a holds the words ws, in the order given.
Holds(a, low, high, ws) ==
    /\ \A i \in (low + 1)..high : a[i] \in 1..N /\ a[i] \in ws
    /\ \A w \in 1..N : w \in ws => \E i \in (low + 1)..high : a[i] = w
    /\ \A i, j \in (low + 1)..high : i < j => a[i] < a[j]

\* Sequence s is what vector a holds there.
IsSegment(s, a, low, high) ==
    /\ Len(s) = high - low
    /\ \A i \in 1..(high - low) : s[i] = a[low + i]
    /\ s \in Seq(Nat)

\* A segment of a vector that holds the words ws, in the order given, is InOrder(ws).
LEMMA SegmentIsInOrder ==
    ASSUME Inputs, NEW a, NEW low \in Nat, NEW high \in Nat, low <= high, NEW ws,
           Holds(a, low, high, ws)
    PROVE  IsSegment(InOrder(ws), a, low, high)
<1> SUFFICES ASSUME \A i \in (low + 1)..high : a[i] \in 1..N /\ a[i] \in ws,
                    \A w \in 1..N : w \in ws => \E i \in (low + 1)..high : a[i] = w,
                    \A i, j \in (low + 1)..high : i < j => a[i] < a[j]
             PROVE  /\ Len(InOrder(ws)) = high - low
                    /\ \A i \in 1..(high - low) : InOrder(ws)[i] = a[low + i]
                    /\ InOrder(ws) \in Seq(Nat)
  BY DEF Holds, IsSegment
<1> DEFINE f == Ordered(ws)
           Upto(k, m) == /\ f[k] \in Seq(Nat)
                         /\ Len(f[k]) = m
                         /\ \A i \in 1..m : f[k][i] = a[low + i]
                         /\ \A i \in (low + 1)..high : a[i] <= k <=> i <= low + m
           S == {k \in 0..N : \E m \in 0..(high - low) : Upto(k, m)}
<1>0. N \in Nat /\ high - low \in Nat
  BY WordsAreWords
<1>1. f[0] = << >> /\ \A i \in 1..N : f[i] = OrderedAfter(ws, f[i - 1], i)
  BY InOrderIs
<1> HIDE DEF f
<1>2. 0 \in S
  <2>1. f[0] \in Seq(Nat) /\ Len(f[0]) = 0
    BY <1>1
  <2>2. \A i \in (low + 1)..high : ~(a[i] <= 0) /\ ~(i <= low + 0)
    OBVIOUS
  <2>3. Upto(0, 0)
    BY <2>1, <2>2
  <2>4. 0 \in 0..(high - low) /\ 0 \in 0..N
    BY <1>0
  <2> QED
    BY <2>3, <2>4
<1>3. \A k \in 1..N : k - 1 \in S => k \in S
  <2> SUFFICES ASSUME NEW k \in 1..N, NEW m \in 0..(high - low), Upto(k - 1, m)
               PROVE  \E n \in 0..(high - low) : Upto(k, n)
    <3>1. \A k \in 1..N : k \in 0..N
      BY <1>0
    <3> HIDE DEF Upto
    <3> QED
      BY <3>1
  <2> DEFINE g == f[k - 1]
  <2>1. /\ g \in Seq(Nat) /\ Len(g) = m
        /\ \A i \in 1..m : g[i] = a[low + i]
        /\ \A i \in (low + 1)..high : a[i] <= k - 1 <=> i <= low + m
    OBVIOUS
  <2>2. f[k] = OrderedAfter(ws, g, k)
    BY <1>1
  <2> HIDE DEF g
  <2>3. CASE k \in ws
    <3>1. PICK i \in (low + 1)..high : a[i] = k
      BY <2>3
    <3>2. ~(a[i] <= k - 1)
      BY <3>1
    <3>3. i > low + m
      BY <1>0, <2>1, <3>2
    <3>4. i = low + m + 1
      <4> SUFFICES ASSUME i # low + m + 1 PROVE FALSE
        OBVIOUS
      <4> DEFINE j == low + m + 1
      <4>1. j \in (low + 1)..high /\ j < i /\ ~(j <= low + m)
        BY <1>0, <3>3
      <4>2. a[j] < a[i] /\ a[j] \in 1..N
        BY <4>1
      <4>3. ~(a[j] <= k - 1)
        BY <2>1, <4>1
      <4> HIDE DEF j
      <4> QED
        BY <1>0, <3>1, <4>2, <4>3
    <3>5. m + 1 \in 0..(high - low)
      BY <1>0, <3>4
    <3>6. f[k] = Append(g, k)
      BY <2>2, <2>3 DEF OrderedAfter
    <3>7. f[k] \in Seq(Nat) /\ Len(f[k]) = m + 1
      BY <2>1, <3>6
    <3>8. ASSUME NEW n \in 1..(m + 1) PROVE f[k][n] = a[low + n]
      <4>1. CASE n <= m
        <5>1. f[k][n] = g[n]
          BY <2>1, <3>6, <4>1
        <5> QED
          BY <2>1, <4>1, <5>1
      <4>2. CASE n = m + 1
        <5>1. f[k][n] = k
          BY <2>1, <3>6, <4>2
        <5>2. low + n = i
          BY <3>4, <4>2
        <5> QED
          BY <3>1, <5>1, <5>2
      <4> QED
        BY <4>1, <4>2
    <3>9. ASSUME NEW n \in (low + 1)..high PROVE a[n] <= k <=> n <= low + (m + 1)
      <4>1. a[n] \in 1..N
        OBVIOUS
      <4>2. CASE n <= low + m
        <5>1. a[n] <= k - 1
          BY <2>1, <4>2
        <5> QED
          BY <1>0, <4>1, <4>2, <5>1
      <4>3. CASE n = i
        BY <1>0, <3>1, <3>4, <4>3
      <4>4. CASE n > i
        <5>1. a[i] < a[n]
          BY <4>4
        <5> QED
          BY <1>0, <3>1, <3>4, <4>1, <4>4, <5>1
      <4> QED
        BY <1>0, <3>4, <4>2, <4>3, <4>4
    <3>10. Upto(k, m + 1)
      BY <3>7, <3>8, <3>9
    <3> QED
      BY <3>5, <3>10
  <2>4. CASE k \notin ws
    <3>1. f[k] = g
      BY <2>2, <2>4 DEF OrderedAfter
    <3>2. ASSUME NEW n \in (low + 1)..high PROVE a[n] <= k <=> n <= low + m
      <4>1. a[n] \in 1..N /\ a[n] # k
        BY <2>4
      <4>2. a[n] <= k <=> a[n] <= k - 1
        BY <1>0, <4>1
      <4> QED
        BY <2>1, <4>2
    <3>3. Upto(k, m)
      BY <2>1, <3>1, <3>2
    <3> QED
      BY <3>3
  <2> QED
    BY <2>3, <2>4
<1>4. 0..N \subseteq S
  <2> HIDE DEF S
  <2> QED
    BY <1>0, <1>2, <1>3, UpTo
<1>5. PICK m \in 0..(high - low) : Upto(N, m)
  <2>1. N \in S
    <3> HIDE DEF S
    <3> QED
      BY <1>0, <1>4
  <2> HIDE DEF Upto
  <2> QED
    BY <2>1
<1>6. m = high - low
  <2>1. CASE low = high
    BY <1>0, <2>1
  <2>2. CASE low < high
    <3>1. high \in (low + 1)..high
      BY <2>2
    <3>2. a[high] <= N
      BY <1>0, <3>1
    <3>3. high <= low + m
      BY <1>5, <3>1, <3>2
    <3> QED
      BY <1>0, <3>3
  <2> QED
    BY <2>1, <2>2
<1>7. InOrder(ws) = f[N]
  BY InOrderIs DEF f
<1> QED
  BY <1>5, <1>6, <1>7

LEMMA OperandsAreLast == IInv => OperandsLast
<1> SUFFICES ASSUME IInv, done PROVE OperandsLast
  BY DEF OperandsLast
<1> DEFINE p == optind
           others == (1..N) \ Kept
           first == InOrder(others)
           second == InOrder(Kept)
<1>1. Inputs
  BY DEF IInv
<1>2. /\ p \in 1..argc
      /\ Stable(argv)
      /\ \A i \in 1..N : argv[i] \in Kept <=> p <= i
  <2>1. optreset = 0 /\ EndsWell(State, results)
    BY DEF IInv, Ended
  <2>2. State.argv = argv /\ State.optind = p
    BY <1>1, <2>1, StateIs DEF Inputs
  <2> QED
    BY <2>1, <2>2 DEF EndsWell
<1>3. N \in Nat /\ argc = N + 1 /\ p \in Nat
  BY <1>1, <1>2, WordsAreWords
<1>4. /\ argv \in [0..N -> 0..N]
      /\ argv[0] = 0
      /\ \A w \in 0..N : \E i \in 0..N : argv[i] = w
      /\ \A i, j \in 0..N : argv[i] = argv[j] => i = j
      /\ \A i, j \in 1..N : i < j /\ (argv[i] \in Kept <=> argv[j] \in Kept) => argv[i] < argv[j]
  BY <1>2 DEF Stable
<1>5. \A i \in 1..N : argv[i] \in 1..N
  <2> SUFFICES ASSUME NEW i \in 1..N PROVE argv[i] \in 1..N
    OBVIOUS
  <2>1. i \in 0..N /\ 0 \in 0..N /\ i # 0
    BY <1>3
  <2>2. argv[i] \in 0..N /\ argv[i] # 0
    BY <1>4, <2>1
  <2> QED
    BY <1>3, <2>2
<1>6. \A w \in 1..N : \E i \in 1..N : argv[i] = w
  <2> SUFFICES ASSUME NEW w \in 1..N PROVE \E i \in 1..N : argv[i] = w
    OBVIOUS
  <2>1. w \in 0..N /\ w # 0
    BY <1>3
  <2>2. PICK i \in 0..N : argv[i] = w
    BY <1>4, <2>1
  <2>3. i # 0
    BY <1>4, <2>1, <2>2
  <2> QED
    BY <1>3, <2>2, <2>3
<1>7. /\ Len(first) = p - 1
      /\ \A i \in 1..(p - 1) : first[i] = argv[i]
      /\ first \in Seq(Nat)
  <2>1. \A i \in (0 + 1)..(p - 1) : argv[i] \in 1..N /\ argv[i] \in others
    BY <1>2, <1>3, <1>5
  <2>2. \A w \in 1..N : w \in others => \E i \in (0 + 1)..(p - 1) : argv[i] = w
    BY <1>2, <1>3, <1>6
  <2>3. ASSUME NEW i \in (0 + 1)..(p - 1), NEW j \in (0 + 1)..(p - 1), i < j
        PROVE  argv[i] < argv[j]
    <3>1. i \in 1..N /\ j \in 1..N /\ argv[i] \notin Kept /\ argv[j] \notin Kept
      BY <1>2, <1>3
    <3> QED
      BY <1>4, <2>3, <3>1
  <2>4. p - 1 \in Nat /\ 0 \in Nat /\ 0 <= p - 1
    BY <1>2, <1>3
  <2> DEFINE high == p - 1
  <2>5. Holds(argv, 0, high, others)
    BY <2>1, <2>2, <2>3 DEF Holds
  <2> HIDE DEF others, high
  <2>6. IsSegment(InOrder(others), argv, 0, high)
    BY <1>1, <2>4, <2>5, SegmentIsInOrder DEF high
  <2>7. high - 0 = high /\ \A i \in 1..high : 0 + i = i
    BY <2>4 DEF high
  <2> QED
    BY <2>6, <2>7 DEF IsSegment, high
<1>8. /\ Len(second) = N - (p - 1)
      /\ \A i \in 1..(N - (p - 1)) : second[i] = argv[(p - 1) + i]
      /\ second \in Seq(Nat)
  <2>1. \A i \in ((p - 1) + 1)..N : argv[i] \in 1..N /\ argv[i] \in Kept
    BY <1>2, <1>3, <1>5
  <2>2. \A w \in 1..N : w \in Kept => \E i \in ((p - 1) + 1)..N : argv[i] = w
    BY <1>2, <1>3, <1>6
  <2>3. ASSUME NEW i \in ((p - 1) + 1)..N, NEW j \in ((p - 1) + 1)..N, i < j
        PROVE  argv[i] < argv[j]
    <3>1. i \in 1..N /\ j \in 1..N /\ argv[i] \in Kept /\ argv[j] \in Kept
      BY <1>2, <1>3
    <3> QED
      BY <1>4, <2>3, <3>1
  <2>4. p - 1 \in Nat /\ p - 1 <= N
    BY <1>2, <1>3
  <2> DEFINE low == p - 1
  <2>5. Holds(argv, low, N, Kept)
    BY <2>1, <2>2, <2>3 DEF Holds
  <2> HIDE DEF low
  <2>6. IsSegment(InOrder(Kept), argv, low, N)
    BY <1>1, <1>3, <2>4, <2>5, SegmentIsInOrder DEF low
  <2> QED
    BY <2>6 DEF IsSegment, low
<1> DEFINE order == first \o second
<1>9. ASSUME NEW i \in 1..N PROVE argv[i] = order[i]
  <2> HIDE DEF first, second
  <2>1. CASE i <= p - 1
    <3>1. order[i] = first[i]
      BY <1>3, <1>7, <1>8, <2>1
    <3>2. i \in 1..(p - 1)
      BY <1>3, <2>1
    <3> QED
      BY <1>7, <3>1, <3>2
  <2>2. CASE i > p - 1
    <3>1. i - (p - 1) \in 1..(N - (p - 1)) /\ (p - 1) + (i - (p - 1)) = i
      BY <1>2, <1>3, <2>2
    <3>2. order[i] = second[i - (p - 1)]
      <4> DEFINE m == p - 1
      <4>1. m \in Nat /\ Len(first) = m /\ first \in Seq(Nat) /\ second \in Seq(Nat)
            /\ i > m /\ i - m \in 1..Len(second)
        BY <1>2, <1>3, <1>7, <1>8, <2>2, <3>1
      <4> HIDE DEF m
      <4>2. (first \o second)[i] = second[i - m]
        BY <4>1
      <4> QED
        BY <4>2 DEF m
    <3> QED
      BY <1>8, <3>1, <3>2
  <2> HIDE DEF order
  <2>3. i <= p - 1 \/ i > p - 1
    BY <1>3
  <2> QED
    BY <2>1, <2>2, <2>3
<1>10. optind = argc - Len(second)
  BY <1>3, <1>8
<1> QED
  BY <1>9, <1>10 DEF OperandsLast, N, Kept

\* When getopt has returned -1 the words left to the caller are those from optind
\* on, in the order given, as the comment above _getopt_internal_r promises
\* (getopt.c:424-427); the others are before them, in their order.
THEOREM OperandsComeLast == Spec => []OperandsLast
  BY InvariantHolds, OperandsAreLast, PTL

-----------------------------------------------------------------------------
(* What is returned *)

\* t begins with s.  As IsPrefix, by its elements.
Begins(s, t) ==
    /\ s \in Seq(Returned) /\ t \in Seq(Returned)
    /\ Len(s) <= Len(t)
    /\ \A i \in 1..Len(s) : s[i] = t[i]

LEMMA BeginsIsPrefix ==
    ASSUME NEW s, NEW t, Begins(s, t)
    PROVE  IsPrefix(s, t)
<1>1. /\ s \in Seq(Returned) /\ t \in Seq(Returned)
      /\ Len(s) <= Len(t)
      /\ \A i \in 1..Len(s) : s[i] = t[i]
  BY DEF Begins
<1> DEFINE n == Len(s)
           x == SubSeq(s, 1, n)
           y == SubSeq(t, 1, n)
<1>2. n \in Nat /\ Len(t) \in Nat /\ n <= Len(t)
  BY <1>1
<1>3. x \in Seq(Returned) /\ Len(x) = n /\ \A i \in 1..n : x[i] = s[i]
  BY <1>1, <1>2
<1>4. y \in Seq(Returned) /\ Len(y) = n /\ \A i \in 1..n : y[i] = t[i]
  BY <1>1, <1>2
<1>5. x = y
  <2> HIDE DEF x, y
  <2>1. \A i \in 1..n : x[i] = y[i]
    BY <1>1, <1>3, <1>4
  <2> HIDE DEF n
  <2> QED
    BY <1>2, <1>3, <1>4, <2>1
<1> QED
  BY <1>1, <1>5 DEF IsPrefix

\* What one word returns begins with each part of it.
LEMMA BeginsWithPart ==
    ASSUME NEW u \in Seq(Returned), NEW p \in Seq(Returned), NEW j \in 0..Len(p)
    PROVE  Begins(u \o SubSeq(p, 1, j), u \o p)
<1> DEFINE x == SubSeq(p, 1, j)
<1>1. j \in Nat /\ j <= Len(p) /\ Len(p) \in Nat /\ Len(u) \in Nat
  OBVIOUS
<1>2. x \in Seq(Returned) /\ Len(x) = j /\ \A i \in 1..j : x[i] = p[i]
  BY <1>1
<1> HIDE DEF x
<1> DEFINE v == u \o x
           w == u \o p
<1>3. v \in Seq(Returned) /\ w \in Seq(Returned)
  BY <1>2
<1>4. Len(v) = Len(u) + j /\ Len(w) = Len(u) + Len(p)
  <2>1. Len(v) = Len(u) + Len(x) /\ Len(w) = Len(u) + Len(p)
    BY <1>2
  <2> QED
    BY <1>2, <2>1
<1>5. ASSUME NEW i \in 1..(Len(u) + j) PROVE v[i] = w[i]
  <2>1. CASE i <= Len(u)
    <3>1. v[i] = u[i] /\ w[i] = u[i]
      BY <1>1, <1>2, <2>1
    <3> QED
      BY <3>1
  <2>2. CASE i > Len(u)
    <3>1. v[i] = x[i - Len(u)] /\ w[i] = p[i - Len(u)]
      BY <1>1, <1>2, <2>2
    <3>2. i - Len(u) \in 1..j
      BY <1>1, <2>2
    <3> QED
      BY <1>2, <3>1, <3>2
  <2> HIDE DEF v, w
  <2> QED
    BY <1>1, <2>1, <2>2
<1>6. Begins(v, w)
  <2> HIDE DEF v, w
  <2> QED
    BY <1>1, <1>3, <1>4, <1>5 DEF Begins
<1> QED
  BY <1>6 DEF x

LEMMA BeginsIsTransitive ==
    ASSUME NEW s, NEW t, NEW u, Begins(s, t), Begins(t, u)
    PROVE  Begins(s, u)
  BY DEF Begins

LEMMA BeginsItself == ASSUME NEW s \in Seq(Returned) PROVE Begins(s, s)
  BY DEF Begins

LEMMA AllBeginsWith ==
    ASSUME Inputs, NEW k \in 0..N
    PROVE  Begins(UpToWord(k), UpToWord(N))
<1> DEFINE S == {i \in 0..N : i >= k => Begins(UpToWord(k), UpToWord(i))}
<1>0. N \in Nat /\ k \in Nat
  BY WordsAreWords
<1>1. Begins(UpToWord(k), UpToWord(k))
  BY UpToSteps, BeginsItself
<1>2. 0 \in S
  <2>1. 0 >= k => k = 0
    BY <1>0
  <2> QED
    BY <1>0, <1>1, <2>1
<1>3. \A i \in 1..N : i - 1 \in S => i \in S
  <2> SUFFICES ASSUME NEW i \in 1..N, i - 1 \in S, i >= k
               PROVE  Begins(UpToWord(k), UpToWord(i))
    BY <1>0
  <2>1. CASE i = k
    BY <1>1, <2>1
  <2>2. CASE i # k
    <3>1. i - 1 >= k /\ i - 1 \in 0..N
      BY <1>0, <2>2
    <3>2. Begins(UpToWord(k), UpToWord(i - 1))
      BY <3>1
    <3>3. Begins(UpToWord(i - 1), UpToWord(i))
      <4> DEFINE u == UpToWord(i - 1)
                 p == Part(i)
      <4>1. UpToWord(i) = u \o p
        BY UpToSteps
      <4>2. u \in Seq(Returned) /\ p \in Seq(Returned)
        BY <3>1, UpToSteps, PartsAreSequences
      <4> HIDE DEF u, p
      <4>3. SubSeq(p, 1, 0) = << >> /\ u \o << >> = u /\ 0 \in 0..Len(p)
        BY <4>2
      <4>4. Begins(u \o SubSeq(p, 1, 0), u \o p)
        BY <4>2, <4>3, BeginsWithPart
      <4>5. Begins(u, u \o p)
        BY <4>3, <4>4
      <4> QED
        BY <4>1, <4>5 DEF u
    <3> QED
      BY <3>2, <3>3, BeginsIsTransitive
  <2> QED
    BY <2>1, <2>2
<1>4. 0..N \subseteq S
  <2> HIDE DEF S
  <2> QED
    BY <1>0, <1>2, <1>3, UpTo
<1>5. N \in 0..N /\ N >= k
  BY <1>0
<1> QED
  BY <1>4, <1>5

LEMMA ToldIsExpected == IInv => ResultsInOrder
<1> SUFFICES ASSUME IInv PROVE ResultsInOrder
  OBVIOUS
<1>1. Inputs /\ N \in Nat /\ argc = N + 1
  BY WordsAreWords DEF IInv
<1>2. Expected(Ordering) = UpToWord(N)
  BY <1>1, ExpectedIsFlat
<1>3. CASE done
  <2>1. results = UpToWord(N)
    BY <1>3 DEF IInv, Ended, EndsWell
  <2>2. N \in 0..N
    BY <1>1
  <2>3. Begins(results, UpToWord(N))
    BY <1>1, <2>1, <2>2, AllBeginsWith
  <2>4. IsPrefix(results, UpToWord(N))
    BY <2>3, BeginsIsPrefix
  <2> QED
    BY <1>2, <2>1, <2>4 DEF ResultsInOrder
<1>4. CASE ~done
  <2> SUFFICES Begins(results, UpToWord(N))
    BY <1>2, <1>4, BeginsIsPrefix DEF ResultsInOrder
  <2>1. CASE Fresh
    <3>1. results = UpToWord(0) /\ 0 \in 0..N
      BY <1>1, <2>1, UpToSteps DEF Fresh
    <3> QED
      BY <1>1, <3>1, AllBeginsWith
  <2>2. CASE Midway
    <3> DEFINE o == State.optind
    <3>1. Scanning(State) /\ Told(State, results) /\ o \in 1..argc
      BY <2>2 DEF Midway, Scanning, Segments
    <3>2. CASE State.nextchar = << >>
      <4>1. results = UpToWord(o - 1)
        BY <1>1, <3>1, <3>2, ToldBetweenWords
      <4>2. o - 1 \in 0..N
        BY <1>1, <3>1
      <4> QED
        BY <1>1, <4>1, <4>2, AllBeginsWith
    <3>3. CASE State.nextchar # << >>
      <4> DEFINE u == UpToWord(o - 1)
                 p == Part(o)
                 j == Len(words[o].text) - Len(State.nextchar)
      <4>1. o \in 1..N /\ InCluster(o, State.nextchar)
        BY <3>1, <3>3 DEF Scanning, InCluster
      <4>2. Class[o] = "option" /\ words[o].type = "short"
        BY <1>1, <4>1, ClassOfNew DEF InCluster
      <4>3. LastLetter(words[o]) \in Nat
        BY <1>1, <4>1, <4>2, OptionHasType, LastLetterIs
      <4>4. Len(p) = LastLetter(words[o])
        <5>1. p = [i \in 1..LastLetter(words[o]) |-> LetterResult(o, i)]
          BY <4>2 DEF Part
        <5> QED
          BY <4>3, <5>1
      <4>5. j \in 0..(LastLetter(words[o]) - 1)
        BY <4>1 DEF InCluster
      <4>6. results = u \o SubSeq(p, 1, j)
        BY <3>1, <3>3 DEF Told
      <4>7. u \in Seq(Returned) /\ p \in Seq(Returned)
        <5>1. o - 1 \in 0..N
          BY <1>1, <4>1
        <5> QED
          BY <1>1, <4>1, <5>1, UpToSteps, PartsAreSequences
      <4>8. UpToWord(o) = u \o p
        BY <1>1, <4>1, UpToSteps
      <4>9. o \in 0..N
        BY <1>1, <4>1
      <4> HIDE DEF u, p, j
      <4>10. j \in 0..Len(p)
        BY <4>3, <4>4, <4>5
      <4>11. Begins(results, UpToWord(o))
        BY <4>6, <4>7, <4>8, <4>10, BeginsWithPart
      <4> QED
        BY <1>1, <4>9, <4>11, AllBeginsWith, BeginsIsTransitive
    <3> QED
      BY <3>2, <3>3
  <2> QED
    BY <1>4, <2>1, <2>2 DEF IInv
<1> QED
  BY <1>3, <1>4

\* The calls of _getopt_internal_r (getopt.c:467-697) return, in this order, the
\* options and arguments a scan that moves nothing finds, and all of them before
\* -1, although words are exchanged under the scan and whatever was scanned before.
THEOREM ResultsAreInOrder == Spec => []ResultsInOrder
  BY InvariantHolds, ToldIsExpected, PTL

-----------------------------------------------------------------------------
(* exchange's loop.  Getopt takes the exchange as one step; module Exchange  *)
(* has the loop, and here it is shown to do that step and to come to an end, *)
(* for vectors and segments of every length.  The invariant says of every    *)
(* word how far it is from where it belongs; each step moves two words or a  *)
(* border, and it is arithmetic that the word's new distance is the one the  *)
(* invariant gives for its new place.                                        *)

\* The loop's own variables: those of getopt.c, with x_ before each.
VARIABLES x_argv, x_first_nonopt, x_last_nonopt, x_optind, x_bottom, x_middle, x_top, x_i,
          x_given, x_first, x_last, x_pc
Loop == INSTANCE Exchange WITH
            argv <- x_argv, first_nonopt <- x_first_nonopt, last_nonopt <- x_last_nonopt,
            optind <- x_optind, bottom <- x_bottom, middle <- x_middle, top <- x_top, i <- x_i,
            given <- x_given, first <- x_first, last <- x_last, pc <- x_pc

LoopInv == Loop!TypeOK /\ Loop!OneRotationLeft

\* At the call each word of the two segments has all its way before it.
LEMMA LoopInitInv == Loop!Init => LoopInv
<1> SUFFICES ASSUME Loop!Init PROVE LoopInv
  OBVIOUS
<1>1. PICK len \in Nat :
        /\ x_argv = [k \in 0..(len - 1) |-> k]
        /\ x_optind \in 1..len
        /\ x_last_nonopt \in 1..(x_optind - 1)
        /\ x_first_nonopt \in 1..(x_last_nonopt - 1)
  BY DEF Loop!Init
<1>2. len \in Nat
  OBVIOUS
<1>3. x_bottom = x_first_nonopt /\ x_middle = x_last_nonopt /\ x_top = x_optind /\ x_i = 0 /\ x_pc = "while"
  BY DEF Loop!Init
<1>4. x_given = x_argv /\ x_first = x_first_nonopt /\ x_last = x_last_nonopt
  BY DEF Loop!Init
<1>5. Loop!TypeOK
  BY <1>1, <1>2, <1>3, <1>4 DEF Loop!TypeOK
<1>6. ASSUME NEW j \in DOMAIN x_argv PROVE x_argv[j] = Loop!Wanted[Loop!Destination(j)]
  BY <1>1, <1>2, <1>3, <1>4 DEF Loop!Wanted, Loop!Exchanged, Loop!Destination, Loop!NTop,
       Loop!NBottom
<1> QED
  BY <1>3, <1>4, <1>5, <1>6 DEF LoopInv, Loop!OneRotationLeft

-----------------------------------------------------------------------------

LoopNumbers ==
    /\ x_optind \in Nat /\ x_bottom \in Nat /\ x_middle \in Nat /\ x_top \in Nat /\ x_i \in Nat
    /\ x_first \in Nat /\ 1 <= x_first /\ x_first <= x_bottom
    /\ x_bottom <= x_middle /\ x_middle <= x_top /\ x_top <= x_optind

\* TypeOK's intervals as inequalities between numbers.
LEMMA LoopRanges ==
    ASSUME Loop!TypeOK
    PROVE  LoopNumbers
<1>1. PICK len \in Nat : x_optind \in 1..len
  BY DEF Loop!TypeOK
<1>2. len \in Nat
  OBVIOUS
<1>3. x_optind \in Nat
  BY <1>1, <1>2
<1>4. /\ x_first \in 1..x_optind
      /\ x_bottom \in x_first..x_optind
      /\ x_middle \in x_bottom..x_optind
      /\ x_top \in x_middle..x_optind
      /\ x_i \in Nat
  BY Zenon DEF Loop!TypeOK
<1>5. x_first \in Nat /\ 1 <= x_first
  BY <1>3, <1>4
<1>6. x_bottom \in Nat /\ x_first <= x_bottom
  BY <1>3, <1>4, <1>5
<1>7. x_middle \in Nat /\ x_bottom <= x_middle
  BY <1>3, <1>4, <1>6
<1>8. x_top \in Nat /\ x_middle <= x_top /\ x_top <= x_optind
  BY <1>3, <1>4, <1>7
<1> QED
  BY <1>3, <1>4, <1>5, <1>6, <1>7, <1>8 DEF LoopNumbers

\* argv is as long as it was.
LEMMA LoopVectors ==
    ASSUME Loop!TypeOK
    PROVE  \E len \in Nat :
              /\ len \in Nat
              /\ x_argv \in [0..(len - 1) -> Nat]
              /\ x_given \in [0..(len - 1) -> Nat]
              /\ x_optind \in 1..len
<1>1. \A len \in Nat : len \in Nat
  OBVIOUS
<1> QED
  BY <1>1, Zenon DEF Loop!TypeOK

\* A round begins: every word has all its way before it, in either branch.
LEMMA WhileInv == LoopInv /\ Loop!While => LoopInv'
<1> SUFFICES ASSUME LoopInv, Loop!While PROVE LoopInv'
  OBVIOUS
<1>1. LoopNumbers
  BY LoopRanges DEF LoopInv
<1>2. /\ x_i' = 0 /\ x_pc = "while"
      /\ x_pc' = IF x_top - x_middle > x_middle - x_bottom THEN "bottomShort" ELSE "topShort"
      /\ x_middle > x_bottom
      /\ UNCHANGED <<x_argv, x_bottom, x_middle, x_top>>
  BY DEF Loop!While, Loop!SegmentsLeft
<1>rest. UNCHANGED <<x_first_nonopt, x_last_nonopt, x_optind, x_given, x_first, x_last>>
  BY DEF Loop!While, Loop!call
<1>3. Loop!TypeOK'
  BY <1>2, <1>rest, Zenon DEF LoopInv, Loop!TypeOK
<1>4. ASSUME NEW j \in DOMAIN x_argv' PROVE x_argv'[j] = Loop!Wanted'[Loop!Destination(j)']
  <2>1. PICK len \in Nat : x_argv \in [0..(len - 1) -> Nat]
    BY LoopVectors DEF LoopInv
  <2>2. j \in Int /\ j \in DOMAIN x_argv
    BY <1>2, <1>4, <2>1
  <2>3. x_argv[j] = Loop!Wanted[Loop!Destination(j)]
    BY <2>2, Zenon DEF LoopInv, Loop!OneRotationLeft
  <2>4. Loop!Destination(j)' = Loop!Destination(j)
    BY <1>1, <1>2, <2>2, SMT DEF Loop!Destination, Loop!NTop, Loop!NBottom, LoopNumbers
  <2> QED
    BY <1>2, <1>rest, <2>3, <2>4, Zenon DEF Loop!Wanted
<1>5. (x_pc = "bottomShort" => x_i <= Loop!NBottom /\ Loop!NBottom < Loop!NTop)'
  BY <1>1, <1>2, SMT DEF Loop!NTop, Loop!NBottom, LoopNumbers
<1>6. (x_pc = "topShort" => x_i <= Loop!NTop /\ Loop!NTop <= Loop!NBottom)'
  BY <1>1, <1>2, SMT DEF Loop!NTop, Loop!NBottom, LoopNumbers
<1>7. (x_pc # "done" => x_first_nonopt = x_first /\ x_last_nonopt = x_last)'
  BY <1>2, <1>rest, Zenon DEF LoopInv, Loop!OneRotationLeft
<1> QED
  BY <1>3, <1>4, <1>5, <1>6, <1>7 DEF LoopInv, Loop!OneRotationLeft

\* Two words change places: one arrives, the other has gone the length of its new
\* segment; both are still within the segments.
LEMMA SwapWithTopInv == LoopInv /\ Loop!SwapWithTop => LoopInv'
<1> SUFFICES ASSUME LoopInv, Loop!SwapWithTop PROVE LoopInv'
  OBVIOUS
<1>1. LoopNumbers
  BY LoopRanges DEF LoopInv
<1>2. PICK len \in Nat :
        /\ len \in Nat
        /\ x_argv \in [0..(len - 1) -> Nat]
        /\ x_given \in [0..(len - 1) -> Nat]
        /\ x_optind \in 1..len
  BY LoopVectors DEF LoopInv
<1>3. x_i < Loop!NBottom /\ Loop!NBottom < Loop!NTop
  BY <1>1, SMT DEF LoopInv, Loop!OneRotationLeft, Loop!SwapWithTop, Loop!NTop, Loop!NBottom,
       LoopNumbers
<1> DEFINE low == x_bottom + x_i
           high == x_top - Loop!NBottom + x_i
<1>4. low \in 0..(len - 1) /\ high \in 0..(len - 1) /\ low < high
  BY <1>1, <1>2, <1>3, SMT DEF Loop!NTop, Loop!NBottom, LoopNumbers
<1>5. x_argv' = [x_argv EXCEPT ![low] = x_argv[high], ![high] = x_argv[low]]
  BY DEF Loop!SwapWithTop, Loop!Swapped, Loop!NBottom
<1>6. /\ x_i' = x_i + 1 /\ x_pc = "bottomShort" /\ UNCHANGED <<x_bottom, x_middle, x_top, x_pc>>
  BY DEF Loop!SwapWithTop
<1>rest. UNCHANGED <<x_first_nonopt, x_last_nonopt, x_optind, x_given, x_first, x_last>>
  BY DEF Loop!SwapWithTop, Loop!call
<1>7. low \in Nat /\ high \in Nat
  BY <1>4, <1>2
<1> HIDE DEF low, high
<1>8. x_argv' \in [0..(len - 1) -> Nat]
  BY <1>2, <1>4, <1>5
<1>9. Loop!TypeOK'
  <2>1. x_i' \in Nat
    BY <1>1, <1>6, SMT DEF LoopNumbers
  <2>2. /\ x_first \in 1..x_optind /\ x_last \in x_first..x_optind
        /\ x_first_nonopt \in 1..x_optind /\ x_last_nonopt \in x_first_nonopt..x_optind
        /\ x_bottom \in x_first..x_optind /\ x_middle \in x_bottom..x_optind /\ x_top \in x_middle..x_optind
        /\ x_pc \in {"while", "bottomShort", "topShort", "done"}
    BY Zenon DEF LoopInv, Loop!TypeOK
  <2> QED
    BY <1>2, <1>6, <1>rest, <1>8, <2>1, <2>2, Zenon DEF Loop!TypeOK
<1>10. ASSUME NEW j \in DOMAIN x_argv' PROVE x_argv'[j] = Loop!Wanted'[Loop!Destination(j)']
  <2>1. j \in 0..(len - 1)
    BY <1>8, <1>10
  <2>2. j \in Int
    BY <2>1, <1>2
  <2>3. \A k \in 0..(len - 1) : x_argv[k] = Loop!Wanted[Loop!Destination(k)]
    BY <1>2 DEF LoopInv, Loop!OneRotationLeft
  <2>4. Loop!Wanted' = Loop!Wanted
    BY <1>6, <1>rest, Zenon DEF Loop!Wanted
  <2>5. CASE j = low
    <3>1. x_argv'[j] = x_argv[high]
      BY <1>2, <1>4, <1>5, <2>5
    <3>2. Loop!Destination(high) = Loop!Destination(j)'
      BY <1>1, <1>3, <1>6, <2>5, SMT DEF Loop!Destination, Loop!NTop, Loop!NBottom, low, high,
           LoopNumbers
    <3> QED
      BY <1>4, <2>3, <2>4, <3>1, <3>2, Zenon
  <2>6. CASE j = high
    <3>1. x_argv'[j] = x_argv[low]
      BY <1>2, <1>4, <1>5, <2>6
    <3>2. Loop!Destination(low) = Loop!Destination(j)'
      BY <1>1, <1>3, <1>6, <2>6, SMT DEF Loop!Destination, Loop!NTop, Loop!NBottom, low, high,
           LoopNumbers
    <3> QED
      BY <1>4, <2>3, <2>4, <3>1, <3>2, Zenon
  <2>7. CASE j # low /\ j # high
    <3>1. x_argv'[j] = x_argv[j]
      BY <1>2, <1>5, <2>1, <2>7
    <3>2. Loop!Destination(j) = Loop!Destination(j)'
      BY <1>1, <1>3, <1>6, <2>2, <2>7, SMT DEF Loop!Destination, Loop!NTop, Loop!NBottom, low,
           high, LoopNumbers
    <3> QED
      BY <2>1, <2>3, <2>4, <3>1, <3>2, Zenon
  <2> QED
    BY <2>5, <2>6, <2>7
<1>11. (x_pc = "bottomShort" => x_i <= Loop!NBottom /\ Loop!NBottom < Loop!NTop)'
  BY <1>1, <1>3, <1>6, SMT DEF Loop!NTop, Loop!NBottom, LoopNumbers
<1>12. (x_pc = "topShort" => x_i <= Loop!NTop /\ Loop!NTop <= Loop!NBottom)'
  BY <1>1, <1>3, <1>6, SMT DEF Loop!NTop, Loop!NBottom, LoopNumbers
<1>13. (x_pc # "done" => x_first_nonopt = x_first /\ x_last_nonopt = x_last)'
  BY <1>6, <1>rest, Zenon DEF LoopInv, Loop!OneRotationLeft
<1> QED
  BY <1>9, <1>10, <1>11, <1>12, <1>13 DEF LoopInv, Loop!OneRotationLeft

\* The same in the other direction.
LEMMA SwapWithBottomInv == LoopInv /\ Loop!SwapWithBottom => LoopInv'
<1> SUFFICES ASSUME LoopInv, Loop!SwapWithBottom PROVE LoopInv'
  OBVIOUS
<1>1. LoopNumbers
  BY LoopRanges DEF LoopInv
<1>2. PICK len \in Nat :
        /\ len \in Nat
        /\ x_argv \in [0..(len - 1) -> Nat]
        /\ x_given \in [0..(len - 1) -> Nat]
        /\ x_optind \in 1..len
  BY LoopVectors DEF LoopInv
<1>3. x_i < Loop!NTop /\ Loop!NTop <= Loop!NBottom
  BY <1>1, SMT DEF LoopInv, Loop!OneRotationLeft, Loop!SwapWithBottom, Loop!NTop, Loop!NBottom,
       LoopNumbers
<1> DEFINE low == x_bottom + x_i
           high == x_middle + x_i
<1>4. low \in 0..(len - 1) /\ high \in 0..(len - 1) /\ low < high
  BY <1>1, <1>2, <1>3, SMT DEF Loop!NTop, Loop!NBottom, LoopNumbers
<1>5. x_argv' = [x_argv EXCEPT ![low] = x_argv[high], ![high] = x_argv[low]]
  BY DEF Loop!SwapWithBottom, Loop!Swapped, Loop!NBottom
<1>6. /\ x_i' = x_i + 1 /\ x_pc = "topShort" /\ UNCHANGED <<x_bottom, x_middle, x_top, x_pc>>
  BY DEF Loop!SwapWithBottom
<1>rest. UNCHANGED <<x_first_nonopt, x_last_nonopt, x_optind, x_given, x_first, x_last>>
  BY DEF Loop!SwapWithBottom, Loop!call
<1>7. low \in Nat /\ high \in Nat
  BY <1>4, <1>2
<1> HIDE DEF low, high
<1>8. x_argv' \in [0..(len - 1) -> Nat]
  BY <1>2, <1>4, <1>5
<1>9. Loop!TypeOK'
  <2>1. x_i' \in Nat
    BY <1>1, <1>6, SMT DEF LoopNumbers
  <2>2. /\ x_first \in 1..x_optind /\ x_last \in x_first..x_optind
        /\ x_first_nonopt \in 1..x_optind /\ x_last_nonopt \in x_first_nonopt..x_optind
        /\ x_bottom \in x_first..x_optind /\ x_middle \in x_bottom..x_optind /\ x_top \in x_middle..x_optind
        /\ x_pc \in {"while", "bottomShort", "topShort", "done"}
    BY Zenon DEF LoopInv, Loop!TypeOK
  <2> QED
    BY <1>2, <1>6, <1>rest, <1>8, <2>1, <2>2, Zenon DEF Loop!TypeOK
<1>10. ASSUME NEW j \in DOMAIN x_argv' PROVE x_argv'[j] = Loop!Wanted'[Loop!Destination(j)']
  <2>1. j \in 0..(len - 1)
    BY <1>8, <1>10
  <2>2. j \in Int
    BY <2>1, <1>2
  <2>3. \A k \in 0..(len - 1) : x_argv[k] = Loop!Wanted[Loop!Destination(k)]
    BY <1>2 DEF LoopInv, Loop!OneRotationLeft
  <2>4. Loop!Wanted' = Loop!Wanted
    BY <1>6, <1>rest, Zenon DEF Loop!Wanted
  <2>5. CASE j = low
    <3>1. x_argv'[j] = x_argv[high]
      BY <1>2, <1>4, <1>5, <2>5
    <3>2. Loop!Destination(high) = Loop!Destination(j)'
      BY <1>1, <1>3, <1>6, <2>5, SMT DEF Loop!Destination, Loop!NTop, Loop!NBottom, low, high,
           LoopNumbers
    <3> QED
      BY <1>4, <2>3, <2>4, <3>1, <3>2, Zenon
  <2>6. CASE j = high
    <3>1. x_argv'[j] = x_argv[low]
      BY <1>2, <1>4, <1>5, <2>6
    <3>2. Loop!Destination(low) = Loop!Destination(j)'
      BY <1>1, <1>3, <1>6, <2>6, SMT DEF Loop!Destination, Loop!NTop, Loop!NBottom, low, high,
           LoopNumbers
    <3> QED
      BY <1>4, <2>3, <2>4, <3>1, <3>2, Zenon
  <2>7. CASE j # low /\ j # high
    <3>1. x_argv'[j] = x_argv[j]
      BY <1>2, <1>5, <2>1, <2>7
    <3>2. Loop!Destination(j) = Loop!Destination(j)'
      BY <1>1, <1>3, <1>6, <2>2, <2>7, SMT DEF Loop!Destination, Loop!NTop, Loop!NBottom, low,
           high, LoopNumbers
    <3> QED
      BY <2>1, <2>3, <2>4, <3>1, <3>2, Zenon
  <2> QED
    BY <2>5, <2>6, <2>7
<1>11. (x_pc = "bottomShort" => x_i <= Loop!NBottom /\ Loop!NBottom < Loop!NTop)'
  BY <1>1, <1>3, <1>6, SMT DEF Loop!NTop, Loop!NBottom, LoopNumbers
<1>12. (x_pc = "topShort" => x_i <= Loop!NTop /\ Loop!NTop <= Loop!NBottom)'
  BY <1>1, <1>3, <1>6, SMT DEF Loop!NTop, Loop!NBottom, LoopNumbers
<1>13. (x_pc # "done" => x_first_nonopt = x_first /\ x_last_nonopt = x_last)'
  BY <1>6, <1>rest, Zenon DEF LoopInv, Loop!OneRotationLeft
<1> QED
  BY <1>9, <1>10, <1>11, <1>12, <1>13 DEF LoopInv, Loop!OneRotationLeft

\* The words that have arrived are excluded.
LEMMA ExcludeTopInv == LoopInv /\ Loop!ExcludeTop => LoopInv'
<1> SUFFICES ASSUME LoopInv, Loop!ExcludeTop PROVE LoopInv'
  OBVIOUS
<1>1. LoopNumbers
  BY LoopRanges DEF LoopInv
<1>2. PICK len \in Nat :
        /\ len \in Nat
        /\ x_argv \in [0..(len - 1) -> Nat]
        /\ x_given \in [0..(len - 1) -> Nat]
        /\ x_optind \in 1..len
  BY LoopVectors DEF LoopInv
<1>3. x_i = Loop!NBottom /\ Loop!NBottom < Loop!NTop
  BY <1>1, SMT DEF LoopInv, Loop!OneRotationLeft, Loop!ExcludeTop, Loop!NTop, Loop!NBottom,
       LoopNumbers
<1>4. /\ x_top' = x_top - Loop!NBottom /\ x_pc = "bottomShort" /\ x_pc' = "while" /\ UNCHANGED <<x_argv, x_bottom, x_middle, x_i>>
  BY DEF Loop!ExcludeTop, Loop!NTop, Loop!NBottom
<1>rest. UNCHANGED <<x_first_nonopt, x_last_nonopt, x_optind, x_given, x_first, x_last>>
  BY DEF Loop!ExcludeTop, Loop!call
<1>5. Loop!TypeOK'
  <2>1. /\ x_first \in 1..x_optind /\ x_last \in x_first..x_optind
        /\ x_first_nonopt \in 1..x_optind /\ x_last_nonopt \in x_first_nonopt..x_optind
    BY Zenon DEF LoopInv, Loop!TypeOK
  <2>2. x_bottom' \in x_first..x_optind /\ x_middle' \in (x_bottom')..x_optind /\ x_top' \in (x_middle')..x_optind /\ x_i' \in Nat
    BY <1>1, <1>3, <1>4, SMT DEF Loop!NTop, Loop!NBottom, LoopNumbers
  <2>3. x_pc' \in {"while", "bottomShort", "topShort", "done"}
    BY <1>4
  <2> QED
    BY <1>2, <1>4, <1>rest, <2>1, <2>2, <2>3, Zenon DEF Loop!TypeOK
<1>6. ASSUME NEW j \in DOMAIN x_argv' PROVE x_argv'[j] = Loop!Wanted'[Loop!Destination(j)']
  <2>1. j \in Int /\ j \in DOMAIN x_argv
    BY <1>2, <1>4, <1>6
  <2>2. x_argv[j] = Loop!Wanted[Loop!Destination(j)]
    BY <2>1, Zenon DEF LoopInv, Loop!OneRotationLeft
  <2>3. Loop!Wanted' = Loop!Wanted
    BY <1>4, <1>rest, Zenon DEF Loop!Wanted
  <2>4. Loop!Destination(j) = Loop!Destination(j)'
    BY <1>1, <1>3, <1>4, <2>1, SMT DEF Loop!Destination, Loop!NTop, Loop!NBottom, LoopNumbers
  <2> QED
    BY <1>4, <2>2, <2>3, <2>4, Zenon
<1>7. (x_pc # "done" => x_first_nonopt = x_first /\ x_last_nonopt = x_last)'
  BY <1>4, <1>rest, Zenon DEF LoopInv, Loop!OneRotationLeft
<1> QED
  BY <1>4, <1>5, <1>6, <1>7 DEF LoopInv, Loop!OneRotationLeft

\* The same at the other end.
LEMMA ExcludeBottomInv == LoopInv /\ Loop!ExcludeBottom => LoopInv'
<1> SUFFICES ASSUME LoopInv, Loop!ExcludeBottom PROVE LoopInv'
  OBVIOUS
<1>1. LoopNumbers
  BY LoopRanges DEF LoopInv
<1>2. PICK len \in Nat :
        /\ len \in Nat
        /\ x_argv \in [0..(len - 1) -> Nat]
        /\ x_given \in [0..(len - 1) -> Nat]
        /\ x_optind \in 1..len
  BY LoopVectors DEF LoopInv
<1>3. x_i = Loop!NTop /\ Loop!NTop <= Loop!NBottom
  BY <1>1, SMT DEF LoopInv, Loop!OneRotationLeft, Loop!ExcludeBottom, Loop!NTop, Loop!NBottom,
       LoopNumbers
<1>4. /\ x_bottom' = x_bottom + Loop!NTop /\ x_pc = "topShort" /\ x_pc' = "while" /\ UNCHANGED <<x_argv, x_middle, x_top, x_i>>
  BY DEF Loop!ExcludeBottom, Loop!NTop, Loop!NBottom
<1>rest. UNCHANGED <<x_first_nonopt, x_last_nonopt, x_optind, x_given, x_first, x_last>>
  BY DEF Loop!ExcludeBottom, Loop!call
<1>5. Loop!TypeOK'
  <2>1. /\ x_first \in 1..x_optind /\ x_last \in x_first..x_optind
        /\ x_first_nonopt \in 1..x_optind /\ x_last_nonopt \in x_first_nonopt..x_optind
    BY Zenon DEF LoopInv, Loop!TypeOK
  <2>2. x_bottom' \in x_first..x_optind /\ x_middle' \in (x_bottom')..x_optind /\ x_top' \in (x_middle')..x_optind /\ x_i' \in Nat
    BY <1>1, <1>3, <1>4, SMT DEF Loop!NTop, Loop!NBottom, LoopNumbers
  <2>3. x_pc' \in {"while", "bottomShort", "topShort", "done"}
    BY <1>4
  <2> QED
    BY <1>2, <1>4, <1>rest, <2>1, <2>2, <2>3, Zenon DEF Loop!TypeOK
<1>6. ASSUME NEW j \in DOMAIN x_argv' PROVE x_argv'[j] = Loop!Wanted'[Loop!Destination(j)']
  <2>1. j \in Int /\ j \in DOMAIN x_argv
    BY <1>2, <1>4, <1>6
  <2>2. x_argv[j] = Loop!Wanted[Loop!Destination(j)]
    BY <2>1, Zenon DEF LoopInv, Loop!OneRotationLeft
  <2>3. Loop!Wanted' = Loop!Wanted
    BY <1>4, <1>rest, Zenon DEF Loop!Wanted
  <2>4. Loop!Destination(j) = Loop!Destination(j)'
    BY <1>1, <1>3, <1>4, <2>1, SMT DEF Loop!Destination, Loop!NTop, Loop!NBottom, LoopNumbers
  <2> QED
    BY <1>4, <2>2, <2>3, <2>4, Zenon
<1>7. (x_pc # "done" => x_first_nonopt = x_first /\ x_last_nonopt = x_last)'
  BY <1>4, <1>rest, Zenon DEF LoopInv, Loop!OneRotationLeft
<1> QED
  BY <1>4, <1>5, <1>6, <1>7 DEF LoopInv, Loop!OneRotationLeft

\* The loop is over, with no word left that is not where it belongs.
LEMMA UpdateInv == LoopInv /\ Loop!Update => LoopInv' /\ Loop!Rotates'
<1> SUFFICES ASSUME LoopInv, Loop!Update PROVE LoopInv' /\ Loop!Rotates'
  OBVIOUS
<1>1. LoopNumbers
  BY LoopRanges DEF LoopInv
<1>2. PICK len \in Nat :
        /\ len \in Nat
        /\ x_argv \in [0..(len - 1) -> Nat]
        /\ x_given \in [0..(len - 1) -> Nat]
        /\ x_optind \in 1..len
  BY LoopVectors DEF LoopInv
<1>3. /\ x_pc = "while" /\ x_pc' = "done"
      /\ x_middle = x_bottom \/ x_top = x_middle
      /\ x_first_nonopt' = x_first_nonopt + (x_optind - x_last_nonopt) /\ x_last_nonopt' = x_optind
      /\ UNCHANGED <<x_argv, x_optind, x_bottom, x_middle, x_top, x_i, x_given, x_first, x_last>>
  BY <1>1, SMT DEF Loop!Update, Loop!SegmentsLeft, LoopNumbers
<1>4. x_first_nonopt = x_first /\ x_last_nonopt = x_last
  BY <1>3 DEF LoopInv, Loop!OneRotationLeft
<1>5. x_first \in 1..x_optind /\ x_last \in x_first..x_optind
  BY Zenon DEF LoopInv, Loop!TypeOK
<1>6. x_first_nonopt' \in 1..x_optind /\ x_last_nonopt' \in (x_first_nonopt')..x_optind
  BY <1>1, <1>3, <1>4, <1>5, SMT DEF LoopNumbers
<1>7. Loop!TypeOK'
  <2>1. /\ x_bottom \in x_first..x_optind /\ x_middle \in x_bottom..x_optind /\ x_top \in x_middle..x_optind
        /\ x_i \in Nat
    BY Zenon DEF LoopInv, Loop!TypeOK
  <2>2. x_pc' \in {"while", "bottomShort", "topShort", "done"}
    BY <1>3
  <2> QED
    BY <1>2, <1>3, <1>5, <1>6, <2>1, <2>2, Zenon DEF Loop!TypeOK
<1>8. ASSUME NEW j \in 0..(len - 1) PROVE Loop!Destination(j) = j /\ Loop!Destination(j)' = j
  BY <1>1, <1>3, SMT DEF Loop!Destination, Loop!NTop, Loop!NBottom, LoopNumbers
<1>9. Loop!Wanted' = Loop!Wanted
  BY <1>3, Zenon DEF Loop!Wanted
<1>10. ASSUME NEW j \in 0..(len - 1) PROVE x_argv[j] = Loop!Wanted[j]
  BY <1>2, <1>8 DEF LoopInv, Loop!OneRotationLeft
<1>11. Loop!OneRotationLeft'
  BY <1>2, <1>3, <1>8, <1>9, <1>10 DEF Loop!OneRotationLeft
<1>12. x_argv = Loop!Wanted
  <2>1. Loop!Wanted = [k \in 0..(len - 1) |-> Loop!Wanted[k]]
    BY <1>2 DEF Loop!Wanted, Loop!Exchanged
  <2>2. x_argv = [k \in 0..(len - 1) |-> x_argv[k]]
    BY <1>2
  <2> QED
    BY <1>10, <2>1, <2>2
<1>13. Loop!Rotates'
  BY <1>3, <1>4, <1>9, <1>12 DEF Loop!Rotates
<1> QED
  BY <1>7, <1>11, <1>13 DEF LoopInv

-----------------------------------------------------------------------------

\* Only Update reaches "done", so Rotates holds whenever it says something.
LoopFullInv == LoopInv /\ Loop!Rotates

LEMMA LoopNextInv == LoopFullInv /\ [Loop!Next]_(Loop!vars) => LoopFullInv'
<1> SUFFICES ASSUME LoopFullInv, [Loop!Next]_(Loop!vars) PROVE LoopFullInv'
  OBVIOUS
<1>1. CASE Loop!While
  <2>1. x_pc' # "done"
    BY <1>1 DEF Loop!While
  <2> QED
    BY <1>1, <2>1, WhileInv DEF LoopFullInv, Loop!Rotates
<1>2. CASE Loop!SwapWithTop
  <2>1. x_pc' # "done"
    BY <1>2 DEF Loop!SwapWithTop
  <2> QED
    BY <1>2, <2>1, SwapWithTopInv DEF LoopFullInv, Loop!Rotates
<1>3. CASE Loop!ExcludeTop
  <2>1. x_pc' # "done"
    BY <1>3 DEF Loop!ExcludeTop
  <2> QED
    BY <1>3, <2>1, ExcludeTopInv DEF LoopFullInv, Loop!Rotates
<1>4. CASE Loop!SwapWithBottom
  <2>1. x_pc' # "done"
    BY <1>4 DEF Loop!SwapWithBottom
  <2> QED
    BY <1>4, <2>1, SwapWithBottomInv DEF LoopFullInv, Loop!Rotates
<1>5. CASE Loop!ExcludeBottom
  <2>1. x_pc' # "done"
    BY <1>5 DEF Loop!ExcludeBottom
  <2> QED
    BY <1>5, <2>1, ExcludeBottomInv DEF LoopFullInv, Loop!Rotates
<1>6. CASE Loop!Update
  BY <1>6, UpdateInv DEF LoopFullInv
<1>7. CASE UNCHANGED Loop!vars
  BY <1>7 DEF LoopFullInv, LoopInv, Loop!TypeOK, Loop!OneRotationLeft, Loop!Destination,
       Loop!NTop, Loop!NBottom, Loop!Wanted,
              Loop!Rotates, Loop!vars, Loop!call
<1> QED
  BY <1>1, <1>2, <1>3, <1>4, <1>5, <1>6, <1>7 DEF Loop!Next

\* For every length of argv and of its segments, exchange stays inside the segments,
\* after each swap the words are on their way, and it ends with the segments in each
\* other's place.
THEOREM ExchangeIsSound == Loop!Spec => [](Loop!TypeOK /\ Loop!OneRotationLeft /\ Loop!Rotates)
<1>1. Loop!Init => LoopFullInv
  <2>1. Loop!Init => x_pc = "while"
    BY DEF Loop!Init
  <2> QED
    BY <2>1, LoopInitInv DEF LoopFullInv, Loop!Rotates
<1>2. LoopFullInv /\ [Loop!Next]_(Loop!vars) => LoopFullInv'
  BY LoopNextInv
<1>3. LoopFullInv => Loop!TypeOK /\ Loop!OneRotationLeft /\ Loop!Rotates
  BY DEF LoopFullInv, LoopInv
<1> QED
  BY <1>1, <1>2, <1>3, PTL DEF Loop!Spec

-----------------------------------------------------------------------------

\* A round is only begun with words in both segments.
InRound == x_pc \in {"bottomShort", "topShort"} => Loop!SegmentsLeft

LEMMA InRoundInv == InRound /\ [Loop!Next]_(Loop!vars) => InRound'
<1> SUFFICES ASSUME InRound, [Loop!Next]_(Loop!vars) PROVE InRound'
  OBVIOUS
<1>1. CASE Loop!While
  BY <1>1 DEF Loop!While, InRound, Loop!SegmentsLeft
<1>2. CASE Loop!SwapWithTop
  BY <1>2 DEF Loop!SwapWithTop, InRound, Loop!SegmentsLeft
<1>3. CASE Loop!ExcludeTop
  BY <1>3 DEF Loop!ExcludeTop, InRound
<1>4. CASE Loop!SwapWithBottom
  BY <1>4 DEF Loop!SwapWithBottom, InRound, Loop!SegmentsLeft
<1>5. CASE Loop!ExcludeBottom
  BY <1>5 DEF Loop!ExcludeBottom, InRound
<1>6. CASE Loop!Update
  BY <1>6 DEF Loop!Update, InRound
<1>7. CASE UNCHANGED Loop!vars
  BY <1>7 DEF InRound, Loop!SegmentsLeft, Loop!vars
<1> QED
  BY <1>1, <1>2, <1>3, <1>4, <1>5, <1>6, <1>7 DEF Loop!Next

\* A step of the loop leaves less to do.
LEMMA RoundsShrink == LoopInv /\ InRound /\ Loop!Next => Loop!ToDo' \in Nat /\ Loop!ToDo' < Loop!ToDo
<1> SUFFICES ASSUME LoopInv, InRound, Loop!Next PROVE Loop!ToDo' \in Nat /\ Loop!ToDo' < Loop!ToDo
  OBVIOUS
<1>1. LoopNumbers
  BY LoopRanges DEF LoopInv
<1>2. /\ x_pc = "bottomShort" => x_i <= Loop!NBottom /\ Loop!NBottom < Loop!NTop
      /\ x_pc = "topShort" => x_i <= Loop!NTop /\ Loop!NTop <= Loop!NBottom
  BY DEF LoopInv, Loop!OneRotationLeft
<1>round. x_pc \in {"bottomShort", "topShort"} => Loop!NTop > 0 /\ Loop!NBottom > 0
  BY <1>1, SMT DEF InRound, Loop!SegmentsLeft, Loop!NTop, Loop!NBottom, LoopNumbers
<1>3. CASE Loop!While
  BY <1>1, <1>3, SMT DEF Loop!While, Loop!SegmentsLeft, Loop!ToDo, LoopNumbers
<1>4. CASE Loop!SwapWithTop
  BY <1>1, <1>2, <1>4, SMT DEF Loop!SwapWithTop, Loop!ToDo, Loop!NTop, Loop!NBottom, LoopNumbers
<1>5. CASE Loop!ExcludeTop
  BY <1>1, <1>2, <1>round, <1>5, SMT DEF Loop!ExcludeTop, Loop!ToDo, Loop!NTop, Loop!NBottom,
       LoopNumbers
<1>6. CASE Loop!SwapWithBottom
  BY <1>1, <1>2, <1>6, SMT DEF Loop!SwapWithBottom, Loop!ToDo, Loop!NTop, Loop!NBottom, LoopNumbers
<1>7. CASE Loop!ExcludeBottom
  BY <1>1, <1>2, <1>round, <1>7, SMT DEF Loop!ExcludeBottom, Loop!ToDo, Loop!NTop, Loop!NBottom,
       LoopNumbers
<1>8. CASE Loop!Update
  BY <1>1, <1>8, SMT DEF Loop!Update, Loop!ToDo, LoopNumbers
<1> QED
  BY <1>3, <1>4, <1>5, <1>6, <1>7, <1>8 DEF Loop!Next

\* The loop of exchange cannot go on for ever, whatever the lengths of argv and of its
\* segments: every step leaves less to do.
THEOREM ExchangeEnds == Loop!Spec => Loop!ComesToAnEnd
<1>1. Loop!Init => LoopFullInv /\ InRound
  <2>1. Loop!Init => x_pc = "while"
    BY DEF Loop!Init
  <2> QED
    BY <2>1, LoopInitInv DEF LoopFullInv, Loop!Rotates, InRound
<1>2. LoopFullInv /\ InRound /\ [Loop!Next]_(Loop!vars) => LoopFullInv' /\ InRound'
  BY LoopNextInv, InRoundInv
<1>3. LoopFullInv /\ InRound /\ [Loop!Next]_(Loop!vars) => [Loop!ToDo' \in Nat /\ Loop!ToDo' < Loop!ToDo]_(Loop!vars)
  BY RoundsShrink DEF LoopFullInv
<1> QED
  BY <1>1, <1>2, <1>3, PTL DEF Loop!Spec, Loop!ComesToAnEnd
=============================================================================
