------------------------------ MODULE Fnmatch ------------------------------
(***************************************************************************)
(* fnmatch (src/regex/fnmatch.c): does a string match a shell pattern?     *)
(*                                                                         *)
(* The "Sea of Stars" algorithm as a state machine.  The pattern's head,   *)
(* up to the first star, is matched token by token (MatchHead); what follows *)
(* the last star is matched against the end of the string (MatchTail); the *)
(* components between stars are then placed one after the other, each at   *)
(* the first place where it fits (Sea).  Around it, fnmatch cuts pattern   *)
(* and string at slashes (FNM_PATHNAME) or tries every prefix of the       *)
(* string that a slash ends (FNM_LEADING_DIR).                             *)
(*                                                                         *)
(* The code reads the pattern's characters.  What the pattern means is     *)
(* kept apart from them: an input is a sequence of tokens, each with its   *)
(* text and the set of characters that it stands for, and the properties   *)
(* are about these sets only.                                              *)
(*                                                                         *)
(* Pointers are indices: a position is that of the next character, an end  *)
(* is the position after the last one.  Every character is one byte.       *)
(***************************************************************************)
EXTENDS Integers, FiniteSetsExt, SequencesExt

\* The characters in the order of their codes, those of a class, and the other
\* case of a letter.
Codes == <<"!", "*", "-", ".", "/", ":", "?", "A", "B", "[", "\\", "]", "^", "a", "b">>
Code(c) == CHOOSE i \in DOMAIN Codes : Codes[i] = c
Class == [lower |-> {"a", "b"}, upper |-> {"A", "B"}]
Other == [a |-> "A", b |-> "B", A |-> "a", B |-> "b"]
casefold(k) == IF k \in DOMAIN Other THEN Other[k] ELSE k

CONSTANT Inputs   \* a set of records [toks, strs, flags], each field the set
                  \* of what a call may be given together with the others

\* The character that ends a string, and what pat_next tells besides characters.
NUL == "nul"
Signs == {"END", "STAR", "QUESTION", "BRACKET"}

\* Neither the string nor the pattern holds the NUL that ends it, and every token is
\* written with some character.
IsString(st) == st \in Seq(Range(st)) /\ Range(st) \cap (Signs \cup {NUL}) = {}
IsPattern(ts) ==
  /\ ts \in Seq(Range(ts))
  /\ \A i \in DOMAIN ts :
       /\ IsString(ts[i].text) /\ ts[i].text # <<>>
       /\ ts[i].star \in BOOLEAN /\ (ts[i].star => ts[i].text = <<"*">>)
ASSUME InputAssumption ==
  \A in \in Inputs : (\A ts \in in.toks : IsPattern(ts)) /\ (\A st \in in.strs : IsString(st))

VARIABLES toks,   \* the tokens the caller's pattern is made of
          chars,  \* the pattern: the characters of the tokens
          text,   \* the string
          flags,  \* the set of FNM_ flags
          pc,     \* where the call is
          fpat,   \* fnmatch: `pat`, the start of the next pattern component
          fstr,   \* fnmatch: `str`, or without FNM_PATHNAME the prefix's `s`
          last,   \* fnmatch: the running fnmatch_internal decides the result
          pat, endpat, str, endstr,  \* fnmatch_internal: what is left to match
          p, s,   \* how far the running loop has got in the pattern, in the string
          ptail, tailcnt,  \* fnmatch_internal: after the last star, and how many tokens
          result  \* TRUE: 0 is returned, FALSE: FNM_NOMATCH

caller == <<toks, chars, text, flags>>
outer  == <<fpat, fstr, last>>
inner  == <<pat, endpat, str, endstr>>
loop   == <<p, s>>
tail   == <<ptail, tailcnt>>
vars   == <<caller, outer, inner, loop, tail, pc, result>>

\* A character of the pattern, of the string; NUL at the end of each.
PatAt(k, end) == IF k < end THEN chars[k] ELSE NUL
StrAt(k, end) == IF k < end THEN text[k] ELSE NUL
-----------------------------------------------------------------------------
Kfold(k) == IF "CASEFOLD" \in flags THEN casefold(k) ELSE k

\* Inside a bracket: does a class or a collating symbol start at k, and where might
\* it end?
IsSymbol(k, end) == PatAt(k, end) = "[" /\ PatAt(k + 1, end) \in {":", ".", "="}
SymbolEnds(k, end) ==
  {j \in (k + 3)..(end - 1) : chars[j - 1] = chars[k + 1] /\ chars[j] = "]"}

\* Where the "]" that closes a bracket is, or end.
BracketEnd(first, end) ==
  LET close[k \in first..end] ==
        IF PatAt(k, end) \in {NUL, "]"} THEN k
        ELSE IF ~IsSymbol(k, end) THEN close[k + 1]
        ELSE IF SymbolEnds(k, end) = {} THEN end
        ELSE close[Min(SymbolEnds(k, end)) + 1]
  IN close[first]

AfterNegation(i, end) == IF PatAt(i + 1, end) \in {"^", "!"} THEN i + 2 ELSE i + 1

\* Mutant: a "]" that comes first closes the bracket.
CloseSearchNoLiteral(i, end) == AfterNegation(i, end)

\* Where the search for the closing "]" starts: not at one that comes first.
CloseSearch(i, end) ==
  LET first == AfterNegation(i, end)
  IN IF PatAt(first, end) = "]" THEN first + 1 ELSE first

\* The next token of the pattern from i on: what it is and how long.
pat_next(i, end) ==
  IF i >= end THEN [c |-> "END", inc |-> 0]
  ELSE LET close == BracketEnd(CloseSearch(i, end), end)
       IN CASE chars[i] = "\\" /\ PatAt(i + 1, end) # NUL /\ "NOESCAPE" \notin flags ->
                 [c |-> chars[i + 1], inc |-> 2]
            [] chars[i] = "[" /\ close < end -> [c |-> "BRACKET", inc |-> close + 1 - i]
            [] chars[i] = "*" -> [c |-> "STAR", inc |-> 1]
            [] chars[i] = "?" -> [c |-> "QUESTION", inc |-> 1]
            [] OTHER -> [c |-> chars[i], inc |-> 1]

\* Is one of ks an item of the bracket from start on?  wc is the character a range
\* starts at.  After a range its last character is looked at once more, as an item of
\* its own.  (A bracket that is not closed is never given.)
ItemHit(start, char, ks) ==
  LET end == Len(chars) + 1
      hit[at \in (start..end) \X Range(chars)] ==
        LET i == at[1]
            wc == at[2]
            c == PatAt(i, end)
            next == PatAt(i + 1, end)
            ends == SymbolEnds(i, end)
        IN IF c \in {NUL, "]"} THEN FALSE
           ELSE IF c = "-" /\ next # "]"
           THEN (\E k \in ks : Code(k) \in Code(wc)..Code(next)) \/ hit[<<i + 1, wc>>]
           ELSE IF IsSymbol(i, end)
           THEN \/ next = ":" /\ ks \cap Class[chars[i + 2]] # {}
                \/ ends # {} /\ hit[<<Min(ends) + 1, wc>>]
           ELSE c \in ks \/ hit[<<i + 1, c>>]
  IN hit[<<start, char>>]

match_bracket(i, k) ==
  LET inv   == chars[i + 1] \in {"^", "!"}
      first == IF inv THEN i + 2 ELSE i + 1
      hit   == IF chars[first] \in {"]", "-"}
               THEN k = chars[first] \/ ItemHit(first + 1, chars[first], {k, Kfold(k)})
               ELSE ItemHit(first, chars[first - 1], {k, Kfold(k)})
  IN hit # inv

\* Does the token t at i take the character k?
Takes(t, i, k) ==
  IF t.c = "BRACKET" THEN match_bracket(i, k) ELSE t.c \in {"QUESTION", k, Kfold(k)}
-----------------------------------------------------------------------------
Init ==
  /\ \E in \in Inputs : toks \in in.toks /\ text \in in.strs /\ flags \in in.flags
  /\ chars = FlattenSeq([i \in DOMAIN toks |-> toks[i].text])
  /\ pc = "fnmatch" /\ fpat = 1 /\ fstr = 1 /\ last = FALSE
  /\ pat = 1 /\ endpat = 1 /\ str = 1 /\ endstr = 1
  /\ p = 1 /\ s = 1 /\ ptail = 1 /\ tailcnt = 0
  /\ result = FALSE

\* The first slash of the string from i on, or its end.
SlashOrEnd(i) == Min({j \in i..Len(text) : text[j] = "/"} \cup {Len(text) + 1})

\* fnmatch's own look at the pattern.
NextOfComponent == pat_next(p, Len(chars) + 1)
AtItsEnd(t) == t.c \in {"END", "/"}

Return(ok) == pc' = "done" /\ result' = ok

Call(i, iend, j, jend) ==
  /\ pat' = i /\ endpat' = iend /\ str' = j /\ endstr' = jend
  /\ pc' = "call"
  /\ UNCHANGED result

\* With FNM_PATHNAME: the pattern is searched for the end of its next component.
StartComponent ==
  /\ pc = "fnmatch" /\ "PATHNAME" \in flags
  /\ p' = fpat
  /\ pc' = "component"
  /\ UNCHANGED <<caller, outer, inner, s, tail, result>>

WithinComponent ==
  /\ pc = "component" /\ ~AtItsEnd(NextOfComponent)
  /\ p' = p + NextOfComponent.inc
  /\ UNCHANGED <<caller, outer, inner, s, tail, pc, result>>

\* A component of the path against one of the pattern.
Component ==
  /\ pc = "component" /\ AtItsEnd(NextOfComponent)
  /\ LET t == NextOfComponent
         e == SlashOrEnd(fstr)
         mismatch == /\ (t.c = "END") # (e > Len(text))
                     /\ e > Len(text) \/ "LEADING_DIR" \notin flags
     IN IF mismatch
        THEN Return(FALSE) /\ UNCHANGED <<outer, inner>>
        ELSE /\ Call(fpat, p, fstr, e)
             /\ fpat' = p + t.inc
             /\ fstr' = e + 1
             /\ last' = (t.c = "END")
  /\ UNCHANGED <<caller, loop, tail>>

\* Without it: the prefix before the next slash, and at last all of the string.
Prefix ==
  /\ pc = "fnmatch" /\ "PATHNAME" \notin flags
  /\ LET e == IF "LEADING_DIR" \in flags THEN SlashOrEnd(fstr) ELSE Len(text) + 1
     IN /\ Call(1, Len(chars) + 1, 1, e)
        /\ fstr' = e + 1
        /\ last' = (e > Len(text))
  /\ UNCHANGED <<caller, fpat, loop, tail>>

\* fnmatch_internal returns to fnmatch: a component must match, one prefix is
\* enough.
Returned(ok) ==
  IF last \/ ok = ("PATHNAME" \notin flags) THEN Return(ok)
  ELSE pc' = "fnmatch" /\ UNCHANGED result

\* A leading period is only matched by a period.
Period ==
  /\ pc = "call"
  /\ IF /\ "PERIOD" \in flags
        /\ StrAt(str, Len(text) + 1) = "." /\ PatAt(pat, Len(chars) + 1) # "."
     THEN Returned(FALSE)
     ELSE pc' = "head" /\ UNCHANGED result
  /\ UNCHANGED <<caller, outer, inner, loop, tail>>

\* One token before the first star.
MatchHead ==
  /\ pc = "head"
  /\ LET t == pat_next(pat, endpat)
         k == StrAt(str, endstr)
     IN \/ /\ t.c = "STAR"
           /\ pat' = pat + 1 /\ p' = pat + 1 /\ ptail' = pat + 1 /\ tailcnt' = 0
           /\ pc' = "count"
           /\ UNCHANGED <<str, result>>
        \/ /\ t.c # "STAR" /\ k = NUL
           /\ Returned(t.c = "END")
           /\ UNCHANGED <<pat, str, p, tail>>
        \/ /\ t.c # "STAR" /\ k # NUL
           /\ IF Takes(t, pat, k)
              THEN pat' = pat + t.inc /\ str' = str + 1 /\ UNCHANGED <<pc, result>>
              ELSE Returned(FALSE) /\ UNCHANGED <<pat, str>>
           /\ UNCHANGED <<p, tail>>
  /\ UNCHANGED <<caller, outer, endpat, endstr, s>>

\* One token more behind the last star, unless it is a star.
CountTail ==
  /\ pc = "count" /\ p < endpat
  /\ LET t == pat_next(p, endpat)
     IN /\ p' = p + t.inc
        /\ IF t.c = "STAR" THEN ptail' = p + 1 /\ tailcnt' = 0
           ELSE tailcnt' = tailcnt + 1 /\ UNCHANGED ptail
  /\ UNCHANGED <<caller, outer, inner, s, pc, result>>

\* The tail takes tailcnt characters at the end of the string, from stail on.
stail == endstr - tailcnt

FindTail ==
  /\ pc = "count" /\ p >= endpat
  /\ IF stail < str
     THEN Returned(FALSE) /\ UNCHANGED loop
     ELSE p' = ptail /\ s' = stail /\ pc' = "tail" /\ UNCHANGED result
  /\ UNCHANGED <<caller, outer, inner, tail>>

\* One token of the tail; behind the last one both ends are cut off.
MatchTail ==
  /\ pc = "tail"
  /\ LET t == pat_next(p, endpat)
         k == StrAt(s, endstr)
     IN \/ /\ k = NUL /\ t.c = "END"
           /\ endstr' = stail /\ endpat' = ptail /\ pc' = "sea"
           /\ UNCHANGED <<loop, result>>
        \/ /\ k # NUL /\ Takes(t, p, k)
           /\ p' = p + t.inc /\ s' = s + 1
           /\ UNCHANGED <<endpat, endstr, pc, result>>
        \/ /\ IF k = NUL THEN t.c # "END" ELSE ~Takes(t, p, k)
           /\ Returned(FALSE)
           /\ UNCHANGED <<endpat, endstr, loop>>
  /\ UNCHANGED <<caller, outer, pat, str, tail>>

\* The next component between two stars is tried at str, unless there is none.
Sea ==
  /\ pc = "sea"
  /\ IF pat >= endpat THEN Returned(TRUE) /\ UNCHANGED loop
     ELSE p' = pat /\ s' = str /\ pc' = "try" /\ UNCHANGED result
  /\ UNCHANGED <<caller, outer, inner, tail>>

\* Mutant: the search goes on where the last attempt failed.
AfterMisfitAtMismatch == Max({s, str + 1})

\* Mutant: the same attempt again.
AfterMisfitStays == str

\* Where the next attempt to place the component starts.
AfterMisfit == str + 1

\* One token of an attempt: its star commits the component, a misfit moves it on.
Try ==
  /\ pc = "try"
  /\ LET t == pat_next(p, endpat)
         k == StrAt(s, endstr)
     IN \/ /\ t.c = "STAR"
           /\ pat' = p + 1 /\ str' = s /\ pc' = "sea"
           /\ UNCHANGED <<loop, result>>
        \/ /\ t.c # "STAR" /\ k = NUL
           /\ Returned(FALSE)
           /\ UNCHANGED <<pat, str, loop>>
        \/ /\ t.c # "STAR" /\ k # NUL
           /\ IF Takes(t, p, k)
              THEN p' = p + t.inc /\ s' = s + 1 /\ UNCHANGED <<str, pc>>
              ELSE str' = AfterMisfit /\ pc' = "sea" /\ UNCHANGED loop
           /\ UNCHANGED <<pat, result>>
  /\ UNCHANGED <<caller, outer, endpat, endstr, tail>>

Next ==
  \/ StartComponent \/ WithinComponent \/ Component \/ Prefix
  \/ Period \/ MatchHead \/ CountTail \/ FindTail \/ MatchTail \/ Sea \/ Try

\* A call runs on its own; it keeps running until it returns.
Spec == Init /\ [][Next]_vars /\ WF_vars(Next)
-----------------------------------------------------------------------------
(* What a pattern means, in tokens.  The tokens between the bounds a and b   *)
(* are those from a + 1 to b.                                                *)

Stands(tok, k) == (({k, Kfold(k)} \cap tok.set # {}) # tok.inv)

\* For each bound up to b: where the string may be entered so that the tokens
\* from there to b stand for all of it up to e.
Entries(b, e) ==
  LET from[n \in 0..b] ==
        LET rest == from[n + 1]
        IN IF n = b THEN {e}
           ELSE IF toks[n + 1].star THEN {i \in 1..e : \E j \in rest : i <= j}
           ELSE {i \in 1..(e - 1) : Stands(toks[n + 1], text[i]) /\ i + 1 \in rest}
  IN from

\* The tokens between a and b stand for the characters i to e - 1.
Matches(a, b, i, e) == i \in Entries(b, e)[a]

\* Under FNM_PERIOD a string's first period needs one that the pattern starts with.
PeriodOK(a, b, i, e) ==
  "PERIOD" \in flags /\ i < e /\ text[i] = "." => a < b /\ toks[a + 1].text[1] = "."

Covers(a, b, i, e) == PeriodOK(a, b, i, e) /\ Matches(a, b, i, e)

\* Component by component; under FNM_LEADING_DIR the string may have more.
IsSlash(tok) == tok.text \in {<<"/">>, <<"\\", "/">>}
PathEntries ==
  LET from[n \in 0..Len(toks)] ==
        LET m == Min({j \in (n + 1)..Len(toks) : IsSlash(toks[j])} \cup {Len(toks) + 1})
            rest == from[m]
        IN {i \in 1..(Len(text) + 1) :
              LET e == SlashOrEnd(i)
              IN /\ Covers(n, m - 1, i, e)
                 /\ IF m > Len(toks) THEN e > Len(text) \/ "LEADING_DIR" \in flags
                    ELSE e <= Len(text) /\ e + 1 \in rest}
  IN from

\* The tokens behind bound a stand for the path that begins at i.
PathCovers(a, i) == i \in PathEntries[a]

\* All of the string, or under FNM_LEADING_DIR what precedes a slash at or behind f.
PrefixCovers(f) ==
  \/ Covers(0, Len(toks), 1, Len(text) + 1)
  \/ /\ "LEADING_DIR" \in flags
     /\ \E j \in f..Len(text) : text[j] = "/" /\ Covers(0, Len(toks), 1, j)

Meaning == IF "PATHNAME" \in flags THEN PathCovers(0, 1) ELSE PrefixCovers(1)

\* Where in the pattern the first n tokens end; how many end in front of i.
Bound(n) == 1 + Len(FlattenSeq([i \in 1..n |-> toks[i].text]))
Before(i) == {n \in 0..Len(toks) : Bound(n) = i}
-----------------------------------------------------------------------------
\* fnmatch returns 0 exactly if the string is one the pattern stands for,
\* whatever characters the pattern is written with and whatever the flags.
ResultIsMeaning == pc = "done" => (result <=> Meaning)

\* fnmatch_internal never tries a star twice: what it took off both ends, and
\* where it placed a component, it never takes back.  At every moment matching
\* what is left (after the first star: anything, then what is left) is as good
\* as matching all; and the pointers are between tokens (260 to 292).
LeftIsAsGood ==
  pc \in {"call", "head", "count", "tail", "sea", "try"} =>
    \E a \in Before(pat), b \in Before(endpat) :
      LET this == CASE pc = "call" -> Covers(a, b, str, endstr)
                    [] pc = "head" -> Matches(a, b, str, endstr)
                    [] OTHER -> \E i \in str..endstr : Matches(a, b, i, endstr)
      IN Meaning <=> IF "PATHNAME" \in flags
                     THEN this /\ (last \/ \E n \in Before(fpat) : PathCovers(n, fstr))
                     ELSE this \/ (~last /\ PrefixCovers(fstr))

\* Both scanners of the pattern, pat_next for a token's end and match_bracket for
\* the items of a bracket, find what the tokens say, wherever the pattern is cut.
TokensAreRead ==
  \A a, b \in 0..Len(toks) : a < b =>
    LET tok == toks[a + 1]
        t   == pat_next(Bound(a), Bound(b))
    IN /\ t.inc = Len(tok.text)
       /\ t.c = "STAR" <=> tok.star
       /\ t.c # "END"
       /\ t.c = "/" <=> IsSlash(tok)
       /\ ~tok.star => \A k \in Range(text) : Takes(t, Bound(a), k) <=> Stands(tok, k)

\* Whenever fnmatch turns to the pattern, both scanners agree on it (48 to 160).
ScannersAgree == pc = "fnmatch" => TokensAreRead

\* Every call returns: each attempt in the sea of stars moves on (289).
Returns == <>(pc = "done")
=============================================================================
