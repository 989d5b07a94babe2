------------------------------- MODULE Regexec -------------------------------
(***************************************************************************)
(* regexec (src/regex/regexec.c): a caller compiles a pattern and searches *)
(* a string with it.  Without back references all paths through the        *)
(* automaton are followed at once, one character after the other, and      *)
(* where two meet the tags decide which goes on (tre_tnfa_run_parallel);   *)
(* with them one path is followed at a time (tre_tnfa_run_backtrack).      *)
(*                                                                         *)
(* Offsets count characters; a failing allocation is left out, and so is   *)
(* the weeding out of paths by minimal tags, which no pattern has.         *)
(***************************************************************************)
EXTENDS Regcomp, RegexMeaning

CONSTANTS
    Patterns,       \* what callers compile: records of tokens t and flags cflags
    Strings(_),     \* what they search with a pattern
    EFlags(_),      \* and with which flags
    MatchSlots      \* for how many groups they have room

ASSUME CharsAssumption ==
    /\ WordChars \subseteq Chars /\ "\n" \in Chars /\ End \notin Chars
ASSUME CallersAssumption ==
    \A p \in Patterns :
        /\ p.cflags \subseteq {"EXTENDED", "NEWLINE", "NOSUB"}
        /\ \A s \in Strings(p) : \A k \in DOMAIN s : s[k] \in Chars
        /\ EFlags(p) \subseteq SUBSET {"NOTBOL", "NOTEOL"}
ASSUME SlotsAssumption == MatchSlots \subseteq Nat

VARIABLES
    pattern, string, eflags, nmatch,    \* the caller's
    tnfa,                               \* what regcomp made of it
    pos, prev_c, next_c,                \* where the search is
    match_eo, match_tags,               \* the best match so far
    reach,                              \* parallel: the states reached at pos
    state, tags, stack, states_seen,    \* backtracking: the path, and those left for later
    pos_start,
    status, pmatch,                     \* what regexec returns
    pc
caller == <<pattern, string, eflags, nmatch, tnfa>>
reading == <<pos, prev_c, next_c>>
best == <<match_eo, match_tags>>
path == <<state, tags, stack, states_seen, pos_start>>
vars == <<caller, reading, best, reach, path, status, pmatch, pc>>

CharAt(p) == IF p < Len(string) THEN string[p + 1] ELSE End

Init ==
    /\ pattern \in Patterns /\ string = << >> /\ eflags = {} /\ nmatch = 0
    /\ tnfa = Refused("none")
    /\ pos = 0 /\ prev_c = End /\ next_c = End
    /\ match_eo = -1 /\ match_tags = << >>
    /\ reach = << >>
    /\ state = -1 /\ tags = << >> /\ stack = << >> /\ states_seen = {} /\ pos_start = -1
    /\ status = "none" /\ pmatch = << >>
    /\ pc = "regcomp"

Compile ==
    /\ pc = "regcomp"
    /\ tnfa' = regcomp(pattern.t, pattern.cflags)
    /\ pc' = IF tnfa'.err = "REG_OK" THEN "regexec" ELSE "done"
    /\ UNCHANGED <<pattern, string, eflags, nmatch, reading, best, reach, path, status, pmatch>>

-----------------------------------------------------------------------------
(* Tags and assertions *)

\* CHECK_ASSERTIONS is true when one of them fails.
AssertionHolds(at, p, prev, next) ==
    LET newline == "NEWLINE" \in tnfa.cflags IN
    CASE at = "AT_BOL" -> (p = 0 /\ "NOTBOL" \notin eflags) \/ (prev = "\n" /\ newline)
      [] at = "AT_EOL" -> (next = End /\ "NOTEOL" \notin eflags) \/ (next = "\n" /\ newline)
      [] at = "AT_BOW" -> prev \notin WordChars /\ next \in WordChars
      [] at = "AT_EOW" -> prev \in WordChars /\ next \notin WordChars
Passable(t, p, prev, next) == \A at \in t.assertions : AssertionHolds(at, p, prev, next)

Untagged(n) == [k \in 0..(n - 1) |-> -1]
SetTags(old, t, p) == [k \in DOMAIN old |-> IF k \in t.tags THEN p ELSE old[k]]

\* t1 wins t2 in the first tag in which they differ.
tre_tag_order(t1, t2) ==
    \E k \in DOMAIN t1 :
        /\ \A j \in DOMAIN t1 : j < k => t1[j] = t2[j]
        /\ IF tnfa.tag_directions[k] = "MINIMIZE" THEN t1[k] < t2[k] ELSE t1[k] > t2[k]

\* Mutant: groups keep what they had before the group around them began again
FillPmatchNoParents(ts, eo) ==
    LET value(tag) == IF tag = tnfa.num_tags THEN eo ELSE ts[tag]
    IN [g \in DOMAIN tnfa.submatch_data |->
            LET so == value(tnfa.submatch_data[g].so_tag)
                end == value(tnfa.submatch_data[g].eo_tag)
            IN IF so = -1 \/ end = -1 THEN Unset ELSE <<so, end>>]

\* The groups by their tags, without those that are outside a group around them.
tre_fill_pmatch(ts, eo) ==
    LET data == tnfa.submatch_data
        value(tag) == IF tag = tnfa.num_tags THEN eo ELSE ts[tag]
        raw == [g \in DOMAIN data |->
                    LET so == value(data[g].so_tag)
                        end == value(data[g].eo_tag)
                    IN IF so = -1 \/ end = -1 THEN Unset ELSE <<so, end>>]
        inside[g \in DOMAIN data] ==
            IF \E par \in data[g].parents :
                    raw[g][1] < inside[par][1] \/ raw[g][2] > inside[par][2]
            THEN Unset ELSE raw[g]
    IN inside

-----------------------------------------------------------------------------

\* The caller gets as many groups as it asked for; those the pattern does not have are unset.
Return(found) ==
    LET groups == tre_fill_pmatch(match_tags, match_eo)
        wanted == [g \in 0..(nmatch - 1) |-> IF g \in DOMAIN groups THEN groups[g] ELSE Unset]
    IN
    /\ status' = IF found THEN "REG_OK" ELSE "REG_NOMATCH"
    /\ pmatch' = IF found /\ nmatch > 0 THEN wanted ELSE << >>
    /\ pc' = "done"
    /\ UNCHANGED <<caller, reading, best, reach, path>>

\* regexec chooses the matcher; the parallel one has read a character when it begins.
Start(str, flags, n) ==
    /\ pc = "regexec"
    /\ string' = str /\ eflags' = flags
    /\ nmatch' = IF "NOSUB" \in tnfa.cflags THEN 0 ELSE n
    /\ pc' = IF tnfa.have_backrefs THEN "retry" ELSE "parallel"
    /\ match_tags' = Untagged(IF nmatch' = 0 THEN 0 ELSE tnfa.num_tags)
    /\ next_c' = IF tnfa.have_backrefs \/ str = << >> THEN End ELSE str[1]
    /\ UNCHANGED <<pattern, tnfa, pos, prev_c, match_eo, reach, path, status, pmatch>>

-----------------------------------------------------------------------------
(* tre_tnfa_run_parallel.  s has the states reached, in order, each with   *)
(* its tags, and the best match.                                           *)

Reached(s, st) == \E k \in DOMAIN s.reach : s.reach[k].state = st

BetterMatch(s, st, ts, p, wins) ==
    IF st = tnfa.final /\ wins THEN [s EXCEPT !.eo = p, !.tags = ts] ELSE s

AddReached(s, st, ts) == [s EXCEPT !.reach = Append(@, [state |-> st, tags |-> ts])]

\* The states a match may begin in, unless there is a match already.
AddInitial(s) ==
    LET add(r, t) ==
            LET ts == SetTags(Untagged(Cardinality(DOMAIN match_tags)), t, pos) IN
            IF Reached(r, t.state) \/ ~Passable(t, pos, prev_c, next_c) THEN r
            ELSE AddReached(BetterMatch(r, t.state, ts, pos, TRUE), t.state, ts)
    IN IF match_eo >= 0 THEN s ELSE FoldLeft(add, s, tnfa.initial)

\* Mutant: a match replaces one that began earlier
FollowOneLater(s, ts, t, c, next) ==
    LET new == SetTags(ts, t, pos + 1)
        k == CHOOSE k \in DOMAIN s.reach : s.reach[k].state = t.state
    IN IF c \notin t.chars \/ ~Passable(t, pos + 1, c, next) THEN s
       ELSE IF ~Reached(s, t.state)
       THEN AddReached(BetterMatch(s, t.state, new, pos + 1, TRUE), t.state, new)
       ELSE IF tre_tag_order(new, s.reach[k].tags)
       THEN [BetterMatch(s, t.state, new, pos + 1, TRUE) EXCEPT !.reach[k].tags = new]
       ELSE s

\* One transition out of a state that was reached with the tags ts.  The path goes on in
\* a state no other path has come to, or replaces the one that has if its tags win.
FollowOne(s, ts, t, c, next) ==
    LET new == SetTags(ts, t, pos + 1)
        k == CHOOSE k \in DOMAIN s.reach : s.reach[k].state = t.state
    IN IF c \notin t.chars \/ ~Passable(t, pos + 1, c, next) THEN s
       ELSE IF ~Reached(s, t.state)
       THEN AddReached(BetterMatch(s, t.state, new, pos + 1,
                                   s.eo = -1 \/ (new # << >> /\ new[0] <= s.tags[0])),
                       t.state, new)
       ELSE IF tre_tag_order(new, s.reach[k].tags)
       THEN [BetterMatch(s, t.state, new, pos + 1, TRUE) EXCEPT !.reach[k].tags = new]
       ELSE s

Follow(from, s, c, next) ==
    FoldLeft(LAMBDA r, e :
                FoldLeft(LAMBDA q, t : FollowOne(q, e.tags, t, c, next), r, tnfa.trans[e.state]),
             s, from)

\* One turn of the loop: the search ends, or a character is read.
ReadChar ==
    LET begun == AddInitial([reach |-> reach, eo |-> match_eo, tags |-> match_tags])
        next == CharAt(pos + 1)
        s == Follow(begun.reach, [begun EXCEPT !.reach = << >>], next_c, next)
        found == match_eo >= 0 /\ (match_tags = << >> \/ reach = << >>)
    IN /\ pc = "parallel"
       /\ IF found \/ next_c = End
          THEN /\ match_eo' = begun.eo /\ match_tags' = begun.tags
               /\ pc' = "found"
               /\ UNCHANGED <<reading, reach>>
          ELSE /\ reach' = s.reach /\ match_eo' = s.eo /\ match_tags' = s.tags
               /\ pos' = pos + 1 /\ prev_c' = next_c /\ next_c' = next
               /\ UNCHANGED pc
       /\ UNCHANGED <<caller, path, status, pmatch>>

Finish == pc = "found" /\ Return(match_eo >= 0)

-----------------------------------------------------------------------------
(* tre_tnfa_run_backtrack *)

\* A path that can be taken up later.
Later(t, ts, p, next) ==
    [state |-> t.state, tags |-> SetTags(ts, t, p), pos |-> p, next_c |-> next]

\* The first of ts is followed, the others are kept, the last on top.
Choose(ts, old, p, prev, next) ==
    /\ state' = Head(ts).state
    /\ tags' = SetTags(old, Head(ts), p)
    /\ stack' = stack \o [k \in 1..(Len(ts) - 1) |-> Later(ts[k + 1], old, p, next)]
    /\ pos' = p /\ prev_c' = prev /\ next_c' = next

\* retry: the next start in the string.
Retry ==
    LET start == pos_start + 1
        next == CharAt(start)
        open == SelectSeq(tnfa.initial, LAMBDA t : Passable(t, start, next_c, next))
        none == Untagged(tnfa.num_tags)
    IN /\ pc = "retry"
       /\ match_tags' = Untagged(Cardinality(DOMAIN match_tags))
       /\ states_seen' = {}
       /\ pos_start' = start
       /\ IF open = << >>
          THEN /\ pos' = start /\ prev_c' = next_c /\ next_c' = next
               /\ state' = -1 /\ tags' = none
               /\ pc' = "backtrack" /\ UNCHANGED stack
          ELSE /\ Choose(open, none, start, next_c, next)
               /\ pc' = "path"
       /\ UNCHANGED <<caller, match_eo, reach, status, pmatch>>

\* A match: the longest so far, or one as long with better tags.
AtFinal ==
    /\ pc = "path" /\ state = tnfa.final
    /\ IF \/ match_eo < pos
          \/ match_eo = pos /\ match_tags # << >> /\ tre_tag_order(tags, match_tags)
       THEN match_eo' = pos /\ match_tags' = IF match_tags = << >> THEN << >> ELSE tags
       ELSE UNCHANGED best
    /\ pc' = "backtrack"
    /\ UNCHANGED <<caller, reading, reach, path, status, pmatch>>

FirstOf(st) == tnfa.trans[st][1]
IsBackref(st) == tnfa.trans[st] # << >> /\ FirstOf(st).backref >= 0

GiveUp ==
    /\ pc' = "backtrack"
    /\ UNCHANGED <<caller, reading, best, reach, path, status, pmatch>>

\* Follow the transitions out of state when the position is p.
Advance(p, prev, next) ==
    LET ts == SelectSeq(tnfa.trans[state],
                        LAMBDA t : prev \in t.chars /\ Passable(t, p, prev, next))
    IN IF ts = << >>
       THEN /\ pos' = p /\ prev_c' = prev /\ next_c' = next
            /\ pc' = "backtrack"
            /\ UNCHANGED <<state, tags, stack>>
       ELSE Choose(ts, tags, p, prev, next) /\ UNCHANGED pc

\* Mutant: an empty back reference is followed again and again
BackrefAgain ==
    LET span == tre_fill_pmatch(tags, pos)[FirstOf(state).backref]
        len == span[2] - span[1]
        same == \A k \in 1..len : CharAt(pos + k - 1) = CharAt(span[1] + k - 1)
    IN /\ pc = "path" /\ state # tnfa.final
       /\ IsBackref(state)
       /\ IF ~same THEN GiveUp
          ELSE /\ Advance(pos + len, next_c, CharAt(pos + len))
               /\ UNCHANGED <<caller, best, reach, states_seen, pos_start, status, pmatch>>

\* A back reference: the text of its group again.  A second empty one in the same
\* state would go round for ever.
Backref ==
    LET span == tre_fill_pmatch(tags, pos)[FirstOf(state).backref]
        len == span[2] - span[1]
        same == \A k \in 1..len : CharAt(pos + k - 1) = CharAt(span[1] + k - 1)
    IN /\ pc = "path" /\ state # tnfa.final
       /\ IsBackref(state)
       /\ IF ~same \/ (len = 0 /\ FirstOf(state).state \in states_seen) THEN GiveUp
          ELSE /\ states_seen' = IF len = 0 THEN states_seen \cup {FirstOf(state).state}
                                 ELSE states_seen \ {FirstOf(state).state}
               /\ Advance(pos + len, next_c, CharAt(pos + len))
               /\ UNCHANGED <<caller, best, reach, pos_start, status, pmatch>>

NextChar ==
    /\ pc = "path" /\ state # tnfa.final
    /\ ~IsBackref(state)
    /\ IF next_c = End THEN GiveUp
       ELSE /\ Advance(pos + 1, next_c, CharAt(pos + 1))
            /\ UNCHANGED <<caller, best, reach, states_seen, pos_start, status, pmatch>>

\* backtrack: the path left last, or the next start if there is no match yet.
Backtrack ==
    LET top == Last(stack) IN
    /\ pc = "backtrack"
    /\ \/ /\ stack # << >>
          /\ states_seen' = IF IsBackref(top.state) THEN states_seen \ {top.state} ELSE states_seen
          /\ state' = top.state /\ tags' = top.tags /\ stack' = Front(stack)
          /\ pos' = top.pos /\ next_c' = top.next_c
          /\ pc' = "path"
          /\ UNCHANGED <<prev_c, pos_start>>
       \/ /\ stack = << >> /\ match_eo < 0 /\ next_c # End
          /\ next_c' = CharAt(pos_start)
          /\ pc' = "retry"
          /\ UNCHANGED <<pos, prev_c, path>>
       \/ /\ stack = << >> /\ (match_eo >= 0 \/ next_c = End)
          /\ pc' = "found"
          /\ UNCHANGED <<reading, path>>
    /\ UNCHANGED <<caller, best, reach, status, pmatch>>

\* The turns of the backtracking loop.
Backtracking == Retry \/ AtFinal \/ Backref \/ NextChar \/ Backtrack

Next ==
    \/ Compile
    \/ \E str \in Strings(pattern), flags \in EFlags(pattern), n \in MatchSlots :
           Start(str, flags, n)
    \/ ReadChar
    \/ Backtracking
    \/ Finish

Spec == Init /\ [][Next]_vars
\* regexec is one call: it goes on.
FairSpec == Spec /\ WF_vars(Backtracking)

-----------------------------------------------------------------------------
(* Properties *)

Meaning == [t |-> pattern.t, str |-> string, ere |-> "EXTENDED" \in pattern.cflags,
            newline |-> "NEWLINE" \in pattern.cflags,
            notbol |-> "NOTBOL" \in eflags, noteol |-> "NOTEOL" \in eflags]

First == Min(Starts(Meaning))
Longest == Max({m.at : m \in Matches(Meaning, First)})

\* regcomp accepts a pattern exactly if the grammars before parse_atom do, with the
\* extensions the comments name: the parser finds that out from a stack, a depth and
\* where the branch began.
RefusesOnlyMalformed ==
    pc # "regcomp" => (tnfa.err = "REG_OK" <=> WellFormed(Meaning))

\* What a search must report, with back references or without.
LeftmostLongestOf(backrefs) ==
    pc = "done" /\ tnfa.err = "REG_OK" /\ tnfa.have_backrefs = backrefs =>
        /\ status = "REG_OK" <=> Starts(Meaning) # {}
        /\ status = "REG_OK" /\ nmatch > 0 => pmatch[0] = <<First, Longest>>

\* Without back references a match is reported exactly if there is one, and it is the
\* leftmost of the matches and the longest of those: no path is given up in favour of
\* another that ends sooner, however paths meet.
LeftmostLongest == LeftmostLongestOf(FALSE)

\* With back references, too: the backtracking matcher "goes through all possible paths
\* in the TNFA and chooses the one which results in the best (leftmost and longest)
\* match" (regexec.c:473-475).
BackrefsLeftmostLongest == LeftmostLongestOf(TRUE)

\* The groups regexec reports are what one way to match the text had last in them: none
\* is from another way, and none is left from an earlier turn of a loop.  A caller that
\* has less room gets the first of them, and one that has more no group there is not.
GroupsOfOneMatch ==
    pc = "done" /\ status = "REG_OK" /\ nmatch > 0 =>
        \E m \in Matches(Meaning, pmatch[0][1]) :
            /\ m.at = pmatch[0][2]
            /\ \A g \in DOMAIN pmatch \ {0} :
                    pmatch[g] = IF g \in DOMAIN m.env THEN m.env[g] ELSE Unset

\* A search by backtracking comes to an end, whatever loops over empty strings the
\* pattern has.
SearchEnds == pc = "retry" ~> pc = "found"
=============================================================================
