------------------------------- MODULE Regcomp -------------------------------
(***************************************************************************)
(* regcomp (src/regex/regcomp.c): from the syntax tree to a tagged         *)
(* automaton.  Tags are added where a group's start and end must be        *)
(* remembered (tre_add_tags), counted repetitions are unrolled             *)
(* (tre_expand_ast), the positions a node may begin and end with computed  *)
(* (tre_compute_nfl), and positions that may follow each other joined by   *)
(* transitions (tre_ast_to_tnfa).                                          *)
(*                                                                         *)
(* The code walks the tree with a stack of its own; here the walks are     *)
(* recursive.  Iterations are never minimal, as the parser makes none.     *)
(***************************************************************************)
EXTENDS RegexParse, FiniteSets

Consumes(n) == n.type \in {"char", "backref"}

-----------------------------------------------------------------------------
(* tre_add_tags.  The state of the walk: the tag to be used next and the   *)
(* one after it, how many were used, regset (the group starts and ends     *)
(* still without a tag), parents (the groups around the node), and what is *)
(* filled in: the direction of each tag and the data of each group.        *)

\* The first pass: how many tags node n will have, and whether regset is left with
\* anything, when it is entered with something in it or not.
RECURSIVE NumTags(_, _)
NumTags(n, entered) ==
    LET open == entered \/ n.id >= 0
        one == IF open THEN 1 ELSE 0
        count(tags, left) == [tags |-> tags, open |-> left \/ n.id >= 0]
    IN IF Consumes(n) THEN count(one, FALSE)
       ELSE IF n.type = "cat" THEN
            LET l == NumTags(n.l, open)
                r == NumTags(n.r, l.open)
            IN count(l.tags + r.tags, r.open)
       ELSE IF n.type = "union" THEN
            LET l == NumTags(n.l, FALSE)
                r == NumTags(n.r, FALSE)
            IN count(l.tags + r.tags + one + (IF n.subs > 0 THEN 2 ELSE 0), l.open \/ r.open)
       ELSE IF n.type = "iter" THEN
            LET arg == NumTags(n.arg, FALSE) IN count(arg.tags + one, arg.open)
       ELSE count(0, open)

\* The inner node keeps neither the group nor the counts of the node it was.
Inner(n) == [n EXCEPT !.id = -1, !.subs = 0]
tre_add_tag_left(n, tag) ==
    [tre_ast_new_catenation(tre_ast_new_tag(tag), Inner(n)) EXCEPT !.id = n.id, !.subs = n.subs]
tre_add_tag_right(n, tag) ==
    [tre_ast_new_catenation(Inner(n), tre_ast_new_tag(tag)) EXCEPT !.id = n.id, !.subs = n.subs]

tre_purge_regset(sub, regset, tag) ==
    [id \in DOMAIN sub |->
        [sub[id] EXCEPT !.so_tag = IF <<id, "so">> \in Range(regset) THEN tag ELSE @,
                        !.eo_tag = IF <<id, "eo">> \in Range(regset) THEN tag ELSE @]]

\* A tag in front of n, if regset waits for one.
TagBefore(n, w) ==
    IF w.regset = << >> THEN [n |-> n, w |-> w]
    ELSE [n |-> tre_add_tag_left(n, w.tag),
          w |-> [w EXCEPT !.directions[w.tag] = w.direction,
                          !.sub = tre_purge_regset(@, w.regset, w.tag),
                          !.regset = << >>, !.tag = w.next_tag,
                          !.num_tags = @ + 1, !.next_tag = @ + 1]]

\* Adding tags before and behind node n, of which TagInside does the inside.
EnterGroup(n, w) ==
    IF n.id < 0 THEN w
    ELSE [w EXCEPT !.regset = Append(@, <<n.id, "so">>), !.sub[n.id].parents = w.parents]
LeaveGroup(n, w) == IF n.id < 0 THEN w ELSE [w EXCEPT !.regset = Append(@, <<n.id, "eo">>)]

RECURSIVE AddTags(_, _)
AddTags(n, w0) ==
    LET entered == EnterGroup(n, w0)
        inside == [entered EXCEPT !.parents = IF n.id < 0 THEN @ ELSE @ \cup {n.id}]
        leave(m, w) == [n |-> m, w |-> LeaveGroup(n, [w EXCEPT !.parents = w0.parents])]
    IN IF Consumes(n) THEN LET t == TagBefore(n, entered) IN leave(t.n, t.w)
       ELSE IF n.type = "cat" THEN
            LET left == NumTags(n.l, entered.regset # << >>)
                right == NumTags(n.r, left.open)
                reserve == left.tags > 0 /\ right.tags > 0
                l == AddTags(n.l, [inside EXCEPT !.next_tag = IF reserve THEN @ + 1 ELSE @])
                r == AddTags(n.r, [l.w EXCEPT !.next_tag = inside.next_tag + left.tags,
                                              !.tag = IF reserve THEN inside.next_tag ELSE @])
            IN leave([n EXCEPT !.l = l.n, !.r = r.n], r.w)
       ELSE IF n.type = "iter" THEN
            LET t == TagBefore(n, inside)
                arg == AddTags(n.arg, [t.w EXCEPT !.direction = "MINIMIZE"])
                m == [n EXCEPT !.arg = arg.n]
                tagged == IF inside.regset = << >> THEN m ELSE tre_add_tag_left(m, inside.tag)
            IN leave(tagged, [arg.w EXCEPT !.direction = "MAXIMIZE"])
       ELSE IF n.type = "union" THEN
            LET marked == n.subs > 0
                t == TagBefore(n, inside)
                tag_left == IF inside.regset # << >> THEN inside.next_tag ELSE inside.tag
                tag_right == IF inside.regset # << >> THEN inside.next_tag + 1 ELSE inside.next_tag
                start == IF marked THEN [t.w EXCEPT !.tag = t.w.next_tag + 1,
                                                    !.next_tag = t.w.next_tag + 2] ELSE t.w
                l == AddTags(n.l, start)
                r == AddTags(n.r, [l.w EXCEPT !.regset = << >>])
                mark(m, tag) == IF marked THEN tre_add_tag_right(m, tag) ELSE m
                m == [n EXCEPT !.l = mark(l.n, tag_left), !.r = mark(r.n, tag_right)]
                tagged == IF inside.regset = << >> THEN m ELSE tre_add_tag_left(m, inside.tag)
                after == [r.w EXCEPT !.regset = l.w.regset \o r.w.regset, !.direction = "MAXIMIZE"]
            IN leave(tagged,
                     IF marked
                     THEN [after EXCEPT !.directions[tag_left] = "MAXIMIZE",
                                        !.directions[tag_right] = "MAXIMIZE",
                                        !.num_tags = @ + 2]
                     ELSE after)
       ELSE leave(n, entered)

\* The tree with its tags; the number of tags is end_tag, too: what has it as its tag
\* starts or ends with the match.
tre_add_tags(tree, num_submatches) ==
    LET tags == NumTags(tree, FALSE).tags
        data == [so_tag |-> 0, eo_tag |-> 0, parents |-> {}]
        r == AddTags(tree, [tag |-> 0, next_tag |-> 1, num_tags |-> 0, regset |-> << >>,
                            parents |-> {}, direction |-> "MINIMIZE",
                            directions |-> [k \in 0..tags |-> "unset"],
                            sub |-> [id \in 0..(num_submatches - 1) |-> data]])
    IN [tree |-> r.n, num_tags |-> r.w.num_tags, directions |-> r.w.directions,
        sub |-> tre_purge_regset(r.w.sub, r.w.regset, r.w.tag)]

-----------------------------------------------------------------------------
(* tre_expand_ast *)

\* The leaves of a tree from left to right.
RECURSIVE Leaves(_)
Leaves(n) ==
    IF n.type \in {"cat", "union"} THEN Leaves(n.l) \o Leaves(n.r)
    ELSE IF n.type = "iter" THEN Leaves(n.arg) ELSE <<n>>

Positions(n) == SelectSeq(Leaves(n), Consumes)
MaxPos(n, least) == FoldLeft(LAMBDA m, leaf : IF leaf.pos > m THEN leaf.pos ELSE m,
                             least, Positions(n))
Tags(n) == SelectSeq(Leaves(n), LAMBDA leaf : leaf.type = "tag")

\* A copy of the tree, its positions moved by pos_add.
RECURSIVE tre_copy_ast(_, _, _)
tre_copy_ast(n, remove_tags, pos_add) ==
    IF n.type \in {"cat", "union"}
    THEN [n EXCEPT !.l = tre_copy_ast(n.l, remove_tags, pos_add),
                   !.r = tre_copy_ast(n.r, remove_tags, pos_add)]
    ELSE IF n.type = "iter" THEN [n EXCEPT !.arg = tre_copy_ast(n.arg, remove_tags, pos_add)]
    ELSE IF Consumes(n) THEN [n EXCEPT !.pos = @ + pos_add]
    ELSE IF n.type = "tag" /\ remove_tags THEN Empty
    ELSE n

\* arg{min,max} in copies: all but the last of the min that are needed lose their
\* tags, and the others, of which a later one holds the earlier ones, are optional.
Unrolled(arg, min, max, pos_add) ==
    LET copy(k) == tre_copy_ast(arg, k < min, pos_add + (k - 1) * Len(Positions(arg)))
        needed[k \in 1..min] ==
            IF k = 1 THEN copy(1) ELSE tre_ast_new_catenation(needed[k - 1], copy(k))
        optional[k \in min..max] ==
            IF k = min THEN None
            ELSE tre_ast_new_union(Empty,
                    IF k = min + 1 THEN copy(k)
                    ELSE tre_ast_new_catenation(copy(k), optional[k - 1]))
        rest == IF max = -1 THEN tre_ast_new_iter(copy(min + 1), 0, -1) ELSE optional[max]
    IN IF min = 0 THEN rest
       ELSE IF rest = None THEN needed[min] ELSE tre_ast_new_catenation(needed[min], rest)

\* s.add, s.total, s.max_pos and s.depth are pos_add, pos_add_total, max_pos, iter_depth.
RECURSIVE ExpandNode(_, _)
ExpandNode(n, s) ==
    IF Consumes(n) THEN
        LET pos == n.pos + s.add
        IN [n |-> [n EXCEPT !.pos = pos],
            s |-> [s EXCEPT !.max_pos = IF pos > @ THEN pos ELSE @]]
    ELSE IF n.type \in {"cat", "union"} THEN
        LET l == ExpandNode(n.l, s)
            r == ExpandNode(n.r, l.s)
        IN [n |-> [n EXCEPT !.l = l.n, !.r = r.n], s |-> r.s]
    ELSE IF n.type = "iter" THEN
        LET unroll == n.min > 1 \/ n.max > 1
            inner == ExpandNode(n.arg, [s EXCEPT !.add = IF unroll THEN 0 ELSE @,
                                                 !.depth = @ + 1])
            copies == IF n.max = -1 THEN n.min + 1 ELSE n.max
            grown == IF unroll THEN (copies - 1) * Len(Positions(inner.n)) ELSE 0
            m == IF unroll THEN Unrolled(inner.n, n.min, n.max, s.add)
                 ELSE [n EXCEPT !.arg = inner.n]
            total == inner.s.total + grown
        IN [n |-> m,
            s |-> [inner.s EXCEPT
                    !.depth = @ - 1,
                    !.total = total,
                    !.add = IF inner.s.depth = 1 THEN total ELSE s.add + grown,
                    !.max_pos = IF unroll THEN MaxPos(m, @) ELSE @,
                    !.directions = IF unroll /\ n.min > 0 /\ Tags(inner.n) # << >>
                                   THEN [@ EXCEPT ![Tags(inner.n)[1].n] = "MAXIMIZE"] ELSE @]]
    ELSE [n |-> n, s |-> s]

\* The tree without counts above one, the number of its positions and the directions.
tre_expand_ast(tree, position, directions) ==
    LET r == ExpandNode(tree, [add |-> 0, total |-> 0, max_pos |-> 0, depth |-> 0,
                               directions |-> directions])
        positions == position + r.s.total
    IN [tree |-> r.n, directions |-> r.s.directions,
        position |-> IF r.s.max_pos > positions THEN r.s.max_pos ELSE positions]

-----------------------------------------------------------------------------
(* tre_compute_nfl *)

RECURSIVE Nullable(_)
Nullable(n) ==
    CASE n.type = "cat" -> Nullable(n.l) /\ Nullable(n.r)
      [] n.type = "union" -> Nullable(n.l) \/ Nullable(n.r)
      [] n.type = "iter" -> n.min = 0 \/ Nullable(n.arg)
      [] OTHER -> ~Consumes(n)

\* The one path by which n matches the empty string that the code looks at: the left
\* side of a union, the argument of an iteration if it can be empty.
RECURSIVE tre_match_empty(_)
tre_match_empty(n) ==
    CASE n.type = "cat" ->
            LET l == tre_match_empty(n.l)
                r == tre_match_empty(n.r)
            IN [tags |-> l.tags \cup r.tags, assertions |-> l.assertions \cup r.assertions]
      [] n.type = "union" -> tre_match_empty(IF Nullable(n.l) THEN n.l ELSE n.r)
      [] n.type = "iter" /\ Nullable(n.arg) -> tre_match_empty(n.arg)
      [] n.type = "tag" -> [tags |-> {n.n}, assertions |-> {}]
      [] n.type = "assertion" -> [tags |-> {}, assertions |-> {n.at}]
      [] OTHER -> [tags |-> {}, assertions |-> {}]

\* What can be next to n where n may be empty, too: set1 is reached through n, set2
\* is n's own.
tre_set_union(set1, set2, through) ==
    [k \in DOMAIN set1 |->
        [set1[k] EXCEPT !.tags = @ \cup through.tags,
                        !.assertions = @ \cup through.assertions]] \o set2

tre_set_one(n) ==
    <<[pos |-> n.pos, tags |-> {}, assertions |-> {},
       chars |-> IF n.type = "char" THEN n.chars ELSE AnyChar,
       backref |-> IF n.type = "backref" THEN n.n ELSE -1]>>

RECURSIVE firstpos(_), lastpos(_)
firstpos(n) ==
    CASE Consumes(n) -> tre_set_one(n)
      [] n.type = "cat" ->
            IF Nullable(n.l)
            THEN tre_set_union(firstpos(n.r), firstpos(n.l), tre_match_empty(n.l))
            ELSE firstpos(n.l)
      [] n.type = "union" -> firstpos(n.l) \o firstpos(n.r)
      [] n.type = "iter" -> firstpos(n.arg)
      [] OTHER -> << >>
lastpos(n) ==
    CASE Consumes(n) -> tre_set_one(n)
      [] n.type = "cat" ->
            IF Nullable(n.r)
            THEN tre_set_union(lastpos(n.l), lastpos(n.r), tre_match_empty(n.r))
            ELSE lastpos(n.r)
      [] n.type = "union" -> lastpos(n.l) \o lastpos(n.r)
      [] n.type = "iter" -> lastpos(n.arg)
      [] OTHER -> << >>

-----------------------------------------------------------------------------
(* tre_ast_to_tnfa *)

\* From each of p1 to each of p2, but once to positions that stand for one bracket.
tre_make_trans(p1, p2) ==
    LET targets == SelectSeq([k \in DOMAIN p2 |-> k],
                             LAMBDA k : k = 1 \/ p2[k].pos # p2[k - 1].pos)
    IN FlattenSeq([j \in DOMAIN p1 |->
        [k \in DOMAIN targets |->
            [from |-> p1[j].pos, state |-> p2[targets[k]].pos, chars |-> p1[j].chars,
             backref |-> p1[j].backref, tags |-> p1[j].tags \cup p2[targets[k]].tags,
             assertions |-> p1[j].assertions \cup p2[targets[k]].assertions]]])

RECURSIVE tre_ast_to_tnfa(_)
tre_ast_to_tnfa(n) ==
    CASE n.type = "union" -> tre_ast_to_tnfa(n.l) \o tre_ast_to_tnfa(n.r)
      [] n.type = "cat" ->
            tre_make_trans(lastpos(n.l), firstpos(n.r))
                \o tre_ast_to_tnfa(n.l) \o tre_ast_to_tnfa(n.r)
      [] n.type = "iter" ->
            (IF n.max = -1 THEN tre_make_trans(lastpos(n.arg), firstpos(n.arg)) ELSE << >>)
                \o tre_ast_to_tnfa(n.arg)
      [] OTHER -> << >>

-----------------------------------------------------------------------------

Refused(err) == [err |-> err]

\* The automaton for a tree with tags and without counts: its states are positions, the
\* last of them the final one.
Automaton(transitions, first, final) ==
    [trans |-> [p \in 0..final |-> SelectSeq(transitions, LAMBDA t : t.from = p)],
     initial |-> [k \in DOMAIN first |->
        [state |-> first[k].pos, tags |-> first[k].tags, assertions |-> first[k].assertions]],
     final |-> final]

ComputeTnfa(tree, final) == Automaton(tre_ast_to_tnfa(tree), firstpos(tree), final)

CompileExpanded(parsed, tagged, expanded) ==
    ComputeTnfa(tre_ast_new_catenation(expanded.tree, tre_ast_new_char({End}, expanded.position)),
                expanded.position)
        @@ [num_submatches |-> parsed.subid, num_tags |-> tagged.num_tags,
            tag_directions |-> expanded.directions, submatch_data |-> tagged.sub]

CompileTagged(parsed, tagged) ==
    CompileExpanded(parsed, tagged,
                    tre_expand_ast(tagged.tree, parsed.position, tagged.directions))

CompileParsed(parsed, cflags) ==
    LET backrefs == parsed.max_backref >= 0 IN
    IF parsed.err # "REG_OK" THEN Refused(parsed.err)
    ELSE IF parsed.max_backref > parsed.subid - 1 THEN Refused("REG_ESUBREG")
    ELSE CompileTagged(parsed,
                       IF backrefs \/ "NOSUB" \notin cflags
                       THEN tre_add_tags(parsed.n, parsed.subid)
                       ELSE [tree |-> parsed.n, num_tags |-> 0, directions |-> << >>,
                             sub |-> << >>])
            @@ [err |-> "REG_OK", have_backrefs |-> backrefs, cflags |-> cflags]

regcomp(tokens, cflags) == CompileParsed(tre_parse(tokens, cflags), cflags)
=============================================================================
