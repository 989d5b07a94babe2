-------------------------------- MODULE Glob --------------------------------
(***************************************************************************)
(* glob and globfree (src/regex/glob.c): match_in_dir walks down the       *)
(* directories the components of a pattern match and chains a block for    *)
(* every path it finds; glob makes the vector of them, or appends them to  *)
(* the one a call before has made.                                         *)
(*                                                                         *)
(* Names are numbers, a component of a pattern is the set of names it      *)
(* matches (module Fnmatch is about that), {} the empty component behind   *)
(* a slash at the end.  The recursion is a stack of frames.  Patterns      *)
(* with a drive, GLOB_NOESCAPE, GLOB_PERIOD and over-long patterns are     *)
(* left out; an absolute pattern without a drive is one with an empty      *)
(* component in front, and the code does not find what it stands for.      *)
(***************************************************************************)
EXTENDS Heap, FiniteSets, SequencesExt

CONSTANTS
    Tree,           \* for the path of every directory the sequence of its entries
    Patterns,       \* sequences of components
    FlagSets,       \* the combinations of flags that callers use
    Offsets,        \* what they set gl_offs to for GLOB_DOOFFS
    MaxPaths        \* bound: paths in a vector that is appended to

Entries == UNION {ToSet(Tree[d]) : d \in DOMAIN Tree}
Empty == {}         \* the empty component

\* No directory has two entries of one name, and each is an entry of the one above
\* it, or what a link there leads to; an empty component is the last.
ASSUME TreeAssumption ==
    /\ << >> \in DOMAIN Tree /\ DOMAIN Tree \subseteq Seq(Nat \ {0})
    /\ \A d \in DOMAIN Tree :
            Tree[d] \in Seq([name : Nat \ {0}, d_type : {"DT_DIR", "DT_REG", "DT_LNK"}])
    /\ \A d \in DOMAIN Tree : \A e \in ToSet(Tree[d]) :
            e.d_type = "DT_DIR" => Append(d, e.name) \in DOMAIN Tree
    /\ \A d \in DOMAIN Tree : \A i, j \in DOMAIN Tree[d] :
            Tree[d][i].name = Tree[d][j].name => i = j
    /\ \A d \in DOMAIN Tree : \A k \in DOMAIN d :
            LET parent == SubSeq(d, 1, k - 1)
            IN parent \in DOMAIN Tree
               /\ \E e \in ToSet(Tree[parent]) : e.name = d[k] /\ e.d_type # "DT_REG"
ASSUME PatternAssumption ==
    /\ Patterns \subseteq Seq(SUBSET (Nat \ {0}))
    /\ \A p \in Patterns : p # << >> /\ \A i \in 1..(Len(p) - 1) : p[i] # Empty
ASSUME FlagAssumption ==
    \A fs \in FlagSets : fs \subseteq {"ERR", "MARK", "NOSORT", "NOCHECK", "APPEND"}
ASSUME OffsetAssumption == Offsets \subseteq Nat /\ MaxPaths \in Nat

VARIABLES
    g,          \* the caller's glob_t, and whether glob has initialized it
    call,       \* what glob was asked and its locals; head.next.. is chain
    stack,      \* the frames of match_in_dir
    returned    \* history: what the last call returned, and what failed in it
globVars == <<g, call, stack, returned>>

NoCall == [pattern |-> << >>, flags |-> {}, offs |-> 0, chain |-> << >>, error |-> "0"]
NoReturn == [code |-> "none", pattern |-> << >>, flags |-> {}, new |-> << >>, failed |-> {}]

GlobInit ==
    /\ g = [pathc |-> 0, pathv |-> NULL, offs |-> 0, known |-> FALSE]
    /\ call = NoCall
    /\ stack = << >>
    /\ returned = NoReturn

UNSET == -1     \* a slot of the vector that nobody has written

Path(path, mark) == [is |-> "path", path |-> path, mark |-> mark]
Vector == heap[g.pathv].slots

\* What the caller finds in the vector.
Results == IF g.pathv = NULL THEN << >>
           ELSE [i \in 1..g.pathc |-> heap[Vector[g.offs + i]]]

-----------------------------------------------------------------------------
(* match_in_dir *)

Top == stack[Len(stack)]
Frame(d, p) == [d |-> d, p |-> p, dir |-> NULL, next |-> 1, namebuf |-> NULL]
SetTop(frame) == stack' = [stack EXCEPT ![Len(stack)] = frame]
DirsOf(frames) == {frames[i].dir : i \in DOMAIN frames}

\* The call returns an error through all its frames: each closes its directory,
\* none frees its name buffer.
Unwind(code, h) ==
    /\ stack' = << >>
    /\ call' = [call EXCEPT !.error = code]
    /\ heap' = Without(h, DirsOf(stack))

\* The frame returns 0; its directory is closed.
Leave(h) ==
    /\ stack' = Front(stack)
    /\ heap' = Without(h, {Top.dir})

Failing(what) == returned' = [returned EXCEPT !.failed = @ \cup {what}]

\* append, after k faults in the same step; it is the last thing the frame does, or
\* the next entry follows.
AppendPath(path, leaving, k) ==
    \/ /\ Faults(k)
       /\ \E b \in Free :
            /\ IsFresh(b)
            /\ call' = [call EXCEPT !.chain = Append(@, b)]
            /\ IF leaving THEN Leave(With(heap, b, path))
               ELSE heap' = With(heap, b, path) /\ SetTop([Top EXCEPT !.next = @ + 1])
       /\ UNCHANGED <<errno, returned>>
    \/ /\ Faults(k + 1)
       /\ errno' = "ENOMEM"
       /\ Unwind("NOSPACE", heap)
       /\ Failing("memory")

\* A directory failed: GLOB_ERR or the caller's errfunc may end the search.
DirectoryFailed(h) ==
    /\ Failing("directory")
    /\ \/ Unwind("ABORTED", h)
       \/ "ERR" \notin call.flags /\ Leave(h) /\ UNCHANGED call

Matching == running = "glob" /\ stack # << >>
Entering == Matching /\ Top.dir = NULL

OpenDir ==
    /\ Entering
    /\ \E b \in Free :
        /\ IsFresh(b)
        /\ heap' = With(heap, b, [is |-> "DIR"])
        /\ SetTop([Top EXCEPT !.dir = b])
    /\ NoFault
    /\ UNCHANGED <<errno, running, calls, g, call, returned>>

\* opendir sets errno only when calloc fails.  Otherwise the code takes what is
\* in errno for the reason: a search that nobody hears of, or the path itself
\* where the pattern has ended.
Misled == errno = "ENOTDIR" \/ (errno = "EACCES" /\ Top.p = <<Empty>> /\ Top.d \in DOMAIN Tree)

OpenDirFails ==
    /\ Entering
    /\ \/ /\ Fault
          /\ \/ errno' = "ENOMEM"
             \/ UNCHANGED errno /\ ~Misled
          /\ DirectoryFailed(heap)
       \/ /\ Misled /\ errno = "ENOTDIR"
          /\ Fault
          /\ Leave(heap)
          /\ Failing("misled")
          /\ UNCHANGED <<errno, call>>
       \/ Misled /\ errno = "EACCES" /\ AppendPath(Path(Top.d, TRUE), TRUE, 1)
    /\ UNCHANGED <<running, calls, g>>

Searching == Matching /\ Top.dir # NULL
PatternEnded == Top.p = <<Empty>>

\* What can be opened is a directory: the path itself is found.
FoundDirectory ==
    /\ Searching /\ PatternEnded
    /\ AppendPath(Path(Top.d, TRUE), TRUE, 0)
    /\ UNCHANGED <<running, calls, g>>

\* A link to a file can be opened, too, but not be read.
AtEnd == Top.d \in DOMAIN Tree /\ Top.next > Len(Tree[Top.d])
HasEntry == Searching /\ ~PatternEnded /\ Top.d \in DOMAIN Tree /\ Top.next <= Len(Tree[Top.d])
Entry == Tree[Top.d][Top.next]
EntryPath == Append(Top.d, Entry.name)

\* The name buffer is allocated for the first entry; names are equally long here,
\* and it never has to grow.
NameBuf ==
    /\ HasEntry /\ Top.namebuf = NULL
    /\ \E b \in Free :
        /\ IsFresh(b)
        /\ heap' = With(heap, b, [is |-> "namebuf"])
        /\ SetTop([Top EXCEPT !.namebuf = b])
    /\ NoFault
    /\ UNCHANGED <<errno, running, calls, g, call, returned>>

\* realloc fails and the code goes on with a null pointer, which does no harm
\* where names need no directory in front.
NOBUF == -1
NameBufFails ==
    /\ HasEntry /\ Top.namebuf = NULL
    /\ Fault
    /\ errno' = "ENOMEM"
    /\ SetTop([Top EXCEPT !.namebuf = NOBUF])
    /\ UNCHANGED <<heap, running, calls, g, call, returned>>

MoreComponents == Len(Top.p) > 1

\* Mutant: a regular file is not told from a directory.
MatchesAnyType == Entry.name \in Top.p[1]

Matches ==
    /\ Entry.name \in Top.p[1]
    /\ MoreComponents => Entry.d_type # "DT_REG"

Skip ==
    /\ HasEntry /\ Top.namebuf # NULL /\ ~Matches
    /\ SetTop([Top EXCEPT !.next = @ + 1])
    /\ NoFault
    /\ UNCHANGED <<heap, errno, running, calls, g, call, returned>>

MayWriteName == HasEntry /\ Top.namebuf # NULL /\ Matches
NameWritten == MayWriteName /\ (Top.namebuf # NOBUF \/ Top.d = << >>)

WriteNameCrashes ==
    /\ MayWriteName /\ ~NameWritten
    /\ running' = "crashed"
    /\ NoFault
    /\ UNCHANGED <<heap, errno, calls, globVars>>

\* The rest of the pattern, in the directory or link that matches.
Descend ==
    /\ NameWritten /\ MoreComponents
    /\ stack' = Append([stack EXCEPT ![Len(stack)].next = @ + 1], Frame(EntryPath, Tail(Top.p)))
    /\ NoFault
    /\ UNCHANGED <<heap, errno, running, calls, g, call, returned>>

\* GLOB_MARK marks directories, and links to them.
Found ==
    /\ NameWritten /\ ~MoreComponents
    /\ AppendPath(Path(EntryPath, "MARK" \in call.flags /\ EntryPath \in DOMAIN Tree), FALSE, 0)
    /\ UNCHANGED <<running, calls, g>>

EndOfDirectory ==
    /\ Searching /\ ~PatternEnded /\ AtEnd
    /\ Leave(Without(heap, {Top.namebuf}))
    /\ NoFault
    /\ UNCHANGED <<errno, running, calls, g, call, returned>>

\* readdir_r fails, as it must for what is no directory; errno is not restored.
ReadFails ==
    /\ Searching /\ ~PatternEnded
    /\ Top.next = 1 => Top.namebuf = NULL
    /\ IF Top.d \in DOMAIN Tree THEN Fault ELSE faults' = faults + 1
    /\ errno' = "EIO"
    /\ DirectoryFailed(Without(heap, {Top.namebuf}))
    /\ UNCHANGED <<running, calls, g>>

-----------------------------------------------------------------------------
(* glob *)

\* gl_offs counts only with GLOB_DOOFFS, which a caller gives in every call for a
\* vector or in none; a vector that holds paths is appended to or freed first.
glob(pattern, flags, offs) ==
    /\ Calls("glob")
    /\ IF "APPEND" \in flags THEN g.known /\ offs = g.offs /\ g.pathc < MaxPaths
                           ELSE g.pathv = NULL
    /\ g' = IF "APPEND" \in flags THEN g
            ELSE [pathc |-> 0, pathv |-> NULL, offs |-> offs, known |-> TRUE]
    /\ call' = [NoCall EXCEPT !.pattern = pattern, !.flags = flags, !.offs = offs]
    /\ stack' = IF pattern = <<Empty>> THEN << >> ELSE <<Frame(<< >>, pattern)>>
    /\ returned' = [NoReturn EXCEPT !.pattern = pattern, !.flags = flags]
    /\ NoFault
    /\ UNCHANGED <<heap, errno>>

Collecting == running = "glob" /\ stack = << >>

\* new is what the call adds to the vector.
GlobReturns(code, new, failures) ==
    /\ ReturnsToCaller
    /\ call' = NoCall
    /\ returned' = [returned EXCEPT !.code = code, !.new = new, !.failed = @ \cup failures]
    /\ UNCHANGED stack

\* Mutant: what was found before the memory ended stays allocated.
NoSpaceKeepsPaths ==
    /\ Collecting /\ call.error = "NOSPACE"
    /\ heap' = heap
    /\ GlobReturns("NOSPACE", << >>, {})
    /\ NoFault
    /\ UNCHANGED <<errno, g>>

\* freelist
NoSpace ==
    /\ Collecting /\ call.error = "NOSPACE"
    /\ heap' = Without(heap, ToSet(call.chain))
    /\ GlobReturns("NOSPACE", << >>, {})
    /\ NoFault
    /\ UNCHANGED <<errno, g>>

\* Also when the search was aborted.
NoMatch ==
    /\ Collecting /\ call.error # "NOSPACE" /\ call.chain = << >> /\ "NOCHECK" \notin call.flags
    /\ GlobReturns("NOMATCH", << >>, {})
    /\ NoFault
    /\ UNCHANGED <<heap, errno, g>>

PatternItself == Path(<<0>>, FALSE)

NoCheck ==
    /\ Collecting /\ call.error # "NOSPACE" /\ call.chain = << >> /\ "NOCHECK" \in call.flags
    /\ UNCHANGED <<running, calls, g, stack>>
    /\ \/ /\ \E b \in Free :
               /\ IsFresh(b)
               /\ heap' = With(heap, b, PatternItself)
               /\ call' = [call EXCEPT !.chain = <<b>>]
          /\ NoFault
          /\ UNCHANGED <<errno, returned>>
       \/ /\ Fault
          /\ errno' = "ENOMEM"
          /\ call' = [call EXCEPT !.error = "NOSPACE"]
          /\ Failing("memory")
          /\ UNCHANGED heap

\* strcmp on paths whose names are one character.
Before(p, q) ==
    \E i \in 0..Len(p.path) :
        /\ i <= Len(q.path) /\ \A j \in 1..i : p.path[j] = q.path[j]
        /\ IF i = Len(p.path) THEN i < Len(q.path)
           ELSE i < Len(q.path) /\ p.path[i + 1] < q.path[i + 1]
Sorted(bs) ==
    {s \in qsort(bs) : \A i, j \in DOMAIN s : i < j => ~Before(heap[s[j]], heap[s[i]])}

\* The slots of the vector before the new paths.  An appended vector begins with
\* what realloc kept, and where there was none with gl_offs slots unwritten.
OldSlots ==
    IF "APPEND" \notin call.flags THEN [i \in 1..call.offs |-> NULL]
    ELSE IF g.pathv = NULL THEN [i \in 1..call.offs |-> UNSET]
    ELSE SubSeq(Vector, 1, call.offs + g.pathc)

NewPaths == IF "NOSORT" \in call.flags THEN {call.chain} ELSE Sorted(call.chain)

\* Mutant: qsort is given all paths of the vector.
AllSlotsSorted(new) ==
    SubSeq(OldSlots, 1, call.offs)
        \o (CHOOSE s \in Sorted(SubSeq(OldSlots, call.offs + 1, Len(OldSlots)) \o new) : TRUE)
        \o <<NULL>>

AllSlots(new) == OldSlots \o new \o <<NULL>>

\* The vector is allocated, or reallocated in another place.
MakeVector ==
    /\ Collecting /\ call.error # "NOSPACE" /\ call.chain # << >>
    /\ \E b \in Free, new \in NewPaths :
        /\ IsFresh(b)
        /\ heap' = With(Without(heap, {g.pathv}), b, [is |-> "vector", slots |-> AllSlots(new)])
        /\ g' = [g EXCEPT !.pathv = b, !.pathc = @ + Len(call.chain)]
        /\ GlobReturns(call.error, [i \in DOMAIN new |-> heap[new[i]]], {})
    /\ NoFault
    /\ UNCHANGED errno

VectorFails ==
    /\ Collecting /\ call.error # "NOSPACE" /\ call.chain # << >>
    /\ Fault
    /\ errno' = "ENOMEM"
    /\ heap' = Without(heap, ToSet(call.chain))
    /\ g' = IF "APPEND" \in call.flags THEN g ELSE [g EXCEPT !.pathv = NULL]
    /\ GlobReturns("NOSPACE", << >>, {"memory"})

globfree ==
    /\ running = "caller" /\ g.known
    /\ heap' = Without(heap, {g.pathv} \cup
                    (IF g.pathv = NULL THEN {} ELSE {Vector[g.offs + i] : i \in 1..g.pathc}))
    /\ g' = [g EXCEPT !.pathc = 0, !.pathv = NULL]
    /\ returned' = NoReturn
    /\ NoFault
    /\ UNCHANGED <<errno, running, calls, call, stack>>

match_in_dir ==
    \/ OpenDir \/ OpenDirFails \/ FoundDirectory
    \/ NameBuf \/ NameBufFails \/ WriteNameCrashes
    \/ Skip \/ Descend \/ Found \/ EndOfDirectory \/ ReadFails

GlobNext ==
    \/ \E p \in Patterns, fs \in FlagSets, offs \in Offsets : glob(p, fs, offs)
    \/ match_in_dir
    \/ NoSpace \/ NoMatch \/ NoCheck \/ MakeVector \/ VectorFails
    \/ globfree

-----------------------------------------------------------------------------
(* Properties *)

\* The paths a pattern stands for, in strcmp's order without marks.  A link counts
\* as a directory here if it can be opened, as every link to a file can be.
Opens(path) ==
    path \in DOMAIN Tree
      \/ \E d \in DOMAIN Tree : \E e \in ToSet(Tree[d]) : path = Append(d, e.name) /\ e.d_type = "DT_LNK"
Denotes(p) ==
    LET names(i) == IF i <= Len(p) /\ p[i] # Empty THEN p[i] ELSE {}
        depth == IF p[Len(p)] = Empty THEN Len(p) - 1 ELSE Len(p)
    IN {q \in {Append(d, e.name) : d \in DOMAIN Tree, e \in Entries} :
            /\ Len(q) = depth
            /\ \A i \in 1..depth : q[i] \in names(i)
            /\ \E i \in DOMAIN Tree[Front(q)] : Tree[Front(q)][i].name = Last(q)
            /\ depth < Len(p) => Opens(q)}

NewResults == {returned.new[i].path : i \in DOMAIN returned.new}

\* When nothing failed glob returns 0 and exactly the paths the pattern stands
\* for, or GLOB_NOMATCH, or with GLOB_NOCHECK the pattern; when something did, all it
\* adds are some of them.  Each is there once and, unless GLOB_NOSORT is given, in
\* order.  GLOB_NOSPACE and GLOB_ABORTED have a reason, and with GLOB_ERR a directory
\* that cannot be read does not pass for success, unless errno misled the search.
ResultsAreTrue ==
    returned.code # "none" =>
        LET denoted == Denotes(returned.pattern)
            itself == {PatternItself.path}
        IN /\ \/ NewResults \subseteq denoted
              \/ NewResults = itself /\ "NOCHECK" \in returned.flags
           /\ Cardinality(NewResults) = Len(returned.new)
           /\ "NOSORT" \notin returned.flags =>
                \A i \in 2..Len(returned.new) : Before(returned.new[i - 1], returned.new[i])
           /\ returned.failed = {} =>
                \/ returned.code = "0" /\ denoted # {} /\ NewResults = denoted
                \/ returned.code = "0" /\ denoted = {} /\ NewResults = itself
                \/ returned.code = "NOMATCH" /\ denoted = {} /\ NewResults = {}
           /\ returned.code = "NOSPACE" => "memory" \in returned.failed
           /\ returned.code = "ABORTED" => "directory" \in returned.failed
           /\ returned.code = "0" /\ "ERR" \in returned.flags
                => "directory" \notin returned.failed

\* Paths that glob has returned stay in the vector, in their places and as they
\* were, whatever calls with GLOB_APPEND do and however they fail.
ResultsOnlyGrow == [][IsPrefix(Results, Results') \/ g'.pathc = 0]_<<heap, g>>
=============================================================================
