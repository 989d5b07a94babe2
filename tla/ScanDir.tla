------------------------------ MODULE ScanDir ------------------------------
(***************************************************************************)
(* scandir (src/dirent/scandir.c): the entries of a directory that a       *)
(* callback selects are copied one by one into a list that realloc makes   *)
(* longer.  Only errno tells a failure from the end of the directory.      *)
(*                                                                         *)
(* A directory is the sequence of its names, which are numbers, in the     *)
(* order in which they are read; module DirStream is about how.  The       *)
(* callback may leave anything in errno.  len stays far from SIZE_MAX, so  *)
(* the break at line 24, which would leave errno 0, is not taken.          *)
(***************************************************************************)
EXTENDS Heap

CONSTANTS
    Listings,   \* the directories scandir is called for
    Selected    \* the names the callback wants

ASSUME ListingAssumption == Listings \subseteq Seq(Nat) /\ Selected \subseteq Nat

VARIABLES
    scan,       \* the locals of the call and its arguments
    list        \* what the caller of scandir has: n and *res
                \*   history: what it asked for, what happened, errno before and after
scanVars == <<scan, list>>

NoScan == [listing |-> << >>, cmp |-> FALSE, next |-> 1, dir |-> NULL, names |-> NULL,
           cnt |-> 0, old_errno |-> "0", before |-> "0"]
NoList == [n |-> 0, res |-> NULL, listing |-> << >>, cmp |-> FALSE, failed |-> FALSE,
           before |-> "0", after |-> "0"]

ScanInit == scan = NoScan /\ list = NoList

Slots(slots) == [is |-> "vector", slots |-> slots]
Names == heap[scan.names].slots
Copies == IF scan.names = NULL THEN {} ELSE {Names[i] : i \in 1..scan.cnt}

-----------------------------------------------------------------------------

\* opendir leaves errno alone when the directory cannot be opened.
ScanOpenFails(listing) ==
    /\ list = NoList
    /\ running = "caller" /\ calls < MaxCalls /\ calls' = calls + 1
    /\ Fault
    /\ errno' \in {errno, "ENOMEM"}
    /\ list' = [NoList EXCEPT !.n = -1, !.listing = listing, !.failed = TRUE]
    /\ UNCHANGED <<heap, running, scan>>

ScanOpens(listing, cmp) ==
    /\ list = NoList
    /\ Calls("scandir")
    /\ \E b \in Free :
        /\ IsFresh(b)
        /\ heap' = With(heap, b, [is |-> "DIR"])
        /\ scan' = [NoScan EXCEPT !.listing = listing, !.cmp = cmp, !.dir = b,
                                  !.old_errno = errno, !.before = errno]
    /\ NoFault
    /\ UNCHANGED <<errno, list>>

Candidates == running = "scandir" /\ scan.next <= Len(scan.listing)
Candidate == scan.listing[scan.next]

\* Before every readdir errno is made 0 again.
SelRejects ==
    /\ Candidates /\ Candidate \notin Selected
    /\ scan' = [scan EXCEPT !.next = @ + 1]
    /\ errno' \in {"0", "EACCES"}
    /\ NoFault
    /\ Continues
    /\ UNCHANGED <<heap, list>>

\* The list, which realloc makes longer where it is, and the copy.
Copy ==
    /\ Candidates /\ Candidate \in Selected
    /\ \E l \in (Free \cup {scan.names}) \ {NULL}, b \in Free :
        /\ IF scan.names = NULL THEN IsFresh(l) ELSE l = scan.names
        /\ b # l /\ \A c \in Free \ {l} : b <= c
        /\ heap' = With(With(heap, b, [is |-> "entry", name |-> Candidate]), l,
                        Slots(Append(IF scan.names = NULL THEN << >> ELSE Names, b)))
        /\ scan' = [scan EXCEPT !.next = @ + 1, !.cnt = @ + 1, !.names = l]
    /\ errno' = "0"
    /\ NoFault
    /\ Continues
    /\ UNCHANGED list

FreedAfterError == {scan.names} \cup Copies

SortedCopies ==
    {s \in qsort(Names) : \A i, j \in DOMAIN s : i < j => heap[s[i]].name <= heap[s[j]].name}

\* Mutant: a failure is only seen when nothing was copied.
ScanReturnsPartial(error) ==
    LET closed == Without(heap, {scan.dir})
        failed == error # "0" /\ scan.cnt = 0
    IN
    /\ ReturnsToCaller
    /\ IF failed THEN heap' = Without(closed, FreedAfterError)
       ELSE IF scan.cmp /\ scan.names # NULL
       THEN \E s \in SortedCopies : heap' = With(closed, scan.names, Slots(s))
       ELSE heap' = closed
    /\ errno' = IF failed THEN error ELSE scan.old_errno
    /\ list' = [n |-> IF failed THEN -1 ELSE scan.cnt, res |-> IF failed THEN NULL ELSE scan.names,
                listing |-> scan.listing, cmp |-> scan.cmp, failed |-> error # "0",
                before |-> scan.before, after |-> errno']
    /\ scan' = NoScan

\* Behind the loop, with errno as the loop left it.  qsort moves the pointers.
ScanReturns(error) ==
    LET closed == Without(heap, {scan.dir})
        failed == error # "0"
    IN
    /\ ReturnsToCaller
    /\ IF failed THEN heap' = Without(closed, FreedAfterError)
       ELSE IF scan.cmp /\ scan.names # NULL
       THEN \E s \in SortedCopies : heap' = With(closed, scan.names, Slots(s))
       ELSE heap' = closed
    /\ errno' = IF failed THEN error ELSE scan.old_errno
    /\ list' = [n |-> IF failed THEN -1 ELSE scan.cnt, res |-> IF failed THEN NULL ELSE scan.names,
                listing |-> scan.listing, cmp |-> scan.cmp, failed |-> failed,
                before |-> scan.before, after |-> errno']
    /\ scan' = NoScan

ScanEnds ==
    /\ running = "scandir" /\ scan.next > Len(scan.listing)
    /\ ScanReturns("0")
    /\ NoFault

ScanReadFails == running = "scandir" /\ Fault /\ ScanReturns("EIO")

\* realloc or malloc fails; what was there is freed with the rest.
ScanAllocFails == Candidates /\ Candidate \in Selected /\ Fault /\ ScanReturns("ENOMEM")

\* The caller frees what it was given.
ListFreed ==
    /\ running = "caller" /\ list # NoList
    /\ heap' = Without(heap, {list.res} \cup
                    (IF list.res = NULL THEN {} ELSE {heap[list.res].slots[i] : i \in 1..list.n}))
    /\ list' = NoList
    /\ NoFault
    /\ Continues
    /\ UNCHANGED <<errno, scan>>

ScanNext ==
    \/ \E listing \in Listings : ScanOpenFails(listing)
    \/ \E listing \in Listings, cmp \in BOOLEAN : ScanOpens(listing, cmp)
    \/ SelRejects \/ Copy \/ ScanEnds \/ ScanReadFails \/ ScanAllocFails
    \/ ListFreed

-----------------------------------------------------------------------------
(* Properties *)

Listed == [i \in 1..list.n |-> heap[heap[list.res].slots[i]].name]

\* What the callback selects of the first n entries of a directory.
Wanted(listing) ==
    LET wanted[n \in 0..Len(listing)] ==
            IF n = 0 THEN << >>
            ELSE IF listing[n] \in Selected THEN Append(wanted[n - 1], listing[n])
            ELSE wanted[n - 1]
    IN wanted

\* scandir returns all or nothing: a copy of every entry the callback selected,
\* once each and with a comparison function in its order, for as long as the
\* caller keeps them; or -1, and then something failed and *res is not written
\* (NothingLost says that nothing is left of the list).  A success leaves errno as
\* it was, whatever the callback and the end of the directory made of it.
AllOrNothing ==
    /\ list.n = -1 <=> list.failed
    /\ list # NoList /\ ~list.failed =>
            /\ LET wanted == Wanted(list.listing)[Len(list.listing)] IN
               IF list.cmp THEN /\ Listed \in qsort(wanted)
                                /\ \A i, j \in DOMAIN Listed : i < j => Listed[i] <= Listed[j]
                           ELSE Listed = wanted
            /\ list.after = list.before
=============================================================================
