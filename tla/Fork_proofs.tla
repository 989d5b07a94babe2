---------------------------- MODULE Fork_proofs ----------------------------
(***************************************************************************)
(* Proofs about Fork, for every number of handles, every set of standard   *)
(* handles, all kinds of objects, any memory and any number of forks.      *)
(***************************************************************************)
EXTENDS Fork, WellFoundedInduction, TLAPS

Copying == {"copy_kernelbase", "copy_kernel32", "copy_ntdll", "resume"}
Closing == {"close_process", "close_thread"}
Scanning == {"query", "type", "set"}
BeforeClone == {"prepare", "query", "type", "set", "std", "clone"}

\* What has been written into the new child, or lost, when the call is at pc.
Done == IF pc = "copy_kernelbase" THEN {}
        ELSE IF pc = "copy_kernel32" THEN {"kernelbase"}
        ELSE IF pc = "copy_ntdll" THEN Dll
        ELSE Patches

\* Only the child that is being prepared, or was when its parent died, is suspended,
\* and those that ResumeThread has failed for.
OnlyLastSuspended ==
    \A c \in DOMAIN children :
        children[c].state = "suspended" =>
            \/ "resume" \in children[c].failed
            \/ c = Len(children) /\ pc \in Copying \cup {"dead"}

RoomForChild == pc \in BeforeClone => Len(children) < MaxForks

NewChildSuspended ==
    pc \in Copying => Len(children) > 0 /\ children[Len(children)].state = "suspended"

PatchedSoFar ==
    pc \in Copying =>
        LET child == children[Len(children)] IN
        child.failed \subseteq Done /\ child.patched = Done \ child.failed

\* The handles of fork are those in process_info.
OursAreHeld ==
    /\ pc \in BeforeClone => process_info = NoProcess
    /\ pc \in Copying \cup Closing =>
            process_info.ProcessHandle \in Handles /\ process_info.ThreadHandle \in Handles
    /\ \A x \in Handles : table[x].ours =>
            \/ pc = "dead"
            \/ pc \in Copying \cup {"close_process"}
                 /\ x \in {process_info.ProcessHandle, process_info.ThreadHandle}
            \/ pc = "close_thread" /\ x = process_info.ThreadHandle

\* The clone's handles are in process_info from the clone until each of them is closed.
HeldAreOurs ==
    /\ pc \in Copying \cup {"close_process"} =>
            LET p == process_info.ProcessHandle IN
            /\ p # process_info.ThreadHandle
            /\ table[p].ours /\ table[p].kind # "console"
    /\ pc \in Copying \cup Closing =>
            LET t == process_info.ThreadHandle IN table[t].ours /\ table[t].kind # "console"

\* Handles that nobody has touched are open still, and the files and events among those
\* that the scan has passed are inheritable.
UntouchedIsOpen == pc \in BeforeClone => \A x \in untouched : IsOpen(x)
Kept(x) == x # console_handle /\ table[x].kind \in {"file", "event"}
Passed(x) == \/ pc \in Scanning /\ x < h
             \/ pc \in {"std", "clone"} /\ x <= ScanLimit
PassedAreInheritable ==
    /\ pc \in Scanning => h <= ScanLimit
    /\ \A x \in untouched : Passed(x) /\ Kept(x) => table[x].inherit

Inv ==
    /\ TypeOK
    /\ OnlyLastSuspended /\ RoomForChild /\ NewChildSuspended /\ PatchedSoFar /\ ChildRunsPatched
    /\ OursAreHeld /\ HeldAreOurs /\ ResultsTellTheTruth
    /\ UntouchedIsOpen /\ PassedAreInheritable

LEMMA OpenedIsObject ==
    ASSUME NEW kind \in Kind, NEW byApp \in BOOLEAN
    PROVE  /\ Opened(kind, byApp) \in Object
           /\ [Opened(kind, byApp) EXCEPT !.ours = TRUE] \in Object
BY Zenon DEF Opened, Object

LEMMA InitInv == Init => Inv
<1> SUFFICES ASSUME Init PROVE Inv
  OBVIOUS
<1>1. TypeOK
  <2>1. table \in [Handles -> Object \cup {Closed}]
    <3>1. \A k \in InitialKinds : Opened(k, FALSE) \in Object
      BY KindAssumption, OpenedIsObject
    <3> QED
      BY <3>1 DEF Init
  <2>2. h \in 1..(ScanLimit + 1) /\ opens \in 0..MaxOpens /\ result \in -1..MaxForks
    BY HandleAssumption, BoundsAssumption DEF Init, Handles
  <2>3. process_info \in [ProcessHandle : Handles \cup {NoHandle}, ThreadHandle : Handles \cup {NoHandle}]
    BY DEF Init, NoProcess
  <2>4. children \in Seq(Child) /\ Len(children) <= MaxForks
    BY BoundsAssumption DEF Init
  <2> QED
    BY <2>1, <2>2, <2>3, <2>4 DEF TypeOK, Init
<1>2. \A x \in Handles : ~table[x].ours
  BY DEF Init, Opened, Closed
<1> QED
  BY <1>1, <1>2 DEF Init, Inv, OnlyLastSuspended, RoomForChild, NewChildSuspended, PatchedSoFar,
      ChildRunsPatched, OursAreHeld, HeldAreOurs, ResultsTellTheTruth, UntouchedIsOpen,
      PassedAreInheritable, Passed, Copying, Closing, Scanning, BeforeClone

-----------------------------------------------------------------------------
(* Facts about the values the actions make *)

LEMMA NumbersAreWellTyped ==
    /\ ScanLimit \in Nat /\ LastHandle \in Nat /\ MaxForks \in Nat /\ MaxOpens \in Nat
    /\ \A x \in Handles : x \in Nat /\ x > 0
    /\ 1..ScanLimit \subseteq Handles
BY HandleAssumption, BoundsAssumption DEF Handles

LEMMA ObjectFields ==
    ASSUME NEW o \in Object
    PROVE  /\ o # Closed
           /\ o.kind \in Kind /\ o.inherit \in BOOLEAN /\ o.ours \in BOOLEAN
           /\ [o EXCEPT !.inherit = TRUE] \in Object
           /\ [o EXCEPT !.inherit = TRUE].inherit
           /\ [o EXCEPT !.inherit = TRUE].kind = o.kind
           /\ [o EXCEPT !.inherit = TRUE].ours = o.ours
<1>1. o # Closed
  BY DEF Object, Closed
<1>2. o.kind \in Kind /\ o.inherit \in BOOLEAN /\ o.ours \in BOOLEAN
  BY DEF Object
<1>3. [o EXCEPT !.inherit = TRUE] \in Object
  BY Zenon DEF Object
<1>4. /\ [o EXCEPT !.inherit = TRUE].inherit
      /\ [o EXCEPT !.inherit = TRUE].kind = o.kind
      /\ [o EXCEPT !.inherit = TRUE].ours = o.ours
  BY DEF Object
<1> QED
  BY <1>1, <1>2, <1>3, <1>4

LEMMA InheritableIsTable ==
    ASSUME TypeOK, NEW xs \in SUBSET Handles
    PROVE  Inheritable(xs) \in [Handles -> Object \cup {Closed}]
<1> SUFFICES ASSUME NEW x \in Handles PROVE Inheritable(xs)[x] \in Object \cup {Closed}
  BY DEF Inheritable
<1>1. table[x] \in Object \cup {Closed}
  BY DEF TypeOK
<1>2. IsOpen(x) => [table[x] EXCEPT !.inherit = TRUE] \in Object
  BY <1>1, ObjectFields DEF IsOpen
<1> QED
  BY <1>1, <1>2 DEF Inheritable

LEMMA ChildIsChild ==
    ASSUME NEW c \in Child
    PROVE  /\ \A s \in {"suspended", "running", "returned"} : [c EXCEPT !.state = s] \in Child
           /\ \A what \in Patches : [c EXCEPT !.patched = @ \cup {what}] \in Child
           /\ \A call \in Dll \cup {"resume"} : [c EXCEPT !.failed = {call}] \in Child
BY DEF Child

LEMMA NewChildIsChild ==
    ASSUME TypeOK, NEW state \in {"suspended", "running", "returned"}
    PROVE  NewChild(state, Inherited) \in Child /\ Gone \in Child
<1>1. Inherited \subseteq Handles \X Object
  BY DEF Inherited, IsOpen, TypeOK
<1> QED
  BY <1>1 DEF NewChild, Gone, Child

LEMMA SeqExcept ==
    ASSUME NEW S, NEW s \in Seq(S), NEW i, NEW e \in S
    PROVE  /\ [s EXCEPT ![i] = e] \in Seq(S)
           /\ Len([s EXCEPT ![i] = e]) = Len(s)
           /\ DOMAIN [s EXCEPT ![i] = e] = DOMAIN s
           /\ i \in DOMAIN s => [s EXCEPT ![i] = e][i] = e
           /\ \A j \in DOMAIN s : j # i => [s EXCEPT ![i] = e][j] = s[j]
<1> DEFINE t == [s EXCEPT ![i] = e]
<1>1. s \in [1..Len(s) -> S] /\ Len(s) \in Nat
  OBVIOUS
<1>2. t \in [1..Len(s) -> S]
  BY <1>1
<1>3. t \in Seq(S) /\ Len(t) = Len(s)
  BY <1>1, <1>2
<1> QED
  BY <1>1, <1>2, <1>3

-----------------------------------------------------------------------------
(* The types *)

\* Every action that changes the table leaves one.
LEMMA TableStep ==
    ASSUME TypeOK, OursAreHeld, Next
    PROVE  table' \in [Handles -> Object \cup {Closed}]
<1>1. table \in [Handles -> Object \cup {Closed}]
  BY DEF TypeOK
<1> USE <1>1
<1>2. CASE table' = table
  BY <1>2
<1>3. CASE SetInherit \/ SetStdInherit
  <2>1. CASE SetInherit
    <3>1. Inheritable({h}) = Inheritable({h} \cap Handles)
      BY DEF Inheritable
    <3> QED
      BY <2>1, <3>1, InheritableIsTable DEF SetInherit
  <2>2. CASE SetStdInherit
    BY <2>2, InheritableIsTable, HandleAssumption DEF SetStdInherit
  <2> QED
    BY <1>3, <2>1, <2>2
<1>4. CASE Clone
  <2>1. /\ [Opened("Process", FALSE) EXCEPT !.ours = TRUE] \in Object
        /\ [Opened("Thread", FALSE) EXCEPT !.ours = TRUE] \in Object
    BY OpenedIsObject DEF Kind
  <2> QED
    BY <1>4, <2>1 DEF Clone, CloneInto
<1>5. CASE CloseProcess \/ CloseThreadAndReturn \/ FreeConsole
  BY <1>5 DEF CloseProcess, CloseThreadAndReturn, FreeConsole
<1>6. ASSUME NEW x \in Handles, OtherCloses(x)
      PROVE  table' \in [Handles -> Object \cup {Closed}]
  BY <1>6 DEF OtherCloses
<1>7. ASSUME NEW x \in Handles, NEW kind \in OtherKinds, NEW byApp \in BOOLEAN, OtherOpens(x, kind, byApp)
      PROVE  table' \in [Handles -> Object \cup {Closed}]
  <2>1. Opened(kind, byApp) \in Object
    BY KindAssumption, OpenedIsObject
  <2> QED
    BY <1>7, <2>1 DEF OtherOpens
<1>8. \/ table' = table \/ SetInherit \/ SetStdInherit \/ Clone
      \/ CloseProcess \/ CloseThreadAndReturn \/ FreeConsole
      \/ \E x \in Handles : OtherCloses(x)
      \/ \E x \in Handles, kind \in OtherKinds, byApp \in BOOLEAN : OtherOpens(x, kind, byApp)
  BY DEF Next, ForkStep, Call, Prepare, QuerySkips, QueryAccepts, TypeSkips, TypeAccepts,
      CloneFails, CopyDll, CopyMemoryTo, ResumeThread, ChildReturns
<1> QED
  BY <1>2, <1>3, <1>4, <1>5, <1>6, <1>7, <1>8

\* What the actions do to the children, and that they stay of their type.
LEMMA ChildChanges ==
    ASSUME children \in Seq(Child), NEW c \in DOMAIN children, NEW new \in Child,
           children' = [children EXCEPT ![c] = new]
    PROVE  /\ children' \in Seq(Child)
           /\ DOMAIN children' = DOMAIN children /\ Len(children') = Len(children)
           /\ children'[c] = new
           /\ \A d \in DOMAIN children : d # c => children'[d] = children[d]
BY SeqExcept

LEMMA CloneAppends ==
    ASSUME TypeOK, Clone
    PROVE  LET n == Len(children) + 1 IN
           /\ children' \in Seq(Child) /\ Len(children') = n
           /\ DOMAIN children' = 1..n /\ DOMAIN children = 1..(n - 1)
           /\ children'[n] = NewChild("suspended", Inherited)
           /\ \A c \in DOMAIN children : children'[c] = children[c]
<1>1. NewChild("suspended", Inherited) \in Child
  BY NewChildIsChild
<1>2. children' = Append(children, NewChild("suspended", Inherited)) /\ children \in Seq(Child)
  BY DEF Clone, CloneInto, TypeOK
<1> QED
  BY <1>1, <1>2

\* The child under way is given one thing more, or one write fails.
LEMMA CopyChangesLast ==
    ASSUME TypeOK, NewChildSuspended, PatchedSoFar,
           NEW dll \in Dll, NEW at \in Copying, NEW next, CopyDll(dll, at, next), dll \in prepared
    PROVE  LET n == Len(children) IN
           /\ n \in DOMAIN children
           /\ children' \in Seq(Child) /\ DOMAIN children' = DOMAIN children /\ Len(children') = n
           /\ \/ children'[n] = [children[n] EXCEPT !.patched = @ \cup {dll}]
              \/ /\ children'[n] = [children[n] EXCEPT !.failed = {dll}]
                 /\ children[n].failed = {}
           /\ \A c \in DOMAIN children : c # n => children'[c] = children[c]
<1> DEFINE n == Len(children)
<1>1. children \in Seq(Child) /\ n \in DOMAIN children /\ children[n] \in Child
  BY DEF TypeOK, NewChildSuspended, CopyDll
<1>2. CASE Patch(dll)
  <2>1. children' = [children EXCEPT ![n] = [children[n] EXCEPT !.patched = @ \cup {dll}]]
    BY <1>2 DEF Patch
  <2>2. [children[n] EXCEPT !.patched = @ \cup {dll}] \in Child
    BY <1>1, ChildIsChild DEF Patches
  <2> QED
    BY <1>1, <2>1, <2>2, ChildChanges
<1>3. CASE NothingFailed /\ children' = [children EXCEPT ![n].failed = {dll}]
  <2>1. children' = [children EXCEPT ![n] = [children[n] EXCEPT !.failed = {dll}]]
    BY <1>3
  <2>2. [children[n] EXCEPT !.failed = {dll}] \in Child
    BY <1>1, ChildIsChild
  <2> QED
    BY <1>1, <1>3, <2>1, <2>2, ChildChanges DEF NothingFailed
<1> QED
  BY <1>2, <1>3 DEF CopyDll, Fail

LEMMA CopyMemoryChangesLast ==
    ASSUME TypeOK, NewChildSuspended, CopyMemoryTo
    PROVE  LET n == Len(children) IN
           /\ n \in DOMAIN children
           /\ children' \in Seq(Child) /\ DOMAIN children' = DOMAIN children /\ Len(children') = n
           /\ children'[n] = [children[n] EXCEPT !.patched = @ \cup {"ntdll"}]
           /\ \A c \in DOMAIN children : c # n => children'[c] = children[c]
<1> DEFINE n == Len(children)
<1>1. children \in Seq(Child) /\ n \in DOMAIN children /\ children[n] \in Child
  BY DEF TypeOK, NewChildSuspended, CopyMemoryTo, Copying
<1>2. children' = [children EXCEPT ![n] = [children[n] EXCEPT !.patched = @ \cup {"ntdll"}]]
  BY DEF CopyMemoryTo, Patch
<1>3. [children[n] EXCEPT !.patched = @ \cup {"ntdll"}] \in Child
  BY <1>1, ChildIsChild DEF Patches
<1> QED
  BY <1>1, <1>2, <1>3, ChildChanges

LEMMA ResumeChangesLast ==
    ASSUME TypeOK, NewChildSuspended, ResumeThread
    PROVE  LET n == Len(children) IN
           /\ n \in DOMAIN children
           /\ children' \in Seq(Child) /\ DOMAIN children' = DOMAIN children /\ Len(children') = n
           /\ \/ children'[n] = [children[n] EXCEPT !.state = "running"]
              \/ children'[n] = [children[n] EXCEPT !.failed = {"resume"}]
           /\ \A c \in DOMAIN children : c # n => children'[c] = children[c]
<1> DEFINE n == Len(children)
<1>1. children \in Seq(Child) /\ n \in DOMAIN children /\ children[n] \in Child
  BY DEF TypeOK, NewChildSuspended, ResumeThread, Copying
<1>2. CASE children' = [children EXCEPT ![n] = [children[n] EXCEPT !.state = "running"]]
  <2>1. [children[n] EXCEPT !.state = "running"] \in Child
    BY <1>1, ChildIsChild
  <2> QED
    BY <1>1, <1>2, <2>1, ChildChanges
<1>3. CASE children' = [children EXCEPT ![n] = [children[n] EXCEPT !.failed = {"resume"}]]
  <2>1. [children[n] EXCEPT !.failed = {"resume"}] \in Child
    BY <1>1, ChildIsChild
  <2> QED
    BY <1>1, <1>3, <2>1, ChildChanges
<1> QED
  BY <1>2, <1>3 DEF ResumeThread, Fail

LEMMA ReturnChangesOne ==
    ASSUME TypeOK, NEW c \in DOMAIN children, ChildReturns(c)
    PROVE  /\ children' \in Seq(Child)
           /\ DOMAIN children' = DOMAIN children /\ Len(children') = Len(children)
           /\ children'[c] = Gone
           /\ \A d \in DOMAIN children : d # c => children'[d] = children[d]
<1>1. Gone \in Child
  BY NewChildIsChild
<1> QED
  BY <1>1, ChildChanges DEF ChildReturns, TypeOK

LEMMA TypeStep == Inv /\ [Next]_vars => TypeOK'
<1> SUFFICES ASSUME Inv, [Next]_vars PROVE TypeOK'
  OBVIOUS
<1>a. TypeOK /\ RoomForChild /\ NewChildSuspended /\ PatchedSoFar /\ OursAreHeld /\ PassedAreInheritable
  BY DEF Inv
<1>1. CASE UNCHANGED vars
  BY <1>a, <1>1 DEF TypeOK, vars, forker, others, locals
<1>2. CASE Next
  <2>1. table' \in [Handles -> Object \cup {Closed}]
    BY <1>a, <1>2, TableStep
  <2>2. children' \in Seq(Child) /\ Len(children') <= MaxForks
    <3>1. CASE children' = children
      BY <1>a, <3>1 DEF TypeOK
    <3>2. CASE Clone
      BY <1>a, <3>2, CloneAppends, NumbersAreWellTyped DEF Clone, RoomForChild, BeforeClone, TypeOK
    <3>3. ASSUME NEW dll \in Dll, NEW at \in Copying, NEW next, CopyDll(dll, at, next), dll \in prepared
          PROVE  children' \in Seq(Child) /\ Len(children') <= MaxForks
      BY <1>a, <3>3, CopyChangesLast DEF TypeOK
    <3>4. CASE CopyMemoryTo
      BY <1>a, <3>4, CopyMemoryChangesLast DEF TypeOK
    <3>5. CASE ResumeThread
      BY <1>a, <3>5, ResumeChangesLast DEF TypeOK
    <3>6. ASSUME NEW c \in DOMAIN children, ChildReturns(c)
          PROVE  children' \in Seq(Child) /\ Len(children') <= MaxForks
      BY <1>a, <3>6, ReturnChangesOne DEF TypeOK
    <3>7. \/ children' = children
          \/ Clone \/ CopyMemoryTo \/ ResumeThread
          \/ CopyDll("kernelbase", "copy_kernelbase", "copy_kernel32") /\ "kernelbase" \in prepared
          \/ CopyDll("kernel32", "copy_kernel32", "copy_ntdll") /\ "kernel32" \in prepared
          \/ \E c \in DOMAIN children : ChildReturns(c)
      BY <1>2 DEF Next, ForkStep, Call, Prepare, QuerySkips, QueryAccepts, TypeSkips,
          TypeAccepts, SetInherit, SetStdInherit, CloneFails, CopyDll, CloseProcess,
          CloseThreadAndReturn, OtherCloses, FreeConsole, OtherOpens
    <3> QED
      BY <3>1, <3>2, <3>3, <3>4, <3>5, <3>6, <3>7 DEF Copying, Dll
  <2>3. h' \in 1..(ScanLimit + 1)
    <3>1. h \in 1..(ScanLimit + 1) /\ (pc \in Scanning => h <= ScanLimit)
      BY <1>a DEF TypeOK, PassedAreInheritable
    <3>2. h' = h \/ h' = 1 \/ (pc \in Scanning /\ h' = h + 1)
      BY <1>2 DEF Next, ForkStep, Call, Prepare, QuerySkips, QueryAccepts, TypeSkips,
          TypeAccepts, SetInherit, SetStdInherit, Clone, CloneFails, CopyDll, CopyMemoryTo,
          ResumeThread, CloseProcess, CloseThreadAndReturn, ChildReturns, OtherCloses,
          FreeConsole, OtherOpens, NextHandle, Scanning, forker, others, locals
    <3> QED
      BY <3>1, <3>2, NumbersAreWellTyped
  <2>4. opens' \in 0..MaxOpens
    <3>1. opens' = opens \/ (opens < MaxOpens /\ opens' = opens + 1)
      BY <1>2 DEF Next, ForkStep, Call, Prepare, QuerySkips, QueryAccepts, TypeSkips,
          TypeAccepts, SetInherit, SetStdInherit, Clone, CloneFails, CopyDll, CopyMemoryTo,
          ResumeThread, CloseProcess, CloseThreadAndReturn, ChildReturns, OtherCloses,
          FreeConsole, OtherOpens, others
    <3> QED
      BY <1>a, <3>1, NumbersAreWellTyped DEF TypeOK
  <2>5. process_info' \in [ProcessHandle : Handles \cup {NoHandle}, ThreadHandle : Handles \cup {NoHandle}]
    <3>1. \/ process_info' = process_info \/ process_info' = NoProcess
          \/ \E p, t \in Handles : process_info' = [ProcessHandle |-> p, ThreadHandle |-> t]
      BY <1>2 DEF Next, ForkStep, Call, Prepare, QuerySkips, QueryAccepts, TypeSkips,
          TypeAccepts, SetInherit, SetStdInherit, Clone, CloneInto, CloneFails, CopyDll,
          CopyMemoryTo, ResumeThread, CloseProcess, CloseThreadAndReturn, ChildReturns,
          OtherCloses, FreeConsole, OtherOpens, forker, others, locals
    <3> QED
      BY <1>a, <3>1 DEF TypeOK, NoProcess
  <2>6. result' \in -1..MaxForks
    <3>1. \/ result' = result \/ result' = -1 \/ result' = Len(children)
      BY <1>2 DEF Next, ForkStep, Call, Prepare, QuerySkips, QueryAccepts, TypeSkips,
          TypeAccepts, SetInherit, SetStdInherit, Clone, CloneInto, CloneFails, CopyDll,
          CopyMemoryTo, ResumeThread, CloseProcess, CloseThreadAndReturn, ChildReturns,
          OtherCloses, FreeConsole, OtherOpens, forker, others, locals
    <3> QED
      BY <1>a, <3>1, NumbersAreWellTyped DEF TypeOK
  <2>7. /\ console_handle' \in {NoHandle, ConsoleHandle}
        /\ prepared' \subseteq Dll
        /\ misses' \in {{}} \cup Outcomes
        /\ untouched' \subseteq Handles
        /\ PebConsole' \in {NoHandle, ConsoleHandle}
    BY <1>a, <1>2 DEF TypeOK, Next, ForkStep, Call, Prepare, QuerySkips, QueryAccepts,
        TypeSkips, TypeAccepts, SetInherit, SetStdInherit, Clone, CloneFails, CopyDll,
        CopyMemoryTo, ResumeThread, CloseProcess, CloseThreadAndReturn, ChildReturns,
        OtherCloses, FreeConsole, OtherOpens, forker, others, locals
  <2>8. pc' \in {"idle", "prepare", "query", "type", "set", "std", "clone", "copy_kernelbase",
               "copy_kernel32", "copy_ntdll", "resume", "close_process", "close_thread", "dead"}
    BY <1>a, <1>2 DEF TypeOK, Next, ForkStep, Call, Prepare, QuerySkips, QueryAccepts,
        TypeSkips, TypeAccepts, SetInherit, SetStdInherit, Clone, CloneFails, CopyDll,
        CopyMemoryTo, ResumeThread, CloseProcess, CloseThreadAndReturn, ChildReturns,
        OtherCloses, FreeConsole, OtherOpens, forker, others, locals, Go, NextHandle
  <2> QED
    BY <2>1, <2>2, <2>3, <2>4, <2>5, <2>6, <2>7, <2>8 DEF TypeOK
<1> QED
  BY <1>1, <1>2

-----------------------------------------------------------------------------
(* The children *)

ChildrenInv ==
    OnlyLastSuspended /\ RoomForChild /\ NewChildSuspended /\ PatchedSoFar /\ ChildRunsPatched

\* The data are written one after the other, while the child is suspended.
LEMMA CopyKeepsChildren ==
    ASSUME Inv, NEW dll \in Dll, NEW at \in Copying, NEW next \in Copying, dll \in prepared,
           CopyDll(dll, at, next),
           \/ dll = "kernelbase" /\ at = "copy_kernelbase" /\ next = "copy_kernel32"
           \/ dll = "kernel32" /\ at = "copy_kernel32" /\ next = "copy_ntdll"
    PROVE  ChildrenInv'
<1> DEFINE n == Len(children)
<1>1. /\ n \in DOMAIN children
      /\ DOMAIN children' = DOMAIN children /\ Len(children') = n
      /\ \/ children'[n] = [children[n] EXCEPT !.patched = @ \cup {dll}]
         \/ /\ children'[n] = [children[n] EXCEPT !.failed = {dll}]
            /\ children[n].failed = {}
      /\ \A c \in DOMAIN children : c # n => children'[c] = children[c]
  BY CopyChangesLast DEF Inv
<1>2. pc = at /\ pc' = next
  BY DEF CopyDll, Go
<1>3. children[n] \in Child
  BY <1>1 DEF Inv, TypeOK
<1>4. children[n].state = "suspended" /\ children'[n].state = "suspended"
  BY <1>1, <1>2, <1>3 DEF Inv, NewChildSuspended, Child
<1>5. PatchedSoFar'
  <2>1. children[n].failed \subseteq Done /\ children[n].patched = Done \ children[n].failed
    BY <1>2 DEF Inv, PatchedSoFar
  <2>2. Done' = Done \cup {dll} /\ dll \notin Done
    BY <1>2 DEF Done, Dll
  <2>3. CASE children'[n] = [children[n] EXCEPT !.patched = @ \cup {dll}]
    <3>1. children'[n].failed = children[n].failed
          /\ children'[n].patched = children[n].patched \cup {dll}
      BY <1>3, <2>3 DEF Child
    <3> QED
      BY <1>1, <2>1, <2>2, <3>1 DEF PatchedSoFar
  <2>4. CASE /\ children'[n] = [children[n] EXCEPT !.failed = {dll}]
             /\ children[n].failed = {}
    <3>1. children'[n].failed = {dll} /\ children'[n].patched = children[n].patched
      BY <1>3, <2>4 DEF Child
    <3> QED
      BY <1>1, <2>1, <2>2, <2>4, <3>1 DEF PatchedSoFar
  <2> QED
    BY <1>1, <2>3, <2>4
<1>6. OnlyLastSuspended' /\ NewChildSuspended' /\ ChildRunsPatched'
  BY <1>1, <1>2, <1>4 DEF Inv, OnlyLastSuspended, NewChildSuspended, ChildRunsPatched
<1>7. RoomForChild'
  BY <1>2 DEF RoomForChild, Copying, BeforeClone
<1> QED
  BY <1>5, <1>6, <1>7 DEF ChildrenInv

LEMMA ChildrenStep == Inv /\ [Next]_vars => ChildrenInv'
<1> SUFFICES ASSUME Inv, [Next]_vars PROVE ChildrenInv'
  OBVIOUS
<1>a. TypeOK /\ ChildrenInv
  BY DEF Inv, ChildrenInv
<1> USE DEF Copying, BeforeClone
<1> DEFINE n == Len(children)
<1>1. CASE children' = children /\ pc' = pc
  BY <1>a, <1>1 DEF ChildrenInv, OnlyLastSuspended, RoomForChild, NewChildSuspended,
      PatchedSoFar, Done, ChildRunsPatched
<1>2. CASE /\ children' = children
           /\ pc \notin Copying /\ pc' \notin Copying
           /\ pc' \in BeforeClone => pc \in BeforeClone \/ Call
           /\ pc = "dead" => pc' = "dead"
  <2>1. RoomForChild'
    BY <1>a, <1>2 DEF ChildrenInv, RoomForChild, Call
  <2>2. OnlyLastSuspended' /\ ChildRunsPatched'
    BY <1>a, <1>2 DEF ChildrenInv, OnlyLastSuspended, ChildRunsPatched
  <2>3. NewChildSuspended' /\ PatchedSoFar'
    BY <1>2 DEF NewChildSuspended, PatchedSoFar
  <2> QED
    BY <2>1, <2>2, <2>3 DEF ChildrenInv
\* The parent crashes for a DLL that was not prepared.
<1>3. CASE children' = children /\ pc' = "dead"
  BY <1>a, <1>3 DEF ChildrenInv, OnlyLastSuspended, RoomForChild, NewChildSuspended,
      PatchedSoFar, ChildRunsPatched
<1>4. CASE Clone
  <2>1. /\ Len(children') = n + 1
        /\ DOMAIN children' = 1..(n + 1) /\ DOMAIN children = 1..n
        /\ children'[n + 1] = NewChild("suspended", Inherited)
        /\ \A c \in DOMAIN children : children'[c] = children[c]
        /\ n \in Nat
    BY <1>a, <1>4, CloneAppends DEF TypeOK
  <2>2. pc = "clone" /\ pc' = "copy_kernelbase"
    BY <1>4 DEF Clone, Go
  <2>3. /\ children'[n + 1].state = "suspended"
        /\ children'[n + 1].failed = {} /\ children'[n + 1].patched = {}
    BY <2>1 DEF NewChild
  <2>4. \A c \in DOMAIN children' : c = n + 1 \/ c \in DOMAIN children
    BY <2>1
  <2>5. \A c \in DOMAIN children :
            children[c].state = "suspended" => "resume" \in children[c].failed
    BY <1>a, <2>2 DEF ChildrenInv, OnlyLastSuspended
  <2>6. OnlyLastSuspended'
    BY <2>1, <2>2, <2>4, <2>5 DEF OnlyLastSuspended
  <2>7. NewChildSuspended' /\ PatchedSoFar' /\ RoomForChild'
    BY <2>1, <2>2, <2>3 DEF NewChildSuspended, PatchedSoFar, Done, RoomForChild
  <2>8. ChildRunsPatched'
    BY <1>a, <2>1, <2>3, <2>4 DEF ChildrenInv, ChildRunsPatched
  <2> QED
    BY <2>6, <2>7, <2>8 DEF ChildrenInv
<1>5. CASE CopyDll("kernelbase", "copy_kernelbase", "copy_kernel32") /\ "kernelbase" \in prepared
  BY <1>5, CopyKeepsChildren DEF Dll
<1>6. CASE CopyDll("kernel32", "copy_kernel32", "copy_ntdll") /\ "kernel32" \in prepared
  BY <1>6, CopyKeepsChildren DEF Dll
<1>7. CASE CopyMemoryTo
  <2>1. /\ n \in DOMAIN children
        /\ DOMAIN children' = DOMAIN children /\ Len(children') = n
        /\ children'[n] = [children[n] EXCEPT !.patched = @ \cup {"ntdll"}]
        /\ \A c \in DOMAIN children : c # n => children'[c] = children[c]
    BY <1>a, <1>7, CopyMemoryChangesLast DEF ChildrenInv
  <2>2. pc = "copy_ntdll" /\ pc' = "resume"
    BY <1>7 DEF CopyMemoryTo, Go
  <2>3. children[n] \in Child /\ children[n].state = "suspended"
    BY <1>a, <2>1, <2>2 DEF TypeOK, ChildrenInv, NewChildSuspended
  <2>4. /\ children'[n].state = "suspended"
        /\ children'[n].failed = children[n].failed
        /\ children'[n].patched = children[n].patched \cup {"ntdll"}
    BY <2>1, <2>3 DEF Child
  <2>5. PatchedSoFar'
    <3>1. children[n].failed \subseteq Dll /\ children[n].patched = Dll \ children[n].failed
      BY <1>a, <2>2 DEF ChildrenInv, PatchedSoFar, Done
    <3>2. Done' = Dll \cup {"ntdll"} /\ "ntdll" \notin Dll
      BY <2>2 DEF Done, Patches, Dll
    <3> QED
      BY <2>1, <2>4, <3>1, <3>2 DEF PatchedSoFar
  <2>6. OnlyLastSuspended' /\ NewChildSuspended' /\ ChildRunsPatched' /\ RoomForChild'
    BY <1>a, <2>1, <2>2, <2>4 DEF ChildrenInv, OnlyLastSuspended, NewChildSuspended,
        ChildRunsPatched, RoomForChild
  <2> QED
    BY <2>5, <2>6 DEF ChildrenInv
\* Now the child has all it lacked, whether it is resumed or left suspended.
<1>8. CASE ResumeThread
  <2>1. /\ n \in DOMAIN children
        /\ DOMAIN children' = DOMAIN children /\ Len(children') = n
        /\ \/ children'[n] = [children[n] EXCEPT !.state = "running"]
           \/ children'[n] = [children[n] EXCEPT !.failed = {"resume"}]
        /\ \A c \in DOMAIN children : c # n => children'[c] = children[c]
    BY <1>a, <1>8, ResumeChangesLast DEF ChildrenInv
  <2>2. pc = "resume" /\ pc' = "close_process"
    BY <1>8 DEF ResumeThread, Go
  <2>3. children[n] \in Child /\ children[n].state = "suspended"
    BY <1>a, <2>1, <2>2 DEF TypeOK, ChildrenInv, NewChildSuspended
  <2>4. children[n].patched = Patches \ children[n].failed
    BY <1>a, <2>2 DEF ChildrenInv, PatchedSoFar, Done
  <2>5. /\ children'[n].state = "suspended" => "resume" \in children'[n].failed
        /\ children'[n].state = "running" => children'[n].patched = Patches \ children'[n].failed
    <3>1. CASE children'[n] = [children[n] EXCEPT !.state = "running"]
      <4>1. /\ children'[n].state = "running" /\ children'[n].failed = children[n].failed
            /\ children'[n].patched = children[n].patched
        BY <2>3, <3>1 DEF Child
      <4> QED
        BY <2>4, <4>1
    <3>2. CASE children'[n] = [children[n] EXCEPT !.failed = {"resume"}]
      <4>1. children'[n].state = "suspended" /\ children'[n].failed = {"resume"}
        BY <2>3, <3>2 DEF Child
      <4> QED
        BY <4>1
    <3> QED
      BY <2>1, <3>1, <3>2
  <2>6. ChildRunsPatched'
    BY <1>a, <2>1, <2>5 DEF ChildrenInv, ChildRunsPatched
  <2>7. OnlyLastSuspended'
    BY <1>a, <2>1, <2>2, <2>5 DEF ChildrenInv, OnlyLastSuspended
  <2>8. NewChildSuspended' /\ PatchedSoFar' /\ RoomForChild'
    BY <2>2 DEF NewChildSuspended, PatchedSoFar, RoomForChild
  <2> QED
    BY <2>6, <2>7, <2>8 DEF ChildrenInv
<1>9. ASSUME NEW c \in DOMAIN children, ChildReturns(c) PROVE ChildrenInv'
  <2>1. /\ DOMAIN children' = DOMAIN children /\ Len(children') = n
        /\ children'[c] = Gone
        /\ \A d \in DOMAIN children : d # c => children'[d] = children[d]
    BY <1>a, <1>9, ReturnChangesOne
  <2>2. pc' = pc /\ children[c].state = "running" /\ children'[c].state = "returned"
    BY <1>9, <2>1 DEF ChildReturns, forker, Gone, NewChild
  <2>3. n \in DOMAIN children => n \in Nat
    OBVIOUS
  <2>4. pc \in Copying => c # n
    BY <1>a, <2>2 DEF ChildrenInv, NewChildSuspended
  <2>5. pc \in Copying => n \in DOMAIN children
    BY <1>a DEF ChildrenInv, NewChildSuspended, TypeOK
  <2>6. OnlyLastSuspended' /\ ChildRunsPatched' /\ RoomForChild'
    BY <1>a, <2>1, <2>2 DEF ChildrenInv, OnlyLastSuspended, ChildRunsPatched, RoomForChild
  <2>7. NewChildSuspended' /\ PatchedSoFar'
    BY <1>a, <2>1, <2>2, <2>4, <2>5 DEF ChildrenInv, NewChildSuspended, PatchedSoFar, Done
  <2> QED
    BY <2>6, <2>7 DEF ChildrenInv
<1>10. \/ children' = children /\ pc' = pc
       \/ /\ children' = children
          /\ pc \notin Copying /\ pc' \notin Copying
          /\ pc' \in BeforeClone => pc \in BeforeClone \/ Call
          /\ pc = "dead" => pc' = "dead"
       \/ children' = children /\ pc' = "dead"
       \/ Clone \/ CopyMemoryTo \/ ResumeThread
       \/ CopyDll("kernelbase", "copy_kernelbase", "copy_kernel32") /\ "kernelbase" \in prepared
       \/ CopyDll("kernel32", "copy_kernel32", "copy_ntdll") /\ "kernel32" \in prepared
       \/ \E c \in DOMAIN children : ChildReturns(c)
  <2>1. CASE UNCHANGED vars
    BY <2>1 DEF vars, forker
  <2>2. CASE Call
    BY <2>2 DEF Call, Go
  <2>3. CASE \/ Prepare \/ QuerySkips \/ QueryAccepts \/ TypeSkips \/ TypeAccepts
             \/ SetInherit \/ SetStdInherit
    BY <2>3 DEF Prepare, QuerySkips, QueryAccepts, TypeSkips, TypeAccepts, SetInherit,
        SetStdInherit, Go, NextHandle
  <2>4. CASE CloneFails \/ CloseProcess \/ CloseThreadAndReturn
    BY <2>4 DEF CloneFails, CloseProcess, CloseThreadAndReturn, Go
  <2>5. CASE \/ CopyDll("kernelbase", "copy_kernelbase", "copy_kernel32")
             \/ CopyDll("kernel32", "copy_kernel32", "copy_ntdll")
    BY <2>5 DEF CopyDll, Go
  <2>6. CASE FreeConsole \/ \E x \in Handles : OtherCloses(x)
    BY <2>6 DEF FreeConsole, OtherCloses, forker
  <2>7. CASE \E x \in Handles, kind \in OtherKinds, byApp \in BOOLEAN : OtherOpens(x, kind, byApp)
    BY <2>7 DEF OtherOpens, forker
  <2> QED
    BY <2>1, <2>2, <2>3, <2>4, <2>5, <2>6, <2>7 DEF Next, ForkStep
<1> QED
  BY <1>1, <1>2, <1>3, <1>4, <1>5, <1>6, <1>7, <1>8, <1>9, <1>10

-----------------------------------------------------------------------------
(* The handles of fork *)

\* Closing a handle leaves no handle of fork's that was not there before.
LEMMA ClosedIsNotOurs ==
    ASSUME table \in [Handles -> Object \cup {Closed}], NEW x \in Handles,
           table' = [table EXCEPT ![x] = Closed]
    PROVE  /\ \A y \in Handles : table'[y].ours => table[y].ours
           /\ \A y \in Handles : y # x => table'[y] = table[y]
BY DEF Closed

LEMMA HandlesStep == Inv /\ [Next]_vars => OursAreHeld'
<1> SUFFICES ASSUME Inv, [Next]_vars PROVE OursAreHeld'
  OBVIOUS
<1>a. TypeOK /\ OursAreHeld /\ \A x \in Handles : table[x] \in Object \cup {Closed}
  BY DEF Inv, TypeOK
<1>b. ~Closed.ours
  BY DEF Closed
<1> USE DEF Copying, Closing, BeforeClone
<1>1. CASE /\ pc' = pc /\ process_info' = process_info
           /\ \A x \in Handles : table'[x].ours => table[x].ours
  BY <1>a, <1>1 DEF OursAreHeld
<1>2. CASE /\ pc \in {"idle"} \cup BeforeClone /\ pc' \in {"idle"} \cup BeforeClone
           /\ pc' \in BeforeClone => process_info' = NoProcess
           /\ \A x \in Handles : table'[x].ours => table[x].ours
  BY <1>a, <1>2 DEF OursAreHeld
<1>3. CASE /\ table' = table /\ process_info' = process_info
           /\ pc \in Copying /\ pc' \in Copying \cup {"close_process", "dead"}
  BY <1>a, <1>3 DEF OursAreHeld
<1>4. CASE Clone
  <2>1. PICK p \in Handles, t \in Handles :
           /\ process_info' = [ProcessHandle |-> p, ThreadHandle |-> t]
           /\ table' = [table EXCEPT
                          ![p] = [Opened("Process", FALSE) EXCEPT !.ours = TRUE],
                          ![t] = [Opened("Thread", FALSE) EXCEPT !.ours = TRUE]]
    BY <1>4 DEF Clone, CloneInto
  <2>2. \A x \in Handles : x \notin {p, t} => table'[x] = table[x]
    BY <1>a, <2>1 DEF TypeOK
  <2>3. pc = "clone" /\ pc' = "copy_kernelbase"
    BY <1>4 DEF Clone, Go
  <2>4. \A x \in Handles : ~table[x].ours
    BY <1>a, <2>3 DEF OursAreHeld
  <2> QED
    BY <2>1, <2>2, <2>3, <2>4 DEF OursAreHeld
<1>5. CASE CloseProcess
  <2>1. /\ pc = "close_process" /\ pc' = "close_thread" /\ process_info' = process_info
        /\ table' = [table EXCEPT ![process_info.ProcessHandle] = Closed]
    BY <1>5 DEF CloseProcess, Go, locals
  <2>2. ~table'[process_info.ProcessHandle].ours
        /\ \A x \in Handles : x # process_info.ProcessHandle => table'[x] = table[x]
    BY <1>a, <1>b, <2>1 DEF TypeOK, OursAreHeld
  <2> QED
    BY <1>a, <2>1, <2>2 DEF OursAreHeld
<1>6. CASE CloseThreadAndReturn
  <2>1. /\ pc = "close_thread" /\ pc' = "idle" /\ process_info' = process_info
        /\ table' = [table EXCEPT ![process_info.ThreadHandle] = Closed]
    BY <1>6 DEF CloseThreadAndReturn, Go
  <2>2. ~table'[process_info.ThreadHandle].ours
        /\ \A x \in Handles : x # process_info.ThreadHandle => table'[x] = table[x]
    BY <1>a, <1>b, <2>1 DEF TypeOK, OursAreHeld
  <2> QED
    BY <1>a, <2>1, <2>2 DEF OursAreHeld
<1>7. \A xs \in SUBSET Handles : \A x \in Handles : Inheritable(xs)[x].ours => table[x].ours
  BY <1>a, ObjectFields DEF Inheritable, IsOpen
<1>8. CASE SetInherit \/ SetStdInherit
  <2>1. CASE SetInherit
    <3>1. h \in Handles
      BY <1>a, <2>1, NumbersAreWellTyped DEF Inv, TypeOK, PassedAreInheritable, Scanning,
          SetInherit, Handles
    <3>2. \A x \in Handles : table'[x].ours => table[x].ours
      BY <2>1, <3>1, <1>7 DEF SetInherit
    <3> QED
      BY <2>1, <3>2, <1>2, <1>a DEF SetInherit, NextHandle, Go, locals, OursAreHeld
  <2>2. CASE SetStdInherit
    <3>1. \A x \in Handles : table'[x].ours => table[x].ours
      BY <2>2, <1>7, HandleAssumption DEF SetStdInherit
    <3> QED
      BY <2>2, <3>1, <1>2, <1>a DEF SetStdInherit, Go, locals, OursAreHeld
  <2> QED
    BY <1>8, <2>1, <2>2
<1>9. CASE UNCHANGED vars
  BY <1>9, <1>1 DEF vars, forker, others, locals
<1>10. CASE Call \/ Prepare \/ QuerySkips \/ QueryAccepts \/ TypeSkips \/ TypeAccepts \/ CloneFails
  BY <1>10, <1>2, <1>a DEF Call, Prepare, QuerySkips, QueryAccepts, TypeSkips, TypeAccepts,
      CloneFails, NextHandle, Go, locals, OursAreHeld
<1>11. CASE \/ CopyDll("kernelbase", "copy_kernelbase", "copy_kernel32")
            \/ CopyDll("kernel32", "copy_kernel32", "copy_ntdll")
            \/ CopyMemoryTo \/ ResumeThread
  BY <1>11, <1>3 DEF CopyDll, CopyMemoryTo, ResumeThread, Go, locals
<1>12. ASSUME NEW c \in DOMAIN children, ChildReturns(c) PROVE OursAreHeld'
  BY <1>12, <1>1 DEF ChildReturns, forker, others, locals
\* Nobody else closes them, or opens a handle that would be taken for one.
<1>13. ASSUME NEW x \in Handles, OtherCloses(x) PROVE OursAreHeld'
  <2>1. \A y \in Handles : table'[y].ours => table[y].ours
    BY <1>13, <1>a, ClosedIsNotOurs DEF OtherCloses, TypeOK
  <2> QED
    BY <1>13, <2>1, <1>1 DEF OtherCloses, forker, locals
<1>14. CASE FreeConsole
  <2>1. PebConsole \in Handles
    BY <1>a, <1>14, HandleAssumption DEF FreeConsole, TypeOK
  <2>2. \A y \in Handles : table'[y].ours => table[y].ours
    BY <1>14, <1>a, <2>1, ClosedIsNotOurs DEF FreeConsole, TypeOK
  <2> QED
    BY <1>14, <2>2, <1>1 DEF FreeConsole, forker, locals
<1>15. ASSUME NEW x \in Handles, NEW kind \in OtherKinds, NEW byApp \in BOOLEAN, OtherOpens(x, kind, byApp)
       PROVE  OursAreHeld'
  <2>1. ~Opened(kind, byApp).ours
    BY DEF Opened
  <2>2. \A y \in Handles : table'[y].ours => table[y].ours
    BY <1>15, <1>a, <2>1 DEF OtherOpens, TypeOK
  <2> QED
    BY <1>15, <2>2, <1>1 DEF OtherOpens, forker, others, locals
<1> QED
  BY <1>4, <1>5, <1>6, <1>8, <1>9, <1>10, <1>11, <1>12, <1>13, <1>14, <1>15 DEF Next, ForkStep

\* Both handles stay fork's own until fork closes them, first the one, then the other.
LEMMA HeldStep == Inv /\ [Next]_vars => HeldAreOurs'
<1> SUFFICES ASSUME Inv, [Next]_vars PROVE HeldAreOurs'
  OBVIOUS
<1>a. /\ TypeOK /\ OursAreHeld /\ HeldAreOurs
      /\ table \in [Handles -> Object \cup {Closed}] /\ ~Closed.ours
  BY DEF Inv, TypeOK, Closed
<1> USE DEF Copying, Closing, BeforeClone
<1>1. CASE pc' \notin Copying \cup Closing
  BY <1>1 DEF HeldAreOurs
<1>2. CASE /\ process_info' = process_info
           /\ pc' = pc \/ (pc \in Copying /\ pc' \in Copying \cup {"close_process"})
           /\ \A x \in Handles : table[x].ours /\ table[x].kind # "console" => table'[x] = table[x]
  BY <1>a, <1>2 DEF OursAreHeld, HeldAreOurs
<1>3. CASE Clone
  <2>1. PICK p \in Handles, t \in Handles :
           /\ p # t
           /\ process_info' = [ProcessHandle |-> p, ThreadHandle |-> t]
           /\ table' = [table EXCEPT
                          ![p] = [Opened("Process", FALSE) EXCEPT !.ours = TRUE],
                          ![t] = [Opened("Thread", FALSE) EXCEPT !.ours = TRUE]]
    BY <1>3 DEF Clone, CloneInto
  <2>2. /\ table'[p] = [Opened("Process", FALSE) EXCEPT !.ours = TRUE]
        /\ table'[t] = [Opened("Thread", FALSE) EXCEPT !.ours = TRUE]
    BY <1>a, <2>1
  <2>3. /\ table'[p].ours /\ table'[p].kind = "Process"
        /\ table'[t].ours /\ table'[t].kind = "Thread"
    BY <2>2 DEF Opened
  <2> QED
    BY <2>1, <2>3 DEF HeldAreOurs
<1>4. CASE CloseProcess
  <2>1. /\ pc = "close_process" /\ pc' = "close_thread" /\ process_info' = process_info
        /\ table' = [table EXCEPT ![process_info.ProcessHandle] = Closed]
    BY <1>4 DEF CloseProcess, Go, locals
  <2>2. table'[process_info.ThreadHandle] = table[process_info.ThreadHandle]
    BY <1>a, <2>1 DEF OursAreHeld, HeldAreOurs
  <2> QED
    BY <1>a, <2>1, <2>2 DEF HeldAreOurs
<1>5. CASE UNCHANGED vars
  BY <1>5, <1>2 DEF vars, forker, locals
<1>6. CASE \/ CopyDll("kernelbase", "copy_kernelbase", "copy_kernel32")
           \/ CopyDll("kernel32", "copy_kernel32", "copy_ntdll")
           \/ CopyMemoryTo \/ ResumeThread
  <2>1. /\ UNCHANGED <<process_info, table>>
        /\ pc \in Copying /\ pc' \in Copying \cup {"close_process", "dead"}
    BY <1>6 DEF CopyDll, CopyMemoryTo, ResumeThread, Go, locals
  <2> QED
    BY <1>1, <1>2, <2>1
<1>7. ASSUME NEW c \in DOMAIN children, ChildReturns(c) PROVE HeldAreOurs'
  <2>1. UNCHANGED <<pc, process_info, table>>
    BY <1>7 DEF ChildReturns, forker, locals
  <2> QED
    BY <1>2, <2>1
<1>8. ASSUME NEW x \in Handles, OtherCloses(x) PROVE HeldAreOurs'
  <2>1. \A y \in Handles : table[y].ours => table'[y] = table[y]
    BY <1>8, <1>a DEF OtherCloses
  <2>2. UNCHANGED <<pc, process_info>>
    BY <1>8 DEF OtherCloses, forker, locals
  <2> QED
    BY <1>2, <2>1, <2>2
<1>9. CASE FreeConsole
  <2>1. \A y \in Handles : table[y].kind # "console" => table'[y] = table[y]
    BY <1>9, <1>a DEF FreeConsole
  <2>2. UNCHANGED <<pc, process_info>>
    BY <1>9 DEF FreeConsole, forker, locals
  <2> QED
    BY <1>2, <2>1, <2>2
<1>10. ASSUME NEW x \in Handles, NEW kind \in OtherKinds, NEW byApp \in BOOLEAN, OtherOpens(x, kind, byApp)
       PROVE  HeldAreOurs'
  <2>1. \A y \in Handles : table[y].ours => table'[y] = table[y]
    BY <1>10, <1>a DEF OtherOpens, IsOpen
  <2>2. UNCHANGED <<pc, process_info>>
    BY <1>10 DEF OtherOpens, forker, locals
  <2> QED
    BY <1>2, <2>1, <2>2
<1>11. \/ pc' \notin Copying \cup Closing
       \/ Clone \/ CloseProcess \/ UNCHANGED vars \/ CopyMemoryTo \/ ResumeThread
       \/ CopyDll("kernelbase", "copy_kernelbase", "copy_kernel32")
       \/ CopyDll("kernel32", "copy_kernel32", "copy_ntdll")
       \/ FreeConsole
       \/ \E c \in DOMAIN children : ChildReturns(c)
       \/ \E x \in Handles : OtherCloses(x)
       \/ \E x \in Handles, kind \in OtherKinds, byApp \in BOOLEAN : OtherOpens(x, kind, byApp)
  BY DEF Next, ForkStep, Call, Prepare, QuerySkips, QueryAccepts, TypeSkips, TypeAccepts,
      SetInherit, SetStdInherit, CloneFails, CloseThreadAndReturn, NextHandle, Go
<1> QED
  BY <1>1, <1>3, <1>4, <1>5, <1>6, <1>7, <1>8, <1>9, <1>10, <1>11

LEMMA ResultStep == Inv /\ [Next]_vars => ResultsTellTheTruth'
<1> SUFFICES ASSUME Inv, [Next]_vars PROVE ResultsTellTheTruth'
  OBVIOUS
<1>a. TypeOK /\ OnlyLastSuspended /\ OursAreHeld /\ ResultsTellTheTruth
  BY DEF Inv
<1> USE DEF Copying, Closing, BeforeClone
<1>1. CASE pc' # "idle"
  BY <1>1 DEF ResultsTellTheTruth
<1>2. CASE CloneFails
  BY <1>a, <1>2 DEF CloneFails, Go, OnlyLastSuspended, OursAreHeld, ResultsTellTheTruth
<1>3. CASE CloseThreadAndReturn
  <2>1. process_info # NoProcess
    BY <1>a, <1>3 DEF CloseThreadAndReturn, OursAreHeld, NoProcess, NoHandle, Handles
  <2> QED
    BY <1>a, <1>3, <2>1 DEF CloseThreadAndReturn, Go, OnlyLastSuspended, ResultsTellTheTruth
<1>4. ASSUME pc = "idle", NEW c \in DOMAIN children, ChildReturns(c)
      PROVE  ResultsTellTheTruth'
  <2>1. /\ DOMAIN children' = DOMAIN children /\ Len(children') = Len(children)
        /\ children'[c] = Gone
        /\ \A d \in DOMAIN children : d # c => children'[d] = children[d]
    BY <1>a, <1>4, ReturnChangesOne
  <2> QED
    BY <1>a, <1>4, <2>1 DEF ChildReturns, forker, others, locals, Gone, NewChild,
        ResultsTellTheTruth
<1>5. CASE pc = "idle" /\ UNCHANGED <<pc, result, process_info, children>>
  BY <1>a, <1>5 DEF ResultsTellTheTruth
<1>6. \/ pc' # "idle" \/ CloneFails \/ CloseThreadAndReturn
      \/ pc = "idle" /\ \E c \in DOMAIN children : ChildReturns(c)
      \/ pc = "idle" /\ UNCHANGED <<pc, result, process_info, children>>
  BY DEF Next, ForkStep, Call, Prepare, QuerySkips, QueryAccepts, TypeSkips, TypeAccepts,
      SetInherit, SetStdInherit, Clone, CopyDll, CopyMemoryTo, ResumeThread, CloseProcess,
      ChildReturns, OtherCloses, FreeConsole, OtherOpens, NextHandle, Go, vars, forker, others,
      locals
<1> QED
  BY <1>1, <1>2, <1>3, <1>4, <1>5, <1>6

-----------------------------------------------------------------------------
(* The files *)

FilesInv == UntouchedIsOpen /\ PassedAreInheritable

\* Handles that were not touched are not what the table changes take away.
LEMMA FilesKept ==
    ASSUME Inv, console_handle' = console_handle, untouched' \subseteq untouched,
           pc' \in BeforeClone => pc \in BeforeClone,
           pc' \in Scanning => h' <= ScanLimit,
           \A x \in untouched' :
                /\ pc \in BeforeClone => IsOpen(x)' /\ table'[x].kind = table[x].kind
                /\ pc \in BeforeClone /\ table[x].inherit => table'[x].inherit
                /\ Passed(x)' => Passed(x) \/ (Kept(x) => table'[x].inherit)
    PROVE  FilesInv'
<1> USE DEF BeforeClone, Scanning
<1>1. UntouchedIsOpen'
  BY DEF Inv, UntouchedIsOpen
<1>2. \A x \in untouched' : Passed(x)' => pc \in BeforeClone
  BY DEF Passed
<1>3. PassedAreInheritable'
  BY <1>2 DEF Inv, PassedAreInheritable, Kept
<1> QED
  BY <1>1, <1>3 DEF FilesInv

LEMMA FilesStep == Inv /\ [Next]_vars => FilesInv'
<1> SUFFICES ASSUME Inv, [Next]_vars PROVE FilesInv'
  OBVIOUS
<1>a. /\ \A x \in Handles : table[x] \in Object \cup {Closed}
      /\ table \in [Handles -> Object \cup {Closed}]
      /\ h \in Nat /\ untouched \subseteq Handles
      /\ console_handle \in {NoHandle, ConsoleHandle}
  BY NumbersAreWellTyped DEF Inv, TypeOK
<1>b. /\ pc \in BeforeClone => \A x \in untouched : IsOpen(x)
      /\ pc \in Scanning => h <= ScanLimit
  BY DEF Inv, UntouchedIsOpen, PassedAreInheritable
<1> USE DEF BeforeClone, Scanning
<1>1. CASE Call
  <2>1. \A x \in untouched' : IsOpen(x)'
    BY <1>1 DEF Call, IsOpen
  <2>2. pc' = "prepare"
    BY <1>1 DEF Call, Go
  <2> QED
    BY <2>1, <2>2 DEF FilesInv, UntouchedIsOpen, PassedAreInheritable, Passed
<1>2. CASE Prepare
  <2>1. pc = "prepare" /\ pc' = "query" /\ h' = 1
        /\ UNCHANGED <<table, untouched, console_handle>>
    BY <1>2 DEF Prepare, Go
  <2>2. \A x \in untouched : ~Passed(x)'
    BY <2>1, <1>a, NumbersAreWellTyped DEF Passed
  <2>3. h' <= ScanLimit
    BY <2>1, HandleAssumption
  <2> QED
    BY <1>b, <2>1, <2>2, <2>3, FilesKept DEF IsOpen
\* What the queries leave out is neither a file nor an event, or was touched.
<1>3. CASE QuerySkips \/ TypeSkips
  <2>1. /\ pc \in {"query", "type"} /\ h' = h + 1
        /\ pc' = IF h + 1 > ScanLimit THEN "std" ELSE "query"
        /\ UNCHANGED <<table, untouched, console_handle>>
    BY <1>3 DEF QuerySkips, TypeSkips, NextHandle, ScanEnds, Go, locals
  <2>2. h <= ScanLimit
    BY <1>b, <2>1
  <2>3. h \in untouched => ~Kept(h)
    BY <1>3, <1>b, <2>1 DEF QuerySkips, TypeSkips, Skipped, SkippedKinds, Named, Kept
  <2>4. \A x \in untouched : Passed(x)' => Passed(x) \/ x = h
    BY <1>a, <2>1, <2>2, NumbersAreWellTyped DEF Passed
  <2>5. pc' \in Scanning => h' <= ScanLimit
    BY <1>a, <2>1, NumbersAreWellTyped
  <2> QED
    BY <1>b, <2>1, <2>3, <2>4, <2>5, FilesKept DEF IsOpen
<1>4. CASE QueryAccepts \/ TypeAccepts
  <2>1. /\ pc \in {"query", "type"} /\ pc' \in {"type", "set"}
        /\ UNCHANGED <<table, untouched, console_handle, h>>
    BY <1>4 DEF QueryAccepts, TypeAccepts, Go, locals
  <2>2. \A x \in untouched : Passed(x)' => Passed(x)
    BY <2>1 DEF Passed
  <2> QED
    BY <1>b, <2>1, <2>2, FilesKept DEF IsOpen
<1>5. \A xs \in SUBSET Handles : \A x \in Handles : IsOpen(x) =>
        /\ Inheritable(xs)[x] # Closed /\ Inheritable(xs)[x].kind = table[x].kind
        /\ table[x].inherit => Inheritable(xs)[x].inherit
        /\ x \in xs => Inheritable(xs)[x].inherit
  BY <1>a, ObjectFields DEF Inheritable, IsOpen
<1>6. CASE SetInherit
  <2>1. /\ pc = "set" /\ h' = h + 1 /\ table' = Inheritable({h})
        /\ pc' = IF h + 1 > ScanLimit THEN "std" ELSE "query"
        /\ UNCHANGED <<untouched, console_handle>>
    BY <1>6 DEF SetInherit, NextHandle, ScanEnds, Go, locals
  <2>2. h <= ScanLimit /\ h \in Handles
    BY <1>b, <2>1, NumbersAreWellTyped DEF Inv, TypeOK
  <2>3. \A x \in untouched :
          /\ IsOpen(x)' /\ table'[x].kind = table[x].kind
          /\ table[x].inherit => table'[x].inherit
          /\ x = h => table'[x].inherit
    BY <1>a, <1>b, <1>5, <2>1, <2>2 DEF IsOpen
  <2>4. \A x \in untouched : Passed(x)' => Passed(x) \/ x = h
    BY <1>a, <2>1, <2>2, NumbersAreWellTyped DEF Passed
  <2>5. pc' \in Scanning => h' <= ScanLimit
    BY <1>a, <2>1, NumbersAreWellTyped
  <2> QED
    BY <2>1, <2>3, <2>4, <2>5, FilesKept
<1>7. CASE SetStdInherit
  <2>1. /\ pc = "std" /\ pc' = "clone" /\ table' = Inheritable(StdHandles)
        /\ UNCHANGED <<untouched, console_handle>>
    BY <1>7 DEF SetStdInherit, Go, locals
  <2>2. \A x \in untouched :
          /\ IsOpen(x)' /\ table'[x].kind = table[x].kind
          /\ table[x].inherit => table'[x].inherit
    BY <1>a, <1>b, <1>5, <2>1, HandleAssumption DEF IsOpen
  <2>3. \A x \in untouched : Passed(x)' => Passed(x)
    BY <2>1 DEF Passed
  <2> QED
    BY <2>1, <2>2, <2>3, FilesKept
<1>8. CASE pc' \notin BeforeClone
  BY <1>8 DEF FilesInv, UntouchedIsOpen, PassedAreInheritable, Passed
<1>9. CASE UNCHANGED <<table, pc, h, untouched, console_handle>>
  BY <1>9 DEF Inv, FilesInv, UntouchedIsOpen, PassedAreInheritable, Passed, Kept, IsOpen
<1>10. ASSUME NEW x \in Handles, OtherCloses(x) \/ (FreeConsole /\ x = PebConsole) PROVE FilesInv'
  <2>1. /\ UNCHANGED <<pc, h, console_handle>> /\ untouched' = untouched \ {x}
        /\ \A y \in Handles : y # x => table'[y] = table[y]
    BY <1>10, <1>a DEF OtherCloses, FreeConsole, forker, locals
  <2>2. \A y \in untouched' : y \in untouched /\ table'[y] = table[y] /\ (Passed(y)' => Passed(y))
    BY <1>a, <2>1 DEF Passed
  <2> QED
    BY <1>b, <2>1, <2>2, FilesKept DEF IsOpen
<1>11. CASE FreeConsole
  BY <1>10, <1>11, HandleAssumption DEF FreeConsole, Inv, TypeOK
<1>12. ASSUME NEW x \in Handles, NEW kind \in OtherKinds, NEW byApp \in BOOLEAN, OtherOpens(x, kind, byApp)
       PROVE  FilesInv'
  <2>1. /\ UNCHANGED <<pc, h, console_handle, untouched>> /\ ~IsOpen(x)
        /\ \A y \in Handles : y # x => table'[y] = table[y]
    BY <1>12, <1>a DEF OtherOpens, forker, others, locals
  <2>2. CASE pc \notin BeforeClone
    BY <2>1, <2>2, <1>8
  <2>3. CASE pc \in BeforeClone
    <3>1. \A y \in untouched : y # x /\ table'[y] = table[y] /\ (Passed(y)' => Passed(y))
      BY <1>a, <1>b, <2>1, <2>3 DEF Passed
    <3> QED
      BY <1>b, <2>1, <3>1, FilesKept DEF IsOpen
  <2> QED
    BY <2>2, <2>3
<1>13. \/ Call \/ Prepare \/ QuerySkips \/ QueryAccepts \/ TypeSkips \/ TypeAccepts
       \/ SetInherit \/ SetStdInherit \/ pc' \notin BeforeClone \/ FreeConsole
       \/ UNCHANGED <<table, pc, h, untouched, console_handle>>
       \/ \E x \in Handles : OtherCloses(x)
       \/ \E x \in Handles, kind \in OtherKinds, byApp \in BOOLEAN : OtherOpens(x, kind, byApp)
  BY DEF Next, ForkStep, Clone, CloneFails, CopyDll, CopyMemoryTo, ResumeThread, CloseProcess,
      CloseThreadAndReturn, ChildReturns, Go, vars, forker, others, locals
<1> QED
  BY <1>1, <1>2, <1>3, <1>4, <1>6, <1>7, <1>8, <1>9, <1>10, <1>11, <1>12, <1>13

-----------------------------------------------------------------------------
(* The memory of the child *)

LEMMA LeastElement ==
    ASSUME NEW T \in SUBSET Nat, T # {}
    PROVE  \E x \in T : \A y \in T : x <= y
<1> DEFINE R == OpToRel(<, Nat)
<1>1. IsWellFoundedOn(R, Nat)
  BY NatLessThanWellFounded, Zenon
<1>2. \A x, y \in Nat : <<x, y>> \in R <=> x < y
  BY DEF OpToRel
<1> HIDE DEF R
<1>3. PICK x \in T : \A y \in T : ~(<<y, x>> \in R)
  BY <1>1, WFMin
<1>4. \A y \in T : x <= y
  <2> SUFFICES ASSUME NEW y \in T, ~(x <= y) PROVE FALSE
    OBVIOUS
  <2>1. x \in Nat /\ y \in Nat /\ y < x
    OBVIOUS
  <2> QED
    BY <1>2, <1>3, <2>1
<1> QED
  BY <1>4

\* Induction up to n, over the set of the numbers for which something holds.
LEMMA UpTo ==
    ASSUME NEW n \in Nat, NEW S, 0 \in S, \A k \in 1..n : k - 1 \in S => k \in S
    PROVE  0..n \subseteq S
<1> SUFFICES ASSUME (0..n) \ S # {} PROVE FALSE
  OBVIOUS
<1> DEFINE T == (0..n) \ S
<1>1. T \in SUBSET Nat /\ T # {}
  OBVIOUS
<1>2. PICK k \in T : \A j \in T : k <= j
  BY <1>1, LeastElement
<1>3. k \in 1..n /\ k - 1 \in 0..n /\ k - 1 < k
  BY <1>2
<1>4. k - 1 \in S
  BY <1>2, <1>3
<1> QED
  BY <1>2, <1>3, <1>4

\* Regions of l are intervals of pages that are alike.
LEMMA RegionOf ==
    ASSUME NEW l \in Layouts, NEW p \in 1..Pages
    PROVE  /\ p \in Region(l, p) /\ Region(l, p) \subseteq p..Pages
           /\ \A q \in Region(l, p) : l.alloc[q] = l.alloc[p] /\ (Readable(l, q) <=> Readable(l, p))
           /\ \A q \in Region(l, p) : \A r \in p..q : r \in Region(l, p)
           /\ \A q \in Region(l, p) : Region(l, q) \subseteq Region(l, p)
           /\ Region(l, p) \subseteq Reservation(l, p)
<1>0. Pages \in Nat
  BY PageAssumption
<1>1. p \in Region(l, p) /\ Region(l, p) \subseteq p..Pages
  BY <1>0 DEF Region
<1>2. \A q \in Region(l, p) : l.alloc[q] = l.alloc[p] /\ l.attr[q] = l.attr[p]
  BY <1>0 DEF Region
<1>3. \A q \in Region(l, p) : \A r \in p..q : r \in Region(l, p)
  BY <1>0 DEF Region
<1>4. \A q \in Region(l, p) : Region(l, q) \subseteq Region(l, p)
  <2> SUFFICES ASSUME NEW q \in Region(l, p), NEW r \in Region(l, q) PROVE r \in Region(l, p)
    OBVIOUS
  <2>1. r \in p..Pages /\ q \in p..Pages /\ q <= r
    BY <1>0 DEF Region
  <2>2. \A x \in p..r : l.alloc[x] = l.alloc[p] /\ l.attr[x] = l.attr[p]
    BY <1>0, <2>1 DEF Region
  <2> QED
    BY <2>1, <2>2 DEF Region
<1>5. Region(l, p) \subseteq Reservation(l, p)
  BY <1>0, <1>1, <1>2 DEF Reservation
<1> QED
  BY <1>1, <1>2, <1>3, <1>4, <1>5 DEF Readable

\* The exception: before the first k pointers are followed one of them has met the block of page p at a region below it.
MetLower(l, p, k) ==
    \E m \in 1..k : LET q == l.pointers[m]
                    IN q \in 1..(p - 1) /\ l.alloc[q] = l.alloc[p] /\ p \notin Region(l, q)

Own(l) == {p \in 1..Pages : l.alloc[p] \in l.cloned \ {0}}

\* What holds of the state s when k pointers have been followed.
CopyInv(l, s, k) ==
    /\ s.child \subseteq 1..Pages /\ s.ranges \subseteq Page /\ 0 \in s.ranges
    /\ \A p \in Own(l) : Readable(l, p) => p \in s.child
    /\ \A r \in s.reserved :
            \/ r \in Own(l)
            \/ \E m \in 1..k : LET q == l.pointers[m]
                               IN /\ q \in 1..Pages /\ r \in Reservation(l, q)
                                  /\ Reservation(l, q) \subseteq s.reserved
    /\ \A p \in s.ranges \ {0} : Readable(l, p) => p \in s.child \/ MetLower(l, p, k)
    /\ \A n \in 1..k : LET p == l.pointers[n]
                       IN p # 0 /\ Readable(l, p) => p \in s.child \/ MetLower(l, p, n - 1)

LEMMA CopyBegins ==
    ASSUME NEW l \in Layouts
    PROVE  CopyInv(l, Begin(l), 0)
BY PageAssumption DEF CopyInv, Begin, Own, Page

LEMMA MetLowerLater ==
    ASSUME NEW l, NEW p, NEW k \in Nat, MetLower(l, p, k)
    PROVE  MetLower(l, p, k + 1)
<1>1. PICK m \in 1..k : LET q == l.pointers[m]
                        IN q \in 1..(p - 1) /\ l.alloc[q] = l.alloc[p] /\ p \notin Region(l, q)
  BY DEF MetLower
<1>2. m \in 1..(k + 1)
  OBVIOUS
<1> QED
  BY <1>1, <1>2 DEF MetLower

\* Where the reservation fails, a lower region of the block was met before.
LEMMA NotReserved ==
    ASSUME NEW l \in Layouts, NEW s, NEW k \in Nat, k <= Len(l.pointers), CopyInv(l, s, k),
           NEW p \in 1..Pages, Readable(l, p), p \notin s.child,
           ~(Region(l, p) \subseteq Reserve(s.reserved, Reservation(l, p))),
           NEW x \in Region(l, p)
    PROVE  MetLower(l, x, k)
<1>0. Pages \in Nat /\ l.alloc[p] # 0
  <2>1. l.alloc[p] = 0 => l.attr[p] = "NOACCESS"
    BY LayoutAssumption
  <2> QED
    BY <2>1, PageAssumption DEF Readable
<1>1. /\ p \in Region(l, p) /\ Region(l, p) \subseteq p..Pages
      /\ \A y \in Region(l, p) : l.alloc[y] = l.alloc[p]
      /\ Region(l, p) \subseteq Reservation(l, p)
  BY RegionOf
<1>2. s.reserved \cap Reservation(l, p) # {} /\ ~(Region(l, p) \subseteq s.reserved)
  BY <1>1 DEF Reserve
<1>3. PICK r \in s.reserved : r \in Reservation(l, p)
  BY <1>2
<1>4. PICK y \in Region(l, p) : y \notin s.reserved
  BY <1>2
<1>5. l.alloc[r] = l.alloc[p] /\ r \in 1..Pages
  BY <1>3 DEF Reservation
<1>6. r \notin Own(l)
  <2> SUFFICES ASSUME r \in Own(l) PROVE FALSE
    OBVIOUS
  <2>1. p \in Own(l)
    BY <1>5 DEF Own
  <2> QED
    BY <2>1 DEF CopyInv
<1>7. PICK m \in 1..k : /\ l.pointers[m] \in 1..Pages /\ r \in Reservation(l, l.pointers[m])
                        /\ Reservation(l, l.pointers[m]) \subseteq s.reserved
  BY <1>3, <1>6 DEF CopyInv
<1> DEFINE q == l.pointers[m]
<1>8. /\ q \in 1..Pages /\ l.alloc[q] = l.alloc[p] /\ y \notin Reservation(l, q)
      /\ y \in p..Pages /\ l.alloc[y] = l.alloc[q] /\ x \in p..Pages /\ l.alloc[x] = l.alloc[p]
  BY <1>1, <1>4, <1>5, <1>7 DEF Reservation
<1>9. /\ q \in Region(l, q) /\ Region(l, q) \subseteq q..Pages
      /\ \A z \in Region(l, q) : \A w \in q..z : w \in Region(l, q)
      /\ \A z \in Region(l, q) : Region(l, z) \subseteq Region(l, q)
  BY <1>8, RegionOf
<1>10. \A z \in Region(l, q) : z < y
  <2> SUFFICES ASSUME NEW z \in Region(l, q), ~(z < y) PROVE FALSE
    OBVIOUS
  <2>1. y \in 1..Pages /\ y <= z
    BY <1>8, <1>9
  <2> QED
    BY <1>8, <2>1 DEF Reservation
<1>11. q < p
  <2> SUFFICES ASSUME q >= p PROVE FALSE
    BY <1>8
  <2>1. q < y
    BY <1>9, <1>10
  <2>2. q \in Region(l, p)
    BY <1>8, <2>1, RegionOf
  <2>3. y \in Region(l, q)
    <3>1. \A v \in p..y : l.alloc[v] = l.alloc[p] /\ l.attr[v] = l.attr[p]
      BY <1>4 DEF Region
    <3> QED
      BY <1>8, <2>1, <3>1, <1>0 DEF Region
  <2> QED
    BY <1>10, <2>3, <1>8
<1>12. x \notin Region(l, q)
  <2> SUFFICES ASSUME x \in Region(l, q) PROVE FALSE
    OBVIOUS
  <2>1. p \in Region(l, q)
    BY <1>8, <1>9, <1>11
  <2>2. y \in Region(l, q)
    BY <1>4, <1>9, <2>1
  <2> QED
    BY <1>8, <1>10, <2>2
<1> QED
  BY <1>7, <1>8, <1>11, <1>12 DEF MetLower

\* One pointer more.
LEMMA FollowStep ==
    ASSUME NEW l \in Layouts, NEW s, NEW n \in 1..Len(l.pointers), CopyInv(l, s, n - 1),
           s = [ranges |-> s.ranges, reserved |-> s.reserved, child |-> s.child]
    PROVE  LET t == Follow(l, s, l.pointers[n]) IN
           /\ t = [ranges |-> t.ranges, reserved |-> t.reserved, child |-> t.child]
           /\ CopyInv(l, t, n)
<1> DEFINE p == l.pointers[n]
           t == Follow(l, s, p)
           region == Region(l, p)
           reserved == Reserve(s.reserved, Reservation(l, p))
<1>0. /\ Pages \in Nat /\ p \in Page /\ n - 1 \in Nat /\ n - 1 + 1 = n
      /\ n \in Nat /\ l.pointers \in Seq(Page)
  BY PageAssumption, LayoutAssumption DEF Layout
<1>1. \A x : MetLower(l, x, n - 1) => MetLower(l, x, n)
  BY <1>0, MetLowerLater
<1>2. \A m \in 1..(n - 1) : m \in 1..n
  BY <1>0
<1>3. \A m \in 1..n : m \in 1..(n - 1) \/ m = n
  BY <1>0
<1> HIDE DEF p
<1>4. CASE InRange(s, p) \/ p \in s.child
  <2>1. t = s
    BY <1>4 DEF Follow
  <2>2. p # 0 /\ Readable(l, p) => p \in s.child \/ MetLower(l, p, n - 1)
    BY <1>4 DEF CopyInv, InRange
  <2>3. CopyInv(l, s, n)
    <3>1. \A r \in s.reserved :
            \/ r \in Own(l)
            \/ \E m \in 1..n : LET q == l.pointers[m]
                               IN /\ q \in 1..Pages /\ r \in Reservation(l, q)
                                  /\ Reservation(l, q) \subseteq s.reserved
      BY <1>2 DEF CopyInv
    <3>2. \A m \in 1..n : LET q == l.pointers[m]
                       IN q # 0 /\ Readable(l, q) => q \in s.child \/ MetLower(l, q, m - 1)
      BY <1>3, <2>2 DEF CopyInv, p
    <3> QED
      BY <1>1, <3>1, <3>2 DEF CopyInv
  <2>4. t = [ranges |-> t.ranges, reserved |-> t.reserved, child |-> t.child]
    BY <2>1
  <2>5. CopyInv(l, t, n)
    BY <2>1, <2>3, Zenon
  <2> QED
    BY <2>4, <2>5, Zenon DEF p
<1>5. CASE ~(InRange(s, p) \/ p \in s.child) /\ ~Readable(l, p)
  <2>1. t = [s EXCEPT !.ranges = @ \cup region]
    BY <1>5 DEF Follow
  <2>2. p \in 1..Pages /\ region \subseteq Page /\ \A q \in region : ~Readable(l, q)
    <3>1. p \in 1..Pages
      BY <1>0, <1>5 DEF InRange, CopyInv, Page
    <3> QED
      BY <1>0, <1>5, <3>1, RegionOf DEF Page
  <2>3. t.ranges = s.ranges \cup region /\ t.reserved = s.reserved /\ t.child = s.child
        /\ t = [ranges |-> t.ranges, reserved |-> t.reserved, child |-> t.child]
    BY <2>1
  <2> HIDE DEF t, region
  <2>4. \A r \in t.reserved :
            \/ r \in Own(l)
            \/ \E m \in 1..n : LET q == l.pointers[m]
                               IN /\ q \in 1..Pages /\ r \in Reservation(l, q)
                                  /\ Reservation(l, q) \subseteq t.reserved
    BY <1>2, <2>3 DEF CopyInv
  <2>5. \A m \in 1..n : LET q == l.pointers[m]
                        IN q # 0 /\ Readable(l, q) => q \in t.child \/ MetLower(l, q, m - 1)
    BY <1>3, <1>5, <2>3 DEF CopyInv, p
  <2>6. \A q \in t.ranges \ {0} : Readable(l, q) => q \in t.child \/ MetLower(l, q, n)
    BY <1>1, <2>2, <2>3 DEF CopyInv
  <2> QED
    BY <2>2, <2>3, <2>4, <2>5, <2>6 DEF CopyInv, t, p
<1>6. CASE ~(InRange(s, p) \/ p \in s.child) /\ Readable(l, p)
  <2>1. t = [ranges |-> s.ranges \cup region,
             reserved |-> reserved,
             child |-> IF Commits(reserved, region) THEN s.child \cup region ELSE s.child]
    BY <1>6 DEF Follow
  <2>2. p \in 1..Pages /\ region \subseteq 1..Pages /\ p \in region /\ p \in Reservation(l, p)
    <3>1. p \in 1..Pages
      BY <1>0, <1>6 DEF InRange, CopyInv, Page
    <3> QED
      BY <1>0, <1>6, <3>1, RegionOf
  <2>3. Commits(reserved, region) \/ \A x \in region : MetLower(l, x, n - 1)
    BY <1>0, <1>6, <2>2, NotReserved DEF Commits
  <2>4. \A r \in reserved : 
            \/ r \in Own(l)
            \/ \E m \in 1..n : LET q == l.pointers[m]
                               IN /\ q \in 1..Pages /\ r \in Reservation(l, q)
                                  /\ Reservation(l, q) \subseteq reserved
    <3> SUFFICES ASSUME NEW r \in reserved, r \notin Own(l)
                 PROVE  \E m \in 1..n : LET q == l.pointers[m]
                               IN /\ q \in 1..Pages /\ r \in Reservation(l, q)
                                  /\ Reservation(l, q) \subseteq reserved
      OBVIOUS
    <3>1. s.reserved \subseteq reserved
      BY DEF Reserve
    <3>2. CASE r \in s.reserved
      <4>1. PICK m \in 1..(n - 1) : LET q == l.pointers[m]
                               IN /\ q \in 1..Pages /\ r \in Reservation(l, q)
                                  /\ Reservation(l, q) \subseteq s.reserved
        BY <3>2 DEF CopyInv
      <4> QED
        BY <1>2, <3>1, <4>1
    <3>3. CASE r \notin s.reserved
      <4>1. r \in Reservation(l, p) /\ Reservation(l, p) \subseteq reserved
        BY <3>3 DEF Reserve
      <4>2. n \in 1..n
        BY <1>0
      <4> QED
        BY <2>2, <4>1, <4>2 DEF p
    <3> QED
      BY <3>2, <3>3
  <2>5. /\ t = [ranges |-> t.ranges, reserved |-> t.reserved, child |-> t.child]
        /\ t.ranges = s.ranges \cup region /\ t.reserved = reserved
        /\ s.child \subseteq t.child /\ t.child \subseteq s.child \cup region
        /\ Commits(reserved, region) => region \subseteq t.child
    BY <2>1
  <2> HIDE DEF t, region, reserved
  <2>6. p \in t.child \/ MetLower(l, p, n - 1)
    BY <2>2, <2>3, <2>5
  <2>7. \A m \in 1..n : LET q == l.pointers[m]
                        IN q # 0 /\ Readable(l, q) => q \in t.child \/ MetLower(l, q, m - 1)
    BY <1>3, <2>5, <2>6 DEF CopyInv, p
  <2>8. \A q \in t.ranges \ {0} : Readable(l, q) => q \in t.child \/ MetLower(l, q, n)
    BY <1>1, <2>3, <2>5 DEF CopyInv
  <2>9. t.child \subseteq 1..Pages /\ t.ranges \subseteq Page /\ 0 \in t.ranges
    BY <1>0, <2>2, <2>5 DEF CopyInv, Page
  <2>10. \A q \in Own(l) : Readable(l, q) => q \in t.child
    BY <2>5 DEF CopyInv
  <2> QED
    BY <2>4, <2>5, <2>7, <2>8, <2>9, <2>10 DEF CopyInv, t, p
<1> QED
  BY <1>4, <1>5, <1>6 DEF p

\* What the function that follows the pointers one after the other is.
LEMMA FollowedExists ==
    ASSUME NEW l \in Layouts
    PROVE  LET N == Len(l.pointers) IN
           Followed(l) = [n \in 0..N |-> IF n = 0 THEN Begin(l)
                                         ELSE Follow(l, Followed(l)[n - 1], l.pointers[n])]
<1> DEFINE N == Len(l.pointers)
           Is(f, m) == f = [n \in 0..m |-> IF n = 0 THEN Begin(l)
                                           ELSE Follow(l, f[n - 1], l.pointers[n])]
           Has(m) == \E f : Is(f, m)
           S == {m \in 0..N : Has(m)}
<1>0. N \in Nat
  BY LayoutAssumption DEF Layout
<1>1. 0 \in S
  <2> DEFINE f == [n \in 0..0 |-> Begin(l)]
  <2>1. Is(f, 0)
    OBVIOUS
  <2>2. Has(0)
    BY <2>1
  <2> HIDE DEF Has
  <2> QED
    BY <1>0, <2>2
<1>2. \A k \in 1..N : k - 1 \in S => k \in S
  <2> SUFFICES ASSUME NEW k \in 1..N, Has(k - 1) PROVE Has(k)
    <3> HIDE DEF Has
    <3> QED
      BY <1>0
  <2>1. PICK g : Is(g, k - 1)
    OBVIOUS
  <2> DEFINE f == [n \in 0..k |-> IF n < k THEN g[n] ELSE Follow(l, g[k - 1], l.pointers[k])]
  <2>2. k \in Nat /\ k - 1 \in 0..(k - 1) /\ DOMAIN g = 0..(k - 1)
    BY <1>0, <2>1
  <2>3. \A n \in 0..(k - 1) : f[n] = g[n] /\ n \in 0..k /\ n # k
    BY <2>2
  <2>4. ASSUME NEW n \in 0..k
        PROVE  f[n] = IF n = 0 THEN Begin(l) ELSE Follow(l, f[n - 1], l.pointers[n])
    <3>1. CASE n < k
      <4>1. n \in 0..(k - 1) /\ (n # 0 => n - 1 \in 0..(k - 1))
        BY <2>2, <3>1
      <4>2. g[n] = IF n = 0 THEN Begin(l) ELSE Follow(l, g[n - 1], l.pointers[n])
        BY <2>1, <4>1
      <4> QED
        BY <2>3, <4>1, <4>2
    <3>2. CASE n = k
      <4>1. f[k] = Follow(l, g[k - 1], l.pointers[k]) /\ k # 0
        BY <2>2
      <4>2. f[k - 1] = g[k - 1]
        BY <2>2, <2>3
      <4> QED
        BY <3>2, <4>1, <4>2
    <3> QED
      BY <2>2, <3>1, <3>2
  <2>5. f = [n \in 0..k |-> f[n]]
    OBVIOUS
  <2> HIDE DEF f
  <2>6. Is(f, k)
    BY <2>4, <2>5
  <2> QED
    BY <2>6
<1>3. N \in S
  <2>1. 0..N \subseteq S
    <3> HIDE DEF S
    <3> QED
      BY <1>0, <1>1, <1>2, UpTo
  <2>2. N \in 0..N
    BY <1>0
  <2> HIDE DEF S
  <2> QED
    BY <2>1, <2>2
<1>4. \E f : Is(f, N)
  <2>1. Has(N)
    <3> HIDE DEF Has
    <3> QED
      BY <1>3
  <2> QED
    BY <2>1
<1>5. Followed(l) = CHOOSE f : Is(f, N)
  BY DEF Followed
<1>6. Is(Followed(l), N)
  BY <1>4, <1>5
<1> QED
  BY <1>6

\* What holds after every pointer.
LEMMA FollowedInv ==
    ASSUME NEW l \in Layouts
    PROVE  \A n \in 0..Len(l.pointers) : CopyInv(l, Followed(l)[n], n)
<1> DEFINE N == Len(l.pointers)
           F == Followed(l)
           Rec(s) == s = [ranges |-> s.ranges, reserved |-> s.reserved, child |-> s.child]
           S == {n \in 0..N : Rec(F[n]) /\ CopyInv(l, F[n], n)}
<1>0. N \in Nat
  BY LayoutAssumption DEF Layout
<1>1. \A n \in 0..N : F[n] = IF n = 0 THEN Begin(l) ELSE Follow(l, F[n - 1], l.pointers[n])
  BY FollowedExists
<1> HIDE DEF F
<1>2. 0 \in S
  <2>1. F[0] = Begin(l) /\ 0 \in 0..N
    BY <1>0, <1>1
  <2>2. Rec(Begin(l))
    BY DEF Begin
  <2>3. CopyInv(l, Begin(l), 0)
    BY CopyBegins
  <2> QED
    BY <2>1, <2>2, <2>3
<1>3. \A k \in 1..N : k - 1 \in S => k \in S
  <2> SUFFICES ASSUME NEW k \in 1..N, k - 1 \in S PROVE k \in S
    OBVIOUS
  <2>1. k \in 0..N /\ F[k] = Follow(l, F[k - 1], l.pointers[k])
    BY <1>0, <1>1
  <2>2. Rec(F[k - 1]) /\ CopyInv(l, F[k - 1], k - 1)
    OBVIOUS
  <2>3. LET t == Follow(l, F[k - 1], l.pointers[k]) IN Rec(t) /\ CopyInv(l, t, k)
    BY <2>2, FollowStep
  <2> QED
    BY <2>1, <2>3
<1>4. 0..N \subseteq S
  <2> HIDE DEF S
  <2> QED
    BY <1>0, <1>2, <1>3, UpTo
<1> QED
  BY <1>4 DEF F

\* When all pointers were followed, the child lacks a page ntdll points to only where a
\* lower region of its block was met first.
LEMMA NothingElseMissed ==
    ASSUME NEW l \in Layouts
    PROVE  "unknown" \notin Misses(l)
<1> DEFINE N == Len(l.pointers)
           Lacks(n) == LET p == l.pointers[n]
                       IN p # 0 /\ Readable(l, p) /\ p \notin Followed(l)[N].child
<1>0. N \in Nat /\ DOMAIN l.pointers = 1..N
  BY LayoutAssumption DEF Layout
<1>1. CopyInv(l, Followed(l)[N], N)
  <2>1. N \in 0..N
    BY <1>0
  <2> QED
    BY <2>1, FollowedInv
<1>2. \A n \in 1..N : Lacks(n) => MetLower(l, l.pointers[n], n - 1)
  BY <1>1 DEF CopyInv
<1>3. \A n \in 1..N : Lacks(n) => LowerRegionWasFirst(l, n)
  BY <1>2 DEF MetLower, LowerRegionWasFirst
<1>4. Misses(l) = {IF LowerRegionWasFirst(l, n) THEN "lower_region_first" ELSE "unknown" :
                     n \in {m \in DOMAIN l.pointers : Lacks(m)}}
  BY DEF Misses
<1> HIDE DEF Lacks
<1> SUFFICES ASSUME "unknown" \in Misses(l) PROVE FALSE
  OBVIOUS
<1>5. PICK n \in 1..N : /\ Lacks(n)
                        /\ "unknown" = IF LowerRegionWasFirst(l, n)
                                       THEN "lower_region_first" ELSE "unknown"
  BY <1>0, <1>4
<1> QED
  BY <1>3, <1>5

\* However the copying ends, nothing is missing without a reason.
LEMMA OutcomesKnown == \A o \in Outcomes : "unknown" \notin o
BY NothingElseMissed DEF Outcomes

-----------------------------------------------------------------------------
(* The theorems *)

LEMMA InvStep == Inv /\ [Next]_vars => Inv'
BY TypeStep, ChildrenStep, HandlesStep, HeldStep, ResultStep, FilesStep DEF Inv, ChildrenInv,
    FilesInv

LEMMA InvHolds == Spec => []Inv
BY InitInv, InvStep, PTL DEF Spec

\* No child executes an instruction before all that the clone lacks has been written
\* into it or could not be written, however many processes were forked before
\* (lines 374-377).
THEOREM NoChildRunsUnpatched == Spec => []ChildRunsPatched
<1>1. Inv => ChildRunsPatched
  BY DEF Inv
<1> QED
  BY <1>1, InvHolds, PTL

\* When fork is back, on whichever path, none of its handles is open (lines 378-379).
THEOREM HandlesAreClosed == Spec => []NoHandleLeft
<1>1. Inv => NoHandleLeft
  BY DEF Inv, OursAreHeld, NoHandleLeft, Copying
<1> QED
  BY <1>1, InvHolds, PTL

\* Fork closes nothing that is not its own, and neither of its handles twice: whatever
\* other threads open on a value that it has closed stays open, and nothing of its own
\* does (lines 378-379).
THEOREM OnlyOwnHandlesAreClosed == Spec => ClosesItsOwn
<1> DEFINE NoOther == pc' # pc => \A x \in Handles : IsOpen(x) /\ table'[x] = Closed => table[x].ours
<1>1. ASSUME Inv, [Next]_vars PROVE [NoOther]_vars
  <2> SUFFICES ASSUME pc' # pc, NEW x \in Handles, IsOpen(x), table'[x] = Closed
               PROVE  table[x].ours
    OBVIOUS
  <2>a. /\ table \in [Handles -> Object \cup {Closed}] /\ table[x] \in Object
        /\ OursAreHeld /\ HeldAreOurs
    BY <1>1 DEF Inv, TypeOK, IsOpen
  <2>1. CASE table' = table
    BY <2>1 DEF IsOpen
  <2>2. ASSUME NEW xs, table' = Inheritable(xs) PROVE table[x].ours
    <3>1. table'[x] \in Object /\ table'[x] # Closed
      BY <2>a, <2>2, ObjectFields DEF Inheritable
    <3> QED
      BY <3>1
  <2>3. CASE Clone
    <3>1. PICK p, t \in Handles :
              /\ ~IsOpen(p) /\ ~IsOpen(t)
              /\ table' = [table EXCEPT
                            ![p] = [Opened("Process", FALSE) EXCEPT !.ours = TRUE],
                            ![t] = [Opened("Thread", FALSE) EXCEPT !.ours = TRUE]]
      BY <2>3 DEF Clone, CloneInto
    <3>2. table'[x] = table[x]
      BY <2>a, <3>1
    <3> QED
      BY <3>2 DEF IsOpen
  <2>4. CASE CloseProcess
    <3>1. /\ pc = "close_process"
          /\ table' = [table EXCEPT ![process_info.ProcessHandle] = Closed]
      BY <2>4 DEF CloseProcess
    <3>2. x = process_info.ProcessHandle
      BY <2>a, <3>1 DEF IsOpen
    <3> QED
      BY <2>a, <3>1, <3>2 DEF HeldAreOurs
  <2>5. CASE CloseThreadAndReturn
    <3>1. /\ pc = "close_thread"
          /\ table' = [table EXCEPT ![process_info.ThreadHandle] = Closed]
      BY <2>5 DEF CloseThreadAndReturn
    <3>2. x = process_info.ThreadHandle
      BY <2>a, <3>1 DEF IsOpen
    <3> QED
      BY <2>a, <3>1, <3>2 DEF HeldAreOurs, Closing
  <2>6. \/ table' = table \/ (\E xs : table' = Inheritable(xs))
        \/ Clone \/ CloseProcess \/ CloseThreadAndReturn
    BY <1>1 DEF Next, ForkStep, Call, Prepare, QuerySkips, QueryAccepts, TypeSkips, TypeAccepts,
        SetInherit, SetStdInherit, CloneFails, CopyDll, CopyMemoryTo, ResumeThread, ChildReturns,
        OtherCloses, FreeConsole, OtherOpens, vars, forker
  <2> QED
    BY <2>1, <2>2, <2>3, <2>4, <2>5, <2>6
<1>2. Inv /\ [Next]_vars => [NoOther]_vars
  BY <1>1
<1> QED
  BY <1>2, InvHolds, HandlesAreClosed, PTL DEF Spec, ClosesItsOwn

\* What fork returned says whether there is a child, and no child was left suspended,
\* unless ResumeThread failed (lines 369-392).
THEOREM ResultsAreTrue == Spec => []ResultsTellTheTruth
<1>1. Inv => ResultsTellTheTruth
  BY DEF Inv
<1> QED
  BY <1>1, InvHolds, PTL

\* The scan makes every file and event inheritable that is open all through the call,
\* whatever the other threads do to other handles meanwhile, but for the handle value
\* that was the console's when fork was called (lines 337-365).
THEOREM FilesReachTheChild == Spec => FilesAreInherited
<1>1. ASSUME Inv, Clone, NEW c \in DOMAIN children' \ DOMAIN children,
             NEW x \in untouched \ {console_handle}, x <= ScanLimit, table[x].kind \in {"file", "event"}
      PROVE  <<x, table[x]>> \in children'[c].inherited
  <2>1. /\ DOMAIN children' = 1..(Len(children) + 1) /\ DOMAIN children = 1..Len(children)
        /\ children'[Len(children) + 1] = NewChild("suspended", Inherited)
    BY <1>1, CloneAppends DEF Inv
  <2>2. children'[c].inherited = Inherited
    BY <1>1, <2>1 DEF NewChild, Inv, TypeOK
  <2>3. IsOpen(x) /\ table[x].inherit /\ x \in Handles
    BY <1>1 DEF Inv, TypeOK, UntouchedIsOpen, PassedAreInheritable, Passed, Kept, BeforeClone,
        Clone
  <2> QED
    BY <2>2, <2>3 DEF Inherited
<1>2. ASSUME Inv, [Next]_vars, ~Clone PROVE DOMAIN children' = DOMAIN children
  <2>1. CASE children' = children
    BY <2>1
  <2>2. CASE CopyMemoryTo
    BY <1>2, <2>2, CopyMemoryChangesLast DEF Inv
  <2>3. CASE ResumeThread
    BY <1>2, <2>3, ResumeChangesLast DEF Inv
  <2>4. CASE \E c \in DOMAIN children : ChildReturns(c)
    BY <1>2, <2>4, ReturnChangesOne DEF Inv
  <2>5. CASE CopyDll("kernelbase", "copy_kernelbase", "copy_kernel32") /\ "kernelbase" \in prepared
    BY <1>2, <2>5, CopyChangesLast DEF Inv, Dll, Copying
  <2>6. CASE CopyDll("kernel32", "copy_kernel32", "copy_ntdll") /\ "kernel32" \in prepared
    BY <1>2, <2>6, CopyChangesLast DEF Inv, Dll, Copying
  <2> QED
    BY <1>2, <2>1, <2>2, <2>3, <2>4, <2>5, <2>6 DEF Next, ForkStep, Call, Prepare, QuerySkips,
        QueryAccepts, TypeSkips, TypeAccepts, SetInherit, SetStdInherit, CloneFails, CopyDll,
        CloseProcess, CloseThreadAndReturn, OtherCloses, FreeConsole, OtherOpens, vars
<1>3. Inv /\ [Next]_vars =>
        [\A c \in DOMAIN children' \ DOMAIN children :
            \A x \in untouched \ {console_handle} :
                x <= ScanLimit /\ table[x].kind \in {"file", "event"}
                    => <<x, table[x]>> \in children'[c].inherited]_vars
  BY <1>1, <1>2
<1> QED
  BY <1>3, InvHolds, PTL DEF Spec, FilesAreInherited

-----------------------------------------------------------------------------
(* The handles that are the application's own matter *)

Foreign == {"console", "Process", "Thread"}

\* Nobody but the application, or whoever opened it behind the query's back, has made
\* such an object inheritable.
Allowed(x, o) == o.kind \in Foreign => o.byApp \/ x \in StdHandles \/ o.kind \in OtherKinds

TableIsClean == \A x \in Handles : IsOpen(x) /\ table[x].inherit => Allowed(x, table[x])

\* What the queries accepted is no such object, unless it was replaced meanwhile.
AcceptedIsClean ==
    /\ pc = "type" => (IsOpen(h) /\ table[h].kind = "console" => Allowed(h, table[h]))
    /\ pc = "set" => (IsOpen(h) => Allowed(h, table[h]))

ChildrenAreClean ==
    \A c \in DOMAIN children : \A i \in children[c].inherited : Allowed(i[1], i[2])

CleanInv == TableIsClean /\ AcceptedIsClean /\ ChildrenAreClean

LEMMA MarkedObject ==
    ASSUME NEW o \in Object, NEW x
    PROVE  /\ [o EXCEPT !.inherit = TRUE].byApp = o.byApp
           /\ [o EXCEPT !.inherit = TRUE].kind = o.kind
           /\ Allowed(x, [o EXCEPT !.inherit = TRUE]) <=> Allowed(x, o)
<1>1. /\ [o EXCEPT !.inherit = TRUE].byApp = o.byApp
      /\ [o EXCEPT !.inherit = TRUE].kind = o.kind
  BY DEF Object
<1> QED
  BY <1>1 DEF Allowed

\* SetHandleInformation leaves the table clean if what it marks may be marked.
LEMMA MarkingKeepsClean ==
    ASSUME TypeOK, TableIsClean, NEW xs \in SUBSET Handles,
           \A x \in xs : IsOpen(x) => Allowed(x, table[x]),
           table' = Inheritable(xs)
    PROVE  TableIsClean'
<1> SUFFICES ASSUME NEW x \in Handles, IsOpen(x)', table'[x].inherit
             PROVE  Allowed(x, table'[x])
  BY DEF TableIsClean, Allowed
<1>1. table[x] \in Object \cup {Closed}
  BY DEF TypeOK
<1>2. table'[x] = IF x \in xs /\ IsOpen(x) THEN [table[x] EXCEPT !.inherit = TRUE] ELSE table[x]
  BY DEF Inheritable
<1>3. CASE x \in xs /\ IsOpen(x)
  <2>1. table[x] \in Object /\ Allowed(x, table[x])
    BY <1>1, <1>3 DEF IsOpen
  <2> QED
    BY <1>2, <1>3, <2>1, MarkedObject
<1>4. CASE ~(x \in xs /\ IsOpen(x))
  BY <1>2, <1>4 DEF TableIsClean, IsOpen
<1> QED
  BY <1>3, <1>4

LEMMA TableCleanStep == Inv /\ CleanInv /\ [Next]_vars => TableIsClean'
<1> SUFFICES ASSUME Inv, CleanInv, [Next]_vars PROVE TableIsClean'
  OBVIOUS
<1>a. /\ TypeOK /\ TableIsClean /\ AcceptedIsClean /\ OursAreHeld
      /\ table \in [Handles -> Object \cup {Closed}]
      /\ pc = "set" => h \in Handles
  BY NumbersAreWellTyped DEF Inv, CleanInv, TypeOK, PassedAreInheritable, Scanning, Handles
<1>1. CASE table' = table
  BY <1>a, <1>1 DEF TableIsClean, IsOpen, Allowed
<1>2. CASE SetInherit
  <2>1. table' = Inheritable({h}) /\ h \in Handles /\ (IsOpen(h) => Allowed(h, table[h]))
    BY <1>a, <1>2 DEF SetInherit, AcceptedIsClean
  <2> QED
    BY <1>a, <2>1, MarkingKeepsClean
<1>3. CASE SetStdInherit
  <2>1. table' = Inheritable(StdHandles) /\ StdHandles \in SUBSET Handles
    BY <1>3, HandleAssumption DEF SetStdInherit
  <2>2. \A x \in StdHandles : Allowed(x, table[x])
    BY DEF Allowed
  <2> QED
    BY <1>a, <2>1, <2>2, MarkingKeepsClean
\* What the clone's handles are is not inheritable.
<1>4. CASE Clone
  <2>1. PICK p, t \in Handles :
            table' = [table EXCEPT
                        ![p] = [Opened("Process", FALSE) EXCEPT !.ours = TRUE],
                        ![t] = [Opened("Thread", FALSE) EXCEPT !.ours = TRUE]]
    BY <1>4 DEF Clone, CloneInto
  <2>2. /\ ~[Opened("Process", FALSE) EXCEPT !.ours = TRUE].inherit
        /\ ~[Opened("Thread", FALSE) EXCEPT !.ours = TRUE].inherit
    BY DEF Opened
  <2>3. \A x \in Handles : (x \in {p, t} /\ ~table'[x].inherit) \/ table'[x] = table[x]
    BY <1>a, <2>1, <2>2
  <2> QED
    BY <1>a, <2>3 DEF TableIsClean, IsOpen, Allowed
<1>5. ASSUME NEW x \in Handles, table' = [table EXCEPT ![x] = Closed] PROVE TableIsClean'
  <2>1. \A y \in Handles : table'[y] = Closed \/ table'[y] = table[y]
    BY <1>a, <1>5
  <2> QED
    BY <1>a, <2>1 DEF TableIsClean, IsOpen, Allowed
<1>6. ASSUME NEW x \in Handles, NEW kind \in OtherKinds, NEW byApp \in BOOLEAN,
             OtherOpens(x, kind, byApp)
      PROVE  TableIsClean'
  <2>1. Opened(kind, byApp).kind = kind
    BY DEF Opened
  <2>2. \A y \in Handles : table'[y].kind = kind \/ table'[y] = table[y]
    BY <1>a, <1>6, <2>1 DEF OtherOpens
  <2> QED
    BY <1>a, <2>2 DEF TableIsClean, IsOpen, Allowed
<1>7. CASE FreeConsole
  <2>1. PebConsole \in Handles
    BY <1>a, <1>7, HandleAssumption DEF FreeConsole, TypeOK
  <2> QED
    BY <1>5, <1>7, <2>1 DEF FreeConsole
<1>8. CASE CloseProcess \/ CloseThreadAndReturn
  <2>1. process_info.ProcessHandle \in Handles /\ process_info.ThreadHandle \in Handles
    BY <1>a, <1>8 DEF OursAreHeld, CloseProcess, CloseThreadAndReturn, Closing
  <2> QED
    BY <1>5, <1>8, <2>1 DEF CloseProcess, CloseThreadAndReturn
<1>9. \/ table' = table \/ SetInherit \/ SetStdInherit \/ Clone
      \/ CloseProcess \/ CloseThreadAndReturn \/ FreeConsole
      \/ \E x \in Handles : table' = [table EXCEPT ![x] = Closed]
      \/ \E x \in Handles, kind \in OtherKinds, byApp \in BOOLEAN : OtherOpens(x, kind, byApp)
  BY DEF Next, ForkStep, Call, Prepare, QuerySkips, QueryAccepts, TypeSkips, TypeAccepts,
      CloneFails, CopyDll, CopyMemoryTo, ResumeThread, ChildReturns, OtherCloses, vars, locals,
      others, forker
<1> QED
  BY <1>1, <1>2, <1>3, <1>4, <1>5, <1>6, <1>7, <1>8, <1>9

\* Between the queries and the marking the handle can only become what others open.
LEMMA AcceptedCleanStep == Inv /\ CleanInv /\ [Next]_vars => AcceptedIsClean'
<1> SUFFICES ASSUME Inv, CleanInv, [Next]_vars, pc' \in {"type", "set"} PROVE AcceptedIsClean'
  BY DEF AcceptedIsClean
<1>a. /\ AcceptedIsClean /\ table \in [Handles -> Object \cup {Closed}]
      /\ pc \in {"type", "set"} => h \in Handles
  BY NumbersAreWellTyped DEF Inv, CleanInv, TypeOK, PassedAreInheritable, Scanning, Handles
<1>1. CASE QueryAccepts
  <2>1. /\ IsOpen(h) /\ table[h].kind \notin {"console", "long_name"} /\ UNCHANGED <<table, h>>
        /\ pc' = IF table[h].kind \in Named THEN "set" ELSE "type"
    BY <1>1 DEF QueryAccepts, Skipped, SkippedKinds, Named, Go
  <2> QED
    BY <2>1 DEF AcceptedIsClean, Allowed, Foreign, Named, IsOpen
\* A console that the second query meets is one that another thread has opened.
<1>2. CASE TypeAccepts
  <2>1. /\ pc = "type" /\ pc' = "set" /\ UNCHANGED <<table, h>>
        /\ IsOpen(h) => table[h].kind \notin {"Process", "Thread"}
    BY <1>2 DEF TypeAccepts, SkippedKinds, Named, Go
  <2> QED
    BY <1>a, <2>1 DEF AcceptedIsClean, Allowed, Foreign, IsOpen
<1>3. CASE FreeConsole
  <2>1. /\ UNCHANGED <<pc, h>>
        /\ \A y \in Handles : table'[y] = Closed \/ table'[y] = table[y]
    BY <1>3, <1>a DEF FreeConsole, forker
  <2> QED
    BY <1>a, <2>1 DEF AcceptedIsClean, IsOpen, Allowed
<1>4. CASE UNCHANGED <<table, pc, h>>
  BY <1>a, <1>4 DEF AcceptedIsClean, IsOpen, Allowed
<1>5. ASSUME NEW x \in Handles, OtherCloses(x) PROVE AcceptedIsClean'
  <2>1. /\ UNCHANGED <<pc, h>>
        /\ \A y \in Handles : table'[y] = Closed \/ table'[y] = table[y]
    BY <1>5, <1>a DEF OtherCloses, forker, others, locals
  <2> QED
    BY <1>a, <2>1 DEF AcceptedIsClean, IsOpen, Allowed
<1>6. ASSUME NEW x \in Handles, NEW kind \in OtherKinds, NEW byApp \in BOOLEAN,
             OtherOpens(x, kind, byApp)
      PROVE  AcceptedIsClean'
  <2>1. Opened(kind, byApp).kind = kind
    BY DEF Opened
  <2>2. /\ UNCHANGED <<pc, h>>
        /\ \A y \in Handles : table'[y].kind = kind \/ table'[y] = table[y]
    BY <1>6, <1>a, <2>1 DEF OtherOpens, forker, others, locals
  <2> QED
    BY <1>a, <2>2 DEF AcceptedIsClean, IsOpen, Allowed
<1>7. \/ QueryAccepts \/ TypeAccepts \/ FreeConsole \/ UNCHANGED <<table, pc, h>>
      \/ \E x \in Handles : OtherCloses(x)
      \/ \E x \in Handles, kind \in OtherKinds, byApp \in BOOLEAN : OtherOpens(x, kind, byApp)
  BY DEF Next, ForkStep, Call, Prepare, QuerySkips, TypeSkips, SetInherit, SetStdInherit, Clone,
      CloneFails, CopyDll, CopyMemoryTo, ResumeThread, CloseProcess, CloseThreadAndReturn,
      ChildReturns, NextHandle, Go, vars, forker, others, locals
<1> QED
  BY <1>1, <1>2, <1>3, <1>4, <1>5, <1>6, <1>7

\* A child has what was inheritable when it was cloned, or nothing.
LEMMA ChildrenCleanStep == Inv /\ CleanInv /\ [Next]_vars => ChildrenAreClean'
<1> SUFFICES ASSUME Inv, CleanInv, [Next]_vars PROVE ChildrenAreClean'
  OBVIOUS
<1>a. /\ TypeOK /\ TableIsClean /\ ChildrenAreClean /\ NewChildSuspended /\ PatchedSoFar
      /\ \A c \in DOMAIN children : children[c] \in Child
  BY DEF Inv, CleanInv, TypeOK
<1>1. CASE children' = children
  BY <1>a, <1>1 DEF ChildrenAreClean, Allowed
<1>2. CASE Clone
  <2>1. LET n == Len(children) + 1
        IN /\ DOMAIN children' = 1..n /\ DOMAIN children = 1..(n - 1)
           /\ children'[n] = NewChild("suspended", Inherited)
           /\ \A c \in DOMAIN children : children'[c] = children[c]
    BY <1>a, <1>2, CloneAppends
  <2>2. \A i \in Inherited : Allowed(i[1], i[2])
    BY <1>a DEF Inherited, TableIsClean
  <2>3. NewChild("suspended", Inherited).inherited = Inherited
    BY DEF NewChild
  <2>4. \A c \in DOMAIN children' : c \in DOMAIN children \/ c = Len(children) + 1
    BY <1>a, <2>1 DEF TypeOK
  <2> QED
    BY <1>a, <2>1, <2>2, <2>3, <2>4 DEF ChildrenAreClean, Allowed
<1>3. ASSUME NEW n \in DOMAIN children, DOMAIN children' = DOMAIN children,
             children'[n].inherited \subseteq children[n].inherited,
             \A c \in DOMAIN children : c # n => children'[c] = children[c]
      PROVE  ChildrenAreClean'
  BY <1>a, <1>3 DEF ChildrenAreClean, Allowed
<1>4. \A c \in Child :
        /\ \A s : [c EXCEPT !.state = s].inherited = c.inherited
        /\ \A what : [c EXCEPT !.patched = @ \cup {what}].inherited = c.inherited
        /\ \A call : [c EXCEPT !.failed = {call}].inherited = c.inherited
  BY DEF Child
<1> DEFINE n == Len(children)
<1>c. ASSUME n \in DOMAIN children, DOMAIN children' = DOMAIN children,
             \/ \E s : children'[n] = [children[n] EXCEPT !.state = s]
             \/ \E what : children'[n] = [children[n] EXCEPT !.patched = @ \cup {what}]
             \/ \E call : children'[n] = [children[n] EXCEPT !.failed = {call}],
             \A c \in DOMAIN children : c # n => children'[c] = children[c]
      PROVE  ChildrenAreClean'
  <2>1. children'[n].inherited = children[n].inherited
    <3>1. children[n] \in Child
      BY <1>a, <1>c
    <3> HIDE DEF n
    <3>2. CASE \E s : children'[n] = [children[n] EXCEPT !.state = s]
      BY <1>4, <3>1, <3>2
    <3>3. CASE \E what : children'[n] = [children[n] EXCEPT !.patched = @ \cup {what}]
      BY <1>4, <3>1, <3>3
    <3>4. CASE \E call : children'[n] = [children[n] EXCEPT !.failed = {call}]
      BY <1>4, <3>1, <3>4
    <3> QED
      BY <1>c, <3>2, <3>3, <3>4
  <2> QED
    BY <1>3, <1>c, <2>1
<1>5. CASE CopyMemoryTo
  <2>1. /\ n \in DOMAIN children /\ DOMAIN children' = DOMAIN children
        /\ children'[n] = [children[n] EXCEPT !.patched = @ \cup {"ntdll"}]
        /\ \A c \in DOMAIN children : c # n => children'[c] = children[c]
    BY <1>a, <1>5, CopyMemoryChangesLast
  <2> QED
    BY <1>c, <2>1
<1>6. CASE ResumeThread
  <2>1. /\ n \in DOMAIN children /\ DOMAIN children' = DOMAIN children
        /\ \/ children'[n] = [children[n] EXCEPT !.state = "running"]
           \/ children'[n] = [children[n] EXCEPT !.failed = {"resume"}]
        /\ \A c \in DOMAIN children : c # n => children'[c] = children[c]
    BY <1>a, <1>6, ResumeChangesLast
  <2> QED
    BY <1>c, <2>1
<1>7. CASE \E c \in DOMAIN children : ChildReturns(c)
  <2>1. Gone.inherited = {}
    BY DEF Gone, NewChild
  <2> QED
    BY <1>a, <1>3, <1>7, <2>1, ReturnChangesOne
<1>8. CASE CopyDll("kernelbase", "copy_kernelbase", "copy_kernel32") /\ "kernelbase" \in prepared
  <2>1. /\ n \in DOMAIN children /\ DOMAIN children' = DOMAIN children
        /\ \/ children'[n] = [children[n] EXCEPT !.patched = @ \cup {"kernelbase"}]
           \/ children'[n] = [children[n] EXCEPT !.failed = {"kernelbase"}]
        /\ \A c \in DOMAIN children : c # n => children'[c] = children[c]
    BY <1>a, <1>8, CopyChangesLast DEF Dll, Copying
  <2> QED
    BY <1>c, <2>1
<1>9. CASE CopyDll("kernel32", "copy_kernel32", "copy_ntdll") /\ "kernel32" \in prepared
  <2>1. /\ n \in DOMAIN children /\ DOMAIN children' = DOMAIN children
        /\ \/ children'[n] = [children[n] EXCEPT !.patched = @ \cup {"kernel32"}]
           \/ children'[n] = [children[n] EXCEPT !.failed = {"kernel32"}]
        /\ \A c \in DOMAIN children : c # n => children'[c] = children[c]
    BY <1>a, <1>9, CopyChangesLast DEF Dll, Copying
  <2> QED
    BY <1>c, <2>1
<1> QED
  BY <1>1, <1>2, <1>5, <1>6, <1>7, <1>8, <1>9 DEF Next, ForkStep, Call, Prepare, QuerySkips,
      QueryAccepts, TypeSkips, TypeAccepts, SetInherit, SetStdInherit, CloneFails, CopyDll,
      CloseProcess, CloseThreadAndReturn, OtherCloses, FreeConsole, OtherOpens, vars

LEMMA CleanHolds == Spec => []CleanInv
<1>1. Init => CleanInv
  <2> SUFFICES ASSUME Init PROVE CleanInv
    OBVIOUS
  <2>1. \A k \in InitialKinds : ~Opened(k, FALSE).inherit
    BY DEF Opened
  <2>2. TableIsClean
    BY <2>1 DEF Init, TableIsClean, IsOpen
  <2> QED
    BY <2>2 DEF Init, CleanInv, AcceptedIsClean, ChildrenAreClean
<1>2. Inv /\ CleanInv /\ [Next]_vars => CleanInv'
  BY TableCleanStep, AcceptedCleanStep, ChildrenCleanStep DEF CleanInv
<1> QED
  BY <1>1, <1>2, InvHolds, PTL DEF Spec

\* Of consoles, processes and threads a child inherits what the application made
\* inheritable, its standard handles, and nothing else, if no other thread opens such an
\* object: the type is asked at line 342 and the handle marked at line 360.
THEOREM ForeignHandlesAreLeft ==
    ASSUME OtherKinds \cap Foreign = {}
    PROVE  Spec => []NoForeignHandles
<1>1. CleanInv => NoForeignHandles
  BY DEF CleanInv, ChildrenAreClean, Allowed, Foreign, NoForeignHandles
<1> QED
  BY <1>1, CleanHolds, PTL

\* When a child is resumed it has every page that ntdll points to and the parent can read,
\* whatever the memory is, what the clone has of it, and in which order the pointers are
\* met, except where a lower region of the same block was met first (lines 281-320).
THEOREM MemoryReachesTheChild == Spec => []ChildHasItsMemory
<1>1. Inv => ChildHasItsMemory
  BY OutcomesKnown DEF Inv, TypeOK, ChildHasItsMemory
<1> QED
  BY <1>1, InvHolds, PTL
=============================================================================
