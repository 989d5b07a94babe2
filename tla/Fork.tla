-------------------------------- MODULE Fork --------------------------------
(***************************************************************************)
(* fork (src/process/fork.c): every handle worth inheriting is made        *)
(* inheritable, the process is cloned with its thread suspended, data the  *)
(* clone lacks are written into the child, and only then it is resumed.    *)
(*                                                                         *)
(* One thread forks, again and again; the other threads of the process     *)
(* open and close handles at any moment.  A handle is a small number, in   *)
(* the order in which the code tries them.  What is modelled of an object  *)
(* is what the code asks about it: whether it has a name, whether that     *)
(* fits the 2048 bytes of the query and begins with the console's device,  *)
(* and its type.  Which memory the child gets is the matter of module      *)
(* CopyMemory.                                                             *)
(***************************************************************************)
EXTENDS CopyMemory, FiniteSets

CONSTANTS
    LastHandle,     \* handles are 1..LastHandle
    ScanLimit,      \* the last one the code tries (0x2000)
    StdHandles,     \* what GetStdHandle returns
    ConsoleHandle,  \* the handle a console is attached by
    InitialKinds,   \* the kinds of objects open in the beginning
    OtherKinds,     \* the kinds of objects other threads open
    MaxForks,       \* bound: calls of fork
    MaxOpens        \* bound: handles other threads open

Handles == 1..LastHandle
NoHandle == 0
Kind == {"file", "event", "long_name", "console", "Process", "Thread"}
Named == {"file", "long_name", "console"}
Dll == {"kernelbase", "kernel32"}

\* The data the child needs from its parent: two DLLs' .data, and what ntdll points to.
Patches == Dll \cup {"ntdll"}

ASSUME HandleAssumption ==
    /\ LastHandle \in Nat /\ ScanLimit \in 1..LastHandle
    /\ StdHandles \subseteq Handles
    /\ ConsoleHandle \in Handles
ASSUME KindAssumption == InitialKinds \subseteq Kind /\ OtherKinds \subseteq Kind
ASSUME BoundsAssumption == MaxForks \in Nat /\ MaxOpens \in Nat

VARIABLES
    table,          \* the parent's handle table
    PebConsole,     \* ProcessParameters->ConsoleHandle
    opens,          \* handles other threads opened
    \* the forking thread
    pc, h, console_handle, prepared, process_info, result,
    misses,         \* history: why the child lacks memory that ntdll points to
    untouched,      \* history: handles open since fork was called, until it clones
    \* the children, one for each clone
    children
locals == <<console_handle, prepared, process_info, result, misses>>
forker == <<pc, h, locals>>
others == <<PebConsole, opens>>
vars == <<table, others, forker, untouched, children>>

\* byApp: the application itself made the handle inheritable.
Object == [kind : Kind, inherit : BOOLEAN, byApp : BOOLEAN, ours : BOOLEAN]
Closed == [inherit |-> FALSE, ours |-> FALSE]
IsOpen(x) == table[x] # Closed
Opened(kind, byApp) == [kind |-> kind, inherit |-> byApp, byApp |-> byApp, ours |-> FALSE]

Child == [state : {"suspended", "running", "returned"},
          patched : SUBSET Patches,
          failed : SUBSET (Dll \cup {"resume"}),   \* history: calls that did, unnoticed
          inherited : SUBSET (Handles \X Object)]
NewChild(state, inherited) ==
    [state |-> state, patched |-> {}, failed |-> {}, inherited |-> inherited]
Gone == NewChild("returned", {})

TypeOK ==
    /\ table \in [Handles -> Object \cup {Closed}]
    /\ PebConsole \in {NoHandle, ConsoleHandle}
    /\ opens \in 0..MaxOpens
    /\ pc \in {"idle", "prepare", "query", "type", "set", "std", "clone", "copy_kernelbase",
               "copy_kernel32", "copy_ntdll", "resume", "close_process", "close_thread", "dead"}
    /\ h \in 1..(ScanLimit + 1)
    /\ console_handle \in {NoHandle, ConsoleHandle}
    /\ prepared \subseteq Dll
    /\ process_info \in [ProcessHandle : Handles \cup {NoHandle}, ThreadHandle : Handles \cup {NoHandle}]
    /\ result \in -1..MaxForks
    /\ misses \in {{}} \cup Outcomes
    /\ untouched \subseteq Handles
    /\ children \in Seq(Child) /\ Len(children) <= MaxForks

NoProcess == [ProcessHandle |-> NoHandle, ThreadHandle |-> NoHandle]

\* Handles begin as what they are by default, and two are free for a clone.  A process
\* that has a console has the handle of it in its parameters.
Init ==
    /\ table \in [Handles -> {Opened(k, FALSE) : k \in InitialKinds} \cup {Closed}]
    /\ PebConsole = IF IsOpen(ConsoleHandle) /\ table[ConsoleHandle].kind = "console"
                    THEN ConsoleHandle ELSE NoHandle
    /\ Cardinality({x \in Handles : ~IsOpen(x)}) >= 2
    /\ opens = 0
    /\ pc = "idle"
    /\ h = 1
    /\ console_handle = NoHandle
    /\ prepared = {}
    /\ process_info = NoProcess
    /\ result = -1
    /\ misses = {}
    /\ untouched = {}
    /\ children = << >>

Go(next) == pc' = next

-----------------------------------------------------------------------------
(* The other threads *)

OtherOpens(x, kind, byApp) ==
    /\ pc # "dead"
    /\ ~IsOpen(x) /\ opens < MaxOpens
    /\ table' = [table EXCEPT ![x] = Opened(kind, byApp)]
    /\ opens' = opens + 1
    /\ UNCHANGED <<PebConsole, forker, untouched, children>>

\* The handles fork holds are known to nobody else.  The process parameters go on
\* naming the console's handle when that is closed.
OtherCloses(x) ==
    /\ pc # "dead"
    /\ IsOpen(x) /\ ~table[x].ours
    /\ table' = [table EXCEPT ![x] = Closed]
    /\ untouched' = untouched \ {x}
    /\ UNCHANGED <<others, forker, children>>

\* Another thread detaches the process from its console.
FreeConsole ==
    /\ pc # "dead"
    /\ PebConsole # NoHandle /\ IsOpen(PebConsole) /\ table[PebConsole].kind = "console"
    /\ table' = [table EXCEPT ![PebConsole] = Closed]
    /\ PebConsole' = NoHandle
    /\ untouched' = untouched \ {PebConsole}
    /\ UNCHANGED <<opens, forker, children>>

-----------------------------------------------------------------------------
(* fork *)

\* The handle of the console is read once, in the beginning, and not looked at.
Call ==
    /\ pc = "idle" /\ Len(children) < MaxForks
    /\ console_handle' = PebConsole
    /\ untouched' = {x \in Handles : IsOpen(x)}
    /\ process_info' = NoProcess
    /\ Go("prepare")
    /\ UNCHANGED <<table, others, h, prepared, result, misses, children>>

\* prepare_dll keeps what it has read before; it may fail for any DLL, and
\* nobody looks at what it returns.
Prepare ==
    /\ pc = "prepare"
    /\ \E read \in SUBSET Dll : prepared' = prepared \cup read
    /\ h' = 1
    /\ Go("query")
    /\ UNCHANGED <<table, others, console_handle, process_info, result, misses, untouched, children>>

\* Mutant: process handles are not left out.
SkippedKindsNoProcess == {"console", "Thread"}

\* Left to the application: the console's device, processes and threads.
SkippedKinds == {"console", "Process", "Thread"}

\* Mutant: the bound is taken to be outside.
ScanEndsEarly(x) == x >= ScanLimit

ScanEnds(x) == x > ScanLimit

\* h += 4
NextHandle ==
    /\ h' = h + 1
    /\ Go(IF ScanEnds(h + 1) THEN "std" ELSE "query")

\* What the query of the name (342) leaves out.  It fails for a handle that is not
\* open, and for a name that is too long.
Skipped(x) ==
    \/ x = console_handle
    \/ IsOpen(x) => table[x].kind \in Named \cap (SkippedKinds \cup {"long_name"})

QuerySkips ==
    /\ pc = "query" /\ Skipped(h)
    /\ NextHandle
    /\ UNCHANGED <<table, others, locals, untouched, children>>

\* Of an object that has no name the type is asked, in a second query.
QueryAccepts ==
    /\ pc = "query" /\ ~Skipped(h)
    /\ Go(IF table[h].kind \in Named THEN "set" ELSE "type")
    /\ UNCHANGED <<table, others, h, locals, untouched, children>>

TypeSkips ==
    /\ pc = "type" /\ IsOpen(h) /\ table[h].kind \in SkippedKinds \ Named
    /\ NextHandle
    /\ UNCHANGED <<table, others, locals, untouched, children>>

\* When the second query fails the name is still missing, and that leaves nothing out.
\* What has a name, a console, too, is of type "File".
TypeAccepts ==
    /\ pc = "type" /\ (IsOpen(h) => table[h].kind \notin SkippedKinds \ Named)
    /\ Go("set")
    /\ UNCHANGED <<table, others, h, locals, untouched, children>>

\* SetHandleInformation, on whatever the handle now is; it fails on a closed one.
Inheritable(xs) ==
    [x \in Handles |-> IF x \in xs /\ IsOpen(x) THEN [table[x] EXCEPT !.inherit = TRUE] ELSE table[x]]

SetInherit ==
    /\ pc = "set"
    /\ table' = Inheritable({h})
    /\ NextHandle
    /\ UNCHANGED <<others, locals, untouched, children>>

SetStdInherit ==
    /\ pc = "std"
    /\ table' = Inheritable(StdHandles)
    /\ Go("clone")
    /\ h' = 1
    /\ UNCHANGED <<others, locals, untouched, children>>

Inherited == {<<x, table[x]>> : x \in {y \in Handles : IsOpen(y) /\ table[y].inherit}}

\* RtlCloneUserProcess creates a child in the given state, and a handle for its
\* process and one for its thread.
CloneInto(state) ==
    \E p, t \in Handles :
        /\ p # t /\ ~IsOpen(p) /\ ~IsOpen(t)
        /\ process_info' = [ProcessHandle |-> p, ThreadHandle |-> t]
        /\ table' = [table EXCEPT
                        ![p] = [Opened("Process", FALSE) EXCEPT !.ours = TRUE],
                        ![t] = [Opened("Thread", FALSE) EXCEPT !.ours = TRUE]]
        /\ children' = Append(children, NewChild(state, Inherited))

\* Mutant: the child is not created suspended.
CloneRunning ==
    /\ pc = "clone"
    /\ CloneInto("running")
    /\ untouched' = {}
    /\ Go("copy_kernelbase")
    /\ UNCHANGED <<others, h, console_handle, prepared, result, misses>>

Clone ==
    /\ pc = "clone"
    /\ CloneInto("suspended")
    /\ untouched' = {}
    /\ Go("copy_kernelbase")
    /\ UNCHANGED <<others, h, console_handle, prepared, result, misses>>

\* Mutant: the failure is reported as the child's zero.
CloneFailsQuietly ==
    /\ pc = "clone"
    /\ result' = 0
    /\ untouched' = {}
    /\ Go("idle")
    /\ UNCHANGED <<table, others, h, console_handle, prepared, process_info, misses, children>>

CloneFails ==
    /\ pc = "clone"
    /\ result' = -1
    /\ untouched' = {}
    /\ Go("idle")
    /\ UNCHANGED <<table, others, h, console_handle, prepared, process_info, misses, children>>

\* The child of the call under way is the last one.
Patch(what) == children' = [children EXCEPT ![Len(children)].patched = @ \cup {what}]

\* Bound: of the calls made for children that have not returned one fails unnoticed,
\* and if it should have written data, in the last fork.
NothingFailed == \A c \in DOMAIN children : children[c].failed = {}
Fail(call) ==
    /\ NothingFailed /\ (call = "resume" \/ Len(children) = MaxForks)
    /\ children' = [children EXCEPT ![Len(children)].failed = {call}]

\* copy_memory; a DLL that was not prepared is a null pointer.  Nobody looks whether
\* the data was written.
CopyDll(dll, at, next) ==
    /\ pc = at
    /\ IF dll \in prepared
       THEN (Patch(dll) \/ Fail(dll)) /\ Go(next)
       ELSE Go("dead") /\ UNCHANGED children
    /\ UNCHANGED <<table, others, h, locals, untouched>>

CopyMemoryTo ==
    /\ pc = "copy_ntdll"
    /\ Patch("ntdll")
    /\ misses' \in Outcomes
    /\ Go("resume")
    /\ UNCHANGED <<table, others, h, console_handle, prepared, process_info, result, untouched>>

\* Mutant: the child is left suspended.
ResumeForgotten ==
    /\ pc = "resume"
    /\ Go("close_process")
    /\ UNCHANGED <<table, others, h, locals, untouched, children>>

\* The memory is the child's own matter from now on.  Nobody looks whether it runs.
ResumeThread ==
    /\ pc = "resume"
    /\ \/ children' = [children EXCEPT ![Len(children)].state = "running"]
       \/ Fail("resume")
    /\ misses' = {}
    /\ Go("close_process")
    /\ UNCHANGED <<table, others, h, console_handle, prepared, process_info, result, untouched>>

CloseProcess ==
    /\ pc = "close_process"
    /\ table' = [table EXCEPT ![process_info.ProcessHandle] = Closed]
    /\ Go("close_thread")
    /\ UNCHANGED <<others, h, locals, untouched, children>>

\* Mutant: a clean-up at the end closes both handles, one of them for the second time.
CloseBothAndReturn ==
    /\ pc = "close_thread"
    /\ table' = [table EXCEPT ![process_info.ThreadHandle] = Closed,
                              ![process_info.ProcessHandle] = Closed]
    /\ result' = Len(children)
    /\ Go("idle")
    /\ UNCHANGED <<others, h, console_handle, prepared, process_info, misses, untouched, children>>

\* The last handle is closed and the child's number returned.
CloseThreadAndReturn ==
    /\ pc = "close_thread"
    /\ table' = [table EXCEPT ![process_info.ThreadHandle] = Closed]
    /\ result' = Len(children)
    /\ Go("idle")
    /\ UNCHANGED <<others, h, console_handle, prepared, process_info, misses, untouched, children>>

\* The child's side of fork: child_entry, the working directory, return 0.  What it
\* inherited is its own matter then.
ChildReturns(c) ==
    /\ children[c].state = "running"
    /\ children' = [children EXCEPT ![c] = Gone]
    /\ UNCHANGED <<table, others, forker, untouched>>

ForkStep ==
    \/ Prepare \/ QuerySkips \/ QueryAccepts \/ TypeSkips \/ TypeAccepts \/ SetInherit \/ SetStdInherit
    \/ Clone \/ CloneFails
    \/ CopyDll("kernelbase", "copy_kernelbase", "copy_kernel32")
    \/ CopyDll("kernel32", "copy_kernel32", "copy_ntdll")
    \/ CopyMemoryTo \/ ResumeThread \/ CloseProcess \/ CloseThreadAndReturn

Next ==
    \/ Call \/ ForkStep
    \/ \E c \in DOMAIN children : ChildReturns(c)
    \/ \E x \in Handles : OtherCloses(x)
    \/ FreeConsole
    \/ \E x \in Handles, kind \in OtherKinds, byApp \in BOOLEAN : OtherOpens(x, kind, byApp)

Spec == Init /\ [][Next]_vars

\* Windows keeps scheduling the forking thread, and the child once it is resumed.
FairSpec ==
    /\ Spec
    /\ WF_vars(ForkStep)
    /\ \A c \in 1..MaxForks : WF_vars(c \in DOMAIN children /\ ChildReturns(c))

-----------------------------------------------------------------------------
(* Properties *)

\* A child executes nothing before all it lacks has been written into it, or could
\* not be written: copy_memory's result is dropped (line 374).
ChildRunsPatched ==
    \A c \in DOMAIN children :
        children[c].state = "running" => children[c].patched = Patches \ children[c].failed

\* When a child is resumed it has every page that ntdll points to and the parent can read:
\* holes, blocks of many regions and what the clone has already do not make the
\* copying skip any.  The exception is a block that the pointers meet at a lower
\* region first: it is reserved up to there and cannot be reserved again (line 310).
ChildHasItsMemory == pc = "resume" => "unknown" \notin misses

\* What a child inherits besides its standard handles is what the code means it
\* to: of consoles, processes and threads only what the application made
\* inheritable itself ("(Process and Thread)es should be set inherit by
\* application. not fork.", line 353).
NoForeignHandles ==
    \A c \in DOMAIN children : \A i \in children[c].inherited :
        i[2].kind \in {"console", "Process", "Thread"} => i[2].byApp \/ i[1] \in StdHandles

\* A file or an event that was open all through the call is inherited, whatever other
\* threads open and close meanwhile, if the scan reaches its handle.  The exception is
\* the value that the process parameters had for the console: line 339 passes over it
\* unasked, and when the console was closed something else may have it.
FilesAreInherited ==
    [][\A c \in DOMAIN children' \ DOMAIN children :
        \A x \in untouched \ {console_handle} :
            x <= ScanLimit /\ table[x].kind \in {"file", "event"}
                => <<x, table[x]>> \in children'[c].inherited]_vars

\* A call that came back, on whichever path, leaves no handle of its own behind.
NoHandleLeft == pc = "idle" => \A x \in Handles : ~table[x].ours

\* What fork closes is its own, all of it and nothing else: neither what another thread
\* has opened, perhaps on a value that fork has just closed, nor what was there before
\* (lines 378-379).
ClosesItsOwn ==
    /\ []NoHandleLeft
    /\ [][pc' # pc => \A x \in Handles : IsOpen(x) /\ table'[x] = Closed => table[x].ours]_vars

\* fork returns a child's number after it resumed it, and -1 without a child: no call
\* that came back has left one suspended, but where ResumeThread failed (line 377).
ResultsTellTheTruth ==
    pc = "idle" =>
        /\ \A c \in DOMAIN children :
                children[c].state = "suspended" => "resume" \in children[c].failed
        /\ result = IF process_info = NoProcess THEN -1 ELSE Len(children)

\* A suspended child whose parent has read both DLLs gets to return from fork, unless
\* it could not be resumed.
ChildrenReturn ==
    \A c \in 1..MaxForks :
        (c \in DOMAIN children /\ prepared = Dll)
            ~> /\ c \in DOMAIN children
               /\ children[c].state = "returned" \/ "resume" \in children[c].failed
=============================================================================
