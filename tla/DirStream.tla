----------------------------- MODULE DirStream -----------------------------
(***************************************************************************)
(* The directory stream of src/dirent: opendir, fdopendir, closedir,       *)
(* readdir_r, rewinddir and the readdir they share, over one DIR used by   *)
(* several threads while other programs change the directory.              *)
(*                                                                         *)
(* A name is its rank in the order in which the file system lists the      *)
(* directory.  The file system keeps, per open handle, the rank of the     *)
(* last name it returned (cursor); a query returns some of the next names  *)
(* at once, as many as fit the 4096 byte buffer, and readdir then takes    *)
(* them out of the buffer one by one.                                      *)
(*                                                                         *)
(* ub_index and ub_len count entries where the code counts bytes.          *)
(* delivered, present and absent are history variables: no action reads    *)
(* them, they only let the stream be compared with DirStreamSpec.          *)
(***************************************************************************)
EXTENDS Naturals

CONSTANTS
    Threads,    \* the threads that share the stream
    NoThread,   \* the free lock
    MaxName,    \* names are 1..MaxName
    MaxBatch    \* the most entries the buffer holds

ASSUME NamesAssumption == MaxName \in Nat /\ MaxBatch \in Nat \ {0}
ASSUME LockAssumption == NoThread \notin Threads

Names == 1..MaxName

\* errno: none, one the caller had before the call, one set by a failing query.
CallerErrno == 1
QueryErrno == 2
Errnos == {0, CallerErrno, QueryErrno}

VARIABLES
    dir,        \* the names in the directory now
    cursor,     \* the file system's scan position of the handle
    open,       \* there is a DIR
    restart_,   \* DIR.restart_: the next query starts over
    uni_buffer, \* DIR.uni_buffer: the names of the last successful query
    ub_len,     \* DIR.ub_len: how many there are
    ub_index,   \* DIR.ub_index: how many of them were taken
    abuf,       \* DIR.abuf: the entry decoded last (0: none)
    lock,       \* DIR.lock
    pc,         \* pc[t]: where thread t is
    errno,      \* errno[t]: the errno of thread t
    errno_save, \* errno_save[t]: the local of readdir_r
    de,         \* de[t]: readdir returned an entry
    ret,        \* ret[t]: the return value of readdir_r
    buf,        \* buf[t]: the entry *result points to (0: NULL)
    delivered, present, absent

stream == <<cursor, restart_, uni_buffer, ub_len, ub_index, abuf>>
locals == <<errno, errno_save, de, ret, buf>>
history == <<delivered, present, absent>>
vars == <<dir, open, stream, lock, pc, locals, history>>

PCs == {"idle", "lockRead", "test", "query", "decode", "copy", "unlockRead",
        "done", "lockRewind", "restart", "unlockRewind"}

TypeOK ==
    /\ dir \in SUBSET Names
    /\ cursor \in 0..MaxName
    /\ open \in BOOLEAN
    /\ restart_ \in BOOLEAN
    /\ ub_len \in 0..MaxBatch
    /\ uni_buffer \in [1..ub_len -> Names]
    /\ ub_index \in 0..ub_len
    /\ abuf \in 0..MaxName
    /\ lock \in Threads \cup {NoThread}
    /\ pc \in [Threads -> PCs]
    /\ errno \in [Threads -> Errnos]
    /\ errno_save \in [Threads -> Errnos]
    /\ de \in [Threads -> BOOLEAN]
    /\ ret \in [Threads -> Errnos]
    /\ buf \in [Threads -> 0..MaxName]
    /\ delivered \in SUBSET Names
    /\ present \in SUBSET Names
    /\ absent \in SUBSET Names

Init ==
    /\ dir \in SUBSET Names
    /\ cursor = 0
    /\ open = FALSE
    /\ restart_ = FALSE
    /\ uni_buffer = [i \in 1..0 |-> 0] /\ ub_len = 0 /\ ub_index = 0
    /\ abuf = 0
    /\ lock = NoThread
    /\ pc = [t \in Threads |-> "idle"]
    /\ errno = [t \in Threads |-> 0]
    /\ errno_save = [t \in Threads |-> 0]
    /\ de = [t \in Threads |-> FALSE]
    /\ ret = [t \in Threads |-> 0]
    /\ buf = [t \in Threads |-> 0]
    /\ delivered = {} /\ present = {} /\ absent = {}

StartOver ==
    /\ delivered' = {}
    /\ present' = dir
    /\ absent' = Names \ dir

-----------------------------------------------------------------------------
(* Opening and closing.  Both constructors calloc the DIR.                 *)

NewDIR ==
    /\ ~open
    /\ open' = TRUE
    /\ uni_buffer' = [i \in 1..0 |-> 0] /\ ub_len' = 0 /\ ub_index' = 0
    /\ abuf' = 0
    /\ lock' = NoThread
    /\ StartOver
    /\ UNCHANGED <<dir, pc, locals>>

\* A new handle: the scan stands at the start and restart_ stays 0.
opendir ==
    /\ NewDIR
    /\ cursor' = 0
    /\ restart_' = FALSE

\* The caller's handle: its scan may stand anywhere, so restart_ is set.
fdopendir ==
    /\ NewDIR
    /\ cursor' \in 0..MaxName
    /\ restart_' = TRUE

\* Closing while another thread is in a call is the caller's error.  The handle
\* and the memory are gone, so what they held is forgotten.
closedir ==
    /\ open
    /\ \A t \in Threads : pc[t] = "idle"
    /\ open' = FALSE
    /\ cursor' = 0 /\ restart_' = FALSE
    /\ uni_buffer' = [i \in 1..0 |-> 0] /\ ub_len' = 0 /\ ub_index' = 0
    /\ abuf' = 0
    /\ delivered' = {} /\ present' = {} /\ absent' = {}
    /\ UNCHANGED <<dir, lock, pc, locals>>

-----------------------------------------------------------------------------
(* readdir_r, with the readdir it calls.  Everything between Acquire and   *)
(* Release touches the DIR under its lock.                                 *)

Goto(t, label) == pc' = [pc EXCEPT ![t] = label]

\* A thread calls with any errno of its own.
CallReaddirR(t) ==
    /\ open
    /\ pc[t] = "idle"
    /\ \E e \in {0, CallerErrno} : errno' = [errno EXCEPT ![t] = e]
    /\ Goto(t, "lockRead")
    /\ UNCHANGED <<dir, open, stream, lock, errno_save, de, ret, buf, history>>

AcquireRead(t) ==
    /\ pc[t] = "lockRead"
    /\ lock = NoThread
    /\ lock' = t
    /\ errno_save' = [errno_save EXCEPT ![t] = errno[t]]
    /\ errno' = [errno EXCEPT ![t] = 0]
    /\ Goto(t, "test")
    /\ UNCHANGED <<dir, open, stream, de, ret, buf, history>>

\* Are there entries left in the buffer, and may they still be used?
TestBuffer(t) ==
    /\ pc[t] = "test"
    /\ Goto(t, IF ub_len <= ub_index \/ restart_ THEN "query" ELSE "decode")
    /\ UNCHANGED <<dir, open, stream, lock, locals, history>>

\* The names the file system has still to list, from the start when asked to restart.
Ahead == {n \in dir : restart_ \/ cursor < n}

\* b lists the first names of S, in order.
IsBatch(b, len, S) ==
    /\ \A i, j \in 1..len : i < j => b[i] < b[j]
    /\ \A n \in S : n < b[len] => \E i \in 1..len : b[i] = n

QueryEntries(t) ==
    /\ pc[t] = "query"
    /\ \E len \in 1..MaxBatch : \E b \in [1..len -> Ahead] :
        /\ IsBatch(b, len, Ahead)
        /\ uni_buffer' = b
        /\ ub_len' = len
        /\ cursor' = b[len]
    /\ restart_' = FALSE
    /\ ub_index' = 0
    /\ Goto(t, "decode")
    /\ UNCHANGED <<dir, open, abuf, lock, locals, history>>

\* readdir returns 0 without touching the DIR.
NoEntry(t, e) ==
    /\ errno' = [errno EXCEPT ![t] = e]
    /\ de' = [de EXCEPT ![t] = FALSE]
    /\ Goto(t, "copy")
    /\ UNCHANGED <<dir, open, stream, lock, errno_save, ret, buf, history>>

QueryNoMoreFiles(t) ==
    /\ pc[t] = "query"
    /\ Ahead = {}
    /\ NoEntry(t, 0)

\* Any query may fail: the volume is gone, memory is short, ...
QueryFails(t) ==
    /\ pc[t] = "query"
    /\ NoEntry(t, QueryErrno)

Decode(t) ==
    /\ pc[t] = "decode"
    /\ abuf' = uni_buffer[ub_index + 1]
    /\ ub_index' = ub_index + 1
    /\ de' = [de EXCEPT ![t] = TRUE]
    /\ delivered' = delivered \cup {uni_buffer[ub_index + 1]}
    /\ Goto(t, "copy")
    /\ UNCHANGED <<dir, open, cursor, restart_, uni_buffer, ub_len, lock,
                   errno, errno_save, ret, buf, present, absent>>

\* Mutant: the entry is copied out whether readdir returned one or not.
CopyOutAlways(t) ==
    /\ pc[t] = "copy"
    /\ ret' = [ret EXCEPT ![t] = errno[t]]
    /\ IF errno[t] # 0
       THEN UNCHANGED <<errno, buf>>
       ELSE /\ errno' = [errno EXCEPT ![t] = errno_save[t]]
            /\ buf' = [buf EXCEPT ![t] = abuf]
    /\ Goto(t, "unlockRead")
    /\ UNCHANGED <<dir, open, stream, lock, errno_save, de, history>>

\* Mutant: errno is not given back.
CopyOutKeepsErrno(t) ==
    /\ pc[t] = "copy"
    /\ ret' = [ret EXCEPT ![t] = errno[t]]
    /\ IF errno[t] # 0
       THEN UNCHANGED buf
       ELSE buf' = [buf EXCEPT ![t] = IF de[t] THEN abuf ELSE 0]
    /\ Goto(t, "unlockRead")
    /\ UNCHANGED <<dir, open, stream, lock, errno, errno_save, de, history>>

\* Back in readdir_r: report the error, or restore errno and copy the entry out.
CopyOut(t) ==
    /\ pc[t] = "copy"
    /\ ret' = [ret EXCEPT ![t] = errno[t]]
    /\ IF errno[t] # 0
       THEN UNCHANGED <<errno, buf>>
       ELSE /\ errno' = [errno EXCEPT ![t] = errno_save[t]]
            /\ buf' = [buf EXCEPT ![t] = IF de[t] THEN abuf ELSE 0]
    /\ Goto(t, "unlockRead")
    /\ UNCHANGED <<dir, open, stream, lock, errno_save, de, history>>

\* Mutant: the error path returns with the lock held.
ReleaseReadForgotten(t) ==
    /\ pc[t] = "unlockRead"
    /\ lock' = IF ret[t] # 0 THEN lock ELSE NoThread
    /\ Goto(t, "done")
    /\ UNCHANGED <<dir, open, stream, locals, history>>

ReleaseRead(t) ==
    /\ pc[t] = "unlockRead"
    /\ lock' = NoThread
    /\ Goto(t, "done")
    /\ UNCHANGED <<dir, open, stream, locals, history>>

\* The caller takes the answer; the locals of the call are gone, and errno is
\* the caller's to change until its next call.
ReturnRead(t) ==
    /\ pc[t] = "done"
    /\ Goto(t, "idle")
    /\ errno' = [errno EXCEPT ![t] = 0]
    /\ errno_save' = [errno_save EXCEPT ![t] = 0]
    /\ de' = [de EXCEPT ![t] = FALSE]
    /\ ret' = [ret EXCEPT ![t] = 0]
    /\ buf' = [buf EXCEPT ![t] = 0]
    /\ UNCHANGED <<dir, open, stream, lock, history>>

-----------------------------------------------------------------------------
(* rewinddir                                                               *)

CallRewinddir(t) ==
    /\ open
    /\ pc[t] = "idle"
    /\ Goto(t, "lockRewind")
    /\ UNCHANGED <<dir, open, stream, lock, locals, history>>

\* Mutant: rewinddir does not wait for the lock.
AcquireRewindUnguarded(t) ==
    /\ pc[t] = "lockRewind"
    /\ Goto(t, "restart")
    /\ UNCHANGED <<dir, open, stream, lock, locals, history>>

AcquireRewind(t) ==
    /\ pc[t] = "lockRewind"
    /\ lock = NoThread
    /\ lock' = t
    /\ Goto(t, "restart")
    /\ UNCHANGED <<dir, open, stream, locals, history>>

\* Mutant: only the buffer is dropped, the file system's scan goes on.
RestartBufferOnly(t) ==
    /\ pc[t] = "restart"
    /\ ub_index' = ub_len
    /\ StartOver
    /\ Goto(t, "unlockRewind")
    /\ UNCHANGED <<dir, open, cursor, restart_, uni_buffer, ub_len, abuf, lock, locals>>

Restart(t) ==
    /\ pc[t] = "restart"
    /\ restart_' = TRUE
    /\ ub_index' = 0
    /\ StartOver
    /\ Goto(t, "unlockRewind")
    /\ UNCHANGED <<dir, open, cursor, uni_buffer, ub_len, abuf, lock, locals>>

ReleaseRewind(t) ==
    /\ pc[t] = "unlockRewind"
    /\ lock' = NoThread
    /\ Goto(t, "idle")
    /\ UNCHANGED <<dir, open, stream, locals, history>>

-----------------------------------------------------------------------------
(* Other programs change the directory.                                    *)

Create(n) ==
    /\ n \notin dir
    /\ dir' = dir \cup {n}
    /\ present' = present \cup {n}
    /\ UNCHANGED <<open, stream, lock, pc, locals, delivered, absent>>

Delete(n) ==
    /\ n \in dir
    /\ dir' = dir \ {n}
    /\ absent' = absent \cup {n}
    /\ UNCHANGED <<open, stream, lock, pc, locals, delivered, present>>

-----------------------------------------------------------------------------
\* The steps a thread takes inside a call: once in, it does not stop.
Step(t) ==
    \/ AcquireRead(t) \/ TestBuffer(t)
    \/ QueryEntries(t) \/ QueryNoMoreFiles(t) \/ QueryFails(t)
    \/ Decode(t) \/ CopyOut(t) \/ ReleaseRead(t) \/ ReturnRead(t)
    \/ AcquireRewind(t) \/ Restart(t) \/ ReleaseRewind(t)

Next ==
    \/ opendir \/ fdopendir \/ closedir
    \/ \E t \in Threads : CallReaddirR(t) \/ CallRewinddir(t) \/ Step(t)
    \/ \E n \in Names : Create(n) \/ Delete(n)

Spec == Init /\ [][Next]_vars

\* The scheduler runs every thread that can run.  Nothing is assumed of the
\* order in which an SRW lock is handed out, of callers, or of other programs.
FairSpec == Spec /\ \A t \in Threads : WF_vars(Step(t))

-----------------------------------------------------------------------------
(* Properties                                                              *)

Holders == {"test", "query", "decode", "copy", "unlockRead", "restart", "unlockRewind"}

\* The lock admits one thread at a time to the DIR: whoever is between Acquire
\* and Release holds it (readdir_r.c:13-27, rewinddir.c:7-10).
MutualExclusion == \A t \in Threads : pc[t] \in Holders <=> lock = t

\* Where the scan stands.  While a restart is pending nothing was delivered;
\* otherwise the buffer lists names in order up to the file system's cursor, and
\* every name up to the cursor was delivered, is still in the buffer, or was
\* missing at some moment (readdir.c:29-49,61-65).
Buffered == {uni_buffer[i] : i \in (ub_index + 1)..ub_len}

ScanPosition ==
    open =>
        /\ restart_ => delivered = {}
        /\ ~restart_ =>
            /\ \A i, j \in 1..ub_len : i < j => uni_buffer[i] < uni_buffer[j]
            /\ \A i \in 1..ub_len : uni_buffer[i] <= cursor
            /\ \A n \in delivered : n <= cursor
            /\ Buffered \subseteq present \ delivered
            /\ \A n \in 1..cursor : n \in delivered \cup Buffered \cup absent
        /\ dir \subseteq present
        /\ Names \ dir \subseteq absent

\* What the test on entry has settled still holds when the thread acts on it: an
\* entry is only decoded when one is left that no rewind has made stale, and the
\* error number is clear until a query fails (readdir.c:29, readdir_r.c:14-16).
TestStillHolds ==
    \A t \in Threads :
        /\ pc[t] # "idle" => open
        /\ pc[t] = "query" => restart_ \/ ub_len <= ub_index
        /\ pc[t] = "decode" => ~restart_ /\ ub_index < ub_len
        /\ pc[t] \in {"test", "query", "decode"} => errno[t] = 0
        /\ pc[t] = "copy" /\ de[t] => abuf # 0

\* A thread's errno is its own again after a call that succeeded, and tells the
\* error after one that failed (readdir_r.c:10-20).
ErrnoKept ==
    \A t \in Threads :
        pc[t] = "done" => errno[t] = IF ret[t] = 0 THEN errno_save[t] ELSE ret[t]

\* Every path out of a call, the error path included, gives the lock back
\* (readdir_r.c:16-24): no thread keeps the others out for ever.
LockReleased == \A t \in Threads : lock = t ~> lock # t

\* The stream implements DirStreamSpec: a read takes effect when the entry is
\* decoded or the query fails, a rewind when restart_ is set.
absStage == [t \in Threads |->
    CASE pc[t] \in {"lockRead", "test", "query", "decode"} -> "read"
      [] pc[t] \in {"copy", "unlockRead", "done"} -> "replied"
      [] pc[t] \in {"lockRewind", "restart"} -> "rewind"
      [] pc[t] = "unlockRewind" -> "rewound"
      [] OTHER -> "idle"]

Reply(err, name) ==
    [status |-> IF err # 0 THEN "error" ELSE IF name # 0 THEN "entry" ELSE "end",
     name |-> IF err # 0 THEN 0 ELSE name]

absReply == [t \in Threads |->
    CASE pc[t] = "copy" -> Reply(errno[t], IF de[t] THEN abuf ELSE 0)
      [] pc[t] \in {"unlockRead", "done"} -> Reply(ret[t], buf[t])
      [] OTHER -> [status |-> "none", name |-> 0]]

Abstract == INSTANCE DirStreamSpec WITH stage <- absStage, reply <- absReply

\* What the threads see is a directory stream: every entry at most once between
\* rewinds, no stale entry after a rewind, no entry missed before the end, no
\* entry lost to an error, no entry of one thread overwritten by another.
Refines == Abstract!Spec
=============================================================================
