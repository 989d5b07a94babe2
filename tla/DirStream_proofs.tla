-------------------------- MODULE DirStream_proofs --------------------------
(***************************************************************************)
(* Theorems about DirStream, for every set of threads, every directory     *)
(* size and every buffer capacity.                                         *)
(***************************************************************************)
EXTENDS DirStream, TLAPS

\* The inductive invariant: the lock protects the stream, what was tested under
\* the lock stays true, and the buffer agrees with the file system's cursor.
IInv == TypeOK /\ MutualExclusion /\ TestStillHolds /\ ScanPosition

USE NamesAssumption, LockAssumption

\* Every variable keeps its type: in particular ub_index never passes ub_len and
\* the buffer always holds ub_len entries (readdir.c:46-48, 61-65).
LEMMA TypeInv == TypeOK /\ TestStillHolds /\ [Next]_vars => TypeOK'
<1> SUFFICES ASSUME TypeOK, TestStillHolds, [Next]_vars PROVE TypeOK'
    OBVIOUS
<1>a. [i \in 1..0 |-> 0] \in [1..0 -> Names] /\ 0 \in 0..MaxBatch /\ 0 \in 0..0 /\ 0 \in 0..MaxName
    OBVIOUS
<1> USE DEF TypeOK, Errnos, CallerErrno, QueryErrno, PCs, Goto, StartOver, NewDIR,
            NoEntry, stream, locals, history
<1>1. CASE opendir BY <1>a, <1>1 DEF opendir
<1>2. CASE fdopendir BY <1>a, <1>2 DEF fdopendir
<1>3. CASE closedir BY <1>a, <1>3 DEF closedir
<1>4. ASSUME NEW t \in Threads, CallReaddirR(t) \/ CallRewinddir(t) PROVE TypeOK'
    BY <1>4 DEF CallReaddirR, CallRewinddir
<1>5. ASSUME NEW t \in Threads, Step(t) PROVE TypeOK'
  <2>1. CASE AcquireRead(t) BY <2>1 DEF AcquireRead
  <2>2. CASE TestBuffer(t) BY <2>2 DEF TestBuffer
  <2>3. CASE QueryEntries(t)
    <3>1. PICK len \in 1..MaxBatch : \E b \in [1..len -> Ahead] :
            uni_buffer' = b /\ ub_len' = len /\ cursor' = b[len]
        BY <2>3 DEF QueryEntries
    <3>2. uni_buffer' \in [1..len -> Ahead] /\ ub_len' = len /\ cursor' = uni_buffer'[len]
        BY <3>1
    <3>3. Ahead \subseteq Names BY DEF Ahead
    <3>4. len \in 1..len /\ len \in 0..MaxBatch /\ 0 \in 0..len OBVIOUS
    <3>5. Names \subseteq 0..MaxName BY DEF Names
    <3>6. cursor' \in 0..MaxName BY <3>2, <3>3, <3>4, <3>5
    <3>7. uni_buffer' \in [1..ub_len' -> Names] BY <3>2, <3>3
    <3>8. ub_index' \in 0..ub_len' BY <2>3, <3>2, <3>4 DEF QueryEntries
    <3> QED BY <2>3, <3>2, <3>4, <3>6, <3>7, <3>8 DEF QueryEntries
  <2>4. CASE QueryNoMoreFiles(t) BY <2>4 DEF QueryNoMoreFiles
  <2>5. CASE QueryFails(t) BY <2>5 DEF QueryFails
  <2>6. CASE Decode(t)
    <3>1. ub_index < ub_len BY <2>6 DEF Decode, TestStillHolds
    <3>2. ub_index + 1 \in 1..ub_len /\ ub_index + 1 \in 0..ub_len BY <3>1
    <3>3. uni_buffer[ub_index + 1] \in Names BY <3>2
    <3>4. Names \subseteq 0..MaxName BY DEF Names
    <3> QED BY <2>6, <3>2, <3>3, <3>4 DEF Decode
  <2>7. CASE CopyOut(t) BY <2>7 DEF CopyOut
  <2>8. CASE ReleaseRead(t) BY <2>8 DEF ReleaseRead
  <2>9. CASE ReturnRead(t) BY <2>9 DEF ReturnRead
  <2>10. CASE AcquireRewind(t) BY <2>10 DEF AcquireRewind
  <2>11. CASE Restart(t) BY <2>11 DEF Restart
  <2>12. CASE ReleaseRewind(t) BY <2>12 DEF ReleaseRewind
  <2> QED BY <1>5, <2>1, <2>2, <2>3, <2>4, <2>5, <2>6, <2>7, <2>8, <2>9, <2>10, <2>11, <2>12 DEF Step
<1>6. ASSUME NEW n \in Names, Create(n) \/ Delete(n) PROVE TypeOK'
    BY <1>6 DEF Create, Delete
<1>7. CASE UNCHANGED vars BY <1>7 DEF vars
<1> QED BY <1>1, <1>2, <1>3, <1>4, <1>5, <1>6, <1>7 DEF Next

\* One thread at a time is between Acquire and Release.
LEMMA LockInv ==
    TypeOK /\ MutualExclusion /\ TestStillHolds /\ [Next]_vars => MutualExclusion'
<1> SUFFICES ASSUME TypeOK, MutualExclusion, TestStillHolds, [Next]_vars PROVE MutualExclusion'
    OBVIOUS
<1> USE DEF MutualExclusion, Holders, Goto
<1>0. pc \in [Threads -> PCs] /\ lock \in Threads \cup {NoThread} BY DEF TypeOK
<1>1. CASE opendir \/ fdopendir
    BY <1>1, <1>0 DEF opendir, fdopendir, NewDIR, TestStillHolds
<1>2. CASE closedir BY <1>2 DEF closedir
<1>3. ASSUME NEW t \in Threads, CallReaddirR(t) \/ CallRewinddir(t) PROVE MutualExclusion'
    BY <1>3, <1>0 DEF CallReaddirR, CallRewinddir
<1>4. ASSUME NEW t \in Threads, Step(t) PROVE MutualExclusion'
  <2>1. CASE AcquireRead(t) BY <2>1, <1>0 DEF AcquireRead
  <2>2. CASE TestBuffer(t) BY <2>2, <1>0 DEF TestBuffer
  <2>3. CASE QueryEntries(t) BY <2>3, <1>0 DEF QueryEntries
  <2>4. CASE QueryNoMoreFiles(t) \/ QueryFails(t)
      BY <2>4, <1>0 DEF QueryNoMoreFiles, QueryFails, NoEntry
  <2>5. CASE Decode(t) BY <2>5, <1>0 DEF Decode
  <2>6. CASE CopyOut(t) BY <2>6, <1>0 DEF CopyOut
  <2>7. CASE ReleaseRead(t) BY <2>7, <1>0 DEF ReleaseRead
  <2>8. CASE ReturnRead(t) BY <2>8, <1>0 DEF ReturnRead
  <2>9. CASE AcquireRewind(t) BY <2>9, <1>0 DEF AcquireRewind
  <2>10. CASE Restart(t) BY <2>10, <1>0 DEF Restart
  <2>11. CASE ReleaseRewind(t) BY <2>11, <1>0 DEF ReleaseRewind
  <2> QED BY <1>4, <2>1, <2>2, <2>3, <2>4, <2>5, <2>6, <2>7, <2>8, <2>9, <2>10, <2>11 DEF Step
<1>5. ASSUME NEW n \in Names, Create(n) \/ Delete(n) PROVE MutualExclusion'
    BY <1>5 DEF Create, Delete
<1>6. CASE UNCHANGED vars BY <1>6 DEF vars
<1> QED BY <1>1, <1>2, <1>3, <1>4, <1>5, <1>6 DEF Next

\* The outcome of the test survives until the thread acts on it, because only the
\* holder of the lock changes the stream.
LEMMA TestInv ==
    TypeOK /\ MutualExclusion /\ TestStillHolds /\ [Next]_vars => TestStillHolds'
<1> SUFFICES ASSUME TypeOK, MutualExclusion, TestStillHolds, [Next]_vars PROVE TestStillHolds'
    OBVIOUS
<1> USE DEF TestStillHolds, Goto
<1>0. /\ pc \in [Threads -> PCs] /\ lock \in Threads \cup {NoThread}
      /\ errno \in [Threads -> Errnos] /\ de \in [Threads -> BOOLEAN]
      /\ ub_len \in Nat /\ ub_index \in Nat /\ abuf \in Nat
    BY DEF TypeOK
<1>m. \A s, t \in Threads : pc[s] \in Holders /\ pc[t] \in Holders => s = t
    BY DEF MutualExclusion
<1>1. CASE opendir \/ fdopendir
    BY <1>1 DEF opendir, fdopendir, NewDIR, locals
<1>2. CASE closedir BY <1>2 DEF closedir
<1>3. ASSUME NEW t \in Threads, CallReaddirR(t) PROVE TestStillHolds'
    BY <1>3, <1>0 DEF CallReaddirR, stream
<1>4. ASSUME NEW t \in Threads, CallRewinddir(t) PROVE TestStillHolds'
    BY <1>4, <1>0 DEF CallRewinddir, stream, locals
<1>5. ASSUME NEW t \in Threads, Step(t) PROVE TestStillHolds'
  <2>1. CASE AcquireRead(t) BY <2>1, <1>0 DEF AcquireRead, stream
  <2>2. CASE TestBuffer(t) BY <2>2, <1>0 DEF TestBuffer, stream, locals
  <2>3. CASE QueryEntries(t)
    <3>1. /\ ub_index' = 0 /\ ~restart_' /\ ub_len' \in Nat \ {0}
          /\ pc' = [pc EXCEPT ![t] = "decode"]
          /\ UNCHANGED <<open, errno, de, abuf>>
        BY <2>3 DEF QueryEntries, locals
    <3>2. \A s \in Threads : s # t => pc[s] \notin Holders BY <2>3, <1>m DEF QueryEntries, Holders
    <3> QED BY <2>3, <3>1, <3>2, <1>0 DEF Holders, QueryEntries
  <2>4. CASE QueryNoMoreFiles(t) \/ QueryFails(t)
      BY <2>4, <1>0 DEF QueryNoMoreFiles, QueryFails, NoEntry, stream
  <2>5. CASE Decode(t)
    <3>1. uni_buffer[ub_index + 1] \in Names
      <4>1. ub_index + 1 \in 1..ub_len BY <2>5, <1>0 DEF Decode
      <4> QED BY <4>1 DEF TypeOK
    <3>2. abuf' # 0 BY <2>5, <3>1 DEF Decode, Names
    <3>3. \A s \in Threads : s # t => pc[s] \notin Holders BY <2>5, <1>m DEF Decode, Holders
    <3> QED BY <2>5, <3>2, <3>3, <1>0 DEF Decode, Holders
  <2>6. CASE CopyOut(t) BY <2>6, <1>0 DEF CopyOut, stream
  <2>7. CASE ReleaseRead(t) BY <2>7, <1>0 DEF ReleaseRead, stream, locals
  <2>8. CASE ReturnRead(t) BY <2>8, <1>0 DEF ReturnRead, stream
  <2>9. CASE AcquireRewind(t) BY <2>9, <1>0 DEF AcquireRewind, stream, locals
  <2>10. CASE Restart(t)
    <3>1. \A s \in Threads : s # t => pc[s] \notin Holders BY <2>10, <1>m DEF Restart, Holders
    <3> QED BY <2>10, <3>1, <1>0 DEF Restart, locals, Holders
  <2>11. CASE ReleaseRewind(t) BY <2>11, <1>0 DEF ReleaseRewind, stream, locals
  <2> QED BY <1>5, <2>1, <2>2, <2>3, <2>4, <2>5, <2>6, <2>7, <2>8, <2>9, <2>10, <2>11 DEF Step
<1>6. ASSUME NEW n \in Names, Create(n) \/ Delete(n) PROVE TestStillHolds'
    BY <1>6 DEF Create, Delete, stream, locals
<1>7. CASE UNCHANGED vars BY <1>7 DEF vars, stream, locals
<1> QED BY <1>1, <1>2, <1>3, <1>4, <1>5, <1>6, <1>7 DEF Next

\* The buffer and the cursor account for every name of the directory.
LEMMA ScanInv == TypeOK /\ TestStillHolds /\ ScanPosition /\ [Next]_vars => ScanPosition'
<1> SUFFICES ASSUME TypeOK, TestStillHolds, ScanPosition, [Next]_vars PROVE ScanPosition'
    OBVIOUS
<1>0. /\ dir \subseteq Names /\ delivered \subseteq Names /\ cursor \in Nat /\ ub_len \in Nat
      /\ ub_index \in Nat /\ uni_buffer \in [1..ub_len -> Names] /\ restart_ \in BOOLEAN
    BY DEF TypeOK
<1>1. CASE opendir \/ fdopendir
  <2>1. delivered' = {} /\ present' = dir' /\ absent' = Names \ dir' /\ ub_len' = 0 /\ ub_index' = 0
      BY <1>1 DEF opendir, fdopendir, NewDIR, StartOver
  <2>2. Buffered' = {} BY <2>1 DEF Buffered
  <2>3. ~restart_' => cursor' = 0 BY <1>1 DEF opendir, fdopendir
  <2> QED BY <2>1, <2>2, <2>3 DEF ScanPosition
<1>2. CASE closedir BY <1>2 DEF closedir, ScanPosition
<1>3. CASE UNCHANGED <<open, stream, history, dir>>
    BY <1>3 DEF ScanPosition, Buffered, stream, history
<1>4. ASSUME NEW t \in Threads, QueryEntries(t) PROVE ScanPosition'
  <2>1. PICK len \in 1..MaxBatch : \E b \in [1..len -> Ahead] :
          IsBatch(b, len, Ahead) /\ uni_buffer' = b /\ ub_len' = len /\ cursor' = b[len]
      BY <1>4 DEF QueryEntries
  <2> DEFINE B == uni_buffer'
  <2>2. B \in [1..len -> Ahead] /\ IsBatch(B, len, Ahead) /\ ub_len' = len /\ cursor' = B[len]
      BY <2>1
  <2>3. /\ ~restart_' /\ ub_index' = 0 /\ open' = open /\ open /\ dir' = dir
        /\ delivered' = delivered /\ present' = present /\ absent' = absent
      BY <1>4 DEF QueryEntries, TestStillHolds, history
  <2>4. Ahead \subseteq Names /\ Ahead \subseteq dir BY <1>0 DEF Ahead
  <2>5. \A i \in 1..len : B[i] \in Ahead /\ B[i] \in Nat
    <3>1. \A i \in 1..len : B[i] \in Ahead BY <2>2
    <3>2. Names \subseteq Nat BY DEF Names
    <3> QED BY <3>1, <3>2, <2>4
  <2>6. \A i, j \in 1..len : i < j => B[i] < B[j] BY <2>2 DEF IsBatch
  <2>7. len \in 1..len OBVIOUS
  <2>8. \A i \in 1..len : B[i] <= B[len] BY <2>5, <2>6, <2>7
  <2>9. Buffered' = {B[i] : i \in 1..len} BY <2>2, <2>3 DEF Buffered
  <2>10. dir \subseteq present /\ Names \ dir \subseteq absent BY <2>3 DEF ScanPosition
  <2>11. restart_ \/ Buffered = {}
    <3>1. restart_ \/ ub_len <= ub_index BY <1>4 DEF QueryEntries, TestStillHolds
    <3> QED BY <3>1, <1>0 DEF Buffered
  <2>12. \A n \in Ahead : n \notin delivered
      BY <2>3, <1>0 DEF Ahead, ScanPosition, Names
  <2>13. Buffered' \subseteq present' \ delivered'
      BY <2>3, <2>4, <2>5, <2>9, <2>10, <2>12
  <2>14. \A n \in delivered : n <= B[len]
    <3> SUFFICES ASSUME NEW n \in delivered PROVE n <= B[len] OBVIOUS
    <3>1. ~restart_ /\ n <= cursor BY <2>3 DEF ScanPosition
    <3>2. cursor < B[len] BY <3>1, <2>5, <2>7 DEF Ahead
    <3> QED BY <3>1, <3>2, <2>5, <2>7, <1>0 DEF Names
  <2>15. \A n \in 1..B[len] : n \in delivered \cup Buffered' \cup absent
    <3> SUFFICES ASSUME NEW n \in 1..B[len], n \notin absent PROVE n \in delivered \cup Buffered'
        OBVIOUS
    <3>1. B[len] \in Names /\ B[len] \in Nat BY <2>4, <2>5, <2>7
    <3>2. n \in Names BY <3>1, NamesAssumption DEF Names
    <3>3. n \in dir BY <3>2, <2>10
    <3>4. CASE n \in Ahead
      <4>1. n < B[len] => \E i \in 1..len : B[i] = n BY <3>4, <2>2 DEF IsBatch
      <4>2. n = B[len] \/ n < B[len] BY <3>1
      <4> QED BY <4>1, <4>2, <2>7, <2>9
    <3>5. CASE n \notin Ahead
      <4>1. ~restart_ /\ n <= cursor BY <3>5, <3>3, <1>0 DEF Ahead
      <4>2. n \in 1..cursor BY <4>1, <1>0
      <4>3. n \in delivered \cup Buffered \cup absent BY <4>1, <4>2, <2>3 DEF ScanPosition
      <4> QED BY <4>1, <4>3, <2>11
    <3> QED BY <3>4, <3>5
  <2> HIDE DEF B
  <2>16. /\ \A i, j \in 1..ub_len' : i < j => B[i] < B[j]
         /\ \A i \in 1..ub_len' : B[i] <= cursor'
         /\ \A n \in delivered' : n <= cursor'
         /\ \A n \in 1..cursor' : n \in delivered' \cup Buffered' \cup absent'
      BY <2>2, <2>3, <2>6, <2>8, <2>14, <2>15
  <2> QED BY <2>3, <2>10, <2>13, <2>16 DEF ScanPosition, B
<1>5. ASSUME NEW t \in Threads, Decode(t) PROVE ScanPosition'
  <2> DEFINE k == ub_index + 1
  <2>1. /\ open /\ open' /\ ~restart_ /\ ub_index < ub_len /\ ub_index' = k
        /\ UNCHANGED <<dir, cursor, restart_, uni_buffer, ub_len, present, absent>>
        /\ delivered' = delivered \cup {uni_buffer[k]}
      BY <1>5 DEF Decode, TestStillHolds
  <2>2. k \in 1..ub_len BY <2>1, <1>0
  <2>3. uni_buffer[k] \in Names BY <2>2, <1>0
  <2>4. \A i \in (k+1)..ub_len : uni_buffer[i] # uni_buffer[k]
    <3> SUFFICES ASSUME NEW i \in (k+1)..ub_len PROVE uni_buffer[i] # uni_buffer[k] OBVIOUS
    <3>1. i \in 1..ub_len /\ k < i BY <2>2, <1>0
    <3>2. uni_buffer[k] < uni_buffer[i] BY <3>1, <2>1, <2>2 DEF ScanPosition
    <3>3. uni_buffer[i] \in Nat /\ uni_buffer[k] \in Nat BY <3>1, <2>2, <1>0 DEF Names
    <3> QED BY <3>2, <3>3
  <2>5. Buffered' = {uni_buffer[i] : i \in (k+1)..ub_len} BY <2>1 DEF Buffered
  <2>6. Buffered = Buffered' \cup {uni_buffer[k]}
    <3>1. (ub_index + 1)..ub_len = {k} \cup (k+1)..ub_len BY <2>2, <1>0
    <3> QED BY <3>1, <2>5 DEF Buffered
  <2>7. Buffered' \subseteq present' \ delivered'
      BY <2>1, <2>4, <2>5, <2>6 DEF ScanPosition
  <2>8. uni_buffer[k] <= cursor BY <2>1, <2>2 DEF ScanPosition
  <2> HIDE DEF k
  <2> QED BY <2>1, <2>6, <2>7, <2>8 DEF ScanPosition
<1>6. ASSUME NEW t \in Threads, Restart(t) PROVE ScanPosition'
    BY <1>6 DEF Restart, StartOver, ScanPosition
<1>7. ASSUME NEW n \in Names, Create(n) \/ Delete(n) PROVE ScanPosition'
    BY <1>7 DEF Create, Delete, ScanPosition, Buffered, stream
<1>8. ASSUME NEW t \in Threads, CallReaddirR(t) \/ CallRewinddir(t) PROVE ScanPosition'
    BY <1>3, <1>8 DEF CallReaddirR, CallRewinddir
<1>9. ASSUME NEW t \in Threads, Step(t) PROVE ScanPosition'
    BY <1>3, <1>4, <1>5, <1>6, <1>9 DEF Step, AcquireRead, TestBuffer, QueryNoMoreFiles,
       QueryFails, NoEntry, CopyOut, ReleaseRead, ReturnRead, AcquireRewind, ReleaseRewind
<1>10. CASE UNCHANGED vars BY <1>3, <1>10 DEF vars
<1> QED BY <1>1, <1>2, <1>7, <1>8, <1>9, <1>10 DEF Next

\* In every reachable state of the stream: variables have their types, the lock
\* excludes, tested conditions still hold, and the scan position accounts for
\* every name (readdir.c:26-67, readdir_r.c:7-27, rewinddir.c:5-11).
THEOREM Invariance == Spec => [](TypeOK /\ MutualExclusion /\ TestStillHolds /\ ScanPosition)
<1>1. Init => IInv
  <2> SUFFICES ASSUME Init PROVE IInv OBVIOUS
  <2>1. [i \in 1..0 |-> 0] \in [1..0 -> Names] /\ 0 \in 0..MaxBatch /\ 0 \in 0..0 /\ 0 \in 0..MaxName
      OBVIOUS
  <2>2. TypeOK BY <2>1 DEF Init, TypeOK, PCs, Errnos
  <2>3. MutualExclusion BY DEF Init, MutualExclusion, Holders
  <2>4. TestStillHolds BY DEF Init, TestStillHolds
  <2>5. ScanPosition BY DEF Init, ScanPosition
  <2> QED BY <2>2, <2>3, <2>4, <2>5 DEF IInv
<1>2. IInv /\ [Next]_vars => IInv'
    BY TypeInv, LockInv, TestInv, ScanInv DEF IInv
<1> QED BY <1>1, <1>2, PTL DEF Spec, IInv

\* What a call is going to say about errno once the reply is known; nobody touches
\* the errno of another thread.
ErrnoOfReply ==
    \A t \in Threads : pc[t] \in {"unlockRead", "done"} =>
        errno[t] = IF ret[t] = 0 THEN errno_save[t] ELSE ret[t]

LEMMA ErrnoStep == TypeOK /\ ErrnoOfReply /\ [Next]_vars => ErrnoOfReply'
<1> SUFFICES ASSUME TypeOK, ErrnoOfReply, [Next]_vars,
                    NEW u \in Threads, pc'[u] \in {"unlockRead", "done"}
             PROVE  errno'[u] = IF ret'[u] = 0 THEN errno_save'[u] ELSE ret'[u]
  BY DEF ErrnoOfReply
<1>0. /\ pc \in [Threads -> PCs] /\ errno \in [Threads -> Errnos]
      /\ errno_save \in [Threads -> Errnos] /\ ret \in [Threads -> Errnos]
  BY DEF TypeOK
<1>1. pc[u] \in {"unlockRead", "done"} /\ UNCHANGED <<errno[u], errno_save[u], ret[u]>> =>
        errno'[u] = IF ret'[u] = 0 THEN errno_save'[u] ELSE ret'[u]
  BY DEF ErrnoOfReply
<1>2. CASE UNCHANGED <<pc, locals>>
  BY <1>1, <1>2 DEF locals
<1>3. ASSUME NEW t \in Threads, CallReaddirR(t) \/ CallRewinddir(t) PROVE u # t
  BY <1>0, <1>3 DEF CallReaddirR, CallRewinddir, Goto
<1>4. ASSUME NEW t \in Threads, CallReaddirR(t) \/ CallRewinddir(t)
      PROVE  pc'[u] = pc[u] /\ UNCHANGED <<errno[u], errno_save[u], ret[u]>>
  BY <1>0, <1>3, <1>4 DEF CallReaddirR, CallRewinddir, Goto, locals
<1>5. ASSUME NEW t \in Threads, CopyOut(t)
      PROVE  errno'[u] = IF ret'[u] = 0 THEN errno_save'[u] ELSE ret'[u]
  <2>1. CASE u = t
    BY <1>0, <1>5, <2>1 DEF CopyOut
  <2>2. CASE u # t
    BY <1>0, <1>1, <1>5, <2>2 DEF CopyOut, Goto
  <2> QED
    BY <2>1, <2>2
<1>6. ASSUME NEW t \in Threads, Step(t), ~CopyOut(t)
      PROVE  pc[u] \in {"unlockRead", "done"} /\ UNCHANGED <<errno[u], errno_save[u], ret[u]>>
  <2>1. AcquireRead(t) \/ ReturnRead(t) \/ (\E e \in {0, QueryErrno} : NoEntry(t, e)) => u # t
    BY <1>0 DEF AcquireRead, ReturnRead, NoEntry, Goto
  <2>2. pc[u] \in {"unlockRead", "done"}
    BY <1>0, <1>6 DEF Step, AcquireRead, TestBuffer, QueryEntries, QueryNoMoreFiles, QueryFails,
       NoEntry, Decode, ReleaseRead, ReturnRead, AcquireRewind, Restart, ReleaseRewind, Goto
  <2>3. UNCHANGED <<errno[u], errno_save[u], ret[u]>>
    BY <1>0, <1>6, <2>1 DEF Step, AcquireRead, TestBuffer, QueryEntries, QueryNoMoreFiles,
       QueryFails, NoEntry, Decode, ReleaseRead, ReturnRead, AcquireRewind, Restart,
       ReleaseRewind, locals
  <2> QED
    BY <2>2, <2>3
<1>7. opendir \/ fdopendir \/ closedir \/ (\E n \in Names : Create(n) \/ Delete(n)) =>
        UNCHANGED <<pc, locals>>
  BY DEF opendir, fdopendir, NewDIR, closedir, Create, Delete
<1> QED
  BY <1>1, <1>2, <1>4, <1>5, <1>6, <1>7 DEF Next, vars

\* Whatever happens to the stream meanwhile, a caller of readdir_r finds the errno it
\* had, or the one that was reported to it (readdir_r.c:12-24).
THEOREM CallersErrno == Spec => []ErrnoKept
<1>1. Init => ErrnoOfReply
  BY DEF Init, ErrnoOfReply
<1>2. ErrnoOfReply => ErrnoKept
  BY DEF ErrnoOfReply, ErrnoKept
<1>3. Spec => []TypeOK
  BY Invariance, PTL
<1> QED
  BY <1>1, <1>2, <1>3, ErrnoStep, PTL DEF Spec

\* Nothing that was found out about the buffer under the lock has changed when it is
\* used (readdir.c:31-40).
THEOREM TestsStillHold == Spec => []TestStillHolds
BY Invariance, PTL

-----------------------------------------------------------------------------
(* Refinement.                                                             *)

LEMMA InitMaps == Init => Abstract!Init
BY DEF Init, Abstract!Init, absStage, absReply, Names, Abstract!Names, Abstract!NoReply

\* A step that leaves the pc of every other thread alone changes only t's stage
\* and reply, whatever t does to the variables a reply is read from.
LEMMA OthersKeep ==
    ASSUME NEW t \in Threads, NEW l \in PCs, TypeOK, MutualExclusion,
           pc' = [pc EXCEPT ![t] = l],
           \A s \in Threads \ {t} :
              /\ pc[s] = "copy" => errno'[s] = errno[s] /\ de'[s] = de[s] /\ abuf' = abuf
              /\ ret'[s] = ret[s] /\ buf'[s] = buf[s]
    PROVE  /\ absStage' = [absStage EXCEPT ![t] = absStage'[t]]
           /\ absReply' = [absReply EXCEPT ![t] = absReply'[t]]
<1>1. pc \in [Threads -> PCs] BY DEF TypeOK
<1>2. \A s \in Threads \ {t} : pc'[s] = pc[s] BY <1>1
<1>3. \A s \in Threads \ {t} : absStage'[s] = absStage[s] BY <1>2 DEF absStage
<1>4. \A s \in Threads \ {t} : absReply'[s] = absReply[s] BY <1>2 DEF absReply, Reply
<1>5. absStage = [s \in Threads |-> absStage[s]] /\ absStage' = [s \in Threads |-> absStage'[s]]
    BY DEF absStage
<1>6. absReply = [s \in Threads |-> absReply[s]] /\ absReply' = [s \in Threads |-> absReply'[s]]
    BY DEF absReply
<1> QED BY <1>3, <1>4, <1>5, <1>6

\* Every step of a thread is a step of the abstract stream or invisible.
LEMMA StepMaps ==
    ASSUME IInv, NEW t \in Threads, Step(t)
    PROVE  [Abstract!Next]_(Abstract!vars)
<1>0. /\ pc \in [Threads -> PCs] /\ errno \in [Threads -> Errnos] /\ de \in [Threads -> BOOLEAN]
      /\ errno_save \in [Threads -> Errnos]
      /\ ret \in [Threads -> Errnos] /\ buf \in [Threads -> 0..MaxName] /\ abuf \in 0..MaxName
    BY DEF IInv, TypeOK
<1>m. \A s \in Threads : pc[s] \in Holders /\ pc[t] \in Holders => s = t
    BY DEF IInv, MutualExclusion
<1>n. Abstract!Names = Names BY DEF Abstract!Names, Names
<1>k. ASSUME NEW l \in PCs, pc' = [pc EXCEPT ![t] = l],
             \A s \in Threads \ {t} :
               /\ pc[s] = "copy" => errno'[s] = errno[s] /\ de'[s] = de[s] /\ abuf' = abuf
               /\ ret'[s] = ret[s] /\ buf'[s] = buf[s]
      PROVE  /\ absStage' = [absStage EXCEPT ![t] = absStage'[t]]
             /\ absReply' = [absReply EXCEPT ![t] = absReply'[t]]
    BY <1>k, OthersKeep DEF IInv
<1> DEFINE Same == absStage' = absStage /\ absReply' = absReply
<1>s. Same /\ UNCHANGED <<dir, open, delivered, present, absent>>
        => UNCHANGED Abstract!vars
    BY DEF Abstract!vars
\* The step is invisible when it changes neither t's stage nor t's reply.
<1>i. ASSUME NEW l \in PCs, pc' = [pc EXCEPT ![t] = l],
             \A s \in Threads \ {t} :
               /\ pc[s] = "copy" => errno'[s] = errno[s] /\ de'[s] = de[s] /\ abuf' = abuf
               /\ ret'[s] = ret[s] /\ buf'[s] = buf[s],
             absStage'[t] = absStage[t], absReply'[t] = absReply[t],
             UNCHANGED <<dir, open, delivered, present, absent>>
      PROVE  UNCHANGED Abstract!vars
  <2>1. /\ absStage' = [absStage EXCEPT ![t] = absStage'[t]]
        /\ absReply' = [absReply EXCEPT ![t] = absReply'[t]]
      BY <1>i, <1>k
  <2>2. absStage' = absStage /\ absReply' = absReply BY <2>1, <1>i DEF absStage, absReply
  <2> QED BY <2>2, <1>i DEF Abstract!vars
<1>r. \A e \in Errnos, n \in 0..MaxName :
        /\ e # 0 => Reply(e, n) = [status |-> "error", name |-> 0]
        /\ Reply(0, 0) = [status |-> "end", name |-> 0]
        /\ n # 0 => Reply(0, n) = [status |-> "entry", name |-> n]
    BY DEF Reply
<1>1. CASE AcquireRead(t)
  <2>1. pc' = [pc EXCEPT ![t] = "test"] /\ "test" \in PCs BY <1>1 DEF AcquireRead, Goto, PCs
  <2>2. absStage'[t] = absStage[t] /\ absReply'[t] = absReply[t]
      BY <1>1, <1>0, <2>1 DEF AcquireRead, absStage, absReply
  <2> QED BY <1>1, <1>0, <2>1, <2>2, <1>i DEF AcquireRead, stream, history
<1>2. CASE TestBuffer(t)
  <2>1. PICK l \in {"query", "decode"} : pc' = [pc EXCEPT ![t] = l] BY <1>2 DEF TestBuffer, Goto
  <2>2. l \in PCs BY DEF PCs
  <2>3. absStage'[t] = absStage[t] /\ absReply'[t] = absReply[t]
      BY <1>2, <1>0, <2>1 DEF TestBuffer, absStage, absReply
  <2> QED BY <1>2, <2>1, <2>2, <2>3, <1>i DEF TestBuffer, stream, history, locals
<1>3. CASE QueryEntries(t)
  <2>1. pc' = [pc EXCEPT ![t] = "decode"] /\ "decode" \in PCs BY <1>3 DEF QueryEntries, Goto, PCs
  <2>2. absStage'[t] = absStage[t] /\ absReply'[t] = absReply[t]
      BY <1>3, <1>0, <2>1 DEF QueryEntries, absStage, absReply
  <2> QED BY <1>3, <2>1, <2>2, <1>i DEF QueryEntries, history, locals
<1>4. CASE QueryNoMoreFiles(t)
  <2>1. pc' = [pc EXCEPT ![t] = "copy"] /\ "copy" \in PCs
      BY <1>4 DEF QueryNoMoreFiles, NoEntry, Goto, PCs
  <2>2. absStage[t] = "read" /\ absStage'[t] = "replied"
      BY <1>4, <1>0, <2>1 DEF QueryNoMoreFiles, absStage
  <2>3. errno'[t] = 0 /\ ~de'[t] BY <1>4, <1>0 DEF QueryNoMoreFiles, NoEntry
  <2>4. absReply'[t] = [status |-> "end", name |-> 0]
      BY <1>0, <2>1, <2>3, <1>r DEF absReply, Errnos
  <2>5. /\ absStage' = [absStage EXCEPT ![t] = absStage'[t]]
        /\ absReply' = [absReply EXCEPT ![t] = absReply'[t]]
      BY <1>4, <1>0, <2>1, <1>k DEF QueryNoMoreFiles, NoEntry, stream
  <2>6. Names \subseteq delivered \cup absent
    <3>1. open /\ Ahead = {} /\ (restart_ \/ ub_len <= ub_index)
        BY <1>4 DEF QueryNoMoreFiles, IInv, TestStillHolds
    <3>2. Names \ dir \subseteq absent BY <3>1 DEF IInv, ScanPosition
    <3>3. CASE restart_ BY <3>1, <3>2, <3>3 DEF Ahead
    <3>4. CASE ~restart_
      <4>1. Buffered = {} BY <3>1, <3>4 DEF Buffered, IInv, TypeOK
      <4> SUFFICES ASSUME NEW n \in Names, n \in dir PROVE n \in delivered \cup absent
          BY <3>2
      <4>2. ~(cursor < n) BY <3>1, <3>4 DEF Ahead
      <4>3. n \in 1..cursor BY <4>2 DEF Names, IInv, TypeOK
      <4> QED BY <4>1, <4>3, <3>1, <3>4 DEF IInv, ScanPosition
    <3> QED BY <3>3, <3>4
  <2>7. Abstract!ReadEnd(t)
      BY <1>4, <1>n, <2>2, <2>4, <2>5, <2>6
      DEF Abstract!ReadEnd, Abstract!Answer, QueryNoMoreFiles, NoEntry, history
  <2> QED BY <2>7 DEF Abstract!Next
<1>5. CASE QueryFails(t)
  <2>1. pc' = [pc EXCEPT ![t] = "copy"] /\ "copy" \in PCs
      BY <1>5 DEF QueryFails, NoEntry, Goto, PCs
  <2>2. absStage[t] = "read" /\ absStage'[t] = "replied"
      BY <1>5, <1>0, <2>1 DEF QueryFails, absStage
  <2>3. errno'[t] = QueryErrno /\ ~de'[t] BY <1>5, <1>0 DEF QueryFails, NoEntry
  <2>4. absReply'[t] = [status |-> "error", name |-> 0]
      BY <1>0, <2>1, <2>3 DEF absReply, Reply, QueryErrno
  <2>5. /\ absStage' = [absStage EXCEPT ![t] = absStage'[t]]
        /\ absReply' = [absReply EXCEPT ![t] = absReply'[t]]
      BY <1>5, <1>0, <2>1, <1>k DEF QueryFails, NoEntry, stream
  <2>6. Abstract!ReadError(t)
      BY <1>5, <2>2, <2>4, <2>5
      DEF Abstract!ReadError, Abstract!Answer, QueryFails, NoEntry, history
  <2> QED BY <2>6 DEF Abstract!Next
<1>6. CASE Decode(t)
  <2> DEFINE n == uni_buffer[ub_index + 1]
  <2>1. pc' = [pc EXCEPT ![t] = "copy"] /\ "copy" \in PCs BY <1>6 DEF Decode, Goto, PCs
  <2>2. absStage[t] = "read" /\ absStage'[t] = "replied"
      BY <1>6, <1>0, <2>1 DEF Decode, absStage
  <2>3. open /\ ~restart_ /\ ub_index < ub_len /\ errno[t] = 0
      BY <1>6 DEF Decode, IInv, TestStillHolds
  <2>4. ub_index + 1 \in 1..ub_len /\ ub_index + 1 \in (ub_index + 1)..ub_len
      BY <2>3 DEF IInv, TypeOK
  <2>5. n \in Names BY <2>4 DEF IInv, TypeOK
  <2>6. n \in present \ delivered BY <2>3, <2>4 DEF IInv, ScanPosition, Buffered
  <2>7. errno'[t] = 0 /\ de'[t] /\ abuf' = n BY <1>6, <1>0, <2>3 DEF Decode
  <2>8. absReply'[t] = [status |-> "entry", name |-> n]
      BY <1>0, <2>1, <2>5, <2>7 DEF absReply, Reply, Names
  <2>9. \A s \in Threads \ {t} : pc[s] # "copy" BY <1>6, <1>m DEF Decode, Holders
  <2>10. /\ absStage' = [absStage EXCEPT ![t] = absStage'[t]]
         /\ absReply' = [absReply EXCEPT ![t] = absReply'[t]]
      BY <1>6, <1>0, <2>1, <2>9, <1>k DEF Decode
  <2>11. Abstract!Answer(t, [status |-> "entry", name |-> n])
      BY <1>6, <2>2, <2>8, <2>10 DEF Abstract!Answer, Decode
  <2>12. delivered' = delivered \cup {n} BY <1>6 DEF Decode
  <2> HIDE DEF n
  <2>13. Abstract!ReadEntry(t) BY <2>6, <2>11, <2>12 DEF Abstract!ReadEntry
  <2> QED BY <2>13 DEF Abstract!Next
<1>7. CASE CopyOut(t)
  <2>1. pc' = [pc EXCEPT ![t] = "unlockRead"] /\ "unlockRead" \in PCs BY <1>7 DEF CopyOut, Goto, PCs
  <2>2. absStage'[t] = absStage[t] BY <1>7, <1>0, <2>1 DEF CopyOut, absStage
  <2>3. absReply[t] = Reply(errno[t], IF de[t] THEN abuf ELSE 0)
      BY <1>7, <1>0 DEF CopyOut, absReply
  <2>4. absReply'[t] = Reply(ret'[t], buf'[t]) BY <1>0, <2>1 DEF absReply
  <2>5. ret'[t] = errno[t] /\ (errno[t] = 0 => buf'[t] = IF de[t] THEN abuf ELSE 0)
      BY <1>7, <1>0 DEF CopyOut
  <2>6. absReply'[t] = absReply[t] BY <2>3, <2>4, <2>5 DEF Reply
  <2> QED BY <1>7, <1>0, <2>1, <2>2, <2>6, <1>i DEF CopyOut, stream, history
<1>8. CASE ReleaseRead(t)
  <2>1. pc' = [pc EXCEPT ![t] = "done"] /\ "done" \in PCs BY <1>8 DEF ReleaseRead, Goto, PCs
  <2>2. absStage'[t] = absStage[t] /\ absReply'[t] = absReply[t]
      BY <1>8, <1>0, <2>1 DEF ReleaseRead, absStage, absReply, locals
  <2> QED BY <1>8, <2>1, <2>2, <1>i DEF ReleaseRead, stream, history, locals
<1>9. CASE ReturnRead(t)
  <2>1. pc' = [pc EXCEPT ![t] = "idle"] /\ "idle" \in PCs BY <1>9 DEF ReturnRead, Goto, PCs
  <2>2. absStage[t] = "replied" /\ absStage'[t] = "idle"
        /\ absReply'[t] = [status |-> "none", name |-> 0]
      BY <1>9, <1>0, <2>1 DEF ReturnRead, absStage, absReply
  <2>3. /\ absStage' = [absStage EXCEPT ![t] = absStage'[t]]
        /\ absReply' = [absReply EXCEPT ![t] = absReply'[t]]
      BY <1>9, <1>0, <2>1, <1>k DEF ReturnRead, stream
  <2>4. Abstract!Return(t)
      BY <1>9, <2>2, <2>3 DEF Abstract!Return, Abstract!NoReply, ReturnRead, history
  <2> QED BY <2>4 DEF Abstract!Next
<1>10. CASE AcquireRewind(t)
  <2>1. pc' = [pc EXCEPT ![t] = "restart"] /\ "restart" \in PCs BY <1>10 DEF AcquireRewind, Goto, PCs
  <2>2. absStage'[t] = absStage[t] /\ absReply'[t] = absReply[t]
      BY <1>10, <1>0, <2>1 DEF AcquireRewind, absStage, absReply
  <2> QED BY <1>10, <2>1, <2>2, <1>i DEF AcquireRewind, stream, history, locals
<1>11. CASE Restart(t)
  <2>1. pc' = [pc EXCEPT ![t] = "unlockRewind"] /\ "unlockRewind" \in PCs
      BY <1>11 DEF Restart, Goto, PCs
  <2>2. absStage[t] = "rewind" /\ absStage'[t] = "rewound" /\ absReply'[t] = absReply[t]
      BY <1>11, <1>0, <2>1 DEF Restart, absStage, absReply
  <2>3. /\ absStage' = [absStage EXCEPT ![t] = absStage'[t]]
        /\ absReply' = [absReply EXCEPT ![t] = absReply'[t]]
      BY <1>11, <2>1, <1>k DEF Restart, locals
  <2>4. absReply' = absReply BY <2>2, <2>3 DEF absReply
  <2>5. Abstract!Rewind(t)
      BY <1>11, <1>n, <2>2, <2>3, <2>4 DEF Abstract!Rewind, Abstract!StartOver, Restart, StartOver
  <2> QED BY <2>5 DEF Abstract!Next
<1>12. CASE ReleaseRewind(t)
  <2>1. pc' = [pc EXCEPT ![t] = "idle"] /\ "idle" \in PCs BY <1>12 DEF ReleaseRewind, Goto, PCs
  <2>2. absStage[t] = "rewound" /\ absStage'[t] = "idle"
        /\ absReply'[t] = [status |-> "none", name |-> 0]
      BY <1>12, <1>0, <2>1 DEF ReleaseRewind, absStage, absReply
  <2>3. /\ absStage' = [absStage EXCEPT ![t] = absStage'[t]]
        /\ absReply' = [absReply EXCEPT ![t] = absReply'[t]]
      BY <1>12, <2>1, <1>k DEF ReleaseRewind, locals, stream
  <2>4. Abstract!Return(t)
      BY <1>12, <2>2, <2>3 DEF Abstract!Return, Abstract!NoReply, ReleaseRewind, history
  <2> QED BY <2>4 DEF Abstract!Next
<1> QED BY <1>1, <1>2, <1>3, <1>4, <1>5, <1>6, <1>7, <1>8, <1>9, <1>10, <1>11, <1>12 DEF Step

\* The stream implements DirStreamSpec: the entries are delivered once each, the
\* end is not reported early, no error loses an entry, and no thread sees the
\* entry of another (readdir.c, readdir_r.c, rewinddir.c).
THEOREM Refinement == Spec => Refines
<1>1. IInv /\ [Next]_vars => [Abstract!Next]_(Abstract!vars)
  <2> SUFFICES ASSUME IInv, [Next]_vars PROVE [Abstract!Next]_(Abstract!vars) OBVIOUS
  <2>n. Abstract!Names = Names BY DEF Abstract!Names, Names
  <2>0. pc \in [Threads -> PCs] BY DEF IInv, TypeOK
  <2>1. CASE opendir \/ fdopendir
    <3>1. UNCHANGED <<absStage, absReply>>
      <4>1. UNCHANGED <<pc, errno, de, ret, buf>> /\ \A t \in Threads : pc[t] = "idle"
          BY <2>1 DEF opendir, fdopendir, NewDIR, locals, IInv, TestStillHolds
      <4> QED BY <4>1 DEF absStage, absReply
    <3>2. Abstract!Open
        BY <2>1, <2>n, <3>1 DEF Abstract!Open, Abstract!StartOver, opendir, fdopendir, NewDIR, StartOver
    <3> QED BY <3>2 DEF Abstract!Next
  <2>2. CASE closedir
    <3>1. UNCHANGED <<absStage, absReply>> /\ \A t \in Threads : absStage[t] = "idle"
      <4>1. UNCHANGED <<pc, errno, de, ret, buf>> /\ \A t \in Threads : pc[t] = "idle"
          BY <2>2 DEF closedir, locals
      <4> QED BY <4>1 DEF absStage, absReply
    <3>2. Abstract!Close BY <2>2, <3>1 DEF Abstract!Close, closedir
    <3> QED BY <3>2 DEF Abstract!Next
  <2>3. ASSUME NEW t \in Threads, CallReaddirR(t) \/ CallRewinddir(t) PROVE Abstract!Call(t)
    <3>1. PICK l \in {"lockRead", "lockRewind"} : pc' = [pc EXCEPT ![t] = l]
        BY <2>3 DEF CallReaddirR, CallRewinddir, Goto
    <3>2. l \in PCs /\ pc[t] = "idle" BY <2>3 DEF CallReaddirR, CallRewinddir, PCs
    <3>3. /\ absStage' = [absStage EXCEPT ![t] = absStage'[t]]
          /\ absReply' = [absReply EXCEPT ![t] = absReply'[t]]
      <4>1. \A s \in Threads \ {t} :
              /\ pc[s] = "copy" => errno'[s] = errno[s] /\ de'[s] = de[s] /\ abuf' = abuf
              /\ ret'[s] = ret[s] /\ buf'[s] = buf[s]
          BY <2>3 DEF CallReaddirR, CallRewinddir, stream, locals, IInv, TypeOK
      <4> QED BY <4>1, <3>1, <3>2, OthersKeep DEF IInv
    <3>4. absStage[t] = "idle" /\ absStage'[t] \in {"read", "rewind"} /\ absReply'[t] = absReply[t]
        BY <2>0, <3>1, <3>2 DEF absStage, absReply
    <3>5. absReply' = absReply BY <3>3, <3>4 DEF absReply
    <3> QED BY <2>3, <3>3, <3>4, <3>5 DEF Abstract!Call, CallReaddirR, CallRewinddir, history
  <2>4. ASSUME NEW t \in Threads, Step(t) PROVE [Abstract!Next]_(Abstract!vars)
      BY <2>4, StepMaps
  <2>5. ASSUME NEW n \in Names, Create(n) \/ Delete(n) PROVE Abstract!Create(n) \/ Abstract!Delete(n)
    <3>1. UNCHANGED <<absStage, absReply>>
        BY <2>5 DEF Create, Delete, absStage, absReply, locals, stream
    <3> QED BY <2>5, <3>1 DEF Create, Delete, Abstract!Create, Abstract!Delete
  <2>6. CASE UNCHANGED vars
    <3>1. UNCHANGED <<absStage, absReply>>
        BY <2>6 DEF vars, absStage, absReply, locals, stream
    <3> QED BY <2>6, <3>1 DEF Abstract!vars, vars, history
  <2> QED BY <2>1, <2>2, <2>3, <2>4, <2>5, <2>6, <2>n DEF Next, Abstract!Next
<1>2. Spec => []IInv
    BY Invariance, PTL DEF IInv
<1> QED BY <1>1, <1>2, InitMaps, PTL DEF Spec, Refines, Abstract!Spec
=============================================================================
