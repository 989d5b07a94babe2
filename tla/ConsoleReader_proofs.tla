------------------------ MODULE ConsoleReader_proofs ------------------------
(***************************************************************************)
(* Theorems about ConsoleReader, for every input, batch size and bound.    *)
(***************************************************************************)
EXTENDS ConsoleReader, SequenceTheorems, TLAPS

LEMMA DivMod ==
    /\ \A a \in Int : a % 64 \in 0..63 /\ a % 256 \in 0..255
    /\ \A a \in Int : a \div 64 \in Int /\ a \div 4096 \in Int
OBVIOUS

\* UnitBytes yields bytes for every unit and every remembered high surrogate.
LEMMA UnitBytesAreBytes ==
    ASSUME NEW w \in Word, m_chtmp \in Word
    PROVE  UnitBytes(w) \in Seq(Byte)
<1>1. CASE w = 0 \/ IsHigh(w)
  <2>1. UnitBytes(w) = << >> BY <1>1 DEF UnitBytes
  <2> QED BY <2>1
<1>w. w \in Nat /\ w < 65536 BY DEF Word
<1>2. CASE w # 0 /\ w <= 127
  <2>1. ~IsHigh(w) BY <1>2, <1>w DEF IsHigh
  <2>2. UnitBytes(w) = <<w>> BY <1>2, <2>1 DEF UnitBytes
  <2>3. w \in Byte BY <1>2, <1>w DEF Byte
  <2> QED BY <2>2, <2>3
<1>3. CASE w > 127 /\ w <= 2047
  <2>1. 192 + (w \div 64) \in Byte /\ 128 + (w % 64) \in Byte BY <1>3 DEF Byte, Word
  <2> QED BY <1>3, <2>1 DEF UnitBytes, Word, IsHigh
<1>4. CASE w > 2047 /\ IsLow(w)
  <2> DEFINE wch2 == 65536 + (m_chtmp - 55296) * 1024 + (w - 56320)
  <2>1. wch2 \in Int BY DEF Word
  <2> HIDE DEF wch2
  <2>2. /\ (240 + ((wch2 \div 4096) \div 64)) % 256 \in Byte /\ 128 + ((wch2 \div 4096) % 64) \in Byte
        /\ 128 + ((wch2 \div 64) % 64) \in Byte /\ 128 + (wch2 % 64) \in Byte
    <3>1. /\ (240 + ((wch2 \div 4096) \div 64)) % 256 \in 0..255 /\ (wch2 \div 4096) % 64 \in 0..63
          /\ (wch2 \div 64) % 64 \in 0..63 /\ wch2 % 64 \in 0..63
      <4>1. wch2 \div 4096 \in Int /\ (wch2 \div 4096) \div 64 \in Int /\ wch2 \div 64 \in Int
          BY <2>1, DivMod
      <4>2. 240 + ((wch2 \div 4096) \div 64) \in Int BY <4>1
      <4> QED BY <2>1, <4>1, <4>2, DivMod
    <3> QED BY <3>1 DEF Byte
  <2>3. UnitBytes(w) = <<(240 + ((wch2 \div 4096) \div 64)) % 256, 128 + ((wch2 \div 4096) % 64),
          128 + ((wch2 \div 64) % 64), 128 + (wch2 % 64)>>
    <3>1. w # 0 /\ ~IsHigh(w) /\ ~(w <= 127) /\ ~(w <= 2047) /\ IsLow(w)
        BY <1>4, <1>w DEF IsHigh, IsLow
    <3>2. UnitBytes(w) = LowBytes(m_chtmp, w) BY <3>1 DEF UnitBytes
    <3> QED BY <3>2 DEF LowBytes, wch2
  <2> QED BY <2>2, <2>3
<1>5. CASE w > 2047 /\ ~IsLow(w) /\ ~IsHigh(w)
  <2>1. 224 + (w \div 4096) \in Byte BY <1>w DEF Byte
  <2>2. w \div 64 \in Int /\ w \in Int BY <1>w, DivMod
  <2>3. (w \div 64) % 64 \in 0..63 /\ w % 64 \in 0..63 BY <2>2, DivMod
  <2>4. 128 + ((w \div 64) % 64) \in Byte /\ 128 + (w % 64) \in Byte BY <2>3 DEF Byte
  <2>5. w # 0 /\ ~(w <= 127) /\ ~(w <= 2047) BY <1>5, <1>w
  <2>6. UnitBytes(w) = <<224 + (w \div 4096), 128 + ((w \div 64) % 64), 128 + (w % 64)>>
      BY <1>5, <2>5 DEF UnitBytes
  <2> QED BY <2>1, <2>4, <2>6
<1> QED BY <1>1, <1>2, <1>3, <1>4, <1>5, <1>w

\* The reference encodings yield bytes and 16-bit units.
LEMMA Utf8AreBytes == ASSUME NEW cp \in CodePoints PROVE Utf8(cp) \in Seq(Byte)
<1>0. cp \in Nat /\ cp \div 4096 < 272 BY InputAssumption
<1>1. cp \in Int /\ cp \div 64 \in Int /\ cp \div 4096 \in Int BY <1>0, DivMod
<1>2. /\ cp % 64 \in 0..63 /\ (cp \div 64) % 64 \in 0..63 /\ (cp \div 4096) % 64 \in 0..63
    BY <1>1, DivMod
<1>3. /\ 128 + (cp % 64) \in Byte /\ 128 + ((cp \div 64) % 64) \in Byte
      /\ 128 + ((cp \div 4096) % 64) \in Byte
    BY <1>2, SMT DEF Byte
<1>4. CASE cp = 0
  <2>1. Utf8(cp) = << >> BY <1>4, SMT DEF Utf8
  <2> QED BY <2>1
<1>5. CASE cp # 0 /\ cp < 128
  <2>1. Utf8(cp) = <<cp>> BY <1>5, SMT DEF Utf8
  <2>2. cp \in Byte BY <1>5, <1>0, SMT DEF Byte
  <2> QED BY <2>1, <2>2
<1>6. CASE cp >= 128 /\ cp < 2048
  <2>1. Utf8(cp) = <<192 + (cp \div 64), 128 + (cp % 64)>> BY <1>6, <1>0, SMT DEF Utf8
  <2>2. 192 + (cp \div 64) \in Byte BY <1>6, <1>0, SMT DEF Byte
  <2> QED BY <2>1, <2>2, <1>3
<1>7. CASE cp >= 2048 /\ cp < 65536
  <2>1. Utf8(cp) = <<224 + (cp \div 4096), 128 + ((cp \div 64) % 64), 128 + (cp % 64)>>
      BY <1>7, <1>0, SMT DEF Utf8
  <2>2. 224 + (cp \div 4096) \in Byte BY <1>7, <1>0, SMT DEF Byte
  <2> QED BY <2>1, <2>2, <1>3
<1>8. CASE cp >= 65536
  <2>0. cp # 0 /\ ~(cp < 128) /\ ~(cp < 2048) /\ ~(cp < 65536) BY <1>8, <1>0, SMT
  <2>1. Utf8(cp) = <<240 + ((cp \div 4096) \div 64), 128 + ((cp \div 4096) % 64),
                     128 + ((cp \div 64) % 64), 128 + (cp % 64)>>
      BY <2>0 DEF Utf8
  <2>2. 240 + ((cp \div 4096) \div 64) \in Byte BY <1>0, SMT DEF Byte
  <2> QED BY <2>1, <2>2, <1>3
<1> QED BY <1>0, <1>4, <1>5, <1>6, <1>7, <1>8, SMT

LEMMA WordRange ==
    /\ \A x \in Nat : x < 65536 => x \in Word
    /\ \A x \in 0..1023 : 55296 + x \in Word /\ 56320 + x \in Word
BY SMT DEF Word

LEMMA Utf16AreWords == ASSUME NEW cp \in CodePoints PROVE Utf16(cp) \in Seq(Word)
<1>0. cp \in Nat /\ cp \div 4096 < 272 BY InputAssumption
<1>1. CASE cp < 65536
  <2>1. cp \in Word BY <1>0, <1>1, WordRange
  <2>2. Utf16(cp) = <<cp>> BY <1>1, SMT DEF Utf16
  <2> QED BY <2>1, <2>2
<1>2. CASE ~(cp < 65536)
  <2> DEFINE d == cp - 65536
  <2>0. d \in Nat /\ cp = d + 16 * 4096 BY <1>0, <1>2, SMT
  <2>a. d \div 4096 < 256 BY <1>0, <2>0, SMT
  <2> HIDE DEF d
  <2>b. d \div 1024 \in 0..1023 /\ d % 1024 \in 0..1023 BY <2>0, <2>a, SMT
  <2>1. 55296 + (d \div 1024) \in Word BY <2>b, WordRange
  <2>2. 56320 + (d % 1024) \in Word BY <2>b, WordRange
  <2>3. Utf16(cp) = <<55296 + (d \div 1024), 56320 + (d % 1024)>>
      BY <1>2, SMT DEF Utf16, d
  <2> QED BY <2>1, <2>2, <2>3
<1> QED BY <1>1, <1>2, SMT

-----------------------------------------------------------------------------
USE BoundsAssumption, AlarmAssumption, GarbageAssumption

\* rl_getc pops only what it has seen to be there: the buffer is the main thread's own.
PopHasByte == mpc = "pop" => m_pub_buf # << >>

LEMMA TypeStep == TypeOK /\ PopHasByte /\ [Next]_vars => TypeOK'
<1> SUFFICES ASSUME TypeOK, PopHasByte, [Next]_vars PROVE TypeOK' OBVIOUS
<1> USE DEF TypeOK, ReaderPCs, MainPCs, Never, user, reader, main, shared
<1>1. ASSUME NEW cp \in CodePoints, TypeKey(cp) PROVE TypeOK'
  <2> DEFINE units == Utf16(cp)
             recs == [i \in 1..Len(units) |-> Down(units[i])]
  <2>1. units \in Seq(Word) BY Utf16AreWords
  <2>2. recs \in Seq(Records)
    <3>1. \A i \in 1..Len(units) : Down(units[i]) \in Records BY <2>1 DEF Down, Records
    <3> QED BY <2>1, <3>1
  <2>3. Utf8(cp) \in Seq(Byte) BY Utf8AreBytes
  <2>4. console' \in Seq(Records) /\ typed' \in Seq(Byte) /\ nrecords' \in Nat
      BY <1>1, <2>1, <2>2, <2>3 DEF TypeKey
  <2> QED BY <1>1, <2>4 DEF TypeKey
<1>2. ASSUME NEW kind \in {"resize", "ignored"}, OtherRecord(kind) PROVE TypeOK'
  <2>1. [kind |-> kind, unit |-> 0] \in Records BY DEF Records
  <2>2. console' \in Seq(Records) /\ nrecords' \in Nat BY <1>2, <2>1 DEF OtherRecord
  <2> QED BY <1>2, <2>2 DEF OtherRecord
<1>3. CASE Tick BY <1>3 DEF Tick
<1>4. CASE ReaderStep
  <2>1. CASE ReadConsoleInput
    <3>1. PICK n \in 1..BatchSize :
            /\ n <= Len(console) /\ batch' = SubSeq(console, 1, n)
            /\ console' = SubSeq(console, n + 1, Len(console))
        BY <2>1 DEF ReadConsoleInput
    <3>2. batch' \in Seq(Records) /\ console' \in Seq(Records) BY <3>1, SubSeqProperties
    <3> QED BY <2>1, <3>2 DEF ReadConsoleInput
  <2>2. CASE HandleKey
    <3>1. Head(batch) \in Records /\ Tail(batch) \in Seq(Records) BY <2>2 DEF HandleKey
    <3>2. Head(batch).unit \in Word BY <2>2, <3>1 DEF HandleKey, Records
    <3>3. UnitBytes(Head(batch).unit) \in Seq(Byte) BY <3>2, UnitBytesAreBytes
    <3>4. NextChtmp(Head(batch).unit) \in Word
      <4>1. 0 \in Word BY DEF Word
      <4> QED BY <3>2, <4>1 DEF NextChtmp
    <3> QED BY <2>2, <3>1, <3>3, <3>4 DEF HandleKey
  <2>3. CASE HandleResize
    <3>1. Tail(batch) \in Seq(Records) BY <2>3 DEF HandleResize
    <3> QED BY <2>3, <3>1 DEF HandleResize
  <2>4. CASE SkipRecord
    <3>1. Tail(batch) \in Seq(Records) BY <2>4 DEF SkipRecord
    <3> QED BY <2>4, <3>1 DEF SkipRecord
  <2>5. CASE BatchDone BY <2>5 DEF BatchDone
  <2>6. CASE ReaderEnter BY <2>6 DEF ReaderEnter
  <2>7. CASE ReaderAppend BY <2>7 DEF ReaderAppend
  <2>8. CASE ReaderSignal BY <2>8 DEF ReaderSignal
  <2> QED BY <1>4, <2>1, <2>2, <2>3, <2>4, <2>5, <2>6, <2>7, <2>8 DEF ReaderStep
<1>5. CASE rl_getc BY <1>5 DEF rl_getc
<1>6. CASE FIONREAD BY <1>6 DEF FIONREAD
<1>7. ASSUME NEW seconds \in AlarmSeconds, wrl_alarm(seconds) PROVE TypeOK'
  <2>1. seconds \in Int OBVIOUS
  <2>2. next_stop' \in 0..MaxTime BY <1>7, <2>1 DEF wrl_alarm
  <2> QED BY <1>7, <2>2 DEF wrl_alarm
<1>8. CASE MainStep
  <2>1. CASE CheckPubBuf BY <2>1 DEF CheckPubBuf
  <2>2. CASE MoveEnter BY <2>2 DEF MoveEnter
  <2>3. CASE MoveInsert BY <2>3 DEF MoveInsert
  <2>4. CASE MoveClear
    <3>1. Len(m_pub_buf) \in Nat /\ << >> \in Seq(Byte) OBVIOUS
    <3> QED BY <2>4, <3>1 DEF MoveClear
  <2>5. CASE Pop
    <3>1. m_pub_buf # << >> BY <2>5 DEF Pop, PopHasByte
    <3>2. Append(got, Head(m_pub_buf)) \in Seq(Byte) /\ Tail(m_pub_buf) \in Seq(Byte) BY <3>1
    <3>3. (IF promised > 0 THEN promised - 1 ELSE 0) \in Nat OBVIOUS
    <3>4. interrupts' \subseteq Nat
      <4>1. Len(got) + 1 \in Nat OBVIOUS
      <4> QED BY <2>5, <4>1 DEF Pop
    <3> QED BY <2>5, <3>2, <3>3, <3>4 DEF Pop
  <2>6. CASE WinszRead BY <2>6 DEF WinszRead
  <2>7. CASE WinszClear
    <3>1. winches + 1 \in Nat OBVIOUS
    <3> QED BY <2>7, <3>1 DEF WinszClear
  <2>8. CASE Deadline BY <2>8 DEF Deadline
  <2>9. CASE WaitSignalled BY <2>9 DEF WaitSignalled
  <2>10. CASE WaitTimeout BY <2>10 DEF WaitTimeout
  <2> QED BY <1>8, <2>1, <2>2, <2>3, <2>4, <2>5, <2>6, <2>7, <2>8, <2>9, <2>10 DEF MainStep
<1>9. CASE UNCHANGED vars BY <1>9 DEF vars
<1> QED BY <1>1, <1>2, <1>3, <1>4, <1>5, <1>6, <1>7, <1>8, <1>9 DEF Next

-----------------------------------------------------------------------------
\* m_pub_buf holds what FIONREAD announced, and is empty when rl_getc waits.
PromiseBound ==
    /\ promised <= Len(m_pub_buf)
    /\ mpc \in {"deadline", "wait"} => m_pub_buf = << >>

\* A wait that can time out ends when the armed alarm is due, not before.
TimeoutIsAlarm == mpc = "wait" /\ wakeAt # Never => next_stop # 0 /\ next_stop <= wakeAt

\* The inductive invariant.
IInv ==
    TypeOK /\ PopHasByte /\ LockExcludes /\ NoLostWakeup /\ PromiseBound /\ TimeoutIsAlarm

ControlInv == PopHasByte /\ LockExcludes /\ NoLostWakeup /\ PromiseBound /\ TimeoutIsAlarm

\* The reader touches the control of the main thread only through m_lock, m_buf
\* and m_Event.
LEMMA ReaderStepInv == IInv /\ ReaderStep => ControlInv'
<1> SUFFICES ASSUME IInv, ReaderStep PROVE ControlInv' OBVIOUS
<1> USE DEF IInv, ControlInv, PopHasByte, LockExcludes, NoLostWakeup, PromiseBound,
            TimeoutIsAlarm, user, main
<1>1. CASE ReadConsoleInput BY <1>1 DEF ReadConsoleInput
<1>2. CASE HandleKey BY <1>2 DEF HandleKey
<1>3. CASE HandleResize BY <1>3 DEF HandleResize
<1>4. CASE SkipRecord BY <1>4 DEF SkipRecord
<1>5. CASE BatchDone BY <1>5 DEF BatchDone
<1>6. CASE ReaderEnter BY <1>6 DEF ReaderEnter
<1>7. CASE ReaderAppend BY <1>7 DEF ReaderAppend
<1>8. CASE ReaderSignal BY <1>8 DEF ReaderSignal
<1> QED BY <1>1, <1>2, <1>3, <1>4, <1>5, <1>6, <1>7, <1>8 DEF ReaderStep

LEMMA MainStepInv == IInv /\ MainStep => ControlInv'
<1> SUFFICES ASSUME IInv, MainStep PROVE ControlInv' OBVIOUS
<1>0. /\ m_pub_buf \in Seq(Byte) /\ m_buf \in Seq(Byte) /\ promised \in Nat /\ now \in Nat
      /\ next_stop \in Nat
    BY DEF IInv, TypeOK
<1> USE DEF IInv, ControlInv, PopHasByte, LockExcludes, NoLostWakeup, PromiseBound,
            TimeoutIsAlarm, shared, reader, user
<1>1. CASE CheckPubBuf BY <1>1 DEF CheckPubBuf
<1>2. CASE MoveEnter BY <1>2 DEF MoveEnter
<1>3. CASE MoveInsert
  <2>1. Len(m_pub_buf) <= Len(m_pub_buf \o m_buf) BY <1>0
  <2>2. promised <= Len(m_pub_buf \o m_buf) BY <1>0, <2>1
  <2> QED BY <1>3, <2>2 DEF MoveInsert
<1>4. CASE MoveClear
  <2>1. Len(m_pub_buf) \in Nat BY <1>0
  <2> QED BY <1>4, <2>1 DEF MoveClear
<1>5. CASE Pop
  <2>1. m_pub_buf # << >> BY <1>5 DEF Pop
  <2>2. Len(Tail(m_pub_buf)) = Len(m_pub_buf) - 1 /\ Len(m_pub_buf) \in Nat \ {0} BY <1>0, <2>1
  <2>3. (IF promised > 0 THEN promised - 1 ELSE 0) <= Len(Tail(m_pub_buf)) BY <1>0, <2>2
  <2> QED BY <1>5, <2>3 DEF Pop
<1>6. CASE WinszRead BY <1>6 DEF WinszRead
<1>7. CASE WinszClear BY <1>7 DEF WinszClear
<1>8. CASE Deadline
  <2>1. wakeAt' # Never => next_stop # 0 /\ next_stop <= wakeAt' BY <1>8, <1>0 DEF Deadline
  <2> QED BY <1>8, <2>1 DEF Deadline
<1>9. CASE WaitSignalled BY <1>9 DEF WaitSignalled
<1>10. CASE WaitTimeout BY <1>10 DEF WaitTimeout
<1> QED BY <1>1, <1>2, <1>3, <1>4, <1>5, <1>6, <1>7, <1>8, <1>9, <1>10 DEF MainStep

LEMMA InductiveStep == IInv /\ [Next]_vars => IInv'
<1> SUFFICES ASSUME IInv, [Next]_vars PROVE IInv' OBVIOUS
<1>1. TypeOK' BY TypeStep DEF IInv
<1>2. ControlInv'
  <2> USE DEF IInv, ControlInv, PopHasByte, LockExcludes, NoLostWakeup, PromiseBound,
              TimeoutIsAlarm, user, reader, main, shared
  <2>1. ASSUME NEW cp \in CodePoints, TypeKey(cp) PROVE ControlInv' BY <2>1 DEF TypeKey
  <2>2. ASSUME NEW kind \in {"resize", "ignored"}, OtherRecord(kind) PROVE ControlInv'
      BY <2>2 DEF OtherRecord
  <2>3. CASE Tick BY <2>3 DEF Tick
  <2>4. CASE rl_getc BY <2>4 DEF rl_getc
  <2>5. CASE FIONREAD BY <2>5 DEF FIONREAD
  <2>6. ASSUME NEW seconds \in AlarmSeconds, wrl_alarm(seconds) PROVE ControlInv'
      BY <2>6 DEF wrl_alarm
  <2>7. CASE UNCHANGED vars BY <2>7 DEF vars
  <2> QED BY <2>1, <2>2, <2>3, <2>4, <2>5, <2>6, <2>7, ReaderStepInv, MainStepInv DEF Next
<1> QED BY <1>1, <1>2 DEF IInv, ControlInv

LEMMA InitInv == Init => IInv
<1> SUFFICES ASSUME Init PROVE IInv OBVIOUS
<1>1. TypeOK
  <2>1. << >> \in Seq(Byte) /\ << >> \in Seq(Records) /\ 0 \in Word BY DEF Word
  <2>2. 1 \in 1..MaxTime /\ 0 \in 0..MaxTime /\ 0 \in Nat OBVIOUS
  <2>3. now \in 1..MaxTime /\ next_stop \in 0..MaxTime BY <2>2 DEF Init
  <2>4. wakeAt \in 1..MaxTime \cup {Never} BY DEF Init
  <2> QED BY <2>1, <2>2, <2>3, <2>4 DEF Init, TypeOK, ReaderPCs, MainPCs
<1>2. ControlInv
    BY DEF Init, ControlInv, PopHasByte, LockExcludes, NoLostWakeup, PromiseBound, TimeoutIsAlarm, Never
<1> QED BY <1>1, <1>2 DEF IInv, ControlInv

\* Variables keep their types; every byte handed on is a byte.
THEOREM TypeCorrect == Spec => []TypeOK
<1>1. IInv => TypeOK BY DEF IInv
<1> QED BY <1>1, InitInv, InductiveStep, PTL DEF Spec

\* m_lock excludes and rl_getc never sleeps on bytes that are ready: the event is
\* set, or about to be (compats.cpp:428-436, 525-530, 553-573).
THEOREM WakeupSafety == Spec => [](LockExcludes /\ NoLostWakeup)
<1>1. IInv => LockExcludes /\ NoLostWakeup BY DEF IInv
<1> QED BY <1>1, InitInv, InductiveStep, PTL DEF Spec

\* After FIONREAD announced n bytes, the next n calls of rl_getc do not wait
\* (compats.cpp:277-280, 553-558, 577-580).
THEOREM FIONREADKeepsItsPromise == Spec => []PromiseKept
<1>1. IInv => PromiseKept
  <2> SUFFICES ASSUME IInv, mpc \in {"deadline", "wait"} PROVE promised = 0 BY DEF PromiseKept
  <2>1. m_pub_buf = << >> /\ promised <= Len(m_pub_buf) /\ promised \in Nat
      BY DEF IInv, PromiseBound, TypeOK
  <2>2. Len(m_pub_buf) = 0 BY <2>1
  <2>3. promised <= 0 BY <2>1, <2>2
  <2> QED BY <2>1, <2>3
<1> QED BY <1>1, InitInv, InductiveStep, PTL DEF Spec

\* SIGALRM is raised only when the armed alarm is due (compats.cpp:561-572).
THEOREM AlarmOnTime == Spec => AlarmNotEarly
<1>1. IInv /\ [Next]_vars =>
        [alarms' # alarms => next_stop # 0 /\ next_stop <= now /\ next_stop' = 0]_vars
  <2> SUFFICES ASSUME IInv, Next, alarms' # alarms
               PROVE  next_stop # 0 /\ next_stop <= now /\ next_stop' = 0
      OBVIOUS
  <2>1. WaitTimeout
      BY DEF Next, TypeKey, OtherRecord, Tick, ReaderStep, ReadConsoleInput, HandleKey,
         HandleResize, SkipRecord, BatchDone, ReaderEnter, ReaderAppend, ReaderSignal, rl_getc,
         FIONREAD, wrl_alarm, MainStep, CheckPubBuf, MoveEnter, MoveInsert, MoveClear, Pop,
         WinszRead, WinszClear, Deadline, WaitSignalled, main, shared, reader, user
  <2>2. next_stop # 0 /\ next_stop <= wakeAt /\ wakeAt <= now /\ next_stop' = 0
      BY <2>1 DEF WaitTimeout, IInv, TimeoutIsAlarm
  <2>3. next_stop \in Int /\ wakeAt \in Int /\ now \in Int BY DEF IInv, TypeOK, Never
  <2> QED BY <2>2, <2>3
<1> QED BY <1>1, InitInv, InductiveStep, PTL DEF Spec, AlarmNotEarly
-----------------------------------------------------------------------------
(* Nothing is lost on the way: what has been typed and is in no buffer is  *)
(* still to come out of the records that are left.                         *)

\* The bytes that record r gives when high is the unit before it.
RecordBytes(high, r) ==
    IF r.kind # "down" \/ r.unit = 0 \/ IsHigh(r.unit) THEN << >>
    ELSE IF r.unit <= 127 THEN <<r.unit>>
    ELSE IF r.unit <= 2047 THEN <<192 + (r.unit \div 64), 128 + (r.unit % 64)>>
    ELSE IF IsLow(r.unit) THEN LowBytes(high, r.unit)
    ELSE <<224 + (r.unit \div 4096), 128 + ((r.unit \div 64) % 64), 128 + (r.unit % 64)>>

LowRecord(r) == r.kind = "down" /\ IsLow(r.unit)
HighRecord(r) == r.kind = "down" /\ IsHigh(r.unit)

\* The unit before record i of r.
Before(r, high, i) == IF i = 1 THEN high ELSE r[i - 1].unit

\* s stands in t behind the first m bytes and ends with the n-th.
StandsAt(s, t, m, n) == n = m + Len(s) /\ \A k \in 1..Len(s) : t[m + k] = s[k]

\* b cuts what f leaves of t into what the records r give.
Cuts(b, t, f, r, high) ==
    /\ b \in [0..Len(r) -> 0..Len(t)]
    /\ StandsAt(f, t, 0, b[0])
    /\ b[Len(r)] = Len(t)
    /\ \A i \in 1..Len(r) : StandsAt(RecordBytes(Before(r, high, i), r[i]), t, b[i - 1], b[i])
ComesOut(t, f, r, high) == \E b : Cuts(b, t, f, r, high)

Left == batch \o console
Passed == got \o InFlight

\* In r a low surrogate comes right after its high one, or after what began is gone.
Whole(r, begun) ==
    \A i \in 1..Len(r) : LowRecord(r[i]) => IF i = 1 THEN begun ELSE HighRecord(r[i - 1])

PairsAreWhole == Whole(Left, started)

ReaderFrame == /\ rpc # "handle" => batch = << >>
               /\ ~started => rpc = "read"

NothingIsLost == ComesOut(typed, Passed, Left, m_chtmp)

OrderInv == ReaderFrame /\ PairsAreWhole /\ NothingIsLost

LEMMA UnitBytesOfRecord ==
    ASSUME NEW r \in Records, r.kind = "down"
    PROVE  UnitBytes(r.unit) = RecordBytes(m_chtmp, r)
BY DEF UnitBytes, RecordBytes

LEMMA OtherRecordsAreSilent ==
    ASSUME NEW r, r.kind # "down", NEW high PROVE RecordBytes(high, r) = << >>
BY DEF RecordBytes

\* Only a low surrogate looks at the unit before it.
LEMMA HighMattersToLow ==
    ASSUME NEW r \in Records, ~LowRecord(r), NEW g, NEW h
    PROVE  RecordBytes(g, r) = RecordBytes(h, r)
BY DEF RecordBytes, LowRecord

\* A key's units give the bytes of its character.
LEMMA PlainKey ==
    ASSUME NEW cp \in CodePoints, cp < 65536, NEW high
    PROVE  Utf16(cp) = <<cp>> /\ RecordBytes(high, Down(cp)) = Utf8(cp) /\ ~IsLow(cp)
<1>1. cp \in Nat /\ cp \notin 55296..57343
  BY InputAssumption
<1>2. ~IsHigh(cp) /\ ~IsLow(cp)
  BY <1>1 DEF IsHigh, IsLow
<1>3. Utf16(cp) = <<cp>>
  BY DEF Utf16
<1>4. Down(cp).kind = "down" /\ Down(cp).unit = cp
  BY DEF Down
<1>5. CASE cp = 0
  BY <1>4, <1>5, <1>2, <1>3 DEF RecordBytes, Utf8
<1>6. CASE cp # 0 /\ cp < 128
  BY <1>1, <1>4, <1>6, <1>2, <1>3 DEF RecordBytes, Utf8
<1>7. CASE cp >= 128 /\ cp < 2048
  BY <1>1, <1>4, <1>7, <1>2, <1>3 DEF RecordBytes, Utf8
<1>8. CASE cp >= 2048
  BY <1>1, <1>4, <1>8, <1>2, <1>3 DEF RecordBytes, Utf8
<1> QED
  BY <1>1, <1>5, <1>6, <1>7, <1>8

LEMMA Quotient ==
    ASSUME NEW a \in Nat
    PROVE  \E q \in Int : q = a \div 1024 /\ a - 1024 * q = a % 1024
OBVIOUS

LEMMA PairOfUnits ==
    ASSUME NEW cp \in CodePoints, ~(cp < 65536)
    PROVE  LET hi == 55296 + ((cp - 65536) \div 1024)
               lo == 56320 + ((cp - 65536) % 1024)
           IN /\ Utf16(cp) = <<hi, lo>>
              /\ IsHigh(hi) /\ IsLow(lo)
              /\ \A high : RecordBytes(high, Down(hi)) = << >>
              /\ RecordBytes(hi, Down(lo)) = Utf8(cp)
<1> DEFINE d == cp - 65536
           hi == 55296 + (d \div 1024)
           lo == 56320 + (d % 1024)
<1>0. cp \in Nat /\ cp \div 4096 < 272
  BY InputAssumption
<1>1. d \in Nat /\ cp = d + 65536
  BY <1>0
<1>2. d \div 1024 \in 0..1023 /\ d % 1024 \in 0..1023
  <2>1. cp = d + 16 * 4096
    BY <1>1
  <2>2. d \div 4096 < 256
    BY <1>0, <1>1, <2>1, SMT
  <2> HIDE DEF d
  <2> QED
    BY <1>1, <2>2, SMT
<1>3. PICK q \in Int : q = d \div 1024 /\ d - 1024 * q = d % 1024
  <2> HIDE DEF d
  <2> QED
    BY <1>1, Quotient
<1>4. 65536 + (hi - 55296) * 1024 + (lo - 56320) = cp
  <2>1. hi = 55296 + q /\ lo = 56320 + (d - 1024 * q)
    BY <1>3
  <2> HIDE DEF d, hi, lo
  <2> QED
    BY <1>1, <2>1
<1>5. IsHigh(hi) /\ IsLow(lo) /\ ~IsHigh(lo) /\ lo \in Nat /\ lo > 2047
  <2>1. \A x \in 0..1023 : 55296 + x \in 55296..56319 /\ 56320 + x \in 56320..57343
    OBVIOUS
  <2>2. hi \in 55296..56319 /\ lo \in 56320..57343
    <3> HIDE DEF d
    <3> QED
      BY <1>2, <2>1
  <2> HIDE DEF hi, lo
  <2> QED
    BY <2>2 DEF IsHigh, IsLow
<1>6. Utf16(cp) = <<hi, lo>>
  BY <1>0 DEF Utf16
<1>7. Down(hi).kind = "down" /\ Down(hi).unit = hi /\ Down(lo).kind = "down" /\ Down(lo).unit = lo
  BY DEF Down
<1>8. \A high : RecordBytes(high, Down(hi)) = << >>
  <2> HIDE DEF hi
  <2> QED
    BY <1>5, <1>7 DEF RecordBytes
<1>9. RecordBytes(hi, Down(lo)) = LowBytes(hi, lo)
  <2> HIDE DEF hi, lo
  <2> QED
    BY <1>5, <1>7 DEF RecordBytes
<1>10. LowBytes(hi, lo) = Utf8(cp)
  <2>1. (240 + ((cp \div 4096) \div 64)) % 256 = 240 + ((cp \div 4096) \div 64)
    BY <1>0, SMT
  <2>2. cp # 0 /\ ~(cp < 128) /\ ~(cp < 2048) /\ ~(cp < 65536)
    BY <1>0
  <2> HIDE DEF hi, lo
  <2> QED
    BY <1>4, <2>1, <2>2 DEF LowBytes, Utf8
<1> QED
  BY <1>5, <1>6, <1>8, <1>9, <1>10

\* When no record is left all bytes are there, and never any other.
LEMMA WhatComesOut ==
    ASSUME NEW t \in Seq(Byte), NEW f \in Seq(Byte), NEW r \in Seq(Records), NEW high,
           ComesOut(t, f, r, high)
    PROVE  Prefix(f, t) /\ (r = << >> => f = t)
<1>1. PICK b : Cuts(b, t, f, r, high)
  BY DEF ComesOut
<1>2. b[0] = Len(f) /\ b[0] \in 0..Len(t) /\ \A k \in 1..Len(f) : t[k] = f[k]
  <2>1. 0 \in 0..Len(r) /\ Len(f) \in Nat
    OBVIOUS
  <2>2. b[0] = 0 + Len(f) /\ b[0] \in 0..Len(t) /\ \A k \in 1..Len(f) : t[0 + k] = f[k]
    BY <1>1, <2>1 DEF Cuts, StandsAt
  <2> QED
    BY <2>1, <2>2
<1>3. Prefix(f, t)
  BY <1>2 DEF Prefix
<1>4. ASSUME r = << >> PROVE f = t
  <2>1. Len(f) = Len(t)
    BY <1>1, <1>2, <1>4 DEF Cuts
  <2> QED
    BY <1>2, <2>1, SeqEqual
<1> QED
  BY <1>3, <1>4

LEMMA HighForgotten ==
    ASSUME NEW t, NEW f, NEW r \in Seq(Records), NEW g, NEW h,
           r # << >> => ~LowRecord(r[1]),
           ComesOut(t, f, r, g)
    PROVE  ComesOut(t, f, r, h)
<1>1. PICK b : Cuts(b, t, f, r, g)
  BY DEF ComesOut
<1>2. \A i \in 1..Len(r) : RecordBytes(Before(r, g, i), r[i]) = RecordBytes(Before(r, h, i), r[i])
  <2> SUFFICES ASSUME NEW i \in 1..Len(r)
               PROVE  RecordBytes(Before(r, g, i), r[i]) = RecordBytes(Before(r, h, i), r[i])
    OBVIOUS
  <2>1. CASE i = 1
    <3>1. r # << >> /\ r[1] \in Records
      BY <2>1
    <3> QED
      BY <2>1, <3>1, HighMattersToLow
  <2>2. CASE i # 1
    BY <2>2 DEF Before
  <2> QED
    BY <2>1, <2>2
<1>3. Cuts(b, t, f, r, h)
  BY <1>1, <1>2 DEF Cuts
<1> QED
  BY <1>3 DEF ComesOut

\* The first record gives its bytes.
LEMMA RecordTaken ==
    ASSUME NEW t \in Seq(Byte), NEW f \in Seq(Byte), NEW r \in Seq(Records), r # << >>,
           NEW g, NEW h, NEW s \in Seq(Byte), s = RecordBytes(g, r[1]),
           Len(r) > 1 /\ LowRecord(r[2]) => h = r[1].unit,
           ComesOut(t, f, r, g)
    PROVE  ComesOut(t, f \o s, Tail(r), h)
<1>1. PICK b : Cuts(b, t, f, r, g)
  BY DEF ComesOut
<1> DEFINE n == Len(r) - 1
           c == [i \in 0..n |-> b[i + 1]]
<1>2. /\ n \in Nat /\ Len(r) = n + 1 /\ Len(Tail(r)) = n /\ Len(t) \in Nat
      /\ \A i \in 1..n : Tail(r)[i] = r[i + 1]
  OBVIOUS
<1>3. /\ b \in [0..(n + 1) -> 0..Len(t)] /\ b[n + 1] = Len(t)
      /\ b[0] = Len(f) /\ \A k \in 1..Len(f) : t[k] = f[k]
  <2>1. /\ b \in [0..(n + 1) -> 0..Len(t)] /\ b[n + 1] = Len(t)
        /\ b[0] = 0 + Len(f) /\ \A k \in 1..Len(f) : t[0 + k] = f[k]
    BY <1>1, <1>2 DEF Cuts, StandsAt
  <2>2. Len(f) \in Nat
    OBVIOUS
  <2> QED
    BY <2>1, <2>2
<1>4. StandsAt(s, t, b[0], b[1])
  <2>1. Before(r, g, 1) = g /\ 1 \in 1..Len(r) /\ 1 - 1 = 0
    BY <1>2 DEF Before
  <2> QED
    BY <1>1, <2>1 DEF Cuts
<1>5. StandsAt(f \o s, t, 0, c[0])
  <2>1. Len(f \o s) = Len(f) + Len(s) /\ Len(f) \in Nat /\ Len(s) \in Nat
    OBVIOUS
  <2>2. c[0] = Len(f) + Len(s)
    <3>1. c[0] = b[1]
      BY <1>2
    <3> QED
      BY <3>1, <1>3, <1>4 DEF StandsAt
  <2>3. ASSUME NEW k \in 1..(Len(f) + Len(s)) PROVE t[k] = (f \o s)[k]
    <3>1. CASE k <= Len(f)
      BY <3>1, <2>1, <1>3
    <3>2. CASE k > Len(f)
      <4>1. k - Len(f) \in 1..Len(s) /\ Len(f) + (k - Len(f)) = k
        BY <3>2, <2>1
      <4>2. t[Len(f) + (k - Len(f))] = s[k - Len(f)]
        BY <1>3, <1>4, <4>1 DEF StandsAt
      <4>3. (f \o s)[k] = s[k - Len(f)]
        BY <3>2, <2>1
      <4> QED
        BY <4>1, <4>2, <4>3
    <3> QED
      BY <3>1, <3>2, <2>1
  <2> HIDE DEF c
  <2> QED
    BY <2>1, <2>2, <2>3 DEF StandsAt
<1>6. ASSUME NEW i \in 1..n
      PROVE  StandsAt(RecordBytes(Before(Tail(r), h, i), Tail(r)[i]), t, c[i - 1], c[i])
  <2>1. i + 1 \in 1..Len(r) /\ c[i - 1] = b[(i + 1) - 1] /\ c[i] = b[i + 1] /\ Tail(r)[i] = r[i + 1]
    BY <1>2
  <2>2. RecordBytes(Before(Tail(r), h, i), Tail(r)[i]) = RecordBytes(Before(r, g, i + 1), r[i + 1])
    <3>1. Before(r, g, i + 1) = r[i].unit
      BY <1>2 DEF Before
    <3>2. CASE i = 1
      <4>1. Before(Tail(r), h, i) = h /\ r[2] \in Records /\ Len(r) > 1
        BY <3>2, <1>2 DEF Before
      <4>2. CASE LowRecord(r[2])
        BY <2>1, <3>1, <3>2, <4>1, <4>2
      <4>3. CASE ~LowRecord(r[2])
        <5>1. RecordBytes(h, r[2]) = RecordBytes(r[1].unit, r[2])
          BY <4>1, <4>3, HighMattersToLow
        <5> QED
          BY <2>1, <3>1, <3>2, <4>1, <5>1
      <4> QED
        BY <4>2, <4>3
    <3>3. CASE i # 1
      <4>1. i - 1 \in 1..n /\ Before(Tail(r), h, i) = Tail(r)[i - 1].unit /\ (i - 1) + 1 = i
        BY <3>3, <1>2 DEF Before
      <4>2. Tail(r)[i - 1] = r[(i - 1) + 1]
        BY <1>2, <4>1
      <4> QED
        BY <2>1, <3>1, <4>1, <4>2
    <3> QED
      BY <3>2, <3>3
  <2>3. StandsAt(RecordBytes(Before(r, g, i + 1), r[i + 1]), t, b[(i + 1) - 1], b[i + 1])
    BY <1>1, <2>1 DEF Cuts
  <2> QED
    BY <2>1, <2>2, <2>3
<1>7. c \in [0..n -> 0..Len(t)] /\ c[n] = Len(t)
  <2>1. \A i \in 0..n : i + 1 \in 0..(n + 1)
    BY <1>2
  <2>2. c[n] = b[n + 1]
    BY <1>2
  <2> QED
    BY <1>3, <2>1, <2>2
<1>8. Cuts(c, t, f \o s, Tail(r), h)
  <2> HIDE DEF c, n
  <2> QED
    BY <1>2, <1>5, <1>6, <1>7 DEF Cuts
<1> QED
  BY <1>8 DEF ComesOut

\* A record more, and the bytes it will give.
LEMMA RecordAdded ==
    ASSUME NEW t \in Seq(Byte), NEW f, NEW r \in Seq(Records), NEW x \in Records,
           NEW high, NEW s \in Seq(Byte),
           s = RecordBytes(IF r = << >> THEN high ELSE r[Len(r)].unit, x),
           ComesOut(t, f, r, high), f \in Seq(Byte)
    PROVE  ComesOut(t \o s, f, Append(r, x), high)
<1>1. PICK b : Cuts(b, t, f, r, high)
  BY DEF ComesOut
<1> DEFINE n == Len(r)
           m == Len(t) + Len(s)
           c == [i \in 0..(n + 1) |-> IF i <= n THEN b[i] ELSE m]
<1>2. /\ n \in Nat /\ Len(t) \in Nat /\ Len(s) \in Nat /\ Len(t \o s) = m
      /\ Len(Append(r, x)) = n + 1 /\ Append(r, x)[n + 1] = x
      /\ \A i \in 1..n : Append(r, x)[i] = r[i]
      /\ \A k \in 1..Len(t) : (t \o s)[k] = t[k]
      /\ \A k \in 1..Len(s) : (t \o s)[Len(t) + k] = s[k]
  OBVIOUS
<1>3. /\ b \in [0..n -> 0..Len(t)] /\ b[n] = Len(t)
      /\ StandsAt(f, t, 0, b[0])
      /\ \A i \in 1..n : StandsAt(RecordBytes(Before(r, high, i), r[i]), t, b[i - 1], b[i])
  BY <1>1 DEF Cuts
<1>4. /\ c \in [0..(n + 1) -> 0..Len(t \o s)] /\ c[n + 1] = Len(t \o s) /\ c[n] = Len(t)
      /\ \A i \in 0..n : c[i] = b[i]
  <2>1. \A i \in 0..n : b[i] \in 0..m
    BY <1>2, <1>3
  <2>2. m \in 0..m /\ n + 1 \in 0..(n + 1) /\ ~(n + 1 <= n) /\ n \in 0..(n + 1) /\ n <= n
    BY <1>2
  <2>3. \A i \in 0..(n + 1) : i <= n => i \in 0..n
    BY <1>2
  <2>4. \A i \in 0..n : i \in 0..(n + 1) /\ i <= n
    BY <1>2
  <2> HIDE DEF n, m
  <2> QED
    BY <1>2, <1>3, <2>1, <2>2, <2>3, <2>4
<1>5. ASSUME NEW u \in Nat, NEW v \in 0..Len(t), NEW w, StandsAt(w, t, u, v), Len(w) \in Nat
      PROVE  StandsAt(w, t \o s, u, v)
  <2>1. \A k \in 1..Len(w) : u + k \in 1..Len(t)
    BY <1>5, <1>2 DEF StandsAt
  <2> QED
    BY <1>5, <1>2, <2>1 DEF StandsAt
<1>6. StandsAt(f, t \o s, 0, c[0])
  <2>1. c[0] = b[0] /\ b[0] \in 0..Len(t)
    BY <1>2, <1>3, <1>4
  <2> HIDE DEF c
  <2> QED
    BY <1>3, <1>5, <2>1
<1>7. ASSUME NEW i \in 1..(n + 1)
      PROVE  StandsAt(RecordBytes(Before(Append(r, x), high, i), Append(r, x)[i]),
                      t \o s, c[i - 1], c[i])
  <2>1. CASE i <= n
    <3>1. i \in 1..n /\ i - 1 \in 0..n /\ i \in 0..n
      BY <2>1, <1>2
    <3>2. Before(Append(r, x), high, i) = Before(r, high, i)
      <4>1. i # 1 => i - 1 \in 1..n
        BY <3>1, <1>2
      <4> QED
        BY <4>1, <1>2 DEF Before
    <3>3. c[i - 1] = b[i - 1] /\ c[i] = b[i] /\ b[i - 1] \in Nat /\ b[i] \in 0..Len(t)
      <4>1. c[i - 1] = b[i - 1] /\ c[i] = b[i]
        <5> HIDE DEF c, n
        <5> QED
          BY <1>4, <3>1
      <4>2. b[i - 1] \in 0..Len(t) /\ b[i] \in 0..Len(t)
        <5> HIDE DEF c, n
        <5> QED
          BY <1>3, <3>1
      <4> QED
        BY <4>1, <4>2, <1>2
    <3>4. StandsAt(RecordBytes(Before(r, high, i), r[i]), t, b[i - 1], b[i])
      BY <1>3, <3>1
    <3>5. Len(RecordBytes(Before(r, high, i), r[i])) \in Nat
      BY DEF RecordBytes, LowBytes
    <3> HIDE DEF c
    <3> QED
      BY <1>2, <1>5, <3>1, <3>2, <3>3, <3>4, <3>5
  <2>2. CASE ~(i <= n)
    <3>1. i = n + 1 /\ i - 1 = n
      BY <2>2, <1>2
    <3>2. Before(Append(r, x), high, i) = IF r = << >> THEN high ELSE r[n].unit
      <4>1. r = << >> <=> n = 0
        OBVIOUS
      <4>2. n # 0 => n \in 1..n
        BY <1>2
      <4>3. i = 1 <=> n = 0
        BY <3>1, <1>2
      <4>4. i # 1 => Append(r, x)[i - 1] = r[n]
        <5>1. \A j \in 1..n : Append(r, x)[j] = r[j]
          BY <1>2
        <5> HIDE DEF c, n
        <5> QED
          BY <3>1, <4>2, <4>3, <5>1
      <4> QED
        BY <4>1, <4>3, <4>4 DEF Before
    <3>3. RecordBytes(Before(Append(r, x), high, i), Append(r, x)[i]) = s
      BY <3>1, <3>2, <1>2
    <3>4. StandsAt(s, t \o s, Len(t), m)
      BY <1>2 DEF StandsAt
    <3> QED
      BY <1>2, <1>4, <3>1, <3>3, <3>4
  <2> QED
    BY <2>1, <2>2
<1>8. Cuts(c, t \o s, f, Append(r, x), high)
  <2> HIDE DEF c
  <2> QED
    BY <1>2, <1>4, <1>6, <1>7 DEF Cuts
<1> QED
  BY <1>8 DEF ComesOut

-----------------------------------------------------------------------------
(* The steps *)

LEMMA PassedIsBytes ==
    TypeOK => InFlight \in Seq(Byte) /\ Passed \in Seq(Byte) /\ Left \in Seq(Records)
BY DEF TypeOK, InFlight, Passed, Left

\* The parts of InFlight.
Handed == IF mpc = "clear" THEN << >> ELSE m_buf
InLocal == IF rpc \in {"handle", "enter", "append"} THEN local_buf ELSE << >>

LEMMA PartsAreBytes ==
    TypeOK => /\ got \in Seq(Byte) /\ m_pub_buf \in Seq(Byte) /\ m_buf \in Seq(Byte)
              /\ local_buf \in Seq(Byte) /\ Handed \in Seq(Byte) /\ InLocal \in Seq(Byte)
              /\ Passed = got \o (m_pub_buf \o Handed \o InLocal)
BY DEF TypeOK, Handed, InLocal, Passed, InFlight

LEMMA Regroup ==
    ASSUME NEW a \in Seq(Byte), NEW b \in Seq(Byte), NEW c \in Seq(Byte)
    PROVE  (a \o b) \o c = a \o (b \o c)
BY ConcatAssociative

LEMMA Joined ==
    ASSUME NEW a \in Seq(Byte), NEW b \in Seq(Byte)
    PROVE  a \o b \in Seq(Byte) /\ a \o << >> = a
BY ConcatEmptySeq, ConcatProperties

\* The main thread moves bytes from one buffer to the next.
LEMMA MainKeepsBytes ==
    ASSUME TypeOK, TypeOK', PopHasByte, MainStep
    PROVE  Passed' = Passed
<1>0. /\ got \in Seq(Byte) /\ m_pub_buf \in Seq(Byte) /\ m_buf \in Seq(Byte)
      /\ Handed \in Seq(Byte) /\ InLocal \in Seq(Byte)
      /\ Passed = got \o (m_pub_buf \o Handed \o InLocal)
  BY PartsAreBytes
<1>1. Passed' = got' \o (m_pub_buf' \o Handed' \o InLocal')
  BY DEF Passed, InFlight, Handed, InLocal
<1>2. InLocal' = InLocal
  BY DEF MainStep, CheckPubBuf, MoveEnter, MoveInsert, MoveClear, Pop, WinszRead, WinszClear,
     Deadline, WaitSignalled, WaitTimeout, shared, reader, InLocal
<1>3. CASE MoveInsert
  <2>1. got' = got /\ m_pub_buf' = m_pub_buf \o m_buf /\ Handed' = << >> /\ Handed = m_buf
    BY <1>3 DEF MoveInsert, Handed
  <2>2. (m_pub_buf \o m_buf) \o << >> = m_pub_buf \o m_buf
    BY <1>0, Joined
  <2> QED
    BY <1>0, <1>1, <1>2, <2>1, <2>2
<1>4. CASE MoveClear
  <2>1. got' = got /\ m_pub_buf' = m_pub_buf /\ Handed' = << >> /\ Handed = << >>
    BY <1>4 DEF MoveClear, Handed
  <2> QED
    BY <1>0, <1>1, <1>2, <2>1
<1>5. CASE Pop
  <2>1. m_pub_buf # << >> /\ Handed' = Handed
    BY <1>5 DEF Pop, PopHasByte, Handed, shared
  <2>2. got' = got \o <<Head(m_pub_buf)>> /\ m_pub_buf' = Tail(m_pub_buf)
    BY <1>0, <1>5, <2>1, AppendIsConcat, HeadTailProperties DEF Pop
  <2>3. /\ <<Head(m_pub_buf)>> \in Seq(Byte) /\ Tail(m_pub_buf) \in Seq(Byte)
        /\ m_pub_buf = <<Head(m_pub_buf)>> \o Tail(m_pub_buf)
    BY <1>0, <2>1
  <2> DEFINE one == <<Head(m_pub_buf)>>
             rest == Tail(m_pub_buf)
             behind == Handed \o InLocal
  <2>4. one \in Seq(Byte) /\ rest \in Seq(Byte) /\ behind \in Seq(Byte) /\ m_pub_buf = one \o rest
    BY <1>0, <2>3
  <2>5. got' = got \o one /\ m_pub_buf' = rest
    BY <2>2
  <2>6. Handed \in Seq(Byte) /\ InLocal \in Seq(Byte)
    BY <1>0
  <2>7. m_pub_buf \o Handed \o InLocal = m_pub_buf \o behind
    BY <1>0, Regroup
  <2>8. (one \o rest) \o behind = one \o (rest \o behind)
    <3> HIDE DEF one, rest, behind
    <3> QED
      BY <2>4, Regroup
  <2>9. rest \o Handed \o InLocal = rest \o behind
    <3> HIDE DEF one, rest
    <3> QED
      BY <2>4, <2>6, Regroup
  <2> HIDE DEF one, rest, behind
  <2> DEFINE tail == rest \o behind
  <2>10. tail \in Seq(Byte)
    BY <2>4, Joined
  <2>11. Passed = got \o (one \o tail)
    BY <1>0, <2>4, <2>7, <2>8
  <2>12. Passed' = (got \o one) \o tail
    BY <1>1, <1>2, <2>1, <2>5, <2>9
  <2> HIDE DEF tail
  <2>13. got \in Seq(Byte) /\ one \in Seq(Byte)
    BY <1>0, <2>4
  <2>14. (got \o one) \o tail = got \o (one \o tail)
    BY <2>10, <2>13, Regroup
  <2> QED
    BY <2>11, <2>12, <2>14
<1>6. ASSUME MainStep, ~MoveInsert, ~MoveClear, ~Pop
      PROVE  UNCHANGED <<got, m_pub_buf, Handed>>
  BY <1>6 DEF MainStep, CheckPubBuf, MoveEnter, WinszRead, WinszClear, Deadline, WaitSignalled,
     WaitTimeout, shared, Handed
<1> QED
  BY <1>0, <1>1, <1>2, <1>3, <1>4, <1>5, <1>6

\* The reader hands over what it has decoded, and is alone at it.
LEMMA ReaderKeepsBytes ==
    ASSUME TypeOK, TypeOK', LockExcludes, ReaderStep, ~HandleKey
    PROVE  Passed' = Passed
<1>0. /\ got \in Seq(Byte) /\ m_pub_buf \in Seq(Byte) /\ m_buf \in Seq(Byte)
      /\ local_buf \in Seq(Byte) /\ Handed \in Seq(Byte) /\ InLocal \in Seq(Byte)
      /\ Passed = got \o (m_pub_buf \o Handed \o InLocal)
  BY PartsAreBytes
<1>1. Passed' = got' \o (m_pub_buf' \o Handed' \o InLocal')
  BY DEF Passed, InFlight, Handed, InLocal
<1>2. got' = got /\ m_pub_buf' = m_pub_buf /\ mpc' = mpc
  BY DEF ReaderStep, ReadConsoleInput, HandleKey, HandleResize, SkipRecord, BatchDone,
     ReaderEnter, ReaderAppend, ReaderSignal, main
<1>3. CASE ReaderAppend
  <2>1. mpc # "clear" /\ rpc = "append"
    BY <1>3 DEF ReaderAppend, LockExcludes
  <2>2. Handed = m_buf /\ InLocal = local_buf /\ Handed' = m_buf \o local_buf /\ InLocal' = << >>
    BY <1>2, <1>3, <2>1 DEF ReaderAppend, Handed, InLocal
  <2>3. /\ m_pub_buf \o (m_buf \o local_buf) = m_pub_buf \o m_buf \o local_buf
        /\ (m_pub_buf \o (m_buf \o local_buf)) \o << >> = m_pub_buf \o (m_buf \o local_buf)
    <3>1. m_pub_buf \o (m_buf \o local_buf) \in Seq(Byte)
      BY <1>0
    <3>2. m_pub_buf \o (m_buf \o local_buf) = m_pub_buf \o m_buf \o local_buf
      <4>1. m_pub_buf \in Seq(Byte) /\ m_buf \in Seq(Byte) /\ local_buf \in Seq(Byte)
        BY <1>0
      <4> QED
        BY <4>1, Regroup
    <3> DEFINE all == m_pub_buf \o (m_buf \o local_buf)
    <3>3. all \o << >> = all
      <4> HIDE DEF all
      <4> QED
        BY <3>1, Joined DEF all
    <3> QED
      BY <3>2, <3>3
  <2> QED
    BY <1>0, <1>1, <1>2, <2>2, <2>3
<1>4. ASSUME ~ReaderAppend PROVE Handed' = Handed /\ InLocal' = InLocal
  BY <1>4, <1>2 DEF ReaderStep, ReadConsoleInput, HandleResize, SkipRecord, BatchDone,
     ReaderEnter, ReaderSignal, Handed, InLocal
<1> QED
  BY <1>0, <1>1, <1>2, <1>3, <1>4

LEMMA KeyAddsItsBytes ==
    ASSUME TypeOK, HandleKey
    PROVE  /\ UnitBytes(Head(batch).unit) \in Seq(Byte)
           /\ Passed' = Passed \o UnitBytes(Head(batch).unit)
<1>0. /\ got \in Seq(Byte) /\ m_pub_buf \in Seq(Byte) /\ Handed \in Seq(Byte)
      /\ local_buf \in Seq(Byte) /\ Passed = got \o (m_pub_buf \o Handed \o InLocal)
  BY PartsAreBytes
<1>1. Passed' = got' \o (m_pub_buf' \o Handed' \o InLocal')
  BY DEF Passed, InFlight, Handed, InLocal
<1> DEFINE s == UnitBytes(Head(batch).unit)
<1>2. s \in Seq(Byte)
  <2>1. Head(batch) \in Records /\ Head(batch).kind = "down"
    BY DEF HandleKey, TypeOK
  <2>2. Head(batch).unit \in Word /\ m_chtmp \in Word
    BY <2>1 DEF Records, TypeOK
  <2> QED
    BY <2>2, UnitBytesAreBytes
<1>3. /\ got' = got /\ m_pub_buf' = m_pub_buf /\ Handed' = Handed
      /\ InLocal = local_buf /\ InLocal' = local_buf \o s
  BY DEF HandleKey, main, Handed, InLocal
<1> HIDE DEF s
<1> DEFINE x == m_pub_buf \o Handed
<1>4. x \in Seq(Byte) /\ local_buf \in Seq(Byte) /\ Handed \in Seq(Byte) /\ m_pub_buf \in Seq(Byte)
  BY <1>0
<1>7. m_pub_buf \o Handed \o (local_buf \o s) = x \o (local_buf \o s)
  OBVIOUS
<1>8. m_pub_buf \o Handed \o local_buf = x \o local_buf
  OBVIOUS
<1>9. x \o (local_buf \o s) = (x \o local_buf) \o s
  <2> HIDE DEF x
  <2>1. x \in Seq(Byte) /\ local_buf \in Seq(Byte) /\ s \in Seq(Byte)
    BY <1>2, <1>4
  <2> QED
    BY <2>1, Regroup
<1> HIDE DEF x
<1> DEFINE y == x \o local_buf
<1>5. got \o (y \o s) = (got \o y) \o s
  <2>1. y \in Seq(Byte) /\ got \in Seq(Byte)
    BY <1>0, <1>4
  <2> HIDE DEF y
  <2> QED
    BY <1>2, <2>1, Regroup
<1>6. Passed' = Passed \o s
  <2>1. Passed = got \o y
    BY <1>0, <1>3, <1>8
  <2>2. Passed' = got \o (y \o s)
    BY <1>1, <1>3, <1>7, <1>9
  <2> QED
    BY <1>5, <2>1, <2>2
<1> QED
  BY <1>2, <1>6 DEF s

LEMMA WholeTail ==
    ASSUME NEW r \in Seq(Records), r # << >>, NEW begun, Whole(r, begun)
    PROVE  Whole(Tail(r), TRUE)
<1> SUFFICES ASSUME NEW i \in 1..Len(Tail(r)), LowRecord(Tail(r)[i]), i # 1
             PROVE  HighRecord(Tail(r)[i - 1])
  BY DEF Whole
<1>1. Len(Tail(r)) = Len(r) - 1 /\ i + 1 \in 1..Len(r) /\ i + 1 # 1 /\ i + 1 - 1 = i /\ i \in Nat
  OBVIOUS
<1>2. Tail(r)[i] = r[i + 1] /\ Tail(r)[i - 1] = r[i]
  BY <1>1
<1>3. LowRecord(r[i + 1]) => HighRecord(r[i + 1 - 1])
  BY <1>1 DEF Whole
<1> QED
  BY <1>1, <1>2, <1>3

LEMMA WholeAppend ==
    ASSUME NEW r \in Seq(Records), NEW x, NEW begun, Whole(r, begun),
           LowRecord(x) => r # << >> /\ HighRecord(r[Len(r)])
    PROVE  Whole(Append(r, x), begun)
<1> DEFINE q == Append(r, x)
<1>1. Len(q) = Len(r) + 1 /\ q[Len(r) + 1] = x /\ \A i \in 1..Len(r) : q[i] = r[i]
  OBVIOUS
<1> HIDE DEF q
<1> SUFFICES ASSUME NEW i \in 1..Len(q), LowRecord(q[i])
             PROVE  IF i = 1 THEN begun ELSE HighRecord(q[i - 1])
  BY DEF Whole, q
<1>2. Len(r) \in Nat /\ i \in Nat /\ (i \in 1..Len(r) \/ i = Len(r) + 1)
  BY <1>1
<1>3. CASE i \in 1..Len(r)
  <2>1. LowRecord(r[i]) /\ (i # 1 => i - 1 \in 1..Len(r) /\ q[i - 1] = r[i - 1])
    BY <1>1, <1>3
  <2> QED
    BY <1>3, <2>1 DEF Whole
<1>4. CASE i = Len(r) + 1
  <2>1. LowRecord(x)
    BY <1>1, <1>4
  <2>2. Len(r) \in 1..Len(r) /\ i # 1 /\ i - 1 = Len(r)
    BY <1>2, <1>4, <2>1
  <2> QED
    BY <1>1, <2>1, <2>2
<1> QED
  BY <1>2, <1>3, <1>4

\* The reader takes the first record of its batch.
LEMMA BatchIsTaken ==
    ASSUME TypeOK, OrderInv, rpc = "handle", batch # << >>,
           batch' = Tail(batch), console' = console, typed' = typed, started' = started,
           NEW s \in Seq(Byte), s = RecordBytes(m_chtmp, Head(batch)), Passed' = Passed \o s,
           HighRecord(Head(batch)) => m_chtmp' = Head(batch).unit
    PROVE  PairsAreWhole' /\ NothingIsLost'
<1>1. batch \in Seq(Records) /\ console \in Seq(Records)
  BY DEF TypeOK
<1>2. Left \in Seq(Records) /\ Left # << >> /\ Left[1] = Head(batch)
  BY <1>1 DEF Left
<1>3. Left' = Tail(Left)
  <2>1. Tail(batch \o console) = Tail(batch) \o console
    BY <1>1
  <2> QED
    BY <2>1 DEF Left
<1>4. started
  BY DEF OrderInv, ReaderFrame
<1>5. PairsAreWhole'
  <2>1. Whole(Tail(Left), TRUE)
    BY <1>2, WholeTail DEF OrderInv, PairsAreWhole
  <2> QED
    BY <1>3, <1>4, <2>1 DEF PairsAreWhole
<1>6. Len(Left) > 1 /\ LowRecord(Left[2]) => m_chtmp' = Left[1].unit
  <2> SUFFICES ASSUME Len(Left) > 1, LowRecord(Left[2]) PROVE m_chtmp' = Left[1].unit
    OBVIOUS
  <2>1. 2 \in 1..Len(Left) /\ 2 - 1 = 1
    BY <1>2
  <2>2. HighRecord(Left[2 - 1])
    BY <2>1 DEF OrderInv, PairsAreWhole, Whole
  <2> QED
    BY <1>2, <2>1, <2>2
<1>7. typed \in Seq(Byte) /\ Passed \in Seq(Byte) /\ ComesOut(typed, Passed, Left, m_chtmp)
  BY PassedIsBytes DEF OrderInv, NothingIsLost, TypeOK
<1>8. s = RecordBytes(m_chtmp, Left[1])
  BY <1>2
<1> HIDE DEF Left, Passed
<1>9. ComesOut(typed, Passed \o s, Tail(Left), m_chtmp')
  BY <1>2, <1>6, <1>7, <1>8, RecordTaken
<1> QED
  BY <1>3, <1>5, <1>9 DEF NothingIsLost

\* The console gets record x, which will give the bytes s, and they are typed.
LEMMA KeyIsAdded ==
    ASSUME NEW t \in Seq(Byte), NEW f \in Seq(Byte), NEW r \in Seq(Records),
           NEW x \in Records, NEW s \in Seq(Byte), NEW high, NEW begun,
           Whole(r, begun), ComesOut(t, f, r, high),
           s = RecordBytes(IF r = << >> THEN high ELSE r[Len(r)].unit, x),
           LowRecord(x) => r # << >> /\ HighRecord(r[Len(r)])
    PROVE  Append(r, x) \in Seq(Records) /\ Whole(Append(r, x), begun)
           /\ ComesOut(t \o s, f, Append(r, x), high)
BY RecordAdded, WholeAppend

LEMMA DownIsRecord ==
    ASSUME NEW w \in Word
    PROVE  Down(w) \in Records /\ Down(w).kind = "down" /\ Down(w).unit = w
BY DEF Down, Records

\* A record behind others.
LEMMA OneBehind ==
    ASSUME NEW a \in Seq(Records), NEW b \in Seq(Records), NEW x \in Records
    PROVE  /\ a \o Append(b, x) = Append(a \o b, x)
           /\ b \o <<x>> = Append(b, x)
           /\ Append(b, x) \in Seq(Records) /\ Append(b, x) # << >>
           /\ Append(b, x)[Len(Append(b, x))] = x
<1>1. Append(b, x) \in Seq(Records) /\ Append(b, x) # << >> /\ a \o b \in Seq(Records)
  OBVIOUS
<1>2. b \o <<x>> = Append(b, x)
  BY AppendIsConcat
<1>3. a \o Append(b, x) = Append(a \o b, x)
  OBVIOUS
<1>4. Append(b, x)[Len(Append(b, x))] = x
  OBVIOUS
<1> QED
  BY <1>1, <1>2, <1>3, <1>4

LEMMA TwoBehind ==
    ASSUME NEW a \in Seq(Records), NEW b \in Seq(Records), NEW x \in Records, NEW y \in Records
    PROVE  a \o (b \o <<x, y>>) = Append(Append(a \o b, x), y)
<1>1. b \o <<x, y>> = Append(Append(b, x), y)
  OBVIOUS
<1> DEFINE one == Append(b, x)
<1>2. a \o one = Append(a \o b, x)
  BY OneBehind
<1>3. one \in Seq(Records)
  OBVIOUS
<1> HIDE DEF one
<1>4. a \o Append(one, y) = Append(a \o one, y)
  BY <1>3
<1> QED
  BY <1>1, <1>2, <1>4 DEF one

\* TypeKey puts one record or two behind the others.
LEMMA TypeKeyKeepsOrder ==
    ASSUME TypeOK, OrderInv, NEW cp \in CodePoints, TypeKey(cp)
    PROVE  PairsAreWhole' /\ NothingIsLost'
<1>1. /\ typed \in Seq(Byte) /\ Passed \in Seq(Byte) /\ Left \in Seq(Records)
      /\ batch \in Seq(Records) /\ console \in Seq(Records)
  BY PassedIsBytes DEF TypeOK
<1>2. ComesOut(typed, Passed, Left, m_chtmp) /\ Whole(Left, started)
  BY DEF OrderInv, PairsAreWhole, NothingIsLost
<1>3. /\ typed' = typed \o Utf8(cp) /\ Passed' = Passed /\ started' = started
      /\ m_chtmp' = m_chtmp /\ batch' = batch
      /\ console' = console \o [i \in 1..Len(Utf16(cp)) |-> Down(Utf16(cp)[i])]
  BY DEF TypeKey, main, reader, Passed, InFlight
<1>4. Utf8(cp) \in Seq(Byte)
  BY Utf8AreBytes
<1>5. CASE cp < 65536
  <2> DEFINE x == Down(cp)
             high == IF Left = << >> THEN m_chtmp ELSE Left[Len(Left)].unit
  <2>1. Utf16(cp) = <<cp>> /\ RecordBytes(high, x) = Utf8(cp) /\ ~IsLow(cp)
    BY <1>5, PlainKey
  <2>2. x \in Records /\ ~LowRecord(x)
    <3>1. cp \in Word
      BY <2>1, Utf16AreWords
    <3> QED
      BY <2>1, <3>1, DownIsRecord DEF LowRecord
  <2>3. [i \in 1..Len(Utf16(cp)) |-> Down(Utf16(cp)[i])] = <<x>>
    BY <2>1
  <2>4. console' = Append(console, x)
    <3> HIDE DEF x
    <3> QED
      BY <1>1, <1>3, <2>2, <2>3, AppendIsConcat
  <2>5. Left' = Append(Left, x)
    <3> HIDE DEF x
    <3>1. batch \o Append(console, x) = Append(batch \o console, x)
      BY <1>1, <2>2
    <3> QED
      BY <1>3, <2>4, <3>1 DEF Left
  <2> HIDE DEF x
  <2>6. /\ ComesOut(typed \o Utf8(cp), Passed, Append(Left, x), m_chtmp)
        /\ Whole(Append(Left, x), started)
    <3> HIDE DEF Left, Passed
    <3> QED
      BY <1>1, <1>2, <1>4, <2>1, <2>2, KeyIsAdded
  <2> QED
    BY <1>3, <2>5, <2>6 DEF PairsAreWhole, NothingIsLost
<1>6. CASE ~(cp < 65536)
  <2> DEFINE hi == 55296 + ((cp - 65536) \div 1024)
             lo == 56320 + ((cp - 65536) % 1024)
             x == Down(hi)
             y == Down(lo)
             more == Append(Left, x)
             high == IF Left = << >> THEN m_chtmp ELSE Left[Len(Left)].unit
  <2>1. /\ Utf16(cp) = <<hi, lo>> /\ IsHigh(hi) /\ IsLow(lo)
        /\ RecordBytes(high, x) = << >> /\ RecordBytes(hi, y) = Utf8(cp)
    BY <1>6, PairOfUnits
  <2>2. hi \in Word /\ lo \in Word
    <3> HIDE DEF hi, lo
    <3>1. <<hi, lo>> \in Seq(Word)
      BY <2>1, Utf16AreWords
    <3> QED
      BY <3>1
  <2>3. [i \in 1..Len(Utf16(cp)) |-> Down(Utf16(cp)[i])] = <<x, y>>
    <3> HIDE DEF hi, lo
    <3> QED
      BY <2>1
  <2> HIDE DEF hi, lo
  <2>4. /\ x \in Records /\ x.kind = "down" /\ x.unit = hi
        /\ y \in Records /\ y.kind = "down" /\ y.unit = lo
    BY <2>2, DownIsRecord
  <2> HIDE DEF x, y
  <2>5. ~LowRecord(x) /\ HighRecord(x)
    BY <2>1, <2>4 DEF LowRecord, HighRecord, IsLow, IsHigh
  <2>6. Left' = Append(more, y)
    <3>1. console' = console \o <<x, y>>
      BY <1>3, <2>3
    <3>2. batch \o (console \o <<x, y>>) = Append(Append(batch \o console, x), y)
      BY <1>1, <2>4, TwoBehind
    <3> QED
      BY <1>3, <3>1, <3>2 DEF Left
  <2>7. /\ more \in Seq(Records) /\ Whole(more, started)
        /\ ComesOut(typed \o << >>, Passed, more, m_chtmp)
    <3> HIDE DEF Left, Passed
    <3>1. << >> \in Seq(Byte)
      OBVIOUS
    <3> QED
      BY <1>1, <1>2, <2>1, <2>4, <2>5, <3>1, KeyIsAdded
  <2>8. typed \o << >> = typed
    BY <1>1
  <2>9. more # << >> /\ more[Len(more)] = x
    BY <1>1, <2>4, OneBehind
  <2> HIDE DEF more
  <2>10. /\ ComesOut(typed \o Utf8(cp), Passed, Append(more, y), m_chtmp)
         /\ Whole(Append(more, y), started)
    <3> HIDE DEF Left, Passed
    <3>1. Utf8(cp) = RecordBytes(IF more = << >> THEN m_chtmp ELSE more[Len(more)].unit, y)
      BY <2>1, <2>4, <2>9
    <3>2. LowRecord(y) => more # << >> /\ HighRecord(more[Len(more)])
      BY <2>5, <2>9
    <3>3. ComesOut(typed, Passed, more, m_chtmp)
      BY <2>7, <2>8
    <3> QED
      BY <1>1, <1>4, <2>4, <2>7, <3>1, <3>2, <3>3, KeyIsAdded
  <2> QED
    BY <1>3, <2>6, <2>10 DEF PairsAreWhole, NothingIsLost
<1> QED
  BY <1>5, <1>6

\* A record that is not a key gives no bytes.
LEMMA OtherRecordKeepsOrder ==
    ASSUME TypeOK, OrderInv, NEW kind \in {"resize", "ignored"}, OtherRecord(kind)
    PROVE  PairsAreWhole' /\ NothingIsLost'
<1>1. /\ typed \in Seq(Byte) /\ Passed \in Seq(Byte) /\ Left \in Seq(Records)
      /\ batch \in Seq(Records) /\ console \in Seq(Records) /\ << >> \in Seq(Byte)
  BY PassedIsBytes DEF TypeOK
<1>2. ComesOut(typed, Passed, Left, m_chtmp) /\ Whole(Left, started)
  BY DEF OrderInv, PairsAreWhole, NothingIsLost
<1> DEFINE x == [kind |-> kind, unit |-> 0]
           high == IF Left = << >> THEN m_chtmp ELSE Left[Len(Left)].unit
<1>3. /\ typed' = typed /\ Passed' = Passed /\ started' = started
      /\ m_chtmp' = m_chtmp /\ batch' = batch /\ console' = Append(console, x)
  BY DEF OtherRecord, main, reader, Passed, InFlight
<1>4. x \in Records /\ ~LowRecord(x) /\ RecordBytes(high, x) = << >>
  BY OtherRecordsAreSilent DEF Records, LowRecord
<1> HIDE DEF x
<1>5. Left' = Append(Left, x)
  <2>1. batch \o Append(console, x) = Append(batch \o console, x)
    BY <1>1, <1>4, OneBehind
  <2> QED
    BY <1>3, <2>1 DEF Left
<1>6. ComesOut(typed \o << >>, Passed, Append(Left, x), m_chtmp) /\ Whole(Append(Left, x), started)
  <2> HIDE DEF Left, Passed
  <2> QED
    BY <1>1, <1>2, <1>4, KeyIsAdded
<1>7. typed \o << >> = typed
  BY <1>1
<1> QED
  BY <1>3, <1>5, <1>6, <1>7 DEF PairsAreWhole, NothingIsLost

\* What the reader has fetched is Left as before: it is in batch instead of console.
LEMMA FetchingKeepsOrder ==
    ASSUME TypeOK, OrderInv, ReadConsoleInput
    PROVE  Left' = Left
<1>1. batch = << >> /\ console \in Seq(Records) /\ Len(console) \in Nat
  BY DEF ReadConsoleInput, OrderInv, ReaderFrame, TypeOK
<1>2. PICK n \in 1..BatchSize : /\ n <= Len(console)
                                /\ batch' = SubSeq(console, 1, n)
                                /\ console' = SubSeq(console, n + 1, Len(console))
  BY DEF ReadConsoleInput
<1>3. n \in Nat /\ n >= 1
  BY <1>2, BoundsAssumption
<1>4. SubSeq(console, 1, n) \o SubSeq(console, n + 1, Len(console)) = console
  <2>1. console \in Seq(Records)
    BY <1>1
  <2>2. /\ 1 \in 1..Len(console) + 1 /\ n \in 1 - 1..Len(console)
        /\ Len(console) \in n..Len(console)
    BY <1>1, <1>2, <1>3
  <2>3. SubSeq(console, 1, n) \o SubSeq(console, n + 1, Len(console))
          = SubSeq(console, 1, Len(console))
    BY <2>1, <2>2, ConcatAdjacentSubSeq
  <2>4. SubSeq(console, 1, Len(console)) = console
    BY <2>1, SubSeqFull
  <2> QED
    BY <2>3, <2>4, Zenon
<1>5. << >> \o console = console
  BY <1>1
<1> QED
  BY <1>1, <1>2, <1>4, <1>5 DEF Left

LEMMA ReaderKeepsOrder ==
    ASSUME TypeOK, TypeOK', LockExcludes, OrderInv, ReaderStep
    PROVE  PairsAreWhole' /\ NothingIsLost'
<1>1. typed' = typed /\ started' = started
  BY DEF ReaderStep, ReadConsoleInput, HandleKey, HandleResize, SkipRecord, BatchDone,
     ReaderEnter, ReaderAppend, ReaderSignal, user
<1>2. CASE HandleKey
  <2>1. /\ rpc = "handle" /\ batch # << >> /\ Head(batch).kind = "down" /\ batch' = Tail(batch)
        /\ console' = console /\ m_chtmp' = NextChtmp(Head(batch).unit)
    BY <1>2 DEF HandleKey, user
  <2>2. Head(batch) \in Records
    <3>1. batch \in Seq(Records)
      BY DEF TypeOK
    <3> QED
      BY <2>1, <3>1
  <2>3. UnitBytes(Head(batch).unit) = RecordBytes(m_chtmp, Head(batch))
    BY <2>1, <2>2, UnitBytesOfRecord
  <2>4. HighRecord(Head(batch)) => m_chtmp' = Head(batch).unit
    BY <2>1 DEF HighRecord, NextChtmp
  <2>5. UnitBytes(Head(batch).unit) \in Seq(Byte) /\ Passed' = Passed \o UnitBytes(Head(batch).unit)
    BY <1>2, KeyAddsItsBytes
  <2> DEFINE s == UnitBytes(Head(batch).unit)
  <2>6. s \in Seq(Byte) /\ Passed' = Passed \o s /\ s = RecordBytes(m_chtmp, Head(batch))
    BY <2>3, <2>5
  <2> HIDE DEF s
  <2> QED
    BY <1>1, <2>1, <2>4, <2>6, BatchIsTaken
<1>3. CASE HandleResize \/ SkipRecord
  <2>1. /\ rpc = "handle" /\ batch # << >> /\ Head(batch).kind # "down" /\ batch' = Tail(batch)
        /\ console' = console
    BY <1>3 DEF HandleResize, SkipRecord, user
  <2>2. << >> \in Seq(Byte) /\ << >> = RecordBytes(m_chtmp, Head(batch)) /\ ~HighRecord(Head(batch))
    BY <2>1, OtherRecordsAreSilent DEF HighRecord
  <2>3. Passed' = Passed
    BY <1>3, ReaderKeepsBytes DEF HandleResize, SkipRecord, HandleKey
  <2>4. Passed \in Seq(Byte)
    BY PassedIsBytes
  <2>5. Passed' = Passed \o << >>
    BY <2>3, <2>4, Joined
  <2> QED
    BY <1>1, <2>1, <2>2, <2>5, BatchIsTaken
<1>4. CASE ReadConsoleInput
  <2>1. Left' = Left /\ m_chtmp' = m_chtmp
    BY <1>4, FetchingKeepsOrder DEF ReadConsoleInput
  <2>2. Passed' = Passed
    BY <1>4, ReaderKeepsBytes DEF ReadConsoleInput, HandleKey
  <2> QED
    BY <1>1, <2>1, <2>2 DEF OrderInv, PairsAreWhole, NothingIsLost
<1>5. CASE BatchDone \/ ReaderEnter \/ ReaderAppend \/ ReaderSignal
  <2>1. Left' = Left /\ m_chtmp' = m_chtmp
    BY <1>5 DEF BatchDone, ReaderEnter, ReaderAppend, ReaderSignal, user, Left
  <2>2. ~HandleKey
    BY <1>5 DEF HandleKey, BatchDone, ReaderEnter, ReaderAppend, ReaderSignal
  <2>3. Passed' = Passed
    BY <2>2, ReaderKeepsBytes
  <2> QED
    BY <1>1, <2>1, <2>3 DEF OrderInv, PairsAreWhole, NothingIsLost
<1> QED
  BY <1>2, <1>3, <1>4, <1>5 DEF ReaderStep

\* Whatever the uninitialised m_chtmp holds, nobody looks at it.
LEMMA StartKeepsOrder ==
    ASSUME TypeOK, OrderInv, rl_getc
    PROVE  PairsAreWhole' /\ NothingIsLost'
<1>1. typed' = typed /\ Left' = Left /\ Passed' = Passed /\ started'
  <2>1. mpc # "clear" /\ mpc' # "clear"
    BY DEF rl_getc
  <2> QED
    BY <2>1 DEF rl_getc, shared, user, Left, Passed, InFlight
<1>2. Left \in Seq(Records) /\ ComesOut(typed, Passed, Left, m_chtmp) /\ Whole(Left, started)
  BY PassedIsBytes DEF OrderInv, PairsAreWhole, NothingIsLost
<1> HIDE DEF Left, Passed
<1>3. Whole(Left, TRUE)
  BY <1>2 DEF Whole
<1>4. ComesOut(typed, Passed, Left, m_chtmp')
  <2>1. CASE started
    <3>1. m_chtmp' = m_chtmp
      BY <2>1 DEF rl_getc
    <3> QED
      BY <1>2, <3>1
  <2>2. CASE ~started
    <3>1. Left # << >> => ~LowRecord(Left[1])
      BY <1>2, <2>2 DEF Whole
    <3> QED
      BY <1>2, <3>1, HighForgotten
  <2> QED
    BY <2>1, <2>2
<1> QED
  BY <1>1, <1>3, <1>4 DEF PairsAreWhole, NothingIsLost

LEMMA FrameStep ==
    ASSUME ReaderFrame, TypeOK, TypeOK', [Next]_vars
    PROVE  ReaderFrame'
<1> USE DEF ReaderFrame
<1>1. ASSUME NEW cp \in CodePoints, TypeKey(cp) PROVE ReaderFrame'
  BY <1>1 DEF TypeKey, reader
<1>2. ASSUME NEW kind \in {"resize", "ignored"}, OtherRecord(kind) PROVE ReaderFrame'
  BY <1>2 DEF OtherRecord, reader
<1>3. CASE Tick
  BY <1>3 DEF Tick, reader
<1>4. CASE ReaderStep
  BY <1>4 DEF ReaderStep, ReadConsoleInput, HandleKey, HandleResize, SkipRecord, BatchDone,
     ReaderEnter, ReaderAppend, ReaderSignal
<1>5. CASE rl_getc
  BY <1>5 DEF rl_getc
<1>6. CASE FIONREAD
  BY <1>6 DEF FIONREAD, reader
<1>7. ASSUME NEW seconds \in AlarmSeconds, wrl_alarm(seconds) PROVE ReaderFrame'
  BY <1>7 DEF wrl_alarm, reader
<1>8. CASE MainStep
  BY <1>8 DEF MainStep, CheckPubBuf, MoveEnter, MoveInsert, MoveClear, Pop, WinszRead, WinszClear,
     Deadline, WaitSignalled, WaitTimeout, reader
<1>9. CASE UNCHANGED vars
  BY <1>9 DEF vars, reader
<1> QED
  BY <1>1, <1>2, <1>3, <1>4, <1>5, <1>6, <1>7, <1>8, <1>9 DEF Next

LEMMA OrderStep ==
    ASSUME IInv, TypeOK', OrderInv, [Next]_vars
    PROVE  OrderInv'
<1>1. TypeOK /\ LockExcludes /\ PopHasByte
  BY DEF IInv, ControlInv
<1>2. ReaderFrame'
  BY <1>1, FrameStep DEF OrderInv
<1>3. PairsAreWhole' /\ NothingIsLost'
  <2>1. ASSUME UNCHANGED <<typed, started, m_chtmp>>, Left' = Left, Passed' = Passed
        PROVE  PairsAreWhole' /\ NothingIsLost'
    BY <2>1 DEF OrderInv, PairsAreWhole, NothingIsLost
  <2>2. ASSUME NEW cp \in CodePoints, TypeKey(cp) PROVE PairsAreWhole' /\ NothingIsLost'
    BY <1>1, <2>2, TypeKeyKeepsOrder
  <2>3. ASSUME NEW kind \in {"resize", "ignored"}, OtherRecord(kind)
        PROVE  PairsAreWhole' /\ NothingIsLost'
    BY <1>1, <2>3, OtherRecordKeepsOrder
  <2>4. CASE Tick
    BY <2>1, <2>4 DEF Tick, user, reader, main, Left, Passed, InFlight
  <2>5. CASE ReaderStep
    BY <1>1, <2>5, ReaderKeepsOrder
  <2>6. CASE rl_getc
    BY <1>1, <2>6, StartKeepsOrder
  <2>7. CASE FIONREAD
    BY <2>1, <2>7 DEF FIONREAD, shared, user, reader, Left, Passed, InFlight
  <2>8. ASSUME NEW seconds \in AlarmSeconds, wrl_alarm(seconds)
        PROVE  PairsAreWhole' /\ NothingIsLost'
    BY <2>1, <2>8 DEF wrl_alarm, shared, user, reader, Left, Passed, InFlight
  <2>9. CASE MainStep
    <3>1. UNCHANGED <<typed, started, m_chtmp>> /\ Left' = Left
      BY <2>9 DEF MainStep, CheckPubBuf, MoveEnter, MoveInsert, MoveClear, Pop, WinszRead,
         WinszClear, Deadline, WaitSignalled, WaitTimeout, shared, user, reader, Left
    <3> QED
      BY <1>1, <2>1, <2>9, <3>1, MainKeepsBytes
  <2>10. CASE UNCHANGED vars
    BY <2>1, <2>10 DEF vars, user, reader, main, Left, Passed, InFlight
  <2> QED
    BY <2>2, <2>3, <2>4, <2>5, <2>6, <2>7, <2>8, <2>9, <2>10 DEF Next
<1> QED
  BY <1>2, <1>3 DEF OrderInv

LEMMA InitOrder == Init => OrderInv
<1> SUFFICES ASSUME Init PROVE OrderInv
  OBVIOUS
<1>1. Left = << >> /\ Passed = << >> /\ typed = << >>
  BY DEF Init, Left, Passed, InFlight
<1>2. Whole(<< >>, started)
  BY DEF Whole
<1>3. ComesOut(<< >>, << >>, << >>, m_chtmp)
  <2> DEFINE b == [i \in 0..0 |-> 0]
  <2>1. b \in [0..0 -> 0..0] /\ b[0] = 0 /\ Len(<< >>) = 0
    OBVIOUS
  <2> HIDE DEF b
  <2>2. Cuts(b, << >>, << >>, << >>, m_chtmp)
    BY <2>1 DEF Cuts, StandsAt
  <2> QED
    BY <2>2 DEF ComesOut
<1>4. ReaderFrame
  BY DEF Init, ReaderFrame
<1> QED
  BY <1>1, <1>2, <1>3, <1>4 DEF OrderInv, PairsAreWhole, NothingIsLost

\* What rl_getc returned, with what is on its way, is a beginning of what was typed,
\* all of it when no record is left; and a read that splits a surrogate pair, or the
\* uninitialised m_chtmp, does not disturb it (compats.cpp:428-436, 451-479, 497-532).
THEOREM EveryByteArrives == Spec => []BytesInOrder
<1>1. TypeOK /\ OrderInv => BytesInOrder
  <2> SUFFICES ASSUME TypeOK, OrderInv PROVE BytesInOrder
    OBVIOUS
  <2>1. typed \in Seq(Byte) /\ Passed \in Seq(Byte) /\ Left \in Seq(Records)
    BY PassedIsBytes DEF TypeOK
  <2>2. console = << >> /\ batch = << >> => Left = << >>
    BY DEF Left
  <2> HIDE DEF Left
  <2>3. Prefix(Passed, typed) /\ (Left = << >> => Passed = typed)
    BY <2>1, WhatComesOut DEF OrderInv, NothingIsLost
  <2> QED
    BY <2>2, <2>3 DEF BytesInOrder, Passed
<1>2. IInv => TypeOK
  BY DEF IInv
<1>3. IInv /\ OrderInv /\ [Next]_vars => OrderInv'
  BY <1>2, InductiveStep, OrderStep DEF IInv
<1> QED
  BY <1>1, <1>2, <1>3, InitInv, InductiveStep, InitOrder, PTL DEF Spec

-----------------------------------------------------------------------------
(* The window's size                                                       *)

LEMMA WinchStep ==
    ASSUME TypeOK, NoSpuriousWinch, [Next]_vars
    PROVE  NoSpuriousWinch'
<1>0. winches \in Nat /\ resizes \in Nat
  BY DEF TypeOK
<1> USE DEF NoSpuriousWinch
<1>1. ASSUME UNCHANGED <<winches, winszSeen, winsz_changed_, resizes>>,
             mpc # "winszClear", mpc' # "winszClear"
      PROVE  NoSpuriousWinch'
  BY <1>1
<1>2. ASSUME UNCHANGED <<winches, winszSeen, winsz_changed_, resizes, mpc>>
      PROVE  NoSpuriousWinch'
  BY <1>2
<1>3. ASSUME NEW cp \in CodePoints, TypeKey(cp) PROVE NoSpuriousWinch'
  BY <1>2, <1>3 DEF TypeKey, main
<1>4. ASSUME NEW kind \in {"resize", "ignored"}, OtherRecord(kind) PROVE NoSpuriousWinch'
  BY <1>2, <1>4 DEF OtherRecord, main
<1>5. CASE Tick
  BY <1>2, <1>5 DEF Tick, main
<1>6. CASE HandleResize
  BY <1>0, <1>6 DEF HandleResize, main
<1>7. CASE ReaderStep /\ ~HandleResize
  BY <1>2, <1>7 DEF ReaderStep, ReadConsoleInput, HandleKey, SkipRecord, BatchDone, ReaderEnter,
     ReaderAppend, ReaderSignal, main
<1>8. CASE rl_getc \/ FIONREAD
  BY <1>1, <1>8 DEF rl_getc, FIONREAD, shared
<1>9. ASSUME NEW seconds \in AlarmSeconds, wrl_alarm(seconds) PROVE NoSpuriousWinch'
  BY <1>2, <1>9 DEF wrl_alarm, shared
<1>10. CASE WinszRead
  BY <1>0, <1>10 DEF WinszRead, shared
<1>11. CASE WinszClear
  BY <1>0, <1>11 DEF WinszClear
<1>12. CASE \/ CheckPubBuf \/ MoveEnter \/ MoveInsert \/ MoveClear \/ Pop
            \/ Deadline \/ WaitSignalled \/ WaitTimeout
  BY <1>1, <1>12 DEF CheckPubBuf, MoveEnter, MoveInsert, MoveClear, Pop, Deadline, WaitSignalled,
     WaitTimeout, shared
<1>13. CASE UNCHANGED vars
  BY <1>2, <1>13 DEF vars, main
<1> QED
  BY <1>3, <1>4, <1>5, <1>6, <1>7, <1>8, <1>9, <1>10, <1>11, <1>12, <1>13 DEF Next, MainStep

\* The reader sets winsz_changed_ while the main thread reads and clears it in two
\* steps without a lock: a resize may be missed, none is reported that was not
\* (compats.cpp:440-449, 515-517, 557).
THEOREM NoWinchWithoutResize == Spec => []NoSpuriousWinch
<1>1. Init => NoSpuriousWinch
  BY DEF Init, NoSpuriousWinch
<1>2. IInv => TypeOK
  BY DEF IInv
<1> QED
  BY <1>1, <1>2, InitInv, InductiveStep, WinchStep, PTL DEF Spec

-----------------------------------------------------------------------------
(* Ctrl-C                                                                  *)

\* What was interrupted is what rl_getc returned as Ctrl-C.
InterruptsAreGot == interrupts = {i \in 1..Len(got) : got[i] = 3}

LEMMA InterruptStep ==
    ASSUME TypeOK, PopHasByte, InterruptsAreGot, [Next]_vars
    PROVE  InterruptsAreGot'
<1>1. CASE Pop
  <2> DEFINE c == Head(m_pub_buf)
  <2>1. /\ got \in Seq(Byte) /\ got' = Append(got, c)
        /\ interrupts' = IF c = 3 THEN interrupts \cup {Len(got) + 1} ELSE interrupts
    BY <1>1 DEF Pop, TypeOK
  <2> HIDE DEF c
  <2>2. /\ Len(got') = Len(got) + 1 /\ Len(got) \in Nat
        /\ \A i \in 1..Len(got) : got'[i] = got[i]
        /\ got'[Len(got) + 1] = c
    BY <2>1
  <2>3. {i \in 1..Len(got') : got'[i] = 3}
            = {i \in 1..Len(got) : got[i] = 3} \cup (IF c = 3 THEN {Len(got) + 1} ELSE {})
    BY <2>2
  <2> QED
    BY <2>1, <2>3 DEF InterruptsAreGot
<1>2. CASE ~Pop
  <2>1. UNCHANGED <<got, interrupts>>
    BY <1>2 DEF Next, TypeKey, OtherRecord, Tick, ReaderStep, ReadConsoleInput, HandleKey,
       HandleResize, SkipRecord, BatchDone, ReaderEnter, ReaderAppend, ReaderSignal, rl_getc,
       FIONREAD, wrl_alarm, MainStep, CheckPubBuf, MoveEnter, MoveInsert, MoveClear,
       WinszRead, WinszClear, Deadline, WaitSignalled, WaitTimeout, main, vars
  <2> QED
    BY <2>1 DEF InterruptsAreGot
<1> QED
  BY <1>1, <1>2

\* SIGINT is raised once for each Ctrl-C that was typed and has been read, and for no
\* other byte (compats.cpp:554-556): that needs the bytes to arrive as they were typed.
THEOREM InterruptsAreJustified == Spec => []InterruptsAreTyped
<1>1. Init => InterruptsAreGot
  BY DEF Init, InterruptsAreGot
<1>2. IInv => TypeOK /\ PopHasByte
  BY DEF IInv
<1>3. TypeOK /\ InterruptsAreGot /\ BytesInOrder => InterruptsAreTyped
  <2> SUFFICES ASSUME TypeOK, InterruptsAreGot, BytesInOrder PROVE InterruptsAreTyped
    OBVIOUS
  <2>1. InFlight \in Seq(Byte) /\ got \in Seq(Byte)
    BY DEF InFlight, TypeOK
  <2>2. Prefix(got \o InFlight, typed)
    BY DEF BytesInOrder
  <2> HIDE DEF InFlight
  <2>3. \A i \in 1..Len(got) : typed[i] = got[i]
    BY <2>1, <2>2 DEF Prefix
  <2> QED
    BY <2>3 DEF InterruptsAreGot, InterruptsAreTyped
<1> QED
  BY <1>1, <1>2, <1>3, InitInv, InductiveStep, InterruptStep, EveryByteArrives, PTL DEF Spec

\* No signal handler runs without its reason: SIGWINCH not without a resize, SIGINT not
\* without a Ctrl-C, SIGALRM not before an armed alarm is due, and none twice for the same.
THEOREM SignalsAreJustified == Spec => SignalsHaveReasons
BY AlarmOnTime, NoWinchWithoutResize, InterruptsAreJustified DEF SignalsHaveReasons
=====
