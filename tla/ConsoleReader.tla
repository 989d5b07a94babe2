--------------------------- MODULE ConsoleReader ---------------------------
(***************************************************************************)
(* The console input of the readline port (gnulib/readline/mysrc/          *)
(* compats.cpp): a reader thread turns console records into UTF-8 bytes    *)
(* and hands them to the main thread, which takes them one at a time in    *)
(* rl_getc, asks for their number through FIONREAD, and is interrupted by  *)
(* an alarm clock.                                                         *)
(*                                                                         *)
(* The two threads share m_buf under m_lock, the auto-reset m_Event, and,  *)
(* without any lock, winsz_changed_.  Characters and bytes are numbers,    *)
(* the clock counts whole seconds.  The console and the user in front of   *)
(* it are the environment.  typed, got, promised, interrupts, resizes,     *)
(* winches and alarms are history variables: they record what happened.    *)
(***************************************************************************)
EXTENDS Integers, Sequences

CONSTANTS
    CodePoints,     \* what the user may type
    AlarmSeconds,   \* what wrl_alarm may be called with
    Garbage,        \* what the uninitialised m_chtmp may hold
    BatchSize,      \* records ReadConsoleInputW returns at most (100 in the code)
    MaxRecords,     \* bound: records the user produces
    MaxTime         \* bound: the last second of the clock

Byte == 0..255
Word == {w \in Nat : w < 65536}

\* The code points of Unicode: seventeen planes of 16 * 4096, without the surrogates.
ASSUME InputAssumption ==
    \A cp \in CodePoints : cp \in Nat /\ cp \div 4096 < 272 /\ cp \notin 55296..57343
ASSUME AlarmAssumption == AlarmSeconds \subseteq Int
ASSUME GarbageAssumption == Garbage \subseteq Word
ASSUME BoundsAssumption == /\ BatchSize \in Nat \ {0}
                           /\ MaxRecords \in Nat
                           /\ MaxTime \in Nat \ {0}

VARIABLES
    console,    \* records waiting in the console's input queue
    typed,      \* the UTF-8 of everything typed
    nrecords,   \* how many records the user produced
    now,        \* GetTickCount64, in seconds
    \* shared by the two threads
    started,    \* g_reader exists and its thread runs
    m_lock,
    m_buf,      \* bytes handed over by the reader
    m_Event,
    winsz_changed_,
    \* the reader thread
    rpc, batch, local_buf, m_chtmp,
    \* the main thread
    mpc, mover, m_pub_buf, next_stop, wakeAt, winszSeen,
    got,        \* the bytes rl_getc returned
    interrupts, \* SIGINT handlers run: the bytes of got for which
    promised,   \* bytes FIONREAD announced that were not fetched yet
    resizes,    \* resize records the reader handled
    winches,    \* SIGWINCH handlers run
    alarms      \* SIGALRM handlers run

user == <<console, typed, nrecords>>
reader == <<rpc, batch, local_buf, m_chtmp>>
main == <<mpc, mover, m_pub_buf, next_stop, wakeAt, winszSeen, got, interrupts, promised, winches,
          alarms>>
vars == <<user, now, started, m_lock, m_buf, m_Event, winsz_changed_, reader, resizes, main>>

Never == -1     \* INFINITE

Records == [kind : {"down"}, unit : Word] \cup [kind : {"resize", "ignored"}, unit : {0}]

ReaderPCs == {"read", "handle", "enter", "append", "signal"}
MainPCs == {"idle", "check", "enter", "insert", "clear", "pop", "winszRead", "winszClear",
            "deadline", "wait"}

TypeOK ==
    /\ console \in Seq(Records) /\ typed \in Seq(Byte) /\ nrecords \in Nat
    /\ now \in 1..MaxTime
    /\ started \in BOOLEAN
    /\ m_lock \in {"none", "main", "reader"}
    /\ m_buf \in Seq(Byte)
    /\ m_Event \in BOOLEAN
    /\ winsz_changed_ \in BOOLEAN
    /\ rpc \in ReaderPCs /\ batch \in Seq(Records) /\ local_buf \in Seq(Byte) /\ m_chtmp \in Word
    /\ mpc \in MainPCs /\ mover \in {"getc", "ioctl"}
    /\ m_pub_buf \in Seq(Byte)
    /\ next_stop \in 0..MaxTime /\ wakeAt \in 1..MaxTime \cup {Never}
    /\ winszSeen \in BOOLEAN
    /\ got \in Seq(Byte) /\ interrupts \subseteq Nat /\ promised \in Nat
    /\ resizes \in Nat /\ winches \in Nat /\ alarms \in Nat

Init ==
    /\ console = <<>> /\ typed = <<>> /\ nrecords = 0
    /\ now = 1
    /\ started = FALSE
    /\ m_lock = "none" /\ m_buf = <<>> /\ m_Event = FALSE /\ winsz_changed_ = FALSE
    /\ rpc = "read" /\ batch = <<>> /\ local_buf = <<>>
    /\ m_chtmp = 0          \* chosen when the reader is created
    /\ mpc = "idle" /\ mover = "getc" /\ m_pub_buf = <<>>
    /\ next_stop = 0 /\ wakeAt = Never /\ winszSeen = FALSE
    /\ got = <<>> /\ interrupts = {} /\ promised = 0 /\ resizes = 0 /\ winches = 0 /\ alarms = 0

-----------------------------------------------------------------------------
(* The user and the clock.                                                 *)

\* UTF-16: what the console reports of a code point, one record per unit.
Utf16(cp) ==
    IF cp < 65536 THEN <<cp>>
    ELSE <<55296 + ((cp - 65536) \div 1024), 56320 + ((cp - 65536) % 1024)>>

\* UTF-8: what a program expects to read.  A key without a character gives nothing.
Utf8(cp) ==
    IF cp = 0 THEN <<>>
    ELSE IF cp < 128 THEN <<cp>>
    ELSE IF cp < 2048 THEN <<192 + (cp \div 64), 128 + (cp % 64)>>
    ELSE IF cp < 65536
         THEN <<224 + (cp \div 4096), 128 + ((cp \div 64) % 64), 128 + (cp % 64)>>
    ELSE <<240 + ((cp \div 4096) \div 64), 128 + ((cp \div 4096) % 64),
           128 + ((cp \div 64) % 64), 128 + (cp % 64)>>

Down(unit) == [kind |-> "down", unit |-> unit]

TypeKey(cp) ==
    LET units == Utf16(cp)
    IN  /\ nrecords + Len(units) <= MaxRecords
        /\ console' = console \o [i \in 1..Len(units) |-> Down(units[i])]
        /\ typed' = typed \o Utf8(cp)
        /\ nrecords' = nrecords + Len(units)
        /\ UNCHANGED <<now, started, m_lock, m_buf, m_Event, winsz_changed_, reader, resizes, main>>

\* A resize, or a key release, mouse, menu or focus record.
OtherRecord(kind) ==
    /\ nrecords < MaxRecords
    /\ console' = Append(console, [kind |-> kind, unit |-> 0])
    /\ nrecords' = nrecords + 1
    /\ UNCHANGED <<typed, now, started, m_lock, m_buf, m_Event, winsz_changed_, reader,
                   resizes, main>>

Tick ==
    /\ now < MaxTime
    /\ now' = now + 1
    /\ UNCHANGED <<user, started, m_lock, m_buf, m_Event, winsz_changed_, reader, resizes, main>>

-----------------------------------------------------------------------------
(* The reader thread: run_thread.                                          *)

\* Mutant: the high surrogate is forgotten between two reads.
ReadConsoleInputForgets ==
    /\ started
    /\ rpc = "read"
    /\ console # <<>>
    /\ \E n \in 1..BatchSize :
        /\ n <= Len(console)
        /\ batch' = SubSeq(console, 1, n)
        /\ console' = SubSeq(console, n + 1, Len(console))
    /\ local_buf' = <<>>
    /\ m_chtmp' = 55296
    /\ rpc' = "handle"
    /\ UNCHANGED <<typed, nrecords, now, started, m_lock, m_buf, m_Event, winsz_changed_,
                   resizes, main>>

\* ReadConsoleInputW blocks for a first record and returns what fits; a
\* surrogate pair may be split between two calls.
ReadConsoleInput ==
    /\ started
    /\ rpc = "read"
    /\ console # <<>>
    /\ \E n \in 1..BatchSize :
        /\ n <= Len(console)
        /\ batch' = SubSeq(console, 1, n)
        /\ console' = SubSeq(console, n + 1, Len(console))
    /\ local_buf' = <<>>
    /\ rpc' = "handle"
    /\ UNCHANGED <<typed, nrecords, now, started, m_lock, m_buf, m_Event, winsz_changed_,
                   m_chtmp, resizes, main>>

\* add_wch: the bytes a UTF-16 unit contributes.  A high surrogate is kept for
\* the low one that follows.
IsHigh(w) == w \in 55296..56319
IsLow(w) == w \in 56320..57343

LowBytes(high, w) ==
    LET wch2 == 65536 + (high - 55296) * 1024 + (w - 56320)
    IN  <<(240 + ((wch2 \div 4096) \div 64)) % 256, 128 + ((wch2 \div 4096) % 64),
          128 + ((wch2 \div 64) % 64), 128 + (wch2 % 64)>>

UnitBytes(w) ==
    IF w = 0 \/ IsHigh(w) THEN <<>>
    ELSE IF w <= 127 THEN <<w>>
    ELSE IF w <= 2047 THEN <<192 + (w \div 64), 128 + (w % 64)>>
    ELSE IF IsLow(w) THEN LowBytes(m_chtmp, w)
    ELSE <<224 + (w \div 4096), 128 + ((w \div 64) % 64), 128 + (w % 64)>>

NextChtmp(w) ==
    IF IsHigh(w) THEN w ELSE IF w <= 127 THEN m_chtmp ELSE 0

HandleKey ==
    /\ rpc = "handle"
    /\ batch # <<>> /\ Head(batch).kind = "down"
    /\ local_buf' = local_buf \o UnitBytes(Head(batch).unit)
    /\ m_chtmp' = NextChtmp(Head(batch).unit)
    /\ batch' = Tail(batch)
    /\ UNCHANGED <<user, now, started, m_lock, m_buf, m_Event, winsz_changed_, rpc, resizes, main>>

HandleResize ==
    /\ rpc = "handle"
    /\ batch # <<>> /\ Head(batch).kind = "resize"
    /\ winsz_changed_' = TRUE
    /\ resizes' = resizes + 1
    /\ batch' = Tail(batch)
    /\ UNCHANGED <<user, now, started, m_lock, m_buf, m_Event, rpc, local_buf, m_chtmp, main>>

SkipRecord ==
    /\ rpc = "handle"
    /\ batch # <<>> /\ Head(batch).kind = "ignored"
    /\ batch' = Tail(batch)
    /\ UNCHANGED <<user, now, started, m_lock, m_buf, m_Event, winsz_changed_, rpc, local_buf,
                   m_chtmp, resizes, main>>

BatchDone ==
    /\ rpc = "handle"
    /\ batch = <<>>
    /\ rpc' = IF local_buf # <<>> THEN "enter" ELSE "read"
    /\ UNCHANGED <<user, now, started, m_lock, m_buf, m_Event, winsz_changed_, batch, local_buf,
                   m_chtmp, resizes, main>>

ReaderEnter ==
    /\ rpc = "enter"
    /\ m_lock = "none"
    /\ m_lock' = "reader"
    /\ rpc' = "append"
    /\ UNCHANGED <<user, now, started, m_buf, m_Event, winsz_changed_, batch, local_buf, m_chtmp,
                   resizes, main>>

\* Mutant: the event is not set after the bytes are appended.
ReaderAppendSilently ==
    /\ rpc = "append"
    /\ m_buf' = m_buf \o local_buf
    /\ m_lock' = "none"
    /\ rpc' = "read"
    /\ UNCHANGED <<user, now, started, m_Event, winsz_changed_, batch, local_buf, m_chtmp,
                   resizes, main>>

ReaderAppend ==
    /\ rpc = "append"
    /\ m_buf' = m_buf \o local_buf
    /\ m_lock' = "none"
    /\ rpc' = "signal"
    /\ UNCHANGED <<user, now, started, m_Event, winsz_changed_, batch, local_buf, m_chtmp,
                   resizes, main>>

ReaderSignal ==
    /\ rpc = "signal"
    /\ m_Event' = TRUE
    /\ rpc' = "read"
    /\ UNCHANGED <<user, now, started, m_lock, m_buf, winsz_changed_, batch, local_buf, m_chtmp,
                   resizes, main>>

-----------------------------------------------------------------------------
(* The main thread: rl_getc, wrl_ioctl(FIONREAD) and wrl_alarm.            *)

shared == <<user, now, m_lock, m_buf, m_Event, winsz_changed_, resizes>>

\* The first call creates the reader and its thread; m_chtmp is not initialised.
rl_getc ==
    /\ mpc = "idle"
    /\ mpc' = "check"
    /\ mover' = "getc"
    /\ started' = TRUE
    /\ IF started THEN UNCHANGED m_chtmp ELSE m_chtmp' \in Garbage
    /\ UNCHANGED <<shared, rpc, batch, local_buf, m_pub_buf, next_stop, wakeAt, winszSeen, got,
                   interrupts, promised, winches, alarms>>

\* get_stdin_nb answers 0 before the first rl_getc.
FIONREAD ==
    /\ mpc = "idle"
    /\ started
    /\ mpc' = "enter"
    /\ mover' = "ioctl"
    /\ UNCHANGED <<shared, started, reader, m_pub_buf, next_stop, wakeAt, winszSeen, got,
                   interrupts, promised, winches, alarms>>

wrl_alarm(seconds) ==
    /\ mpc = "idle"
    /\ now + seconds <= MaxTime
    /\ next_stop' = IF seconds <= 0 THEN 0 ELSE now + seconds
    /\ UNCHANGED <<shared, started, reader, mpc, mover, m_pub_buf, wakeAt, winszSeen, got,
                   interrupts, promised, winches, alarms>>

CheckPubBuf ==
    /\ mpc = "check"
    /\ mpc' = IF m_pub_buf # <<>> THEN "pop" ELSE "enter"
    /\ UNCHANGED <<shared, started, reader, mover, m_pub_buf, next_stop, wakeAt, winszSeen, got,
                   interrupts, promised, winches, alarms>>

\* move_data, from rl_getc or from FIONREAD.
MoveEnter ==
    /\ mpc = "enter"
    /\ m_lock = "none"
    /\ m_lock' = "main"
    /\ mpc' = "insert"
    /\ UNCHANGED <<user, now, started, m_buf, m_Event, winsz_changed_, resizes, reader, mover,
                   m_pub_buf, next_stop, wakeAt, winszSeen, got, interrupts, promised, winches,
                   alarms>>

MoveInsert ==
    /\ mpc = "insert"
    /\ m_pub_buf' = m_pub_buf \o m_buf
    /\ mpc' = "clear"
    /\ UNCHANGED <<shared, started, reader, mover, next_stop, wakeAt, winszSeen, got, interrupts,
                   promised, winches, alarms>>

\* Mutant: the moved bytes are counted twice.
MoveClearCountsTwice ==
    /\ mpc = "clear"
    /\ m_buf' = <<>>
    /\ m_lock' = "none"
    /\ IF mover = "ioctl"
       THEN mpc' = "idle" /\ promised' = Len(m_pub_buf) + Len(m_buf)
       ELSE mpc' = (IF m_pub_buf # <<>> THEN "pop" ELSE "deadline") /\ UNCHANGED promised
    /\ UNCHANGED <<user, now, started, m_Event, winsz_changed_, resizes, reader, mover, m_pub_buf,
                   next_stop, wakeAt, winszSeen, got, interrupts, winches, alarms>>

MoveClear ==
    /\ mpc = "clear"
    /\ m_buf' = <<>>
    /\ m_lock' = "none"
    /\ IF mover = "ioctl"
       THEN mpc' = "idle" /\ promised' = Len(m_pub_buf)
       ELSE mpc' = (IF m_pub_buf # <<>> THEN "pop" ELSE "deadline") /\ UNCHANGED promised
    /\ UNCHANGED <<user, now, started, m_Event, winsz_changed_, resizes, reader, mover, m_pub_buf,
                   next_stop, wakeAt, winszSeen, got, interrupts, winches, alarms>>

\* A Ctrl-C is returned as a byte, too.
Pop ==
    /\ mpc = "pop"
    /\ got' = Append(got, Head(m_pub_buf))
    /\ interrupts' = IF Head(m_pub_buf) = 3 THEN interrupts \cup {Len(got) + 1} ELSE interrupts
    /\ m_pub_buf' = Tail(m_pub_buf)
    /\ promised' = IF promised > 0 THEN promised - 1 ELSE 0
    /\ mpc' = "winszRead"
    /\ UNCHANGED <<shared, started, reader, mover, next_stop, wakeAt, winszSeen, winches, alarms>>

\* winsz_changed() reads the flag and clears it in two steps, without a lock.
WinszRead ==
    /\ mpc = "winszRead"
    /\ winszSeen' = winsz_changed_
    /\ mpc' = "winszClear"
    /\ UNCHANGED <<shared, started, reader, mover, m_pub_buf, next_stop, wakeAt, got, interrupts,
                   promised, winches, alarms>>

WinszClear ==
    /\ mpc = "winszClear"
    /\ winsz_changed_' = FALSE
    /\ winches' = IF winszSeen THEN winches + 1 ELSE winches
    /\ winszSeen' = FALSE
    /\ mpc' = "idle"
    /\ UNCHANGED <<user, now, started, m_lock, m_buf, m_Event, resizes, reader, mover, m_pub_buf,
                   next_stop, wakeAt, got, interrupts, promised, alarms>>

\* Mutant: the event is reset before the wait.
DeadlineResetsEvent ==
    /\ mpc = "deadline"
    /\ wakeAt' = IF next_stop = 0 THEN Never ELSE IF next_stop <= now THEN now ELSE next_stop
    /\ m_Event' = FALSE
    /\ mpc' = "wait"
    /\ UNCHANGED <<user, now, m_lock, m_buf, winsz_changed_, resizes, started, reader, mover,
                   m_pub_buf, next_stop, winszSeen, got, interrupts, promised, winches, alarms>>

\* Mutant: an alarm that is already due waits for ever.
DeadlineIgnoresDue ==
    /\ mpc = "deadline"
    /\ wakeAt' = IF next_stop <= now THEN Never ELSE next_stop
    /\ mpc' = "wait"
    /\ UNCHANGED <<shared, started, reader, mover, m_pub_buf, next_stop, winszSeen, got,
                   interrupts, promised, winches, alarms>>

\* The timeout, kept as the moment it ends; an alarm already due gives timeout 0.
Deadline ==
    /\ mpc = "deadline"
    /\ wakeAt' = IF next_stop = 0 THEN Never ELSE IF next_stop <= now THEN now ELSE next_stop
    /\ mpc' = "wait"
    /\ UNCHANGED <<shared, started, reader, mover, m_pub_buf, next_stop, winszSeen, got,
                   interrupts, promised, winches, alarms>>

WaitSignalled ==
    /\ mpc = "wait"
    /\ m_Event
    /\ m_Event' = FALSE
    /\ wakeAt' = Never
    /\ mpc' = "check"
    /\ UNCHANGED <<user, now, started, m_lock, m_buf, winsz_changed_, resizes, reader, mover,
                   m_pub_buf, next_stop, winszSeen, got, interrupts, promised, winches, alarms>>

\* Mutant: the alarm stays armed after it went off.
WaitTimeoutStaysArmed ==
    /\ mpc = "wait"
    /\ ~m_Event
    /\ wakeAt # Never /\ wakeAt <= now
    /\ wakeAt' = Never
    /\ alarms' = alarms + 1
    /\ mpc' = "check"
    /\ UNCHANGED <<shared, started, reader, mover, m_pub_buf, next_stop, winszSeen, got,
                   interrupts, promised, winches>>

WaitTimeout ==
    /\ mpc = "wait"
    /\ ~m_Event
    /\ wakeAt # Never /\ wakeAt <= now
    /\ wakeAt' = Never
    /\ next_stop' = 0
    /\ alarms' = alarms + 1
    /\ mpc' = "check"
    /\ UNCHANGED <<shared, started, reader, mover, m_pub_buf, winszSeen, got, interrupts,
                   promised, winches>>

-----------------------------------------------------------------------------
ReaderStep == \/ ReadConsoleInput \/ HandleKey \/ HandleResize \/ SkipRecord \/ BatchDone
              \/ ReaderEnter \/ ReaderAppend \/ ReaderSignal

\* The steps of a call of the main thread, once it is made.
MainStep == \/ CheckPubBuf \/ MoveEnter \/ MoveInsert \/ MoveClear \/ Pop
            \/ WinszRead \/ WinszClear \/ Deadline \/ WaitSignalled \/ WaitTimeout

Next ==
    \/ \E cp \in CodePoints : TypeKey(cp)
    \/ \E kind \in {"resize", "ignored"} : OtherRecord(kind)
    \/ Tick
    \/ ReaderStep
    \/ rl_getc \/ FIONREAD
    \/ \E seconds \in AlarmSeconds : wrl_alarm(seconds)
    \/ MainStep

Spec == Init /\ [][Next]_vars

\* Both threads are scheduled and time passes.  Nothing is assumed of the user,
\* nor of when the main thread makes its calls.
FairSpec == Spec /\ WF_vars(ReaderStep) /\ WF_vars(MainStep) /\ WF_vars(Tick)

-----------------------------------------------------------------------------
(* Properties                                                              *)

\* m_lock excludes: m_buf is only touched by the thread inside (compats.cpp:430-434, 526-528).
LockExcludes ==
    /\ rpc = "append" <=> m_lock = "reader"
    /\ mpc \in {"insert", "clear"} <=> m_lock = "main"

\* No wake-up is lost: when bytes are ready while rl_getc is about to wait or
\* waits, the event is set or the reader is about to set it.  The bytes may have
\* come after move_data found none (compats.cpp:553, 568 against 525-530).
NoLostWakeup ==
    mpc \in {"deadline", "wait"} /\ m_buf # <<>> => m_Event \/ rpc = "signal"

\* The bytes on their way, oldest first.  Between insert and clear m_buf's are in both.
InFlight ==
    m_pub_buf
      \o (IF mpc = "clear" THEN <<>> ELSE m_buf)
      \o (IF rpc \in {"handle", "enter", "append"} THEN local_buf ELSE <<>>)

Prefix(s, t) == Len(s) <= Len(t) /\ \A i \in 1..Len(s) : s[i] = t[i]

\* Nothing is lost, doubled, reordered or garbled between the keyboard and
\* rl_getc, even when a read splits a surrogate pair; and when no record is left
\* nothing is missing (compats.cpp:428-436, 451-479, 497-532, 553-558).
BytesInOrder ==
    /\ Prefix(got \o InFlight, typed)
    /\ console = <<>> /\ batch = <<>> => got \o InFlight = typed

\* What FIONREAD announced can be fetched without waiting (compats.cpp:277-280, 577-580).
PromiseKept == mpc \in {"deadline", "wait"} => promised = 0

\* SIGWINCH is not raised more often than the window was resized (compats.cpp:440-449, 557).
NoSpuriousWinch ==
    winches + (IF winszSeen THEN 1 ELSE 0)
      + (IF winsz_changed_ /\ mpc # "winszClear" THEN 1 ELSE 0) <= resizes

\* SIGALRM is raised only for an alarm that is armed and due, and disarms it
\* (compats.cpp:27-31, 561-572).
AlarmNotEarly ==
    [][alarms' # alarms => next_stop # 0 /\ next_stop <= now /\ next_stop' = 0]_vars

\* SIGINT is raised once for each Ctrl-C that was typed, as it is read (compats.cpp:554-556).
InterruptsAreTyped == interrupts = {i \in 1..Len(got) : typed[i] = 3}

\* No signal handler runs without its reason, in particular not twice for the same.
SignalsHaveReasons == []NoSpuriousWinch /\ []InterruptsAreTyped /\ AlarmNotEarly

\* A call of rl_getc that is made returns once bytes it has not fetched were typed.
Calling == mpc # "idle" /\ mover = "getc"
KeyWakes == Calling /\ Len(got) < Len(typed) ~> mpc = "idle"

\* An armed alarm goes off, unless a key ends the call first.
AlarmFires == Calling /\ next_stop # 0 ~> mpc = "idle" \/ next_stop = 0
=============================================================================
