--------------------------- MODULE DirStreamSpec ---------------------------
(***************************************************************************)
(* What a directory stream (DIR of <dirent.h>) promises the threads that   *)
(* share it, with every call taking effect at one instant:                 *)
(*                                                                         *)
(*  - between two rewinds no entry is delivered twice, and an entry is     *)
(*    only delivered if the directory held it at some moment since the     *)
(*    stream was opened or rewound;                                        *)
(*  - the stream reports its end only when every name was delivered or was *)
(*    missing from the directory at some moment since then;                *)
(*  - a failed read consumes nothing.                                      *)
(*                                                                         *)
(* The order of delivery, buffering and locking are left to the            *)
(* implementation (module DirStream).                                      *)
(***************************************************************************)
EXTENDS Naturals

CONSTANTS Threads, MaxName

Names == 1..MaxName

VARIABLES
    dir,        \* the names in the directory now
    open,       \* there is a stream
    delivered,  \* names delivered since the last open or rewind
    present,    \* names the directory held at some moment since then
    absent,     \* names it lacked at some moment since then
    stage,      \* stage[t]: how far thread t's call has come
    reply       \* reply[t]: what the call of t answers

vars == <<dir, open, delivered, present, absent, stage, reply>>

NoReply == [status |-> "none", name |-> 0]
Replies == {NoReply, [status |-> "end", name |-> 0], [status |-> "error", name |-> 0]}
             \cup {[status |-> "entry", name |-> n] : n \in Names}

Init ==
    /\ dir \in SUBSET Names
    /\ open = FALSE
    /\ delivered = {} /\ present = {} /\ absent = {}
    /\ stage = [t \in Threads |-> "idle"]
    /\ reply = [t \in Threads |-> NoReply]

\* The scan starts over: nothing is delivered, the past of the directory is forgotten.
StartOver ==
    /\ delivered' = {}
    /\ present' = dir
    /\ absent' = Names \ dir

Open ==
    /\ ~open
    /\ open' = TRUE
    /\ StartOver
    /\ UNCHANGED <<dir, stage, reply>>

Close ==
    /\ open
    /\ \A t \in Threads : stage[t] = "idle"
    /\ open' = FALSE
    /\ delivered' = {} /\ present' = {} /\ absent' = {}
    /\ UNCHANGED <<dir, stage, reply>>

Call(t) ==
    /\ open
    /\ stage[t] = "idle"
    /\ \E op \in {"read", "rewind"} : stage' = [stage EXCEPT ![t] = op]
    /\ UNCHANGED <<dir, open, delivered, present, absent, reply>>

Answer(t, r) ==
    /\ stage[t] = "read"
    /\ stage' = [stage EXCEPT ![t] = "replied"]
    /\ reply' = [reply EXCEPT ![t] = r]
    /\ UNCHANGED <<dir, open, present, absent>>

ReadEntry(t) ==
    \E n \in present \ delivered :
        /\ Answer(t, [status |-> "entry", name |-> n])
        /\ delivered' = delivered \cup {n}

ReadEnd(t) ==
    /\ Names \subseteq delivered \cup absent
    /\ Answer(t, [status |-> "end", name |-> 0])
    /\ UNCHANGED delivered

ReadError(t) ==
    /\ Answer(t, [status |-> "error", name |-> 0])
    /\ UNCHANGED delivered

Rewind(t) ==
    /\ stage[t] = "rewind"
    /\ stage' = [stage EXCEPT ![t] = "rewound"]
    /\ StartOver
    /\ UNCHANGED <<dir, open, reply>>

Return(t) ==
    /\ stage[t] \in {"replied", "rewound"}
    /\ stage' = [stage EXCEPT ![t] = "idle"]
    /\ reply' = [reply EXCEPT ![t] = NoReply]
    /\ UNCHANGED <<dir, open, delivered, present, absent>>

\* Other programs create and delete entries at any time.
Create(n) ==
    /\ dir' = dir \cup {n}
    /\ present' = present \cup {n}
    /\ UNCHANGED <<open, delivered, absent, stage, reply>>

Delete(n) ==
    /\ dir' = dir \ {n}
    /\ absent' = absent \cup {n}
    /\ UNCHANGED <<open, delivered, present, stage, reply>>

Next ==
    \/ Open
    \/ Close
    \/ \E t \in Threads : \/ Call(t)
                          \/ ReadEntry(t)
                          \/ ReadEnd(t)
                          \/ ReadError(t)
                          \/ Rewind(t)
                          \/ Return(t)
    \/ \E n \in Names : Create(n) \/ Delete(n)

Spec == Init /\ [][Next]_vars
=============================================================================
