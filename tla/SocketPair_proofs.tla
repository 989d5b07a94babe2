-------------------------- MODULE SocketPair_proofs --------------------------
(***************************************************************************)
(* Proofs about SocketPair, for every set of threads, every number of      *)
(* handles and all requests.                                               *)
(***************************************************************************)
EXTENDS SocketPair, TLAPS

Outside == {"idle", "returned"}

\* The sockets that a frame answers for.
Answers(f) ==
    {f.fd0, f.fd1}
    \cup (IF f.pc \in Outside THEN {} ELSE {f.acceptor})
    \cup (IF f.pc \in Outside \cup {"close_acceptor"} THEN {} ELSE {f.connector})
    \cup (IF f.pc \in Outside \cup {"close_acceptor", "close_connector"} THEN {} ELSE {f.listener})

\* A frame's variables hold no socket twice, and none before it was made.
NoHandleTwice(f) ==
    /\ f.pc \notin Outside =>
            /\ f.request.protocol = 0 /\ f.fd0 = INVALID_SOCKET /\ f.fd1 = INVALID_SOCKET
            /\ f.listener = f.connector => f.listener = INVALID_SOCKET
            /\ f.listener = f.acceptor => f.listener = INVALID_SOCKET
            /\ f.connector = f.acceptor => f.connector = INVALID_SOCKET
    /\ f.pc = "socket" => f.listener = INVALID_SOCKET
    /\ f.pc \in {"socket", "bind", "socket2"} => f.connector = INVALID_SOCKET
    /\ f.pc \in {"socket", "bind", "socket2", "getsockname", "connect", "accept"} =>
            f.acceptor = INVALID_SOCKET

\* What a call needs is there when the pair is given out.
PairIsMade(f) ==
    /\ f.pc \in {"socket2", "getsockname", "connect", "accept"} => f.listener \in Sockets
    /\ f.pc \in {"accept", "compare", "finish"} => f.connector \in Sockets
    /\ f.pc \in {"compare", "finish"} => f.acceptor \in Sockets /\ f.listener = INVALID_SOCKET
    /\ f.pc = "connect" => f.connect_addr = f.listener
    /\ f.pc = "returned" /\ f.result = 0 => f.fd0 \in Sockets /\ f.fd1 \in Sockets /\ f.fd0 # f.fd1
    /\ f.pc = "idle" \/ (f.pc = "returned" /\ f.result = -1) =>
            f.fd0 = INVALID_SOCKET /\ f.fd1 = INVALID_SOCKET

Answered(t) == \A s \in Sockets : IsOpen(s) /\ sock[s].owner = t <=> s \in Answers(frame[t])

Connected(t) ==
    /\ frame[t].pc = "accept" => sock[frame[t].connector].peer = frame[t].listener
    /\ frame[t].pc \in {"compare", "finish"} => sock[frame[t].connector].peer = frame[t].acceptor
    /\ Succeeded(t) => sock[frame[t].fd0].peer = frame[t].fd1

ErrorKept(t) == Failed(t) /\ frame[t].saved_errno # "OK" => lasterr[t] = frame[t].saved_errno

ThreadInv(t) ==
    /\ NoHandleTwice(frame[t]) /\ PairIsMade(frame[t])
    /\ Answered(t) /\ Connected(t) /\ ErrorKept(t)

Inv == TypeOK /\ \A t \in Threads : ThreadInv(t)

-----------------------------------------------------------------------------
(* The types *)

LEMMA SocketValues ==
    ASSUME NEW t \in Threads, NEW peer \in Handle
    PROVE  /\ NewSocket(t) \in Socket
           /\ [NewSocket(t) EXCEPT !.bound = TRUE, !.peer = peer] \in Socket
           /\ \A x \in Socket, listening \in BOOLEAN :
                [x EXCEPT !.bound = TRUE, !.listening = listening] \in Socket
           /\ \A x \in Socket : [x EXCEPT !.bound = TRUE, !.peer = peer] \in Socket
<1>1. NewSocket(t) \in Socket
  <2>1. Nobody \in Handle
    BY DEF Nobody, Handle
  <2> QED
    BY Zenon, <2>1 DEF Socket, NewSocket
<1>2. \A x \in Socket, listening \in BOOLEAN :
        [x EXCEPT !.bound = TRUE, !.listening = listening] \in Socket
  BY DEF Socket
<1>3. \A x \in Socket : [x EXCEPT !.bound = TRUE, !.peer = peer] \in Socket
  BY DEF Socket
<1> QED
  BY <1>1, <1>2, <1>3

LEMMA FrameValues ==
    ASSUME NEW f \in Frame, NEW s \in Handle, NEW a \in Handle, NEW e \in Error, NEW b \in BOOLEAN
    PROVE  /\ [f EXCEPT !.pc = "close_listener", !.saved_errno = e, !.faulted = b] \in Frame
           /\ [f EXCEPT !.pc = "compare", !.acceptor = s, !.listener = INVALID_SOCKET,
                        !.listen_addr = a] \in Frame
           /\ [f EXCEPT !.pc = "compare", !.acceptor = s, !.listener = INVALID_SOCKET,
                        !.faulted = TRUE] \in Frame
           /\ [f EXCEPT !.pc = "compare", !.acceptor = s, !.listen_addr = a] \in Frame
           /\ [f EXCEPT !.pc = "compare", !.faulted = TRUE] \in Frame
           /\ [f EXCEPT !.pc = "returned", !.result = 0, !.fd0 = s, !.fd1 = a] \in Frame
           /\ [f EXCEPT !.pc = "returned", !.result = -1] \in Frame
<1>1. [f EXCEPT !.pc = "close_listener", !.saved_errno = e, !.faulted = b] \in Frame
  BY DEF Frame
<1>2. [f EXCEPT !.pc = "compare", !.acceptor = s, !.listener = INVALID_SOCKET,
                !.listen_addr = a] \in Frame
  BY DEF Frame, Handle
<1>3. [f EXCEPT !.pc = "compare", !.acceptor = s, !.listener = INVALID_SOCKET,
                !.faulted = TRUE] \in Frame
  BY DEF Frame, Handle
<1>4. [f EXCEPT !.pc = "compare", !.acceptor = s, !.listen_addr = a] \in Frame
  BY DEF Frame, Handle
<1>5. [f EXCEPT !.pc = "compare", !.faulted = TRUE] \in Frame
  BY DEF Frame
<1>6. [f EXCEPT !.pc = "returned", !.result = 0, !.fd0 = s, !.fd1 = a] \in Frame
  BY DEF Frame
<1>7. [f EXCEPT !.pc = "returned", !.result = -1] \in Frame
  BY DEF Frame
<1> QED
  BY <1>1, <1>2, <1>3, <1>4, <1>5, <1>6, <1>7

LEMMA TypeStep ==
    ASSUME TypeOK, NEW t \in Threads, Step(t)
    PROVE  TypeOK'
<1> DEFINE f == frame[t]
<1>a. /\ sock \in [Sockets -> Socket \cup {Closed}] /\ frame \in [Threads -> Frame]
      /\ lasterr \in [Threads -> Error]
      /\ f \in Frame
  BY DEF TypeOK
<1>b. /\ f.listener \in Handle /\ f.connector \in Handle /\ f.acceptor \in Handle
      /\ f.request \in Request /\ f.saved_errno \in Error /\ f.faulted \in BOOLEAN
  BY <1>a DEF Frame
<1>c. INVALID_SOCKET \in Handle /\ Nobody \in Handle /\ Sockets \subseteq Handle
  BY DEF Handle, Nobody
<1>d. \A g \in Frame : [frame EXCEPT ![t] = g] \in [Threads -> Frame]
  BY <1>a
<1>e. \A e \in Error : [lasterr EXCEPT ![t] = e] \in [Threads -> Error]
  BY <1>a
<1>f. \A s : CloseSocket(s) \in [Sockets -> Socket \cup {Closed}]
  BY <1>a DEF CloseSocket
<1>g. ASSUME NEW e \in Error, FailWith(t, e) PROVE TypeOK'
  <2>1. (f.faulted \/ e = "FAULT") \in BOOLEAN
    OBVIOUS
  <2>2. [f EXCEPT !.pc = "close_listener", !.saved_errno = e, !.faulted = f.faulted \/ e = "FAULT"] \in Frame
    BY <1>a, <1>c, <2>1, FrameValues
  <2>3. frame' = [frame EXCEPT ![t] =
            [f EXCEPT !.pc = "close_listener", !.saved_errno = e, !.faulted = f.faulted \/ e = "FAULT"]]
    BY <1>a, <1>g DEF FailWith
  <2> QED
    BY <1>a, <1>d, <1>e, <1>g, <2>2, <2>3 DEF FailWith, TypeOK
<1>h. ASSUME NEW s, CallFails(t, s) PROVE TypeOK'
  BY <1>g, <1>h DEF CallFails, Error
<1>1. ASSUME NEW request \in Requests, Call(t, request) PROVE TypeOK'
  <2>1. NewFrame(request, "returned", -1) \in Frame /\ NewFrame(request, "socket", -1) \in Frame
    BY <1>c, RequestAssumption DEF NewFrame, Frame, Error
  <2> QED
    BY <1>1, <1>a, <1>d, <1>e, <2>1 DEF Call, Refuse, TypeOK, Error
<1>2. CASE OpenListener(t) \/ OpenConnector(t)
  <2>1. sock' \in [Sockets -> Socket \cup {Closed}]
    <3>1. \/ sock' = sock
          \/ \E s \in Sockets : sock' = [sock EXCEPT ![s] = NewSocket(t)]
      BY <1>2 DEF OpenListener, OpenConnector, OpenSocket
    <3>2. NewSocket(t) \in Socket
      BY <1>c, SocketValues
    <3> QED
      BY <1>a, <3>1, <3>2
  <2>2. frame' \in [Threads -> Frame]
    <3>1. CASE OpenListener(t)
      BY <3>1, <1>a DEF OpenListener, OpenSocket, Frame, Handle
    <3>2. CASE OpenConnector(t)
      BY <3>2, <1>a DEF OpenConnector, OpenSocket, Frame, Handle
    <3> QED
      BY <1>2, <3>1, <3>2
  <2>3. lasterr' \in [Threads -> Error]
    BY <1>2, <1>a DEF OpenListener, OpenConnector, OpenSocket, Error
  <2> QED
    BY <2>1, <2>2, <2>3 DEF TypeOK
<1>3. CASE BindAndListen(t)
  <2>1. CASE CallFails(t, f.listener)
    BY <2>1, <1>h
  <2>2. CASE ~CallFails(t, f.listener)
    <3>1. sock' = [sock EXCEPT ![f.listener] = [@ EXCEPT !.bound = TRUE, !.listening = IsStream(t)]]
          /\ IsOpen(f.listener)
      BY <1>3, <2>2 DEF BindAndListen
    <3>2. IsStream(t) \in BOOLEAN
      BY DEF IsStream
    <3>3. sock' \in [Sockets -> Socket \cup {Closed}]
      BY <1>a, <1>c, <3>1, <3>2, SocketValues DEF IsOpen
    <3>4. frame' \in [Threads -> Frame] /\ lasterr' = lasterr
      BY <1>3, <2>2, <1>a DEF BindAndListen, Frame
    <3> QED
      BY <1>a, <3>3, <3>4 DEF TypeOK
  <2> QED
    BY <2>1, <2>2
<1>4. CASE FindPort(t)
  <2>1. CASE CallFails(t, f.listener)
    BY <2>1, <1>h
  <2>2. CASE ~CallFails(t, f.listener)
    BY <1>4, <2>2, <1>a, <1>b DEF FindPort, Frame, TypeOK
  <2> QED
    BY <2>1, <2>2
<1>5. CASE Connect(t)
  <2>1. CASE CallFails(t, f.connector) \/ FailWith(t, "ECONNREFUSED")
    BY <2>1, <1>g, <1>h DEF Error
  <2>2. CASE ~CallFails(t, f.connector) /\ ~FailWith(t, "ECONNREFUSED")
    <3>1. /\ sock' = [sock EXCEPT ![f.connector] = [@ EXCEPT !.bound = TRUE, !.peer = f.connect_addr]]
          /\ IsOpen(f.connector)
      BY <1>5, <2>2 DEF Connect
    <3>2. f.connect_addr \in Handle
      BY <1>a DEF Frame
    <3>3. sock' \in [Sockets -> Socket \cup {Closed}]
      BY <1>a, <3>1, <3>2, SocketValues DEF IsOpen
    <3>4. frame' \in [Threads -> Frame] /\ lasterr' = lasterr
      BY <1>5, <2>2, <1>a DEF Connect, Frame
    <3> QED
      BY <1>a, <3>3, <3>4 DEF TypeOK
  <2> QED
    BY <2>1, <2>2
<1>6. CASE Accept(t)
  <2>1. CASE TakeListener(t)
    <3>1. frame' \in [Threads -> Frame]
      <4>1. \/ frame' = [frame EXCEPT ![t] = [f EXCEPT !.pc = "compare", !.acceptor = f.listener,
                             !.listener = INVALID_SOCKET, !.listen_addr = f.connector]]
            \/ frame' = [frame EXCEPT ![t] = [f EXCEPT !.pc = "compare", !.acceptor = f.listener,
                             !.listener = INVALID_SOCKET, !.faulted = TRUE]]
        BY <1>a, <2>1 DEF TakeListener
      <4>2. "OK" \in Error /\ TRUE \in BOOLEAN
        BY DEF Error
      <4>3. /\ [f EXCEPT !.pc = "compare", !.acceptor = f.listener,
                         !.listener = INVALID_SOCKET, !.listen_addr = f.connector] \in Frame
            /\ [f EXCEPT !.pc = "compare", !.acceptor = f.listener,
                         !.listener = INVALID_SOCKET, !.faulted = TRUE] \in Frame
        BY <1>a, <1>b, <4>2, FrameValues
      <4> QED
        BY <1>d, <4>1, <4>3
    <3> QED
      BY <1>a, <2>1, <3>1 DEF TakeListener, TypeOK, Error
  <2>2. CASE AcceptConnection(t)
    <3>1. frame' \in [Threads -> Frame]
      <4>1. \/ \E s \in Sockets :
                  frame' = [frame EXCEPT ![t] = [f EXCEPT !.pc = "compare", !.acceptor = s,
                                                          !.listen_addr = f.connector]]
            \/ frame' = [frame EXCEPT ![t] = [f EXCEPT !.pc = "compare", !.faulted = TRUE]]
        BY <1>a, <2>2 DEF AcceptConnection
      <4>2. "OK" \in Error /\ TRUE \in BOOLEAN
        BY DEF Error
      <4>3. /\ \A s \in Sockets : [f EXCEPT !.pc = "compare", !.acceptor = s,
                                            !.listen_addr = f.connector] \in Frame
            /\ [f EXCEPT !.pc = "compare", !.faulted = TRUE] \in Frame
        BY <1>a, <1>b, <1>c, <4>2, FrameValues
      <4> QED
        BY <1>d, <4>1, <4>3
    <3>2. sock' \in [Sockets -> Socket \cup {Closed}]
      <4>1. \/ sock' = sock
            \/ \E s \in Sockets : sock' = [sock EXCEPT ![s] =
                  [NewSocket(t) EXCEPT !.bound = TRUE, !.peer = f.connector]]
        BY <2>2 DEF AcceptConnection
      <4>2. [NewSocket(t) EXCEPT !.bound = TRUE, !.peer = f.connector] \in Socket
        BY <1>b, SocketValues
      <4> QED
        BY <1>a, <4>1, <4>2
    <3> QED
      BY <1>a, <2>2, <3>1, <3>2 DEF AcceptConnection, TypeOK, Error
  <2> QED
    BY <1>6, <2>1, <2>2 DEF Accept
<1>7. CASE Compare(t)
  <2>1. CASE CallFails(t, f.connector)
    BY <2>1, <1>h
  <2>2. CASE ~CallFails(t, f.connector)
    BY <1>7, <2>2, <1>a, <1>b DEF Compare, Frame, TypeOK, Error
  <2> QED
    BY <2>1, <2>2
<1>8. CASE Finish(t)
  <2>1. frame' = [frame EXCEPT ![t] = [f EXCEPT !.pc = "returned", !.result = 0,
                                                !.fd0 = f.connector, !.fd1 = f.acceptor]]
    BY <1>a, <1>8 DEF Finish
  <2>2. "OK" \in Error /\ TRUE \in BOOLEAN
    BY DEF Error
  <2>3. [f EXCEPT !.pc = "returned", !.result = 0, !.fd0 = f.connector, !.fd1 = f.acceptor] \in Frame
    BY <1>a, <1>b, <2>2, FrameValues
  <2> QED
    BY <1>8, <1>a, <1>d, <1>f, <2>1, <2>3 DEF Finish, ErrorsAfterClose, TypeOK, Error
<1>9. CASE CloseListener(t) \/ CloseConnector(t)
  BY <1>9, <1>a, <1>f DEF CloseListener, CloseConnector, Tidy, ErrorsAfterClose, TypeOK, Error, Frame
<1>10. CASE CloseAcceptor(t)
  <2>1. frame' = [frame EXCEPT ![t] = [f EXCEPT !.pc = "returned", !.result = -1]]
    BY <1>a, <1>10 DEF CloseAcceptor
  <2>2. "OK" \in Error /\ TRUE \in BOOLEAN
    BY DEF Error
  <2>3. [f EXCEPT !.pc = "returned", !.result = -1] \in Frame
    BY <1>a, <1>c, <2>2, FrameValues
  <2> QED
    BY <1>10, <1>a, <1>b, <1>d, <1>f, <2>1, <2>3 DEF CloseAcceptor, TypeOK
<1>11. CASE Release(t)
  <2>1. NewFrame(f.request, "idle", -1) \in Frame
    BY <1>b, <1>c DEF NewFrame, Frame, Error
  <2> QED
    BY <1>11, <1>a, <1>d, <2>1 DEF Release, TypeOK
<1> QED
  BY <1>1, <1>2, <1>3, <1>4, <1>5, <1>6, <1>7, <1>8, <1>9, <1>10, <1>11 DEF Step

-----------------------------------------------------------------------------
(* The thread that takes a step *)

\* The step of t that gives up closes nothing yet.
LEMMA FailingKeepsInv ==
    ASSUME Inv, NEW t \in Threads, NEW e \in Error, FailWith(t, e),
           frame[t].pc \in {"bind", "getsockname", "connect", "compare"}
    PROVE  ThreadInv(t)'
<1> DEFINE f == frame[t]
<1>1. f \in Frame /\ frame \in [Threads -> Frame]
  BY DEF Inv, TypeOK
<1>2. /\ frame'[t].pc = "close_listener" /\ frame'[t].request = f.request
      /\ frame'[t].listener = f.listener /\ frame'[t].connector = f.connector
      /\ frame'[t].acceptor = f.acceptor
      /\ frame'[t].fd0 = f.fd0 /\ frame'[t].fd1 = f.fd1
      /\ sock' = sock
  BY <1>1 DEF FailWith, Frame
<1>3. NoHandleTwice(f) /\ Answered(t)
  BY DEF Inv, ThreadInv
<1>4. NoHandleTwice(frame'[t]) /\ PairIsMade(frame'[t])
  BY <1>2, <1>3 DEF NoHandleTwice, PairIsMade, Outside
<1>5. Answers(frame'[t]) = Answers(f)
  BY <1>2 DEF Answers, Outside
<1>6. Answered(t)' /\ Connected(t)' /\ ErrorKept(t)'
  BY <1>2, <1>3, <1>5 DEF Answered, IsOpen, Connected, Succeeded, ErrorKept, Failed
<1> QED
  BY <1>4, <1>6 DEF ThreadInv

LEMMA OwnStep ==
    ASSUME Inv, NEW t \in Threads, Step(t)
    PROVE  ThreadInv(t)'
<1> DEFINE f == frame[t]
           g == frame'[t]
<1>a. /\ sock \in [Sockets -> Socket \cup {Closed}] /\ frame \in [Threads -> Frame]
      /\ lasterr \in [Threads -> Error]
      /\ f \in Frame
  BY DEF Inv, TypeOK
<1>b. NoHandleTwice(f) /\ PairIsMade(f) /\ Answered(t) /\ Connected(t) /\ ErrorKept(t)
  BY DEF Inv, ThreadInv
<1>c. f.listener \in Handle /\ f.connector \in Handle /\ f.acceptor \in Handle
  BY <1>a DEF Frame
<1>d. INVALID_SOCKET \notin Sockets
  BY HandleAssumption
<1>e. ASSUME NEW s, CallFails(t, s), f.pc \in {"bind", "getsockname", "connect", "compare"}
      PROVE  ThreadInv(t)'
  BY <1>e, FailingKeepsInv DEF CallFails, Error
<1> USE DEF Outside
<1>1. ASSUME NEW request \in Requests, Call(t, request) PROVE ThreadInv(t)'
  <2>1. sock' = sock /\ f.pc = "idle"
    BY <1>1 DEF Call, Refuse
  <2>2. \/ g = NewFrame(request, "returned", -1)
        \/ g = NewFrame(request, "socket", -1) /\ request.protocol = 0
    BY <1>1, <1>a DEF Call, Refuse
  <2>3. NoHandleTwice(g) /\ PairIsMade(g)
    BY <2>2 DEF NoHandleTwice, PairIsMade, NewFrame
  <2>4. \A s \in Sockets : s \notin Answers(g) /\ s \notin Answers(f)
    BY <1>b, <1>d, <2>1, <2>2 DEF Answers, NewFrame, PairIsMade
  <2>5. Answered(t)'
    BY <1>b, <2>1, <2>4 DEF Answered, IsOpen
  <2>6. Connected(t)' /\ ErrorKept(t)'
    BY <2>2 DEF Connected, Succeeded, ErrorKept, Failed, NewFrame
  <2> QED
    BY <2>3, <2>5, <2>6 DEF ThreadInv
\* A new socket is none of those the thread has.
<1>2. CASE OpenListener(t)
  <2>1. /\ f.pc = "socket" /\ g.pc = "bind" /\ g.request = f.request
        /\ g.connector = f.connector /\ g.acceptor = f.acceptor
        /\ g.fd0 = f.fd0 /\ g.fd1 = f.fd1
    BY <1>2, <1>a DEF OpenListener, OpenSocket, Frame
  <2>2. \/ /\ g.listener = f.listener /\ sock' = sock
        \/ /\ g.listener \in Sockets /\ ~IsOpen(g.listener)
           /\ sock' = [sock EXCEPT ![g.listener] = NewSocket(t)]
    <3>1. CASE /\ sock' = sock
               /\ frame' = [frame EXCEPT ![t].pc = "bind", ![t].faulted = TRUE]
      BY <1>a, <3>1 DEF Frame
    <3>2. ASSUME NEW s \in Sockets, ~IsOpen(s),
                 sock' = [sock EXCEPT ![s] = NewSocket(t)],
                 frame' = [frame EXCEPT ![t].pc = "bind", ![t].listener = s]
          PROVE  /\ g.listener \in Sockets /\ ~IsOpen(g.listener)
                 /\ sock' = [sock EXCEPT ![g.listener] = NewSocket(t)]
      <4>1. g.listener = s
        BY <1>a, <3>2 DEF Frame
      <4> QED
        BY <3>2, <4>1
    <3> QED
      BY <1>2, <3>1, <3>2 DEF OpenListener, OpenSocket, NewSocket
  <2>3. /\ f.listener = INVALID_SOCKET /\ f.connector = INVALID_SOCKET /\ f.acceptor = INVALID_SOCKET
        /\ f.fd0 = INVALID_SOCKET /\ f.fd1 = INVALID_SOCKET
    BY <1>b, <2>1 DEF NoHandleTwice
  <2>4. NoHandleTwice(g) /\ PairIsMade(g)
    BY <1>b, <1>d, <2>1, <2>2, <2>3 DEF NoHandleTwice, PairIsMade
  <2>5. Answered(t)'
    <3>1. Answers(f) = {INVALID_SOCKET} /\ Answers(g) = {g.listener, INVALID_SOCKET}
      BY <2>1, <2>3 DEF Answers
    <3>2. NewSocket(t) # Closed /\ NewSocket(t).owner = t
      BY DEF NewSocket, Closed
    <3> QED
      BY <1>a, <1>b, <1>d, <2>2, <2>3, <3>1, <3>2 DEF Answered, IsOpen
  <2>6. Connected(t)' /\ ErrorKept(t)'
    BY <2>1 DEF Connected, Succeeded, ErrorKept, Failed
  <2> QED
    BY <2>4, <2>5, <2>6 DEF ThreadInv
<1>3. CASE BindAndListen(t)
  <2>1. CASE CallFails(t, f.listener)
    BY <1>3, <2>1, <1>e DEF BindAndListen
  <2>2. CASE ~CallFails(t, f.listener)
    <3>1. /\ f.pc = "bind" /\ g = [f EXCEPT !.pc = "socket2"]
          /\ IsOpen(f.listener)
          /\ \A s \in Sockets : sock'[s] # Closed /\ sock'[s].owner = t <=> sock[s] # Closed /\ sock[s].owner = t
      <4>1. /\ f.pc = "bind" /\ g = [f EXCEPT !.pc = "socket2"]
            /\ IsOpen(f.listener)
            /\ sock' = [sock EXCEPT ![f.listener] = [@ EXCEPT !.bound = TRUE, !.listening = IsStream(t)]]
        BY <1>3, <2>2, <1>a DEF BindAndListen
      <4> DEFINE x == [sock[f.listener] EXCEPT !.bound = TRUE, !.listening = IsStream(t)]
      <4>2. sock[f.listener] \in Socket
        BY <1>a, <4>1 DEF IsOpen
      <4>3. x # Closed /\ x.owner = sock[f.listener].owner
        BY <4>2 DEF Socket, Closed
      <4>4. sock' = [sock EXCEPT ![f.listener] = x] /\ f.listener \in Sockets
        BY <4>1 DEF IsOpen
      <4> HIDE DEF x
      <4> QED
        BY <1>a, <4>1, <4>3, <4>4 DEF IsOpen
    <3>2. NoHandleTwice(g) /\ PairIsMade(g)
      BY <1>a, <1>b, <3>1 DEF NoHandleTwice, PairIsMade, Frame, IsOpen
    <3>3. Answers(g) = Answers(f)
      BY <1>a, <3>1 DEF Answers, Frame
    <3>4. Answered(t)' /\ Connected(t)' /\ ErrorKept(t)'
      BY <1>a, <1>b, <3>1, <3>3 DEF Answered, IsOpen, Connected, Succeeded, ErrorKept, Failed, Frame
    <3> QED
      BY <3>2, <3>4 DEF ThreadInv
  <2> QED
    BY <2>1, <2>2
<1>4. CASE OpenConnector(t)
  <2>1. /\ f.pc = "socket2" /\ g.pc = "getsockname" /\ g.request = f.request
        /\ g.listener = f.listener /\ g.acceptor = f.acceptor
        /\ g.fd0 = f.fd0 /\ g.fd1 = f.fd1
    BY <1>4, <1>a DEF OpenConnector, OpenSocket, Frame
  <2>2. \/ /\ g.connector = f.connector /\ sock' = sock
        \/ /\ g.connector \in Sockets /\ ~IsOpen(g.connector)
           /\ sock' = [sock EXCEPT ![g.connector] = NewSocket(t)]
    <3>1. CASE /\ sock' = sock
               /\ frame' = [frame EXCEPT ![t].pc = "getsockname", ![t].faulted = TRUE]
      BY <1>a, <3>1 DEF Frame
    <3>2. ASSUME NEW s \in Sockets, ~IsOpen(s),
                 sock' = [sock EXCEPT ![s] = NewSocket(t)],
                 frame' = [frame EXCEPT ![t].pc = "getsockname", ![t].connector = s]
          PROVE  /\ g.connector \in Sockets /\ ~IsOpen(g.connector)
                 /\ sock' = [sock EXCEPT ![g.connector] = NewSocket(t)]
      <4>1. g.connector = s
        BY <1>a, <3>2 DEF Frame
      <4> QED
        BY <3>2, <4>1
    <3> QED
      BY <1>4, <3>1, <3>2 DEF OpenConnector, OpenSocket
  <2>3. /\ f.listener \in Sockets /\ f.connector = INVALID_SOCKET /\ f.acceptor = INVALID_SOCKET
        /\ f.fd0 = INVALID_SOCKET /\ f.fd1 = INVALID_SOCKET
        /\ f.request.protocol = 0
    BY <1>b, <2>1 DEF NoHandleTwice, PairIsMade
  <2>4. Answers(f) = {f.listener, INVALID_SOCKET}
        /\ Answers(g) = {f.listener, g.connector, INVALID_SOCKET}
    BY <2>1, <2>3 DEF Answers
  <2>5. g.connector # f.listener
    BY <1>b, <1>d, <2>2, <2>3, <2>4 DEF Answered
  <2>6. NoHandleTwice(g) /\ PairIsMade(g)
    BY <1>d, <2>1, <2>3, <2>5 DEF NoHandleTwice, PairIsMade
  <2>7. Answered(t)'
    <3>1. NewSocket(t) # Closed /\ NewSocket(t).owner = t
      BY DEF NewSocket, Closed
    <3> QED
      BY <1>a, <1>b, <1>d, <2>2, <2>3, <2>4, <3>1 DEF Answered, IsOpen
  <2>8. Connected(t)' /\ ErrorKept(t)'
    BY <2>1 DEF Connected, Succeeded, ErrorKept, Failed
  <2> QED
    BY <2>6, <2>7, <2>8 DEF ThreadInv
<1>5. CASE FindPort(t)
  <2>1. CASE CallFails(t, f.listener)
    BY <1>5, <2>1, <1>e DEF FindPort
  <2>2. CASE ~CallFails(t, f.listener)
    <3>1. /\ f.pc = "getsockname" /\ g = [f EXCEPT !.pc = "connect", !.connect_addr = f.listener]
          /\ sock' = sock
      BY <1>5, <2>2, <1>a DEF FindPort
    <3>2. NoHandleTwice(g) /\ PairIsMade(g)
      BY <1>a, <1>b, <3>1 DEF NoHandleTwice, PairIsMade, Frame
    <3>3. Answers(g) = Answers(f)
      BY <1>a, <3>1 DEF Answers, Frame
    <3>4. Answered(t)' /\ Connected(t)' /\ ErrorKept(t)'
      BY <1>a, <1>b, <3>1, <3>3 DEF Answered, IsOpen, Connected, Succeeded, ErrorKept, Failed, Frame
    <3> QED
      BY <3>2, <3>4 DEF ThreadInv
  <2> QED
    BY <2>1, <2>2
\* The peer is the listener, whose address it is.
<1>6. CASE Connect(t)
  <2>1. CASE CallFails(t, f.connector)
    BY <1>6, <2>1, <1>e DEF Connect
  <2>2. CASE FailWith(t, "ECONNREFUSED") /\ f.pc = "connect"
    BY <2>2, FailingKeepsInv DEF Error
  <2>3. CASE ~CallFails(t, f.connector) /\ ~FailWith(t, "ECONNREFUSED")
    <3>1. /\ f.pc = "connect" /\ g = [f EXCEPT !.pc = "accept"]
          /\ IsOpen(f.connector)
          /\ sock' = [sock EXCEPT ![f.connector] = [@ EXCEPT !.bound = TRUE, !.peer = f.connect_addr]]
      BY <1>6, <2>3, <1>a DEF Connect
    <3> DEFINE x == [sock[f.connector] EXCEPT !.bound = TRUE, !.peer = f.connect_addr]
    <3>2. sock[f.connector] \in Socket
      BY <1>a, <3>1 DEF IsOpen
    <3>3. x # Closed /\ x.owner = sock[f.connector].owner /\ x.peer = f.connect_addr
      BY <3>2 DEF Socket, Closed
    <3>4. sock' = [sock EXCEPT ![f.connector] = x] /\ f.connector \in Sockets
      BY <3>1 DEF IsOpen
    <3> HIDE DEF x
    <3>5. \A s \in Sockets : sock'[s] # Closed /\ sock'[s].owner = t <=> sock[s] # Closed /\ sock[s].owner = t
      BY <1>a, <3>1, <3>3, <3>4 DEF IsOpen
    <3>6. sock'[f.connector].peer = f.listener
      BY <1>a, <1>b, <3>1, <3>3, <3>4 DEF PairIsMade
    <3>7. NoHandleTwice(g) /\ PairIsMade(g)
      BY <1>a, <1>b, <3>1, <3>4 DEF NoHandleTwice, PairIsMade, Frame
    <3>8. Answers(g) = Answers(f) /\ g.pc = "accept" /\ g.connector = f.connector /\ g.listener = f.listener
      BY <1>a, <3>1 DEF Answers, Frame
    <3>9. Answered(t)' /\ Connected(t)' /\ ErrorKept(t)'
      BY <1>b, <3>5, <3>6, <3>8 DEF Answered, IsOpen, Connected, Succeeded, ErrorKept, Failed
    <3> QED
      BY <3>7, <3>9 DEF ThreadInv
  <2> QED
    BY <1>6, <2>1, <2>2, <2>3 DEF Connect
\* The listener becomes the acceptor; no request that was not refused is for a stream.
<1>7. CASE Accept(t)
  <2>1. f.pc = "accept" /\ ~IsStream(t)
    BY <1>7, <1>b DEF Accept, NoHandleTwice, IsStream, SOCK_STREAM
  <2>2. TakeListener(t)
    BY <1>7, <2>1 DEF Accept, AcceptConnection
  <2>3. /\ g.pc = "compare" /\ g.acceptor = f.listener /\ g.listener = INVALID_SOCKET
        /\ g.connector = f.connector /\ g.request = f.request /\ g.fd0 = f.fd0 /\ g.fd1 = f.fd1
        /\ sock' = sock
    BY <2>2, <1>a DEF TakeListener, Frame
  <2>4. f.listener \in Sockets /\ f.connector \in Sockets /\ f.acceptor = INVALID_SOCKET
        /\ f.listener # f.connector
    BY <1>b, <1>d, <2>1 DEF NoHandleTwice, PairIsMade
  <2>5. NoHandleTwice(g) /\ PairIsMade(g)
    BY <1>b, <1>d, <2>1, <2>3, <2>4 DEF NoHandleTwice, PairIsMade
  <2>6. Answers(g) = Answers(f)
    BY <2>1, <2>3, <2>4 DEF Answers
  <2>7. Answered(t)' /\ Connected(t)' /\ ErrorKept(t)'
    BY <1>b, <2>1, <2>3, <2>6 DEF Answered, IsOpen, Connected, Succeeded, ErrorKept, Failed
  <2> QED
    BY <2>5, <2>7 DEF ThreadInv
<1>8. CASE Compare(t)
  <2>1. CASE CallFails(t, f.connector)
    BY <1>8, <2>1, <1>e DEF Compare
  <2>2. CASE ~CallFails(t, f.connector)
    <3>1. /\ f.pc = "compare" /\ g.pc \in {"finish", "close_listener"} /\ sock' = sock
          /\ g.listener = f.listener /\ g.connector = f.connector /\ g.acceptor = f.acceptor
          /\ g.request = f.request /\ g.fd0 = f.fd0 /\ g.fd1 = f.fd1
      BY <1>8, <2>2, <1>a DEF Compare, Frame
    <3>2. NoHandleTwice(g) /\ PairIsMade(g)
      BY <1>b, <3>1 DEF NoHandleTwice, PairIsMade
    <3>3. Answers(g) = Answers(f)
      BY <3>1 DEF Answers
    <3>4. Answered(t)' /\ Connected(t)' /\ ErrorKept(t)'
      BY <1>b, <3>1, <3>3 DEF Answered, IsOpen, Connected, Succeeded, ErrorKept, Failed
    <3> QED
      BY <3>2, <3>4 DEF ThreadInv
  <2> QED
    BY <2>1, <2>2
\* There is no listener left to close.
<1>9. CASE Finish(t)
  <2>1. /\ f.pc = "finish" /\ g.pc = "returned" /\ g.result = 0
        /\ g.fd0 = f.connector /\ g.fd1 = f.acceptor
    BY <1>9, <1>a DEF Finish, Frame
  <2>2. /\ f.listener = INVALID_SOCKET /\ f.connector \in Sockets /\ f.acceptor \in Sockets
        /\ f.connector # f.acceptor /\ f.fd0 = INVALID_SOCKET /\ f.fd1 = INVALID_SOCKET
    BY <1>b, <1>d, <2>1 DEF NoHandleTwice, PairIsMade
  <2>3. \A s \in Sockets : sock'[s] = sock[s]
    BY <1>9, <1>d, <2>2 DEF Finish, CloseSocket
  <2>4. NoHandleTwice(g) /\ PairIsMade(g)
    BY <2>1, <2>2 DEF NoHandleTwice, PairIsMade
  <2>5. Answers(f) = {f.connector, f.acceptor, INVALID_SOCKET} /\ Answers(g) = {f.connector, f.acceptor}
    BY <2>1, <2>2 DEF Answers
  <2>6. Answered(t)'
    BY <1>b, <1>d, <2>3, <2>5 DEF Answered, IsOpen
  <2>7. Connected(t)' /\ ErrorKept(t)'
    BY <1>b, <2>1, <2>2, <2>3 DEF Connected, Succeeded, ErrorKept, Failed
  <2> QED
    BY <2>4, <2>6, <2>7 DEF ThreadInv
\* What is closed is not answered for any more, and the rest is.
<1>10. CASE CloseListener(t)
  <2>1. /\ f.pc = "close_listener" /\ g = [f EXCEPT !.pc = "close_connector"]
        /\ \A s \in Sockets : sock'[s] = IF s = f.listener THEN Closed ELSE sock[s]
    BY <1>10, <1>a, <1>d DEF CloseListener, Tidy, CloseSocket
  <2>2. NoHandleTwice(g) /\ PairIsMade(g)
    BY <1>a, <1>b, <2>1 DEF NoHandleTwice, PairIsMade, Frame
  <2>3. \A s \in Sockets : s \in Answers(g) <=> s \in Answers(f) /\ s # f.listener
    BY <1>a, <1>b, <1>d, <2>1 DEF Answers, NoHandleTwice, Frame
  <2>4. Answered(t)'
    BY <1>b, <2>1, <2>3 DEF Answered, IsOpen
  <2>5. Connected(t)' /\ ErrorKept(t)'
    BY <1>a, <2>1 DEF Connected, Succeeded, ErrorKept, Failed, Frame
  <2> QED
    BY <2>2, <2>4, <2>5 DEF ThreadInv
<1>11. CASE CloseConnector(t)
  <2>1. /\ f.pc = "close_connector" /\ g = [f EXCEPT !.pc = "close_acceptor"]
        /\ \A s \in Sockets : sock'[s] = IF s = f.connector THEN Closed ELSE sock[s]
    BY <1>11, <1>a, <1>d DEF CloseConnector, Tidy, CloseSocket
  <2>2. NoHandleTwice(g) /\ PairIsMade(g)
    BY <1>a, <1>b, <2>1 DEF NoHandleTwice, PairIsMade, Frame
  <2>3. \A s \in Sockets : s \in Answers(g) <=> s \in Answers(f) /\ s # f.connector
    BY <1>a, <1>b, <1>d, <2>1 DEF Answers, NoHandleTwice, Frame
  <2>4. Answered(t)'
    BY <1>b, <2>1, <2>3 DEF Answered, IsOpen
  <2>5. Connected(t)' /\ ErrorKept(t)'
    BY <1>a, <2>1 DEF Connected, Succeeded, ErrorKept, Failed, Frame
  <2> QED
    BY <2>2, <2>4, <2>5 DEF ThreadInv
<1>12. CASE CloseAcceptor(t)
  <2>1. /\ f.pc = "close_acceptor" /\ g = [f EXCEPT !.pc = "returned", !.result = -1]
        /\ \A s \in Sockets : sock'[s] = IF s = f.acceptor THEN Closed ELSE sock[s]
        /\ lasterr'[t] = f.saved_errno
    BY <1>12, <1>a DEF CloseAcceptor, CloseSocket
  <2>2. /\ g.pc = "returned" /\ g.result = -1 /\ g.fd0 = f.fd0 /\ g.fd1 = f.fd1
        /\ g.saved_errno = f.saved_errno
    BY <1>a, <2>1 DEF Frame
  <2>3. f.fd0 = INVALID_SOCKET /\ f.fd1 = INVALID_SOCKET
    BY <1>b, <2>1 DEF NoHandleTwice
  <2>4. NoHandleTwice(g) /\ PairIsMade(g)
    BY <2>2, <2>3 DEF NoHandleTwice, PairIsMade
  <2>5. Answers(f) = {INVALID_SOCKET, f.acceptor} /\ Answers(g) = {INVALID_SOCKET}
    BY <2>1, <2>2, <2>3 DEF Answers
  <2>6. Answered(t)'
    BY <1>b, <1>d, <2>1, <2>5 DEF Answered, IsOpen
  <2>7. Connected(t)' /\ ErrorKept(t)'
    BY <2>1, <2>2 DEF Connected, Succeeded, ErrorKept, Failed
  <2> QED
    BY <2>4, <2>6, <2>7 DEF ThreadInv
<1>13. CASE Release(t)
  <2>1. /\ f.pc = "returned" /\ g = NewFrame(f.request, "idle", -1)
        /\ \A s \in Sockets : sock'[s] = IF s \in {f.fd0, f.fd1} THEN Closed ELSE sock[s]
    BY <1>13, <1>a DEF Release
  <2>2. NoHandleTwice(g) /\ PairIsMade(g)
    BY <2>1 DEF NoHandleTwice, PairIsMade, NewFrame
  <2>3. Answers(f) = {f.fd0, f.fd1} /\ Answers(g) = {INVALID_SOCKET}
    BY <2>1 DEF Answers, NewFrame
  <2>4. Answered(t)'
    BY <1>b, <1>d, <2>1, <2>3 DEF Answered, IsOpen
  <2>5. Connected(t)' /\ ErrorKept(t)'
    BY <2>1 DEF Connected, Succeeded, ErrorKept, Failed, NewFrame
  <2> QED
    BY <2>2, <2>4, <2>5 DEF ThreadInv
<1> QED
  BY <1>1, <1>2, <1>3, <1>4, <1>5, <1>6, <1>7, <1>8, <1>9, <1>10, <1>11, <1>12, <1>13 DEF Step

-----------------------------------------------------------------------------
(* The other threads *)

\* A step leaves alone what other threads answer for: it opens handles that are closed,
\* and changes or closes handles of its own thread.
LEMMA OwnSocketsOnly ==
    ASSUME Inv, NEW t \in Threads, Step(t), NEW s \in Sockets, sock'[s] # sock[s]
    PROVE  /\ sock[s] = Closed \/ sock[s].owner = t
           /\ sock'[s] = Closed \/ sock'[s].owner = t
<1> DEFINE f == frame[t]
<1>a. /\ sock \in [Sockets -> Socket \cup {Closed}] /\ frame \in [Threads -> Frame]
      /\ NoHandleTwice(f) /\ PairIsMade(f)
  BY DEF Inv, TypeOK, ThreadInv
<1>b. \A x \in Sockets : x \in Answers(f) => sock[x].owner = t
  BY DEF Inv, ThreadInv, Answered
<1>c. NewSocket(t).owner = t
  BY DEF NewSocket
<1>1. CASE OpenListener(t) \/ OpenConnector(t)
  BY <1>1, <1>a, <1>c DEF OpenListener, OpenConnector, OpenSocket, IsOpen
<1>2. CASE BindAndListen(t)
  <2>1. f.listener = s /\ f.pc = "bind" /\ sock[s] \in Socket
        /\ sock' = [sock EXCEPT ![s] = [@ EXCEPT !.bound = TRUE, !.listening = IsStream(t)]]
    BY <1>2, <1>a DEF BindAndListen, CallFails, FailWith, IsOpen
  <2>2. sock'[s].owner = sock[s].owner
    BY <1>a, <2>1 DEF Socket
  <2>3. s \in Answers(f)
    BY <2>1 DEF Answers, Outside
  <2> QED
    BY <1>b, <2>2, <2>3
<1>3. CASE Connect(t)
  <2>1. f.connector = s /\ f.pc = "connect" /\ sock[s] \in Socket
        /\ sock' = [sock EXCEPT ![s] = [@ EXCEPT !.bound = TRUE, !.peer = f.connect_addr]]
    BY <1>3, <1>a DEF Connect, CallFails, FailWith, IsOpen
  <2>2. sock'[s].owner = sock[s].owner
    BY <1>a, <2>1 DEF Socket
  <2>3. s \in Answers(f)
    BY <2>1 DEF Answers, Outside
  <2> QED
    BY <1>b, <2>2, <2>3
<1>4. CASE Accept(t)
  <2>1. ~IsStream(t)
    BY <1>4, <1>a DEF Accept, NoHandleTwice, Outside, IsStream, SOCK_STREAM
  <2> QED
    BY <1>4, <2>1 DEF Accept, TakeListener, AcceptConnection
<1>5. CASE Finish(t)
  <2>1. f.pc = "finish" /\ f.listener = s /\ sock'[s] = Closed
    BY <1>5 DEF Finish, CloseSocket
  <2> QED
    BY <1>a, <2>1, HandleAssumption DEF PairIsMade
<1>6. CASE CloseListener(t)
  <2>1. f.pc = "close_listener" /\ f.listener = s /\ sock'[s] = Closed
    BY <1>6 DEF CloseListener, Tidy, CloseSocket
  <2> QED
    BY <1>b, <2>1 DEF Answers, Outside
<1>7. CASE CloseConnector(t)
  <2>1. f.pc = "close_connector" /\ f.connector = s /\ sock'[s] = Closed
    BY <1>7 DEF CloseConnector, Tidy, CloseSocket
  <2> QED
    BY <1>b, <2>1 DEF Answers, Outside
<1>8. CASE CloseAcceptor(t)
  <2>1. f.pc = "close_acceptor" /\ f.acceptor = s /\ sock'[s] = Closed
    BY <1>8 DEF CloseAcceptor, CloseSocket
  <2> QED
    BY <1>b, <2>1 DEF Answers, Outside
<1>9. CASE Release(t)
  <2>1. s \in {f.fd0, f.fd1} /\ sock'[s] = Closed
    BY <1>9 DEF Release
  <2> QED
    BY <1>b, <2>1 DEF Answers
<1>10. CASE (\E request \in Requests : Call(t, request)) \/ FindPort(t) \/ Compare(t)
  BY <1>10 DEF Call, Refuse, FindPort, Compare, CallFails, FailWith
<1> QED
  BY <1>1, <1>2, <1>3, <1>4, <1>5, <1>6, <1>7, <1>8, <1>9, <1>10 DEF Step

LEMMA OwnFrameOnly ==
    ASSUME TypeOK, NEW t \in Threads, Step(t), NEW u \in Threads, u # t
    PROVE  frame'[u] = frame[u] /\ lasterr'[u] = lasterr[u]
BY DEF TypeOK, Step, Call, Refuse, OpenListener, OpenConnector, OpenSocket, BindAndListen, FindPort,
    Connect, CallFails, FailWith, Accept, TakeListener, AcceptConnection, Compare, Finish,
    CloseListener, CloseConnector, Tidy, CloseAcceptor, Release

LEMMA OthersStep ==
    ASSUME Inv, NEW t \in Threads, Step(t), NEW u \in Threads, u # t
    PROVE  ThreadInv(u)'
<1>1. frame'[u] = frame[u] /\ lasterr'[u] = lasterr[u]
  BY OwnFrameOnly DEF Inv
<1>2. NoHandleTwice(frame[u]) /\ PairIsMade(frame[u]) /\ Answered(u) /\ Connected(u) /\ ErrorKept(u)
  BY DEF Inv, ThreadInv
<1>3. \A s \in Sockets : s \in Answers(frame[u]) => sock'[s] = sock[s]
  BY <1>2, OwnSocketsOnly DEF Answered, IsOpen
<1>4. Answered(u)'
  BY <1>1, <1>2, OwnSocketsOnly DEF Answered, IsOpen
<1>5. Connected(u)'
  <2>1. CASE frame[u].pc \in {"accept", "compare", "finish"}
    <3>1. frame[u].connector \in Sockets /\ frame[u].connector \in Answers(frame[u])
      BY <1>2, <2>1 DEF PairIsMade, Answers, Outside
    <3> QED
      BY <1>1, <1>2, <1>3, <2>1, <3>1 DEF Connected, Succeeded
  <2>2. CASE Succeeded(u)
    <3>1. frame[u].fd0 \in Sockets /\ frame[u].fd0 \in Answers(frame[u])
      BY <1>2, <2>2 DEF PairIsMade, Answers, Succeeded
    <3> QED
      BY <1>1, <1>2, <1>3, <2>2, <3>1 DEF Connected, Succeeded
  <2> QED
    BY <1>1, <2>1, <2>2 DEF Connected, Succeeded
<1> QED
  BY <1>1, <1>2, <1>4, <1>5 DEF ThreadInv, ErrorKept, Failed

-----------------------------------------------------------------------------
(* The theorems *)

LEMMA InitInv == Init => Inv
<1> SUFFICES ASSUME Init PROVE Inv
  OBVIOUS
<1>1. PICK request \in Requests : frame = [t \in Threads |-> NewFrame(request, "idle", -1)]
  BY DEF Init
<1>2. NewFrame(request, "idle", -1) \in Frame
  BY RequestAssumption DEF NewFrame, Frame, Handle, Error, Nobody
<1>3. TypeOK
  BY <1>1, <1>2 DEF Init, TypeOK, Error
<1>4. ASSUME NEW t \in Threads PROVE ThreadInv(t)
  <2>1. frame[t] = NewFrame(request, "idle", -1)
    BY <1>1
  <2>2. NoHandleTwice(frame[t]) /\ PairIsMade(frame[t])
    BY <2>1 DEF NoHandleTwice, PairIsMade, NewFrame, Outside
  <2>3. Answers(frame[t]) = {INVALID_SOCKET}
    BY <2>1 DEF Answers, NewFrame, Outside
  <2>4. Answered(t)
    BY <2>3, HandleAssumption DEF Answered, IsOpen, Init
  <2> QED
    BY <2>1, <2>2, <2>4 DEF ThreadInv, Connected, Succeeded, ErrorKept, Failed, NewFrame
<1> QED
  BY <1>3, <1>4 DEF Inv

LEMMA InvHolds == Spec => []Inv
<1>1. Inv /\ [Next]_vars => Inv'
  <2> SUFFICES ASSUME Inv, [Next]_vars PROVE Inv'
    OBVIOUS
  <2>1. ASSUME NEW t \in Threads, Step(t) PROVE Inv'
    BY <2>1, TypeStep, OwnStep, OthersStep DEF Inv
  <2>2. CASE UNCHANGED vars
    BY <2>2 DEF Inv, vars, TypeOK, ThreadInv, Answered, IsOpen, Connected, Succeeded, ErrorKept, Failed
  <2> QED
    BY <2>1, <2>2 DEF Next
<1> QED
  BY <1>1, InitInv, PTL DEF Spec

\* However many threads make pairs at once and whichever calls into Winsock fail, a
\* thread has the two sockets it was given, or none: tidy_up_and_fail closes what was
\* opened and never what is somebody else's by now (lines 108-127).
THEOREM NoSocketIsLeaked == Spec => []OwnsWhatItReported
<1>1. Inv => OwnsWhatItReported
  <2> SUFFICES ASSUME Inv, NEW t \in Threads
               PROVE  /\ Succeeded(t) => /\ Owned(t) = {frame[t].fd0, frame[t].fd1}
                                         /\ frame[t].fd0 # frame[t].fd1
                      /\ Failed(t) \/ frame[t].pc = "idle" => Owned(t) = {}
    BY DEF OwnsWhatItReported
  <2>1. PairIsMade(frame[t]) /\ \A s \in Sockets : s \in Owned(t) <=> s \in Answers(frame[t])
    BY DEF Inv, ThreadInv, Answered, Owned
  <2>2. Owned(t) \subseteq Sockets
    BY DEF Owned
  <2>3. frame[t].pc \in Outside => Answers(frame[t]) = {frame[t].fd0, frame[t].fd1}
    BY DEF Answers
  <2>4. Succeeded(t) => /\ Owned(t) = {frame[t].fd0, frame[t].fd1}
                        /\ frame[t].fd0 # frame[t].fd1
    BY <2>1, <2>2, <2>3 DEF PairIsMade, Succeeded, Outside
  <2>5. Failed(t) \/ frame[t].pc = "idle" => Owned(t) = {}
    BY <2>1, <2>2, <2>3, HandleAssumption DEF PairIsMade, Failed, Outside
  <2> QED
    BY <2>4, <2>5
<1> QED
  BY <1>1, InvHolds, PTL

\* After a failure the last error is the one the call was given up for, whatever
\* closing the sockets does to it (lines 116 and 126).
THEOREM ErrorIsPutBack == Spec => []ErrorSurvivesCleanup
<1>1. Inv => ErrorSurvivesCleanup
  BY DEF Inv, ThreadInv, ErrorKept, ErrorSurvivesCleanup
<1> QED
  BY <1>1, InvHolds, PTL

\* The first socket of a pair is connected to the second, and to no socket of another
\* thread's pair (lines 80-96).
THEOREM FirstIsConnected == Spec => []FirstReachesSecond
<1>1. Inv => FirstReachesSecond
  BY DEF Inv, ThreadInv, Connected, FirstReachesSecond
<1> QED
  BY <1>1, InvHolds, PTL
=============================================================================
