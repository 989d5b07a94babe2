---------------------------- MODULE SocketPair ----------------------------
(***************************************************************************)
(* socketpair (src/process/socketpair.c): a pair of connected sockets made *)
(* from a listener, a connector and an acceptor on the loopback address.   *)
(*                                                                         *)
(* Several threads of one process call it.  What they share is the table   *)
(* of sockets: a handle that is closed may be given at once to another     *)
(* thread, so a handle closed twice is another thread's socket.  An        *)
(* address is named after the socket bound to it, for as long as that      *)
(* socket is open.  Winsock is the environment: any call may fail for a    *)
(* reason of its own, and closing a socket may overwrite the last error.   *)
(***************************************************************************)
EXTENDS Integers, FiniteSets

CONSTANTS
    Threads,
    Sockets,            \* the handles Winsock gives out
    INVALID_SOCKET,
    Requests            \* what the threads call socketpair with

SOCK_STREAM == 1
SOCK_DGRAM == 2

Request == [family : {"AF_INET", "AF_INET6"}, type : {SOCK_STREAM, SOCK_DGRAM},
            protocol : {0, SOCK_STREAM}, fd : BOOLEAN]

ASSUME HandleAssumption == INVALID_SOCKET \notin Sockets
ASSUME RequestAssumption == Requests \subseteq Request

VARIABLES
    sock,       \* Winsock's table of sockets
    frame,      \* the local variables of each thread's call
    lasterr     \* each thread's WSAGetLastError
vars == <<sock, frame, lasterr>>

Nobody == INVALID_SOCKET        \* no peer, and port 0 of the loopback address
Handle == Sockets \cup {INVALID_SOCKET}

\* "FAULT" stands for every error with a cause outside the function.
Error == {"OK", "EAFNOSUPPORT", "EINVAL", "ENOTSOCK", "ECONNREFUSED", "ECONNABORTED", "FAULT"}

Socket == [owner : Threads, bound : BOOLEAN, listening : BOOLEAN, peer : Handle]
Closed == [bound |-> FALSE]
IsOpen(s) == s \in Sockets /\ sock[s] # Closed

Frame == [pc : {"idle", "socket", "bind", "socket2", "getsockname", "connect", "accept",
                "compare", "finish", "close_listener", "close_connector", "close_acceptor",
                "returned"},
          request : Request,
          listener : Handle, connector : Handle, acceptor : Handle,
          listen_addr : Handle, connect_addr : Handle,
          saved_errno : Error,      \* "OK" is the -1 of the code: nothing saved yet
          faulted : BOOLEAN,        \* history: a call failed with "FAULT"
          result : {0, -1},
          fd0 : Handle, fd1 : Handle]

TypeOK ==
    /\ sock \in [Sockets -> Socket \cup {Closed}]
    /\ frame \in [Threads -> Frame]
    /\ lasterr \in [Threads -> Error]

NewFrame(request, pc, result) ==
    [pc |-> pc, request |-> request,
     listener |-> INVALID_SOCKET, connector |-> INVALID_SOCKET, acceptor |-> INVALID_SOCKET,
     listen_addr |-> Nobody, connect_addr |-> Nobody,
     saved_errno |-> "OK", faulted |-> FALSE, result |-> result,
     fd0 |-> INVALID_SOCKET, fd1 |-> INVALID_SOCKET]

Init ==
    /\ sock = [s \in Sockets |-> Closed]
    /\ \E request \in Requests : frame = [t \in Threads |-> NewFrame(request, "idle", -1)]
    /\ lasterr = [t \in Threads |-> "OK"]

-----------------------------------------------------------------------------
(* Winsock *)

\* What closing handle s leaves of the table; an invalid or closed handle is refused.
CloseSocket(s) == [x \in Sockets |-> IF x = s THEN Closed ELSE sock[x]]

\* A successful closesocket may or may not touch the last error, a refused one sets it.
ErrorsAfterClose(t, s) == IF IsOpen(s) THEN {lasterr[t], "OK"} ELSE {"ENOTSOCK"}

\* Thread t fails with the error e of the call it just made.
FailWith(t, e) ==
    /\ lasterr' = [lasterr EXCEPT ![t] = e]
    /\ frame' = [frame EXCEPT ![t].pc = "close_listener",
                              ![t].saved_errno = e,
                              ![t].faulted = @ \/ e = "FAULT"]
    /\ UNCHANGED sock

\* The ways a call on handle s fails: always when s is no socket.
CallFails(t, s) == FailWith(t, IF IsOpen(s) THEN "FAULT" ELSE "ENOTSOCK")

NewSocket(t) == [owner |-> t, bound |-> FALSE, listening |-> FALSE, peer |-> Nobody]

\* socket(): the handle goes to the local variable named var.  Failing returns
\* INVALID_SOCKET, the largest unsigned value, which is never "< 0": the call goes on.
OpenSocket(t, var, next) ==
    \/ \E s \in Sockets :
         /\ ~IsOpen(s)
         /\ sock' = [sock EXCEPT ![s] = NewSocket(t)]
         /\ frame' = [frame EXCEPT ![t].pc = next, ![t][var] = s]
         /\ UNCHANGED lasterr
    \/ /\ frame' = [frame EXCEPT ![t].pc = next, ![t].faulted = TRUE]
       /\ lasterr' = [lasterr EXCEPT ![t] = "FAULT"]
       /\ UNCHANGED sock

-----------------------------------------------------------------------------
(* socketpair, one action per call into Winsock *)

Refuse(t, request, e) ==
    /\ frame' = [frame EXCEPT ![t] = NewFrame(request, "returned", -1)]
    /\ lasterr' = [lasterr EXCEPT ![t] = e]
    /\ UNCHANGED sock

Call(t, request) ==
    /\ frame[t].pc = "idle"
    /\ \/ /\ request.protocol # 0 \/ request.family # "AF_INET"
          /\ Refuse(t, request, "EAFNOSUPPORT")
       \/ /\ request.protocol = 0 /\ request.family = "AF_INET" /\ ~request.fd
          /\ Refuse(t, request, "EINVAL")
       \/ /\ request.protocol = 0 /\ request.family = "AF_INET" /\ request.fd
          /\ frame' = [frame EXCEPT ![t] = NewFrame(request, "socket", -1)]
          /\ UNCHANGED <<sock, lasterr>>

OpenListener(t) ==
    /\ frame[t].pc = "socket"
    /\ OpenSocket(t, "listener", "bind")

\* Whether the pair goes through listen and accept (lines 65 and 85).
IsStream(t) == frame[t].request.protocol = SOCK_STREAM

\* bind and, for a stream, listen.
BindAndListen(t) ==
    LET s == frame[t].listener IN
    /\ frame[t].pc = "bind"
    /\ \/ CallFails(t, s)
       \/ /\ IsOpen(s)
          /\ sock' = [sock EXCEPT ![s].bound = TRUE, ![s].listening = IsStream(t)]
          /\ frame' = [frame EXCEPT ![t].pc = "socket2"]
          /\ UNCHANGED lasterr

OpenConnector(t) ==
    /\ frame[t].pc = "socket2"
    /\ OpenSocket(t, "connector", "getsockname")

FindPort(t) ==
    LET s == frame[t].listener IN
    /\ frame[t].pc = "getsockname"
    /\ \/ CallFails(t, s)
       \/ /\ IsOpen(s)
          /\ frame' = [frame EXCEPT ![t].pc = "connect", ![t].connect_addr = s]
          /\ UNCHANGED <<sock, lasterr>>

\* A stream needs a listening peer; a datagram socket is bound and told its peer.
Connect(t) ==
    LET s == frame[t].connector
        peer == frame[t].connect_addr
        refused == frame[t].request.type = SOCK_STREAM /\ ~sock[peer].listening
    IN
    /\ frame[t].pc = "connect"
    /\ \/ CallFails(t, s)
       \/ IsOpen(s) /\ refused /\ FailWith(t, "ECONNREFUSED")
       \/ /\ IsOpen(s) /\ ~refused
          /\ sock' = [sock EXCEPT ![s].bound = TRUE, ![s].peer = peer]
          /\ frame' = [frame EXCEPT ![t].pc = "accept"]
          /\ UNCHANGED lasterr

\* Mutant: the listener is not forgotten when it becomes the acceptor.
TakeListenerTwice(t) ==
    /\ ~IsStream(t)
    /\ UNCHANGED <<sock, lasterr>>
    /\ frame' = [frame EXCEPT ![t].pc = "compare", ![t].acceptor = frame[t].listener,
                              ![t].listen_addr = frame[t].connector]

\* A datagram pair uses the listener itself, and puts the connector's own
\* address where accept would have put the one it was reached from; that the
\* address cannot be had goes unnoticed.
TakeListener(t) ==
    /\ ~IsStream(t)
    /\ UNCHANGED sock
    /\ \/ /\ frame' = [frame EXCEPT ![t].pc = "compare", ![t].acceptor = frame[t].listener,
                                     ![t].listener = INVALID_SOCKET,
                                     ![t].listen_addr = frame[t].connector]
          /\ UNCHANGED lasterr
       \/ /\ frame' = [frame EXCEPT ![t].pc = "compare", ![t].acceptor = frame[t].listener,
                                     ![t].listener = INVALID_SOCKET, ![t].faulted = TRUE]
          /\ lasterr' = [lasterr EXCEPT ![t] = "FAULT"]

\* A new socket, talking to the connector.  An acceptor is no more "< 0" than a listener.
AcceptConnection(t) ==
    /\ IsStream(t)
    /\ \/ \E s \in Sockets :
            /\ ~IsOpen(s)
            /\ sock' = [sock EXCEPT ![s] = [NewSocket(t) EXCEPT !.bound = TRUE,
                                                                !.peer = frame[t].connector]]
            /\ frame' = [frame EXCEPT ![t].pc = "compare", ![t].acceptor = s,
                                      ![t].listen_addr = frame[t].connector]
            /\ UNCHANGED lasterr
       \/ /\ frame' = [frame EXCEPT ![t].pc = "compare", ![t].faulted = TRUE]
          /\ lasterr' = [lasterr EXCEPT ![t] = "FAULT"]
          /\ UNCHANGED sock

Accept(t) ==
    /\ frame[t].pc = "accept"
    /\ TakeListener(t) \/ AcceptConnection(t)

\* The comparison of listen_addr with the connector's own address (lines 101-107).
Compare(t) ==
    LET s == frame[t].connector IN
    /\ frame[t].pc = "compare"
    /\ UNCHANGED sock
    /\ \/ CallFails(t, s)
       \/ /\ IsOpen(s)
          /\ IF frame[t].listen_addr = s
             THEN frame' = [frame EXCEPT ![t].pc = "finish", ![t].connect_addr = s]
             ELSE frame' = [frame EXCEPT ![t].pc = "close_listener", ![t].connect_addr = s,
                                         ![t].saved_errno = "ECONNABORTED"]
          /\ UNCHANGED lasterr

\* Mutant: the two ends are handed out the other way round.
FinishSwapped(t) ==
    LET s == frame[t].listener IN
    /\ frame[t].pc = "finish"
    /\ sock' = CloseSocket(s)
    /\ \E e \in ErrorsAfterClose(t, s) : lasterr' = [lasterr EXCEPT ![t] = e]
    /\ frame' = [frame EXCEPT ![t].pc = "returned", ![t].result = 0,
                              ![t].fd0 = frame[t].acceptor, ![t].fd1 = frame[t].connector]

Finish(t) ==
    LET s == frame[t].listener IN
    /\ frame[t].pc = "finish"
    /\ sock' = CloseSocket(s)
    /\ \E e \in ErrorsAfterClose(t, s) : lasterr' = [lasterr EXCEPT ![t] = e]
    /\ frame' = [frame EXCEPT ![t].pc = "returned", ![t].result = 0,
                              ![t].fd0 = frame[t].connector, ![t].fd1 = frame[t].acceptor]

\* tidy_up_and_fail closes what the local variable var holds.
Tidy(t, pc, var, next) ==
    LET s == frame[t][var] IN
    /\ frame[t].pc = pc
    /\ frame' = [frame EXCEPT ![t].pc = next]
    /\ IF s = INVALID_SOCKET
       THEN UNCHANGED <<sock, lasterr>>
       ELSE /\ sock' = CloseSocket(s)
            /\ \E e \in ErrorsAfterClose(t, s) : lasterr' = [lasterr EXCEPT ![t] = e]

CloseListener(t) == Tidy(t, "close_listener", "listener", "close_connector")
CloseConnector(t) == Tidy(t, "close_connector", "connector", "close_acceptor")

\* Mutant: the error is not put back.
CloseAcceptorKeepsError(t) ==
    LET s == frame[t].acceptor IN
    /\ frame[t].pc = "close_acceptor"
    /\ sock' = CloseSocket(s)
    /\ IF s = INVALID_SOCKET
       THEN UNCHANGED lasterr
       ELSE \E e \in ErrorsAfterClose(t, s) : lasterr' = [lasterr EXCEPT ![t] = e]
    /\ frame' = [frame EXCEPT ![t].pc = "returned", ![t].result = -1]

\* The last close; then the saved error is put back.
CloseAcceptor(t) ==
    /\ frame[t].pc = "close_acceptor"
    /\ sock' = CloseSocket(frame[t].acceptor)
    /\ lasterr' = [lasterr EXCEPT ![t] = frame[t].saved_errno]
    /\ frame' = [frame EXCEPT ![t].pc = "returned", ![t].result = -1]

\* The caller is done with what it got: it closes a pair it was given.
Release(t) ==
    /\ frame[t].pc = "returned"
    /\ sock' = [s \in Sockets |-> IF s \in {frame[t].fd0, frame[t].fd1} THEN Closed ELSE sock[s]]
    /\ frame' = [frame EXCEPT ![t] = NewFrame(frame[t].request, "idle", -1)]
    /\ UNCHANGED lasterr

Step(t) ==
    \/ \E request \in Requests : Call(t, request)
    \/ OpenListener(t) \/ BindAndListen(t) \/ OpenConnector(t)
    \/ FindPort(t) \/ Connect(t) \/ Accept(t) \/ Compare(t) \/ Finish(t)
    \/ CloseListener(t) \/ CloseConnector(t) \/ CloseAcceptor(t)
    \/ Release(t)

Next == \E t \in Threads : Step(t)

Spec == Init /\ [][Next]_vars

-----------------------------------------------------------------------------
(* Properties *)

Succeeded(t) == frame[t].pc = "returned" /\ frame[t].result = 0
Failed(t) == frame[t].pc = "returned" /\ frame[t].result = -1
Owned(t) == {s \in Sockets : IsOpen(s) /\ sock[s].owner = t}

\* A call that returned left its thread exactly what it reported: after a
\* success two different sockets, both open and nobody else's, after a failure
\* none, whichever of the calls failed.  Only a call under way has others.
OwnsWhatItReported ==
    \A t \in Threads :
        /\ Succeeded(t) => /\ Owned(t) = {frame[t].fd0, frame[t].fd1}
                           /\ frame[t].fd0 # frame[t].fd1
        /\ Failed(t) \/ frame[t].pc = "idle" => Owned(t) = {}

\* After a failure WSAGetLastError is the error the call was given up for, not
\* what the sockets closed since then left there.
ErrorSurvivesCleanup ==
    \A t \in Threads :
        Failed(t) /\ frame[t].saved_errno # "OK" => lasterr[t] = frame[t].saved_errno

\* What is sent on fd[0] arrives at fd[1].
FirstReachesSecond ==
    \A t \in Threads : Succeeded(t) => sock[frame[t].fd0].peer = frame[t].fd1

\* "This socketpair does not work when localhost is down" (lines 28-31): a call
\* with arguments it accepts only fails when a call into Winsock has a reason to.
FailsOnlyWhenWinsockFails ==
    \A t \in Threads :
        Failed(t) /\ frame[t].saved_errno # "OK" => frame[t].faulted
=============================================================================
