---------------------------- MODULE MCSocketPair ----------------------------
(* Instances of SocketPair for TLC. *)
EXTENDS SocketPair, TLC

Inet(type) == [family |-> "AF_INET", type |-> type, protocol |-> 0, fd |-> TRUE]

\* What is asked for with good arguments, and with each bad one.
DatagramRequests == {Inet(SOCK_DGRAM)}
StreamRequests == {Inet(SOCK_STREAM)}
MCRequests == DatagramRequests \cup StreamRequests \cup
    {[Inet(SOCK_STREAM) EXCEPT !.protocol = SOCK_STREAM],
     [Inet(SOCK_DGRAM) EXCEPT !.family = "AF_INET6"],
     [Inet(SOCK_DGRAM) EXCEPT !.fd = FALSE]}

Symmetry == Permutations(Threads) \cup Permutations(Sockets)
=============================================================================
