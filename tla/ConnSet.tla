------------------------------ MODULE ConnSet ------------------------------
(***************************************************************************)
(* What the poll queue of mimino promises to the rest of the server,       *)
(* without its arrays: a set of open sockets that always holds the         *)
(* listening socket, grows by one accepted socket at a time, never holds   *)
(* more than MaxFds, and loses only a client socket that it held.          *)
(***************************************************************************)
EXTENDS Integers, FiniteSets

CONSTANTS Fds,      \* the descriptors accept() can return
          ListenFd, \* the descriptor of the listening socket
          MaxFds    \* conf.max_fds

VARIABLE open       \* the sockets the process holds open

Init == open = {ListenFd}

(* A client that was not connected is let in, if there is room. *)
Accept(fd) == /\ fd \notin open
              /\ Cardinality(open) < MaxFds
              /\ open' = open \union {fd}

(* A connected client is let go; the listening socket never is. *)
Close(fd) == /\ fd \in open \ {ListenFd}
             /\ open' = open \ {fd}

Next == \E fd \in Fds : Accept(fd) \/ Close(fd)

Spec == Init /\ [][Next]_open
=============================================================================
