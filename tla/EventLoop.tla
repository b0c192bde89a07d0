----------------------------- MODULE EventLoop -----------------------------
(***************************************************************************)
(* main's loop (mimino.c:900) and the state machine of one connection,     *)
(* do_conn_state (mimino.c:547).  Each turn of the loop polls all sockets, *)
(* then either accepts one client and starts over, or passes over the      *)
(* queue and lets every connection whose socket was reported take one      *)
(* step: receive a piece of its request, send its response's head and as   *)
(* much of the body as the socket takes, or close.                         *)
(*                                                                         *)
(* The queue is the sequence of its clients, in the order of the array's   *)
(* slots 1, 2, ...; PollQueue has the arrays themselves.  A step of one    *)
(* connection is one action, with the nested calls of do_conn_state.       *)
(*                                                                         *)
(* The kernel and the clients decide, at any time, that a socket becomes   *)
(* ready for what the connection waits for, and the outcome of each        *)
(* recv() and send().  Bytes and seconds are counted, not named.           *)
(***************************************************************************)
EXTENDS Integers, Sequences, FiniteSets, SequencesExt

CONSTANTS Fds,      \* the descriptors accept() can return
          ListenFd, \* the descriptor of the listening socket
          MaxFds,   \* conf.max_fds
          Timeout,  \* conf.timeout_secs: 20
          MaxTries, \* read_tries_left and write_tries_left at first: 5
          BufSize,  \* MAX_REQUEST_SIZE
          HeadLen,  \* the length of a response's head
          BodyLen,  \* the longest body or file
          Kinds     \* what is sent after the head: see BodyKinds

(* "body" is in memory, "file" is read from disk as it is sent, and "null" *)
(* is neither: the response to a fatal error in make_http_response.        *)
BodyKinds == {"body", "file", "null"}

ASSUME FdAssumption == ListenFd \notin Fds
ASSUME SizeAssumption == /\ {MaxFds, Timeout, MaxTries, BufSize, HeadLen}
                                 \subseteq Nat \ {0}
                         /\ BodyLen \in Nat
ASSUME KindAssumption == Kinds \subseteq BodyKinds

VARIABLES conns,    \* queue.conns and queue.pollfds, from slot 1 on
          ready,    \* sockets that can do what their pollfd's events ask for
          reported, \* sockets whose revents are set and not yet looked at
          idx,      \* the slot that main's pass has come to, or 1
          pc        \* what main does next: "poll", "accept", "serve", or
                    \* nothing, having "exited"

vars == <<conns, ready, reported, idx, pc>>

(* What make_connection returns.  `req` is NULL, the buffer of a request  *)
(* that is being read, or a parsed request; `res` is NULL or the kind of  *)
(* the response; `left` is what is not sent yet of the head or body;      *)
(* `idle` is time_now - last_active.                                      *)
make_connection(fd) ==
    [fd |-> fd, state |-> "READING",
     req |-> "NULL", n_items |-> 0,
     res |-> "NULL", left |-> 0,
     read_tries_left |-> MaxTries, write_tries_left |-> MaxTries,
     keep_alive |-> TRUE, idle |-> 0]

FdsOf(queue) == {queue[i].fd : i \in DOMAIN queue}
Open == FdsOf(conns) \union {ListenFd}

Init == /\ conns = <<>>
        /\ ready = {}
        /\ reported = {}
        /\ idx = 1
        /\ pc = "poll"

-----------------------------------------------------------------------------
(* The environment: a socket becomes readable or writable, whichever the  *)
(* connection polls for.                                                  *)
BecomeReady(fd) == /\ pc # "exited"
                   /\ fd \in Open \ ready
                   /\ ready' = ready \union {fd}
                   /\ UNCHANGED <<conns, reported, idx, pc>>

(* The only client in the backlog goes away before it is accepted. *)
ClientGivesUp == /\ pc # "exited"
                 /\ ListenFd \in ready
                 /\ ready' = ready \ {ListenFd}
                 /\ UNCHANGED <<conns, reported, idx, pc>>

-----------------------------------------------------------------------------
(* time_now is set and poll() returns; d seconds went by since the last   *)
(* time. The counter stops at Timeout, after which it no longer matters.  *)
Aged(c, d) == [c EXCEPT !.idle = IF @ + d > Timeout THEN Timeout ELSE @ + d]

Poll(d) == /\ pc = "poll"
           /\ conns' = [i \in DOMAIN conns |-> Aged(conns[i], d)]
           /\ reported' = ready
           /\ pc' = IF ListenFd \in ready THEN "accept" ELSE "serve"
           /\ UNCHANGED <<ready, idx>>

(* The process ends.  (Its sockets end with it: no property asks for them.) *)
Exits == /\ pc' = "exited"
         /\ ready' = {}
         /\ reported' = {}
         /\ idx' = 1
         /\ UNCHANGED conns

PollFails == pc = "poll" /\ Exits

AtCapacity == Len(conns) + 1 >= MaxFds

(* No room: the client waits in the kernel's backlog, the pass goes on. *)
RefuseAccept == /\ pc = "accept"
                /\ AtCapacity
                /\ reported' = reported \ {ListenFd}
                /\ pc' = "serve"
                /\ UNCHANGED <<conns, ready, idx>>

(* accept() is called on a blocking socket: if the client that poll()     *)
(* reported is gone, it does not return until another one comes.          *)
InAccept == pc = "accept" /\ ~AtCapacity

(* accept_new_conn and serv_add_connection, then `continue`: the sockets   *)
(* reported together with the listening one are not served in this turn.   *)
Accept(fd) == /\ InAccept
              /\ ListenFd \in ready
              /\ fd \in Fds \ Open
              /\ conns' = Append(conns, make_connection(fd))
              /\ ready' = ready \ {ListenFd}
              /\ reported' = {}
              /\ pc' = "poll"
              /\ UNCHANGED idx

(* Mutant of the next definition: `continue` after a failure as well. *)
AcceptFailsAndContinues == /\ InAccept
                           /\ ListenFd \in ready
                           /\ ready' = ready \ {ListenFd}
                           /\ pc' = "poll"
                           /\ UNCHANGED <<conns, reported, idx>>

(* accept() fails; the pass goes on. *)
AcceptFails == /\ InAccept
               /\ ListenFd \in ready
               /\ ready' = ready \ {ListenFd}
               /\ reported' = reported \ {ListenFd}
               /\ pc' = "serve"
               /\ UNCHANGED <<conns, idx>>

-----------------------------------------------------------------------------
(* main's pass over the queue. `idx < n_conns` is checked again for every *)
(* slot, since closing a connection shortens the queue.                   *)
InPass == pc = "serve" /\ idx <= Len(conns)
This == conns[idx]

EndPass == /\ pc = "serve"
           /\ idx > Len(conns)
           /\ reported' = {}
           /\ idx' = 1
           /\ pc' = "poll"
           /\ UNCHANGED <<conns, ready>>

(* The connection in this slot becomes c, and the pass goes on.  What it  *)
(* waits for next, its socket may be ready for already or later.          *)
Becomes(c) == /\ conns' = [conns EXCEPT ![idx] = c]
              /\ ready' = ready \ {c.fd}
              /\ reported' = reported \ {c.fd}
              /\ idx' = idx + 1
              /\ UNCHANGED pc

(* Mutants of the next definition: the last connection is not moved, or   *)
(* all those from the closed one on are cut off.                          *)
LosesLast(queue, i) == Front(queue)
CutAt(queue, i) == SubSeq(queue, 1, i - 1)

(* CONN_STATE_CLOSING: the connection is freed and the socket closed; the  *)
(* last connection moves into this slot, which the pass has now gone past. *)
SwapRemoved(queue, i) ==
    IF i = Len(queue) THEN Front(queue)
    ELSE [Front(queue) EXCEPT ![i] = Last(queue)]

Closes == /\ conns' = SwapRemoved(conns, idx)
          /\ ready' = ready \ {This.fd}
          /\ reported' = reported \ {This.fd}
          /\ idx' = idx + 1
          /\ UNCHANGED pc

TimedOut(c) == c.idle >= Timeout

(* Mutants of the next definition: the timeout is looked at only when the *)
(* socket is reported, or only while a request is read.                   *)
DropReported == InPass /\ TimedOut(This) /\ This.fd \in reported /\ Closes
DropReading == InPass /\ TimedOut(This) /\ This.state = "READING" /\ Closes

(* The timeout is looked at before what poll() reported. *)
DropTimedOut == InPass /\ TimedOut(This) /\ Closes

(* The socket has nothing to report for what the connection waits for. *)
Skip == /\ InPass
        /\ ~TimedOut(This)
        /\ This.fd \notin reported
        /\ idx' = idx + 1
        /\ UNCHANGED <<conns, ready, reported, pc>>

Steps(state) == /\ InPass
                /\ ~TimedOut(This)
                /\ This.fd \in reported
                /\ This.state = state

-----------------------------------------------------------------------------
(* CONN_STATE_READING. The request is allocated, if it is not, and recv() *)
(* gets at most the room that is left in its buffer.                      *)
Room(c) == BufSize - c.n_items

(* Mutant of the next definition: a full buffer is not noticed. *)
ReceivePartUnchecked ==
    /\ Steps("READING")
    /\ \E n \in 1 .. Room(This) :
          Becomes([This EXCEPT !.req = "partial", !.idle = 0, !.n_items = @ + n])

(* A part of the request arrived, and its end did not. *)
ReceivePart ==
    /\ Steps("READING")
    /\ \E n \in 1 .. Room(This) :
          IF This.n_items + n = BufSize THEN Closes
          ELSE Becomes([This EXCEPT !.req = "partial", !.idle = 0,
                                    !.n_items = @ + n])

(* recv() fails: EAGAIN and EINTR cost a try, other errors only count as  *)
(* activity.                                                              *)
ReceiveAgain ==
    /\ Steps("READING")
    /\ IF This.read_tries_left = 0 THEN Closes
       ELSE Becomes([This EXCEPT !.req = "partial", !.idle = 0,
                                 !.read_tries_left = @ - 1])

ReceiveError ==
    /\ Steps("READING")
    /\ Becomes([This EXCEPT !.req = "partial", !.idle = 0])

(* The client closed its side without sending anything. *)
ReceiveEof == /\ Steps("READING")
              /\ This.n_items = 0
              /\ Closes

(* The request ends, by a blank line or by the client closing its side    *)
(* after a part of it. A request that has no method, path or host is not  *)
(* answered; one that says `Connection: close` is the last one.           *)
ReceiveEnd ==
    /\ Steps("READING")
    /\ \/ Closes
       \/ \E keep \in BOOLEAN :
             Becomes([This EXCEPT !.req = "parsed", !.n_items = 0, !.idle = 0,
                                  !.keep_alive = @ /\ keep,
                                  !.state = "WRITING_HEADERS"])

-----------------------------------------------------------------------------
(* Mutants of recycle_connection: the response, or the tries it used up,   *)
(* are left as they were.                                                 *)
RecycleKeepsRes(c) ==
    [c EXCEPT !.req = "NULL", !.n_items = 0,
              !.read_tries_left = MaxTries, !.write_tries_left = MaxTries,
              !.keep_alive = TRUE, !.idle = 0,
              !.state = "READING"]
RecycleKeepsTries(c) ==
    [c EXCEPT !.req = "NULL", !.n_items = 0,
              !.res = "NULL", !.left = 0,
              !.keep_alive = TRUE, !.idle = 0,
              !.state = "READING"]

(* CONN_STATE_WRITING_FINISHED: recycle_connection, or close. *)
recycle_connection(c) ==
    [c EXCEPT !.req = "NULL", !.n_items = 0,
              !.res = "NULL", !.left = 0,
              !.read_tries_left = MaxTries, !.write_tries_left = MaxTries,
              !.keep_alive = TRUE, !.idle = 0,
              !.state = "READING"]

(* Mutant of the next definition: keep_alive is not looked at. *)
FinishesAlive(c) == Becomes(recycle_connection(c))

Finishes(c) == IF c.keep_alive THEN Becomes(recycle_connection(c)) ELSE Closes

(* Mutant of the next definition: the tries are not checked. *)
RetriesUnchecked(c) == Becomes([c EXCEPT !.write_tries_left = @ - 1])

(* Part of the response could not be sent: one try less, or none left. *)
Retries(c) == IF c.write_tries_left = 0 THEN Closes
              ELSE Becomes([c EXCEPT !.write_tries_left = @ - 1])

(* write_body: the body is in memory. last_active is left as it is.       *)
WritesBody(c) == \/ \E sent \in 0 .. c.left - 1 :
                       Retries([c EXCEPT !.left = @ - sent])
                 \/ Finishes(c)

(* write_file reads and sends pieces until the socket takes no more of    *)
(* them; each piece sent gives all tries back. The file may also end      *)
(* early, having shrunk since the head was made.                          *)
WritesFile(c) ==
    \/ \E sent \in 0 .. c.left - 1 :
          Retries([c EXCEPT !.left = @ - sent,
                            !.write_tries_left = IF sent > 0 THEN MaxTries ELSE @])
    \/ Finishes(c)

(* CONN_STATE_WRITING_BODY, for the connection c that may have come from   *)
(* WRITING_HEADERS in the same call. Any error in reading the file or     *)
(* sending closes, and so does a response that has neither body nor file. *)
BodyStep(c) == \/ c.res = "body" /\ WritesBody(c)
               \/ c.res = "file" /\ WritesFile(c)
               \/ Closes

WriteBody == Steps("WRITING_BODY") /\ BodyStep(This)

(* CONN_STATE_WRITING_HEADERS. The response is made when the socket first *)
(* can be written to.                                                     *)
Responded(c) ==
    IF c.res # "NULL" THEN {c}
    ELSE {[c EXCEPT !.res = kind, !.left = HeadLen, !.idle = 0] : kind \in Kinds}

(* The head is sent: a HEAD request needs no more (Exchange tells it from *)
(* a GET), any other goes on with the body, whose length is now known.    *)
HeadDone(c) ==
    \/ Finishes(c)
    \/ \E n \in 0 .. BodyLen :
          BodyStep([c EXCEPT !.state = "WRITING_BODY", !.left = n])

WriteHeaders ==
    /\ Steps("WRITING_HEADERS")
    /\ \E c \in Responded(This) :
          \/ \E sent \in 0 .. c.left - 1 :
                Retries([c EXCEPT !.left = @ - sent, !.idle = 0])
          \/ HeadDone(c)
          \/ Closes

(* send() on a socket the client has reset raises SIGPIPE, which nothing  *)
(* handles or ignores: the process ends.                                  *)
BrokenPipe == /\ Steps("WRITING_HEADERS") \/ Steps("WRITING_BODY")
              /\ Exits

-----------------------------------------------------------------------------
Serve == \/ DropTimedOut
         \/ Skip
         \/ ReceivePart
         \/ ReceiveAgain
         \/ ReceiveError
         \/ ReceiveEof
         \/ ReceiveEnd
         \/ WriteHeaders
         \/ WriteBody
         \/ BrokenPipe
         \/ EndPass

Server == \/ \E d \in 0 .. Timeout : Poll(d)
          \/ PollFails
          \/ RefuseAccept
          \/ \E fd \in Fds : Accept(fd)
          \/ AcceptFails
          \/ Serve

Exited == pc = "exited" /\ UNCHANGED vars

Next == \/ Server
        \/ \E fd \in Fds \union {ListenFd} : BecomeReady(fd)
        \/ ClientGivesUp
        \/ Exited

(* main goes on whenever no call blocks it: every poll() has a timeout of *)
(* poll_interval_ms and every client socket is non-blocking, which leaves *)
(* accept(). And the clock advances.                                      *)
Fairness == /\ WF_vars(Server)
            /\ SF_vars(\E d \in 1 .. Timeout : Poll(d))

Spec == Init /\ [][Next]_vars
FairSpec == Spec /\ Fairness

-----------------------------------------------------------------------------
(* A connection is at rest between two of its steps: in a state that waits *)
(* for its socket, with its counters in range.                            *)
ConnType ==
    [fd : Fds, state : {"READING", "WRITING_HEADERS", "WRITING_BODY"},
     req : {"NULL", "partial", "parsed"}, n_items : 0 .. BufSize,
     res : Kinds \union {"NULL"}, left : Nat,
     read_tries_left : 0 .. MaxTries, write_tries_left : 0 .. MaxTries,
     keep_alive : BOOLEAN, idle : 0 .. Timeout]

TypeOK == /\ conns \in Seq(ConnType)
          /\ ready \subseteq Fds \union {ListenFd}
          /\ reported \subseteq Fds \union {ListenFd}
          /\ idx \in Nat \ {0}
          /\ pc \in {"poll", "accept", "serve", "exited"}

(* No state meets a pointer it does not expect: the request is there while *)
(* the response is written, a body or a file while the body is, and no    *)
(* response of an earlier request while the next one is read.             *)
PointersMatchState ==
    \A i \in DOMAIN conns : LET c == conns[i] IN
        /\ c.state = "READING" =>
              c.req # "parsed" /\ c.res = "NULL"
        /\ c.state # "READING" => c.req = "parsed"
        /\ c.state = "WRITING_BODY" => c.res \in {"body", "file"}

(* A connection that waits for its next request is as good as new: nothing *)
(* of the request before it, its tries or its answer is left behind by    *)
(* recycle_connection.                                                    *)
LikeNew == \A i \in DOMAIN conns :
    conns[i].state = "READING" /\ conns[i].req = "NULL" =>
        [conns[i] EXCEPT !.idle = 0] = make_connection(conns[i].fd)

(* recv() is never called with no room: it would return 0, and a full      *)
(* buffer would be taken for a client that has closed its side.            *)
RoomToRead == \A i \in DOMAIN conns :
    conns[i].state = "READING" => Room(conns[i]) > 0

(* A client that said `Connection: close` gets one answer and no other:   *)
(* the connection is never ready for a further request.                   *)
WasAsked(queue, fd) ==
    \E i \in DOMAIN queue : queue[i].fd = fd /\ ~queue[i].keep_alive
CloseIsKept ==
    [][\A fd \in Fds : WasAsked(conns, fd) =>
          WasAsked(conns', fd) \/ fd \notin FdsOf(conns')]_vars

(* The pass closes no connection but the one that it has come to: swap-   *)
(* removal, which moves another into its slot, neither drops that one nor  *)
(* takes one of the clients waiting in other slots for it.                 *)
OnlyServedIsClosed ==
    [][\A fd \in Open \ FdsOf(conns') : fd # ListenFd =>
          InPass /\ fd = This.fd]_vars

(* Swap-removal, acceptance and the capacity check keep the set of open   *)
(* sockets as ConnSet says: each socket is in the queue once, and the     *)
(* queue is never over max_fds.                                           *)
Sockets == INSTANCE ConnSet WITH open <- Open
ImplementsConnSet == Sockets!Spec

-----------------------------------------------------------------------------
Stopped(fd) == fd \notin Open \/ pc = "exited"
InState(fd, states) == \E i \in DOMAIN conns :
                          conns[i].fd = fd /\ conns[i].state \in states

(* What the server owes its clients, it owes them as long as it does not   *)
(* hang in accept(), which any client that gives up may cause and only     *)
(* another client ends.                                                   *)
AcceptReturns == []<>~InAccept

(* No client starves: neither a stream of new clients, each of which makes *)
(* main start over, nor swap-removal, which moves a connection to where    *)
(* the pass has been already, keeps a ready socket from being served.      *)
Responsive == AcceptReturns => \A fd \in Fds :
    (fd \in Open /\ fd \in ready) ~> (fd \notin ready \/ Stopped(fd))

(* A client whose socket is never ready is let go after the timeout, also  *)
(* when other clients come and give up meanwhile.                          *)
SilentIsClosed == AcceptReturns => \A fd \in Fds :
    fd \in Open ~> (fd \in ready \/ Stopped(fd))

(* Every response ends, in the next request or in the end of the           *)
(* connection, whatever the client reads of it.                            *)
ResponseEnds == AcceptReturns => \A fd \in Fds :
    InState(fd, {"WRITING_HEADERS", "WRITING_BODY"})
        ~> (InState(fd, {"READING"}) \/ Stopped(fd))

-----------------------------------------------------------------------------
(* "time out connections that don't send/receive data for 20 seconds"     *)
(* (todo.md:11), and only those: a connection to which a part of the body *)
(* was sent is not any closer to its timeout.                             *)
DataCountsAsActivity ==
    [][\A i \in DOMAIN conns \cap DOMAIN conns' :
          (/\ conns[i].fd = conns'[i].fd
           /\ conns[i].state = "WRITING_BODY" /\ conns'[i].state = "WRITING_BODY"
           /\ conns'[i].left < conns[i].left)
          => conns'[i].idle = 0]_vars
=============================================================================
