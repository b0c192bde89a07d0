------------------------------ MODULE StartUp ------------------------------
(***************************************************************************)
(* main up to its loop: the command line (see Arguments), the limit on     *)
(* descriptors (fdwatch.c), the listening socket (init_server and sockbind *)
(* in mimino.c) and the queue's first allocation.  Any system call may     *)
(* fail.  What EventLoop and PollQueue start from is what is left when     *)
(* main enters its loop.                                                   *)
(***************************************************************************)
EXTENDS Arguments

CONSTANTS MaxPool,        \* 1024 in init_conn_pool
          DefaultMaxNfds, \* default_max_poll_nfds: 10000
          INT_MAX,        \* the largest int: 2^31 - 1
          Limits,         \* the values that RLIMIT_NOFILE may have
          Families        \* what getaddrinfo() may return: see Family

Family == {"IPv4", "IPv6", "unknown"}
Std == 0 .. 2 \* the standard streams

(* How many values an int has, and RLIM_INFINITY: all bits are set in a    *)
(* type that is some bits wider.                                           *)
INT_VALUES == 2 * (INT_MAX + 1)
Unlimited == 8 * INT_VALUES - 1

(* The standard streams are open, and no limit but Unlimited is beyond int *)
(* (Linux, for one, refuses larger ones).                                  *)
ASSUME StartUpAssumption ==
    /\ INT_MAX \in Nat \ {0}
    /\ {MaxPool, DefaultMaxNfds} \subseteq 1 .. INT_MAX
    /\ Limits \subseteq (4 .. INT_MAX) \union {Unlimited}
    /\ Families \subseteq Seq(Family)

VARIABLES limit,         \* the soft RLIMIT_NOFILE, when main has asked for it
          max_fds,       \* conf.max_fds
          fds,           \* what each open descriptor is
          addrs,         \* the addresses that are still to be tried, in order
          listen_sock,
          n_conns_alloc, \* queue.n_conns_alloc
          pc

startVars == <<argVars, limit, max_fds, fds, addrs, listen_sock, n_conns_alloc, pc>>

StartInit == /\ ArgInit
             /\ limit = 0 /\ max_fds = 0
             /\ fds = [fd \in Std |-> "stream"]
             /\ addrs = <<>>
             /\ listen_sock = -1
             /\ n_conns_alloc = 0
             /\ pc = "parse"

Parse == /\ pc = "parse"
         /\ ParseArg
         /\ UNCHANGED <<limit, max_fds, fds, addrs, listen_sock, n_conns_alloc, pc>>

UsageError == /\ pc = "parse" /\ i > Len(argv) /\ ~ret
              /\ pc' = "exited"
              /\ UNCHANGED <<argVars, limit, max_fds, fds, addrs, listen_sock, n_conns_alloc>>

(* A conversion to int keeps the low bits. *)
ToInt(n) == LET low == n % INT_VALUES
            IN  IF low > INT_MAX THEN low - INT_VALUES ELSE low

(* fdwatch_get_max_poll_nfds, when the limit is cur and may be raised to   *)
(* max: what it returns, and what the limit is then.                       *)
fdwatch(cur, max) ==
    {[ret |-> DefaultMaxNfds, limit |-> cur],  \* getrlimit() fails
     [ret |-> ToInt(max - 1), limit |-> max],
     [ret |-> ToInt(cur), limit |-> cur]}      \* setrlimit() fails

(* The configuration. *)
Configure == /\ pc = "parse" /\ i > Len(argv) /\ ret
             /\ conf' = Configuration
             /\ \E cur, max \in Limits :
                   /\ cur <= max
                   /\ \E watch \in fdwatch(cur, max) :
                         max_fds' = watch.ret /\ limit' = watch.limit
             /\ pc' = "resolve"
             /\ UNCHANGED <<argv, i, argdefs, raw_escape, ret,
                            fds, addrs, listen_sock, n_conns_alloc>>

-----------------------------------------------------------------------------
(* init_server. When getaddrinfo() fails, for a port that is no number for *)
(* one, init_server returns 1, which main takes for a socket.              *)
ResolveFails == /\ pc = "resolve"
                /\ listen_sock' = 1
                /\ pc' = "listen"
                /\ UNCHANGED <<argVars, limit, max_fds, fds, addrs, n_conns_alloc>>

(* The addresses of one family differ in nothing that is looked at here:   *)
(* all of the first array, and then all of the second.                     *)
Count(found, family) == Cardinality({k \in DOMAIN found : found[k] = family})
InOrderOfTrial(found) ==
    [k \in 1 .. Count(found, "IPv4") + Count(found, "IPv6") |->
        IF k <= Count(found, "IPv4") THEN "IPv4" ELSE "IPv6"]

Resolve == /\ pc = "resolve"
           /\ \E found \in Families : addrs' = InOrderOfTrial(found)
           /\ pc' = "bind"
           /\ UNCHANGED <<argVars, limit, max_fds, fds, listen_sock, n_conns_alloc>>

(* socket() takes the lowest descriptor that is not open. *)
NewFds == {fd \in 0 .. limit - 1 : fd \notin DOMAIN fds /\ 0 .. fd - 1 \subseteq DOMAIN fds}

With(fd, status) ==
    [other \in DOMAIN fds \union {fd} |-> IF other = fd THEN status ELSE fds[other]]

(* What is open after a call of sockbind, and what it returns. *)
Outcome(open, s) == [fds |-> open, ret |-> s]

(* Mutant of the next definition: a socket is not closed again. *)
SockbindKeeps(family) ==
    {Outcome(fds, -1)}
      \union {Outcome(With(fd, status), -1) :
                 fd \in NewFds, status \in {"unbound", "no SO_REUSEADDR"}}
      \union {Outcome(With(fd, family), fd) : fd \in NewFds}

(* socket() fails, or bind() does and the socket is closed; setsockopt()   *)
(* fails and it is not; or it is bound.                                    *)
sockbind(family) ==
    {Outcome(fds, -1)}
      \union {Outcome(With(fd, "no SO_REUSEADDR"), -1) : fd \in NewFds}
      \union {Outcome(With(fd, family), fd) : fd \in NewFds}

Bind == /\ pc = "bind" /\ addrs # <<>>
        /\ \E out \in sockbind(Head(addrs)) :
              /\ fds' = out.fds
              /\ IF out.ret = -1
                 THEN addrs' = Tail(addrs) /\ UNCHANGED <<listen_sock, pc>>
                 ELSE listen_sock' = out.ret /\ pc' = "listen" /\ UNCHANGED addrs
        /\ UNCHANGED <<argVars, limit, max_fds, n_conns_alloc>>

NothingBound == /\ pc = "bind" /\ addrs = <<>>
                /\ pc' = "exited"
                /\ UNCHANGED <<argVars, limit, max_fds, fds, addrs, listen_sock, n_conns_alloc>>

-----------------------------------------------------------------------------
(* listen() works on a socket that is bound, and fails on any other file. *)
Listen == /\ pc = "listen"
          /\ fds[listen_sock] \in {"IPv4", "IPv6"}
          /\ pc' = "pool"
          /\ UNCHANGED <<argVars, limit, max_fds, fds, addrs, listen_sock, n_conns_alloc>>

ListenFails == /\ pc = "listen"
               /\ pc' = "exited"
               /\ UNCHANGED <<argVars, limit, max_fds, fds, addrs, listen_sock, n_conns_alloc>>

(* Mutant of the next definition: the bound is taken the wrong way. *)
PoolIsMaximum == IF max_fds > MaxPool THEN max_fds ELSE MaxPool

PoolSize == IF max_fds < MaxPool THEN max_fds ELSE MaxPool

(* init_conn_pool, and slot 0 for the listening socket. A size below zero  *)
(* is as large as one can be to xmalloc, which exits.                      *)
InitPool == /\ pc = "pool"
            /\ n_conns_alloc' = PoolSize
            /\ pc' = IF PoolSize < 0 THEN "exited" ELSE "loop"
            /\ UNCHANGED <<argVars, limit, max_fds, fds, addrs, listen_sock>>

MallocFails == /\ pc = "pool"
               /\ pc' = "exited"
               /\ UNCHANGED <<argVars, limit, max_fds, fds, addrs, listen_sock, n_conns_alloc>>

Started == pc \in {"loop", "exited"} /\ UNCHANGED startVars

StartNext == \/ Parse
             \/ UsageError
             \/ Configure
             \/ ResolveFails
             \/ Resolve
             \/ Bind
             \/ NothingBound
             \/ Listen
             \/ ListenFails
             \/ InitPool
             \/ MallocFails
             \/ Started

StartSpec == StartInit /\ [][StartNext]_startVars

-----------------------------------------------------------------------------
(* Of a command line that leaves no value to its default with a bare -i,   *)
(* -s or -r, parse_args goes wrong exactly when a flag lacks its value, so *)
(* that main goes on only with one that is complete; and then the          *)
(* configuration is what that asks for (see AsAsked).  Nothing changes it  *)
(* after Configure.                                                        *)
ConfigIsAsked == pc \in {"parse", "resolve"} /\ NoneIsBare => AsAsked

(* main enters its loop with a socket that listens, on an IPv6 address     *)
(* only when no IPv4 one is left to try ("prefer ipv4 over ipv6",          *)
(* mimino.c:168), although init_server has two ways to say that it failed; *)
(* and of all it tried it holds nothing else open, but for the sockets     *)
(* that setsockopt() failed on.                                            *)
LoopHasOneSocket == pc = "loop" =>
    /\ fds[listen_sock] \in {"IPv4", "IPv6"}
    /\ fds[listen_sock] = "IPv6" => "IPv4" \notin Range(addrs)
    /\ \A fd \in DOMAIN fds \ {listen_sock} : fds[fd] \in {"stream", "no SO_REUSEADDR"}

(* However low or high the limit is, and whether or not it can be asked    *)
(* for and raised: the queue that main puts the listening socket into has  *)
(* room for it and no more slots than there may be connections.            *)
PoolHoldsListener == pc = "loop" => /\ n_conns_alloc \in 1 .. MaxPool
                                    /\ n_conns_alloc <= max_fds
=============================================================================
