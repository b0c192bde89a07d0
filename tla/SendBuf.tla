------------------------------ MODULE SendBuf ------------------------------
(***************************************************************************)
(* send_buf (mimino.c:1017): what it may return and what it may have put   *)
(* on the wire, for a buffer of n bytes.  Nothing of the program runs      *)
(* while it loops, so that one call is one step of its callers.            *)
(***************************************************************************)
EXTENDS Integers, Sequences

CONSTANTS SendTries, \* `try`: how often EAGAIN is taken before it returns: 5
          Sends      \* what is assumed of the kernel's send(), see SendKinds

SendKinds == {"whole",     \* it takes all that it is given, or nothing
              "beginning", \* or a part; the socket is full then, and no room
                           \* appears in it before send_buf returns
              "parts"}     \* any part, each time

ASSUME SendAssumption == /\ SendTries \in Nat \ {0}
                         /\ Sends \in SendKinds

(* The first k bytes of the buffer, by their index. *)
FirstBytes(k) == [i \in 1 .. k |-> i - 1]

(* How many of len bytes one successful send() takes, nbytes_sent of them *)
(* being counted before.                                                   *)
Taken(len, nbytes_sent) == CASE Sends = "whole" -> {len}
                             [] Sends = "beginning" /\ nbytes_sent > 0 -> {}
                             [] OTHER -> 1 .. len

(* The loop, from the state in which nbytes_sent bytes were counted and    *)
(* `try` tries are left: every send() is given the whole buffer, from its *)
(* start.  An error gives up what was sent before; EAGAIN and EINTR cost  *)
(* a try.                                                                 *)
send_buf(n) ==
    LET loop[turn \in (0 .. 2 * n) \X (1 .. SendTries)] ==
          LET nbytes_sent == turn[1]
              try == turn[2]
          IN  IF nbytes_sent >= n THEN {[ret |-> nbytes_sent, wire |-> <<>>]}
              ELSE {[ret |-> -1, wire |-> <<>>]}
                   \union (IF try = 1 THEN {[ret |-> nbytes_sent, wire |-> <<>>]}
                           ELSE loop[<<nbytes_sent, try - 1>>])
                   \union UNION {{[ret |-> r.ret, wire |-> FirstBytes(k) \o r.wire] :
                                     r \in loop[<<nbytes_sent + k, try>>]} :
                                   k \in Taken(n, nbytes_sent)}
    IN  loop[<<0, SendTries>>]
=============================================================================
