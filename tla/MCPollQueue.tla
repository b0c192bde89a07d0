---------------------------- MODULE MCPollQueue ----------------------------
(***************************************************************************)
(* PollQueue for TLC.  The sizes are scaled down so that the arrays grow   *)
(* more than once, reach MaxFds in a growth that is not a doubling, and    *)
(* shrink with several connections left as well as down to MinAlloc.       *)
(***************************************************************************)
EXTENDS PollQueue

(* accept() returns the lowest descriptor that is not open, which leaves  *)
(* far fewer arrangements of the arrays to explore than any order would.  *)
LowestFree == \A fd \in open' \ open : \A g \in Fds : g < fd => g \in open

(* Nothing reads the slots behind the last used one before they are       *)
(* overwritten, so that states that differ in them only are one.          *)
UsedSlots == <<[i \in Live |-> <<pollfds[i], conns[i]>>], n_conns_alloc, open>>
=============================================================================
