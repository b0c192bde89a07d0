---------------------------- MODULE MCEventLoop ----------------------------
(***************************************************************************)
(* EventLoop for TLC.  The constants are all in the configurations:        *)
(*   EventLoop          two clients and room for both, under fairness, with *)
(*                      every kind of response                              *)
(*   EventLoopTimeout   one client and its file, which it reads in parts    *)
(***************************************************************************)
EXTENDS EventLoop
=============================================================================
