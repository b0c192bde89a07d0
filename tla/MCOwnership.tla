---------------------------- MODULE MCOwnership ----------------------------
(***************************************************************************)
(* Ownership, and with it Exchange, for TLC: two requests, with every      *)
(* target, a range and a send() that may take a part.                      *)
(***************************************************************************)
EXTENDS Ownership

AnyRange == {NotGiven, 1}
AnyHeaders == {<<"host">>, <<"user_agent", "connection">>, <<"user_agent", "host", "host">>}
=============================================================================
