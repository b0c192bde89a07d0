----------------------------- MODULE MCExchange -----------------------------
(***************************************************************************)
(* Exchange for TLC, with a send() that may take a part: files and ranges  *)
(* only, which is how requests for a part of a file are answered.          *)
(* MCOwnership has every target.                                           *)
(***************************************************************************)
EXTENDS Exchange

GivenRange == {1, 2}
=============================================================================
