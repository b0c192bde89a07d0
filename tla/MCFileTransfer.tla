--------------------------- MODULE MCFileTransfer ---------------------------
(***************************************************************************)
(* FileTransfer for TLC: see FileTransfer.cfg for a kernel whose send()    *)
(* takes all or nothing, FileTransferPartial.cfg for one that may take a   *)
(* part.                                                                   *)
(***************************************************************************)
EXTENDS FileTransfer
=============================================================================
