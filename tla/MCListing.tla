----------------------------- MODULE MCListing -----------------------------
(***************************************************************************)
(* Listing and Buffer for TLC: up to five entries, one name of each kind   *)
(* that the order tells apart, and another process that changes the        *)
(* directory while it is read, or an lstat() that fails.  No file is as    *)
(* large as TB_SIZE.                                                       *)
(***************************************************************************)
EXTENDS Listing

TheNames == <<".", "..", ".d", "???", "A", "b", "~t">>
WithDot == {".", "..", ".d"}
WithAlnum == {"A", "b"}

TheInodes == {Inode(FALSE, "file", "K"), Directory, Inode(TRUE, "dir", "")}
=============================================================================
