----------------------------- MODULE MCDvmCache -----------------------------
(***************************************************************************)
(* Small instances of DvmCache for TLC.  A sector's content names the      *)
(* image it comes from and its own number, so data from a wrong sector, a  *)
(* wrong drive's image or a wiped page is always told apart.               *)
(***************************************************************************)
EXTENDS DvmCache

CONSTANTS Images  \* tags of the images

MCValues == (Images \X (0 .. (Sectors - 1))) \cup {Garbage}
MCContents == {[s \in 0 .. (Sectors - 1) |-> <<i, s>>] : i \in Images}
=============================================================================
