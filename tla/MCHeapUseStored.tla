-------------------------- MODULE MCHeapUseStored --------------------------
(* A logo that is not deflated: Deflated does not hold. *)
EXTENDS HeapUse

\* A file whose image data are stored: deflate only adds its block headers.
Stored == {[file |-> 10, compressed |-> 9, inflated |-> 6, image |-> 5]}
=============================================================================
