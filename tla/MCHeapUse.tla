----------------------------- MODULE MCHeapUse -----------------------------
(* Instances of HeapUse: logos that deflate made smaller than the image. *)
EXTENDS HeapUse

Compressed ==
  {[file |-> f, compressed |-> c, inflated |-> 6, image |-> 5] : f \in {3, 8}, c \in 1 .. 4}
    \cup {[file |-> 8, compressed |-> 4, inflated |-> i, image |-> i - 1] : i \in {12, 30}}
    \cup {[file |-> f, compressed |-> 20, inflated |-> 30, image |-> 29] : f \in {20, 40, 60}}

ASSUME Fits == NoSliver /\ Deflated
=============================================================================
