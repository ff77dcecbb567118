------------------------------ MODULE ArqFifo ------------------------------
(***************************************************************************)
(* What a user of the ARAM queue relies on: two first-in first-out queues; *)
(* every request posted is answered once, by its own callback, in order.   *)
(***************************************************************************)
EXTENDS Naturals, Sequences

CONSTANTS Tasks, Calls, Nothing

VARIABLES hi, lo,   \* outstanding <<request, callback>>, oldest first
          fired     \* the callback just made, or Nothing

fifovars == <<hi, lo, fired>>

Init == hi = <<>> /\ lo = <<>> /\ fired = Nothing

\* A request may be posted when it is not outstanding.
New(r) == r \in Tasks \X Calls /\ \A q \in {hi, lo} : \A i \in 1 .. Len(q) : q[i][1] # r[1]

PostHi ==
  /\ Len(hi') = Len(hi) + 1 /\ UNCHANGED lo
  /\ LET r == hi'[Len(hi')] IN New(r) /\ hi' = Append(hi, r)
  /\ fired' = Nothing

PostLo ==
  /\ Len(lo') = Len(lo) + 1 /\ UNCHANGED hi
  /\ LET r == lo'[Len(lo')] IN New(r) /\ lo' = Append(lo, r)
  /\ fired' = Nothing

AnswerHi == hi # <<>> /\ fired' = Head(hi) /\ hi' = Tail(hi) /\ UNCHANGED lo
AnswerLo == lo # <<>> /\ fired' = Head(lo) /\ lo' = Tail(lo) /\ UNCHANGED hi

\* A chunk ended.
Progress == fired' = Nothing /\ UNCHANGED <<hi, lo>>

Next == PostHi \/ PostLo \/ AnswerHi \/ AnswerLo \/ Progress

Spec == Init /\ [][Next]_fifovars
=============================================================================
