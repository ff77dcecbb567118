--------------------------------- MODULE Arq ---------------------------------
(***************************************************************************)
(* The ARAM request queue of decomp_arq.c (the IPL's own ARQ, where the    *)
(* patches use that one, behaves the same way).  Requests live in their    *)
(* callers' memory and are chained through their own next field; a low     *)
(* priority transfer is cut into chunks, between which high priority ones  *)
(* go first.  The queue is a record, so that a component that posts        *)
(* requests composes with these operators.                                 *)
(***************************************************************************)
EXTENDS Naturals, Sequences, FiniteSets

CONSTANTS Tasks,    \* ARQRequest structures
          NoTask,   \* nullptr
          Chunks,   \* chunks of ARQ_CHUNK_SIZE_DEFAULT a low transfer takes
          NoCall    \* no callback

ASSUME ArqAssumption == NoTask \notin Tasks /\ IsFiniteSet(Tasks) /\ Chunks \in Nat \ {0}

\* length -= chunk is unsigned and is done for the last chunk too.  No transfer is
\* a multiple of the chunk size, so a finished request's length has wrapped.
Wrapped == 2 ^ 20

\* ARQInit
ArqInit ==
  [next     |-> [t \in Tasks |-> NoTask],
   length   |-> [t \in Tasks |-> 0],
   callback |-> [t \in Tasks |-> NoCall],
   queueHi  |-> NoTask, tailHi |-> NoTask, pendingHi |-> NoTask, callbackHi |-> NoCall,
   queueLo  |-> NoTask, tailLo |-> NoTask, pendingLo |-> NoTask, callbackLo |-> NoCall]

\* __ARQPopTaskQueueHi: start the next high priority transfer.
PopTaskQueueHi(a) ==
  IF a.queueHi = NoTask THEN a
  ELSE [a EXCEPT !.callbackHi = a.callback[a.queueHi],
                 !.pendingHi = a.queueHi,
                 !.queueHi = a.next[a.queueHi]]

\* Start a chunk of the pending low priority transfer.  Its callback is armed
\* with the last chunk.
StartChunk(a) ==
  LET t == a.pendingLo IN
  [a EXCEPT !.callbackLo = IF a.length[t] <= 1 THEN a.callback[t] ELSE @,
            !.length[t] = IF @ <= 1 THEN Wrapped ELSE @ - 1]

\* Seeded fault: the request stays at the head of the queue.
ServiceQueueLoNoPop(a) ==
  LET b == IF a.pendingLo = NoTask /\ a.queueLo # NoTask
           THEN [a EXCEPT !.pendingLo = a.queueLo]
           ELSE a
  IN  IF b.pendingLo = NoTask THEN b ELSE StartChunk(b)

\* __ARQServiceQueueLo
ServiceQueueLo(a) ==
  LET b == IF a.pendingLo = NoTask /\ a.queueLo # NoTask
           THEN [a EXCEPT !.pendingLo = a.queueLo, !.queueLo = a.next[a.queueLo]]
           ELSE a
  IN  IF b.pendingLo = NoTask THEN b ELSE StartChunk(b)

\* High priority transfers first, then the low one.
StartNext(a) ==
  LET b == PopTaskQueueHi(a)
  IN  IF b.pendingHi = NoTask THEN ServiceQueueLo(b) ELSE b

Idle(a) == a.pendingHi = NoTask /\ a.pendingLo = NoTask

\* Seeded fault: the tail is not moved.
EnqueueLoNoTail(a, t) ==
  IF a.queueLo # NoTask
  THEN [a EXCEPT !.next[a.tailLo] = t]
  ELSE [a EXCEPT !.queueLo = t, !.tailLo = t]

\* Link request t, whose fields are set, to the end of its queue.
EnqueueLo(a, t) ==
  IF a.queueLo # NoTask
  THEN [a EXCEPT !.next[a.tailLo] = t, !.tailLo = t]
  ELSE [a EXCEPT !.queueLo = t, !.tailLo = t]

EnqueueHi(a, t) ==
  IF a.queueHi # NoTask
  THEN [a EXCEPT !.next[a.tailHi] = t, !.tailHi = t]
  ELSE [a EXCEPT !.queueHi = t, !.tailHi = t]

\* decomp_ARQPostRequest
PostRequest(a, t, prio, call) ==
  LET set == [a EXCEPT !.next[t] = NoTask, !.length[t] = Chunks, !.callback[t] = call]
      enq == IF prio = "high" THEN EnqueueHi(set, t) ELSE EnqueueLo(set, t)
  IN  IF Idle(enq) THEN StartNext(enq) ELSE enq

\* The callback __ARQInterruptServiceRoutine makes: <<request, callback>>.
Fired(a) ==
  IF a.callbackHi # NoCall THEN <<a.pendingHi, a.callbackHi>>
  ELSE IF a.callbackLo # NoCall THEN <<a.pendingLo, a.callbackLo>>
  ELSE <<NoTask, NoCall>>

\* Seeded fault: the next transfer is not started.
InterruptServiceRoutineNoRestart(a) ==
  IF a.callbackHi # NoCall
  THEN [a EXCEPT !.pendingHi = NoTask, !.callbackHi = NoCall]
  ELSE IF a.callbackLo # NoCall
  THEN [a EXCEPT !.pendingLo = NoTask, !.callbackLo = NoCall]
  ELSE StartNext(a)

\* __ARQInterruptServiceRoutine, once the callback returned.
InterruptServiceRoutine(a) ==
  StartNext(
    IF a.callbackHi # NoCall
    THEN [a EXCEPT !.pendingHi = NoTask, !.callbackHi = NoCall]
    ELSE IF a.callbackLo # NoCall
    THEN [a EXCEPT !.pendingLo = NoTask, !.callbackLo = NoCall]
    ELSE a)

\* The k-th request behind request t, for k up to n; NoTask behind the last one.
Nth(a, t, n) ==
  LET nth[k \in 0 .. n] ==
        IF k = 0 THEN t ELSE IF nth[k - 1] = NoTask THEN NoTask ELSE a.next[nth[k - 1]]
  IN  nth

\* How many there are before NoTask.
ChainLength(nth, n) ==
  CHOOSE m \in 0 .. (n + 1) :
    /\ \A k \in 0 .. (m - 1) : nth[k] # NoTask
    /\ m <= n => nth[m] = NoTask

\* The requests reachable from request t, in order; no more than n + 1 of them, which
\* would already be a ring.
Chain(a, t, n) ==
  LET nth == Nth(a, t, n) IN [k \in 1 .. ChainLength(nth, n) |-> nth[k - 1]]

\* Request t is queued or being transferred.
InFlight(a, t) ==
  \/ t = a.pendingHi \/ t = a.pendingLo
  \/ \E q \in {a.queueHi, a.queueLo} :
       LET c == Chain(a, q, Cardinality(Tasks)) IN \E i \in 1 .. Len(c) : c[i] = t
=============================================================================
