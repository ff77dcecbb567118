----------------------------- MODULE ArqProofs -----------------------------
(***************************************************************************)
(* Lemmas about the ARAM request queue, for the proofs of the components   *)
(* that post requests: the linked lists are sequences, and what posting    *)
(* and the interrupt do to them.                                           *)
(***************************************************************************)
EXTENDS Arq, TLAPS, SequenceTheorems, FiniteSetTheorems, WellFoundedInduction

-----------------------------------------------------------------------------
(* Lists. *)

\* A set of numbers has a least one: induction, for the provers.
LEMMA LeastNumber ==
  ASSUME NEW S, S \subseteq Nat, S # {}
  PROVE  \E m \in S : \A k \in S : m <= k
  <1> DEFINE L == OpToRel(<, Nat)
  <1>1. IsWellFoundedOn(L, Nat)
    BY NatLessThanWellFounded
  <1>2. \A k, m \in Nat : k < m => <<k, m>> \in L
    BY DEF OpToRel
  <1> HIDE DEF L
  <1>3. \E m \in S : \A k \in S : ~(<<k, m>> \in L)
    BY <1>1, WFMin
  <1>4. PICK m \in S : \A k \in S : ~(<<k, m>> \in L)
    BY <1>3
  <1>5. \A k \in S : m <= k
    <2> SUFFICES ASSUME NEW k \in S
                 PROVE  m <= k
      OBVIOUS
    <2>1. k \in Nat /\ m \in Nat
      OBVIOUS
    <2>2. ~(k < m)
      BY <1>2, <1>4, <2>1
    <2> QED BY <2>1, <2>2
  <1> QED BY <1>5

\* The recursion of Nth, on a queue that is a list.
LEMMA NthIs ==
  ASSUME NEW a, NEW t, NEW n \in Nat, NEW f,
         f = [k \in 0 .. n |-> IF k = 0 THEN t ELSE IF f[k - 1] = NoTask THEN NoTask
                                                  ELSE a.next[f[k - 1]]]
  PROVE  Nth(a, t, n) = f
  <1> DEFINE g == Nth(a, t, n)
  <1>1. g = [k \in 0 .. n |-> IF k = 0 THEN t ELSE IF g[k - 1] = NoTask THEN NoTask
                                                   ELSE a.next[g[k - 1]]]
    BY DEF Nth
  <1> HIDE DEF g
  <1> DEFINE D == {k \in 0 .. n : g[k] # f[k]}
  <1>2. D = {}
    <2> SUFFICES ASSUME D # {}
                 PROVE  FALSE
      OBVIOUS
    <2>1. PICK m \in D : \A k \in D : m <= k
      <3>1. D \subseteq Nat
        OBVIOUS
      <3> HIDE DEF D
      <3> QED BY <3>1, LeastNumber
    <2>2. m # 0
      BY <1>1, <2>1
    <2>3. m - 1 \in 0 .. n /\ m - 1 \notin D
      BY <2>1, <2>2
    <2> QED BY <1>1, <2>1, <2>2, <2>3
  <1>3. \A k \in 0 .. n : g[k] = f[k]
    BY <1>2
  <1>4. g = f
    BY <1>1, <1>3
  <1> QED BY <1>4 DEF g

\* Request t is the head of the list s, linked through the next fields.
Linked(a, t, s) ==
  /\ s \in Seq(Tasks)
  /\ t = IF Len(s) = 0 THEN NoTask ELSE s[1]
  /\ \A k \in 1 .. Len(s) : a.next[s[k]] = IF k = Len(s) THEN NoTask ELSE s[k + 1]

\* ChainLength is such a length when there is one.
LEMMA ChainLengthIs ==
  ASSUME NEW nth, NEW n, NEW l \in 0 .. (n + 1),
         \A k \in 0 .. (l - 1) : nth[k] # NoTask,
         l <= n => nth[l] = NoTask
  PROVE  /\ ChainLength(nth, n) \in 0 .. (n + 1)
         /\ \A k \in 0 .. (ChainLength(nth, n) - 1) : nth[k] # NoTask
         /\ ChainLength(nth, n) <= n => nth[ChainLength(nth, n)] = NoTask
  BY DEF ChainLength

\* Chain reads such a list off the next fields.
LEMMA ChainIs ==
  ASSUME NEW a, NEW t, NEW n \in Nat, NEW s, Linked(a, t, s), Len(s) <= n
  PROVE  Chain(a, t, n) = s
  <1> DEFINE f == [k \in 0 .. n |-> IF k < Len(s) THEN s[k + 1] ELSE NoTask]
             nth == Nth(a, t, n)
             Fits(m) == /\ \A k \in 0 .. (m - 1) : nth[k] # NoTask
                        /\ m <= n => nth[m] = NoTask
  <1>1. /\ s \in Seq(Tasks) /\ Len(s) \in Nat
        /\ \A k \in 1 .. Len(s) : s[k] \in Tasks /\ s[k] # NoTask
    BY ArqAssumption DEF Linked
  <1>2. ASSUME NEW k \in 0 .. n
        PROVE  f[k] = IF k = 0 THEN t ELSE IF f[k - 1] = NoTask THEN NoTask
                                           ELSE a.next[f[k - 1]]
    <2>1. CASE k = 0
      BY <1>1, <2>1 DEF Linked
    <2>2. CASE k # 0 /\ k - 1 < Len(s)
      <3>1. k - 1 \in 0 .. n /\ f[k - 1] = s[k] /\ k \in 1 .. Len(s)
        BY <1>1, <2>2
      <3>2. a.next[s[k]] = IF k = Len(s) THEN NoTask ELSE s[k + 1]
        BY <3>1 DEF Linked
      <3>3. f[k] = IF k = Len(s) THEN NoTask ELSE s[k + 1]
        BY <1>1, <3>1
      <3> QED BY <1>1, <2>2, <3>1, <3>2, <3>3
    <2>3. CASE k # 0 /\ ~(k - 1 < Len(s))
      <3>1. k - 1 \in 0 .. n /\ f[k - 1] = NoTask /\ f[k] = NoTask
        BY <1>1, <2>3
      <3> QED BY <2>3, <3>1
    <2> QED BY <2>1, <2>2, <2>3
  <1>3. f = [k \in 0 .. n |-> IF k = 0 THEN t ELSE IF f[k - 1] = NoTask THEN NoTask
                                                   ELSE a.next[f[k - 1]]]
    BY <1>2
  <1>4. \A k \in 0 .. n : nth[k] = IF k < Len(s) THEN s[k + 1] ELSE NoTask
    <2>1. \A k \in 0 .. n : f[k] = IF k < Len(s) THEN s[k + 1] ELSE NoTask
      OBVIOUS
    <2> HIDE DEF f
    <2>2. nth = f
      BY <1>3, NthIs
    <2> QED BY <2>1, <2>2
  <1> HIDE DEF nth, f
  <1>5. \A m \in 0 .. (n + 1) : Fits(m) <=> m = Len(s)
    <2> SUFFICES ASSUME NEW m \in 0 .. (n + 1)
                 PROVE  Fits(m) <=> m = Len(s)
      OBVIOUS
    <2>1. CASE m < Len(s)
      <3>1. m \in 0 .. n /\ nth[m] = s[m + 1] /\ m + 1 \in 1 .. Len(s)
        BY <1>1, <1>4, <2>1
      <3> QED BY <1>1, <2>1, <3>1
    <2>2. CASE m > Len(s)
      <3>1. Len(s) \in 0 .. n /\ nth[Len(s)] = NoTask /\ Len(s) \in 0 .. (m - 1)
        BY <1>1, <1>4, <2>2
      <3> QED BY <1>1, <2>2, <3>1
    <2>3. CASE m = Len(s)
      <3>1. \A k \in 0 .. (m - 1) : nth[k] = s[k + 1] /\ k + 1 \in 1 .. Len(s)
        BY <1>1, <1>4, <2>3
      <3>2. m <= n => nth[m] = NoTask
        BY <1>1, <1>4, <2>3
      <3> QED BY <1>1, <2>3, <3>1, <3>2
    <2> QED BY <1>1, <2>1, <2>2, <2>3
  <1> DEFINE len == ChainLength(nth, n)
  <1>6. len = Len(s)
    <2>1. Len(s) \in 0 .. (n + 1)
      BY <1>1
    <2>2. Fits(Len(s))
      BY <1>5, <2>1
    <2>3. len \in 0 .. (n + 1) /\ Fits(len)
      BY <2>1, <2>2, ChainLengthIs
    <2> QED BY <1>5, <2>3
  <1>7. Chain(a, t, n) = [k \in 1 .. len |-> nth[k - 1]]
    BY DEF Chain, nth
  <1> HIDE DEF len, Fits
  <1>8. [k \in 1 .. Len(s) |-> nth[k - 1]] = s
    <2>1. \A k \in 1 .. Len(s) : nth[k - 1] = s[k]
      BY <1>1, <1>4
    <2>2. [k \in 1 .. Len(s) |-> nth[k - 1]] = [k \in 1 .. Len(s) |-> s[k]]
      BY <2>1
    <2> QED BY <1>1, <2>2
  <1> QED BY <1>6, <1>7, <1>8

\* A list of different requests is no longer than there are requests.
LEMMA NoLongerThanTasks ==
  ASSUME NEW s \in Seq(Tasks), \A j, k \in 1 .. Len(s) : s[j] = s[k] => j = k
  PROVE  Cardinality(Tasks) \in Nat /\ Len(s) <= Cardinality(Tasks)
  <1>1. Len(s) \in Nat /\ s \in [1 .. Len(s) -> Tasks]
    OBVIOUS
  <1>2. s \in Injection(1 .. Len(s), Tasks)
    BY <1>1 DEF Injection, IsInjective
  <1>3. Cardinality(1 .. Len(s)) <= Cardinality(Tasks)
    BY <1>2, ArqAssumption, FS_Injection
  <1>4. Cardinality(1 .. Len(s)) = Len(s)
    BY <1>1, FS_Interval
  <1> QED BY <1>3, <1>4, ArqAssumption, FS_CardinalityType

-----------------------------------------------------------------------------
(* A queue is a sequence of outstanding requests, the first of which may be under     *)
(* way and is then no longer linked.                                                  *)

Distinct(S) == \A j, k \in 1 .. Len(S) : S[j] = S[k] => j = k

Under(p) == IF p = NoTask THEN 0 ELSE 1

Waiting(p, S) == IF p = NoTask THEN S ELSE Tail(S)

QueueOf(next, q, tail, p, S) ==
  /\ S \in Seq(Tasks) /\ Distinct(S)
  /\ p # NoTask => Len(S) > 0 /\ p = S[1]
  /\ q = IF Len(S) <= Under(p) THEN NoTask ELSE S[Under(p) + 1]
  /\ Len(S) > Under(p) => tail = S[Len(S)]
  /\ \A k \in 1 .. Len(S) :
       k > Under(p) => next[S[k]] = IF k = Len(S) THEN NoTask ELSE S[k + 1]

\* The requests of a queue are requests.
LEMMA QueueTasks ==
  ASSUME NEW next, NEW q, NEW tail, NEW p, NEW S, QueueOf(next, q, tail, p, S)
  PROVE  /\ S \in Seq(Tasks) /\ Len(S) \in Nat /\ Under(p) \in {0, 1}
         /\ \A k \in 1 .. Len(S) : S[k] \in Tasks /\ S[k] # NoTask
         /\ q # NoTask => /\ Len(S) > Under(p) /\ q \in Tasks /\ tail \in Tasks
                          /\ Len(S) \in 1 .. Len(S) /\ tail = S[Len(S)]
  BY ArqAssumption DEF QueueOf, Under

\* The next transfer starts: the head is under way.
LEMMA QueueStart ==
  ASSUME NEW next, NEW q, NEW tail, NEW S, QueueOf(next, q, tail, NoTask, S), q # NoTask
  PROVE  QueueOf(next, next[q], tail, q, S)
  <1>1. /\ S \in Seq(Tasks) /\ Distinct(S) /\ Len(S) \in Nat /\ Len(S) > 0 /\ q = S[1]
        /\ tail = S[Len(S)] /\ Under(NoTask) = 0 /\ Under(q) = 1
        /\ \A k \in 1 .. Len(S) : next[S[k]] = IF k = Len(S) THEN NoTask ELSE S[k + 1]
    BY QueueTasks DEF QueueOf, Under
  <1>2. next[q] = IF Len(S) <= 1 THEN NoTask ELSE S[2]
    BY <1>1
  <1> QED BY <1>1, <1>2 DEF QueueOf

\* The transfer is over: the request leaves the queue.
LEMMA QueueEnd ==
  ASSUME NEW next, NEW q, NEW tail, NEW p, NEW S, QueueOf(next, q, tail, p, S), p # NoTask
  PROVE  QueueOf(next, q, tail, NoTask, Tail(S))
  <1>1. /\ S \in Seq(Tasks) /\ Distinct(S) /\ Len(S) \in Nat /\ Len(S) > 0 /\ p = S[1]
        /\ Under(NoTask) = 0 /\ Under(p) = 1
        /\ q = IF Len(S) <= 1 THEN NoTask ELSE S[2]
        /\ Len(S) > 1 => tail = S[Len(S)]
        /\ \A k \in 1 .. Len(S) :
             k > 1 => next[S[k]] = IF k = Len(S) THEN NoTask ELSE S[k + 1]
    BY QueueTasks DEF QueueOf, Under
  <1> DEFINE T == Tail(S)
  <1>2. /\ T \in Seq(Tasks) /\ Len(T) = Len(S) - 1
        /\ \A k \in 1 .. Len(T) : T[k] = S[k + 1] /\ k + 1 \in 1 .. Len(S)
    BY <1>1
  <1> HIDE DEF T
  <1>3. Distinct(T)
    <2> SUFFICES ASSUME NEW j \in 1 .. Len(T), NEW k \in 1 .. Len(T), T[j] = T[k]
                 PROVE  j = k
      BY DEF Distinct
    <2>1. j + 1 = k + 1
      BY <1>1, <1>2 DEF Distinct
    <2> QED BY <2>1
  <1>4. q = IF Len(T) <= 0 THEN NoTask ELSE T[1]
    BY <1>1, <1>2
  <1>5. Len(T) > 0 => tail = T[Len(T)]
    BY <1>1, <1>2
  <1>6. ASSUME NEW k \in 1 .. Len(T)
        PROVE  next[T[k]] = IF k = Len(T) THEN NoTask ELSE T[k + 1]
    <2>1. k + 1 \in 1 .. Len(S) /\ k + 1 > 1 /\ T[k] = S[k + 1]
      BY <1>2
    <2>2. next[S[k + 1]] = IF k + 1 = Len(S) THEN NoTask ELSE S[k + 1 + 1]
      BY <1>1, <2>1
    <2>3. k # Len(T) => k + 1 \in 1 .. Len(T) /\ T[k + 1] = S[k + 1 + 1]
      BY <1>1, <1>2
    <2> QED BY <1>1, <1>2, <2>1, <2>2, <2>3
  <1>7. QueueOf(next, q, tail, NoTask, T)
    BY <1>1, <1>2, <1>3, <1>4, <1>5, <1>6 DEF QueueOf
  <1> QED BY <1>7 DEF T

\* A queue does not depend on the links of other requests.
LEMMA QueueFrame ==
  ASSUME NEW next, NEW next2, NEW q, NEW tail, NEW p, NEW S, QueueOf(next, q, tail, p, S),
         \A k \in 1 .. Len(S) : next2[S[k]] = next[S[k]]
  PROVE  QueueOf(next2, q, tail, p, S)
  BY DEF QueueOf

\* A sequence with one more element at its end.
LEMMA AppendOne ==
  ASSUME NEW S \in Seq(Tasks), NEW t \in Tasks, Distinct(S),
         \A k \in 1 .. Len(S) : S[k] # t
  PROVE  /\ Append(S, t) \in Seq(Tasks) /\ Len(Append(S, t)) = Len(S) + 1
         /\ \A k \in 1 .. Len(S) : Append(S, t)[k] = S[k]
         /\ Append(S, t)[Len(S) + 1] = t
         /\ Distinct(Append(S, t))
  <1> DEFINE T == Append(S, t)
  <1>1. /\ T \in Seq(Tasks) /\ Len(T) = Len(S) + 1 /\ Len(S) \in Nat
        /\ \A k \in 1 .. Len(S) : T[k] = S[k]
        /\ T[Len(S) + 1] = t
    OBVIOUS
  <1> HIDE DEF T
  <1>2. ASSUME NEW j \in 1 .. Len(T), NEW k \in 1 .. Len(T), T[j] = T[k]
        PROVE  j = k
    <2>1. (j \in 1 .. Len(S) \/ j = Len(S) + 1) /\ (k \in 1 .. Len(S) \/ k = Len(S) + 1)
      BY <1>1
    <2> QED BY <1>1, <1>2, <2>1 DEF Distinct
  <1> QED BY <1>1, <1>2 DEF Distinct, T

\* A request is linked behind the last one.
LEMMA QueueAppend ==
  ASSUME NEW next \in [Tasks -> Tasks \cup {NoTask}], NEW q, NEW tail, NEW p, NEW S,
         QueueOf(next, q, tail, p, S), q # NoTask,
         NEW t \in Tasks, \A k \in 1 .. Len(S) : S[k] # t, next[t] = NoTask
  PROVE  QueueOf([next EXCEPT ![tail] = t], q, t, p, Append(S, t))
  <1> DEFINE T == Append(S, t)
             nx == [next EXCEPT ![tail] = t]
  <1>1. /\ S \in Seq(Tasks) /\ Distinct(S) /\ Len(S) \in Nat /\ Len(S) > Under(p)
        /\ Under(p) \in {0, 1}
        /\ p # NoTask => p = S[1]
        /\ q = S[Under(p) + 1] /\ tail = S[Len(S)] /\ tail \in Tasks
        /\ \A k \in 1 .. Len(S) : S[k] \in Tasks
        /\ \A k \in 1 .. Len(S) :
             k > Under(p) => next[S[k]] = IF k = Len(S) THEN NoTask ELSE S[k + 1]
    BY QueueTasks DEF QueueOf
  <1>2. /\ T \in Seq(Tasks) /\ Len(T) = Len(S) + 1 /\ Distinct(T)
        /\ \A k \in 1 .. Len(S) : T[k] = S[k]
        /\ T[Len(S) + 1] = t
    BY <1>1, AppendOne
  <1>3. \A x \in Tasks : nx[x] = IF x = tail THEN t ELSE next[x]
    BY <1>1
  <1> HIDE DEF T, nx
  <1>4. ASSUME NEW k \in 1 .. Len(T), k > Under(p)
        PROVE  nx[T[k]] = IF k = Len(T) THEN NoTask ELSE T[k + 1]
    <2>1. CASE k = Len(S) + 1
      <3>1. T[k] = t /\ t # tail
        BY <1>1, <1>2, <2>1
      <3> QED BY <1>2, <1>3, <2>1, <3>1
    <2>2. CASE k = Len(S)
      <3>1. T[k] = tail /\ T[k + 1] = t
        BY <1>1, <1>2, <2>2
      <3> QED BY <1>1, <1>2, <1>3, <2>2, <3>1
    <2>3. CASE k < Len(S)
      <3>1. k \in 1 .. Len(S) /\ k + 1 \in 1 .. Len(S) /\ T[k] = S[k] /\ T[k + 1] = S[k + 1]
        BY <1>1, <1>2, <2>3
      <3>2. S[k] # tail
        BY <1>1, <2>3, <3>1 DEF Distinct
      <3>3. next[S[k]] = S[k + 1]
        BY <1>1, <1>4, <2>3, <3>1
      <3> QED BY <1>1, <1>2, <1>3, <2>3, <3>1, <3>2, <3>3
    <2> QED BY <1>1, <1>2, <2>1, <2>2, <2>3
  <1>5. q = IF Len(T) <= Under(p) THEN NoTask ELSE T[Under(p) + 1]
    <2>1. Under(p) + 1 \in 1 .. Len(S)
      BY <1>1
    <2> QED BY <1>1, <1>2, <2>1
  <1>6. p # NoTask => Len(T) > 0 /\ p = T[1]
    BY <1>1, <1>2
  <1>7. QueueOf(nx, q, t, p, T)
    BY <1>2, <1>4, <1>5, <1>6 DEF QueueOf
  <1> QED BY <1>7 DEF T, nx

\* A request is linked to an empty list.
LEMMA QueueFirst ==
  ASSUME NEW next, NEW q, NEW tail, NEW p, NEW S, QueueOf(next, q, tail, p, S), q = NoTask,
         NEW t \in Tasks, \A k \in 1 .. Len(S) : S[k] # t, next[t] = NoTask
  PROVE  QueueOf(next, t, t, p, Append(S, t))
  <1> DEFINE T == Append(S, t)
  <1>1. /\ S \in Seq(Tasks) /\ Distinct(S) /\ Len(S) \in Nat /\ Under(p) \in {0, 1}
        /\ \A k \in 1 .. Len(S) : S[k] \in Tasks /\ S[k] # NoTask
        /\ p # NoTask => Len(S) > 0 /\ p = S[1]
    <2>1. /\ S \in Seq(Tasks) /\ Len(S) \in Nat /\ Under(p) \in {0, 1}
          /\ \A k \in 1 .. Len(S) : S[k] \in Tasks /\ S[k] # NoTask
      BY QueueTasks
    <2>2. Distinct(S) /\ (p # NoTask => Len(S) > 0 /\ p = S[1])
      BY DEF QueueOf
    <2> QED BY <2>1, <2>2
  <1>2. Len(S) = Under(p)
    <2>1. Len(S) <= Under(p)
      <3> SUFFICES ASSUME Len(S) > Under(p)
                   PROVE  FALSE
        BY <1>1
      <3>1. q = S[Under(p) + 1] /\ Under(p) + 1 \in 1 .. Len(S)
        BY <1>1 DEF QueueOf
      <3> QED BY <1>1, <3>1
    <2>2. Under(p) = 1 => Len(S) > 0
      BY <1>1 DEF Under
    <2> QED BY <1>1, <2>1, <2>2
  <1>3. /\ T \in Seq(Tasks) /\ Len(T) = Len(S) + 1 /\ Distinct(T)
        /\ \A k \in 1 .. Len(S) : T[k] = S[k]
        /\ T[Len(S) + 1] = t
    BY <1>1, AppendOne
  <1> HIDE DEF T
  <1>4. QueueOf(next, t, t, p, T)
    BY <1>1, <1>2, <1>3 DEF QueueOf
  <1> QED BY <1>4 DEF T

\* The links of an ARQ.
Links(a) == a.next

\* Reading the list of a queue gives what is not under way.
LEMMA QueueChain ==
  ASSUME NEW a, NEW q, NEW tail, NEW p, NEW S, QueueOf(Links(a), q, tail, p, S)
  PROVE  \A n \in Nat : Cardinality(Tasks) <= n => Chain(a, q, n) = Waiting(p, S)
  <1> SUFFICES ASSUME NEW n \in Nat, Cardinality(Tasks) <= n
               PROVE  Chain(a, q, n) = Waiting(p, S)
    OBVIOUS
  <1>1. CASE p = NoTask
    <2>1. Linked(a, q, S)
      BY <1>1, QueueTasks DEF QueueOf, Linked, Under, Links
    <2>2. Len(S) \in Nat /\ Cardinality(Tasks) \in Nat /\ Len(S) <= Cardinality(Tasks)
      BY NoLongerThanTasks DEF QueueOf, Distinct
    <2>3. Chain(a, q, n) = S
      BY <2>1, <2>2, ChainIs
    <2> QED BY <1>1, <2>3 DEF Waiting
  <1>2. CASE p # NoTask
    <2> DEFINE T == Tail(S)
    <2>1. QueueOf(Links(a), q, tail, NoTask, T)
      BY <1>2, QueueEnd
    <2> HIDE DEF T
    <2>2. Linked(a, q, T)
      BY <2>1, QueueTasks DEF QueueOf, Linked, Under, Links
    <2>3. Len(T) \in Nat /\ Cardinality(Tasks) \in Nat /\ Len(T) <= Cardinality(Tasks)
      BY <2>1, NoLongerThanTasks DEF QueueOf, Distinct
    <2>4. Chain(a, q, n) = T
      BY <2>2, <2>3, ChainIs
    <2> QED BY <1>2, <2>4 DEF T, Waiting
  <1> QED BY <1>1, <1>2

-----------------------------------------------------------------------------
(* The two queues of an ARQ, its callbacks in C. *)

ArqRecord(C) ==
  [next : [Tasks -> Tasks \cup {NoTask}], length : [Tasks -> Nat], callback : [Tasks -> C],
   queueHi : Tasks \cup {NoTask}, tailHi : Tasks \cup {NoTask},
   pendingHi : Tasks \cup {NoTask}, callbackHi : C,
   queueLo : Tasks \cup {NoTask}, tailLo : Tasks \cup {NoTask},
   pendingLo : Tasks \cup {NoTask}, callbackLo : C]

\* The requests outstanding, in the order in which they were posted.
Represents(C, a, H, L) ==
  /\ a \in ArqRecord(C)
  /\ QueueOf(a.next, a.queueHi, a.tailHi, a.pendingHi, H)
  /\ QueueOf(a.next, a.queueLo, a.tailLo, a.pendingLo, L)
  /\ \A j \in 1 .. Len(H) : \A k \in 1 .. Len(L) : H[j] # L[k]
  /\ \A k \in 1 .. Len(H) : a.callback[H[k]] # NoCall
  /\ \A k \in 1 .. Len(L) : a.callback[L[k]] # NoCall
  /\ a.callbackHi = IF a.pendingHi = NoTask THEN NoCall ELSE a.callback[a.pendingHi]
  /\ a.callbackLo # NoCall =>
       a.pendingLo # NoTask /\ a.callbackLo = a.callback[a.pendingLo]

\* Something is being transferred while there is something to transfer.
Busy(a, H, L) == Idle(a) => Len(H) = 0 /\ Len(L) = 0

\* __ARQPopTaskQueueHi with an empty queue does nothing, with another it starts the
\* transfer of the head.
LEMMA PopHi ==
  ASSUME NEW C, NEW a, NEW H, NEW L, Represents(C, a, H, L), a.pendingHi = NoTask,
         a.queueHi # NoTask
  PROVE  /\ Represents(C, PopTaskQueueHi(a), H, L)
         /\ PopTaskQueueHi(a).pendingHi # NoTask
         /\ PopTaskQueueHi(a).callback = a.callback
  <1> DEFINE b == [a EXCEPT !.callbackHi = a.callback[a.queueHi],
                            !.pendingHi = a.queueHi,
                            !.queueHi = a.next[a.queueHi]]
  <1>1. PopTaskQueueHi(a) = b
    BY DEF PopTaskQueueHi
  <1>2. a \in ArqRecord(C) /\ a.queueHi \in Tasks
    BY DEF Represents, ArqRecord
  <1>3. /\ b.next = a.next /\ b.length = a.length /\ b.callback = a.callback
        /\ b.queueHi = a.next[a.queueHi] /\ b.tailHi = a.tailHi /\ b.pendingHi = a.queueHi
        /\ b.callbackHi = a.callback[a.queueHi]
        /\ b.queueLo = a.queueLo /\ b.tailLo = a.tailLo /\ b.pendingLo = a.pendingLo
        /\ b.callbackLo = a.callbackLo
    BY <1>2 DEF ArqRecord
  <1>4. b \in ArqRecord(C)
    <2>1. a.next[a.queueHi] \in Tasks \cup {NoTask} /\ a.callback[a.queueHi] \in C
      BY <1>2 DEF ArqRecord
    <2> QED BY <1>2, <2>1 DEF ArqRecord
  <1> HIDE DEF b
  <1>5. QueueOf(b.next, b.queueHi, b.tailHi, b.pendingHi, H)
    BY <1>3, QueueStart DEF Represents
  <1>6. Represents(C, b, H, L)
    BY <1>2, <1>3, <1>4, <1>5, ArqAssumption DEF Represents
  <1> QED BY <1>1, <1>3, <1>6

\* StartChunk touches the length and arms the callback.
LEMMA Chunk ==
  ASSUME NEW C, NEW a, NEW H, NEW L, Represents(C, a, H, L), a.pendingLo # NoTask
  PROVE  /\ Represents(C, StartChunk(a), H, L)
         /\ StartChunk(a).pendingLo # NoTask
         /\ StartChunk(a).callback = a.callback
  <1> DEFINE t == a.pendingLo
             c == IF a.length[t] <= 1 THEN a.callback[t] ELSE a.callbackLo
             n == IF a.length[t] <= 1 THEN Wrapped ELSE a.length[t] - 1
             len == [a.length EXCEPT ![t] = n]
             b == [a EXCEPT !.callbackLo = c, !.length = len]
  <1>1. a \in ArqRecord(C) /\ t \in Tasks /\ a.length \in [Tasks -> Nat]
        /\ a.length[t] \in Nat
    BY DEF Represents, ArqRecord
  <1>2. StartChunk(a) = b
    BY <1>1 DEF StartChunk, ArqRecord
  <1>3. n \in Nat
    <2>1. Wrapped \in Nat
      BY DEF Wrapped
    <2> QED BY <1>1, <2>1
  <1>4. c \in C
    BY <1>1 DEF ArqRecord
  <1>5. len \in [Tasks -> Nat]
    BY <1>1, <1>3
  <1>6. c # NoCall => c = a.callback[t]
    BY DEF Represents
  <1> HIDE DEF t, c, n, len
  <1>7. /\ b.next = a.next /\ b.callback = a.callback
        /\ b.queueHi = a.queueHi /\ b.tailHi = a.tailHi /\ b.pendingHi = a.pendingHi
        /\ b.callbackHi = a.callbackHi
        /\ b.queueLo = a.queueLo /\ b.tailLo = a.tailLo /\ b.pendingLo = a.pendingLo
        /\ b.callbackLo = c
    BY <1>1 DEF ArqRecord
  <1>8. b \in ArqRecord(C)
    BY <1>1, <1>4, <1>5 DEF ArqRecord
  <1> HIDE DEF b
  <1>9. Represents(C, b, H, L)
    BY <1>6, <1>7, <1>8 DEF Represents, t
  <1> QED BY <1>2, <1>7, <1>9

\* The head of the low priority queue is taken, when no transfer is under way.
LEMMA PopLo ==
  ASSUME NEW C, NEW a, NEW H, NEW L, Represents(C, a, H, L), a.pendingLo = NoTask,
         a.queueLo # NoTask, NEW b,
         b = [a EXCEPT !.pendingLo = a.queueLo, !.queueLo = a.next[a.queueLo]]
  PROVE  Represents(C, b, H, L) /\ b.pendingLo # NoTask /\ b.callback = a.callback
  <1>2. a \in ArqRecord(C) /\ a.queueLo \in Tasks
    BY DEF Represents, ArqRecord
  <1>3. /\ b.next = a.next /\ b.length = a.length /\ b.callback = a.callback
        /\ b.queueHi = a.queueHi /\ b.tailHi = a.tailHi /\ b.pendingHi = a.pendingHi
        /\ b.callbackHi = a.callbackHi
        /\ b.queueLo = a.next[a.queueLo] /\ b.tailLo = a.tailLo /\ b.pendingLo = a.queueLo
        /\ b.callbackLo = a.callbackLo
    BY <1>2 DEF ArqRecord
  <1>4. b \in ArqRecord(C)
    <2>1. a.next[a.queueLo] \in Tasks \cup {NoTask}
      BY <1>2 DEF ArqRecord
    <2> QED BY <1>2, <2>1 DEF ArqRecord
  <1>5. QueueOf(b.next, b.queueLo, b.tailLo, b.pendingLo, L)
    BY <1>3, QueueStart DEF Represents
  <1>6. Represents(C, b, H, L)
    BY <1>3, <1>4, <1>5 DEF Represents
  <1> QED BY <1>3, <1>6

\* What is started when nothing of high priority is under way is outstanding before
\* and after, and something is started if there is anything.
LEMMA StartsNext ==
  ASSUME NEW C, NEW a, NEW H, NEW L, Represents(C, a, H, L), a.pendingHi = NoTask
  PROVE  /\ Represents(C, StartNext(a), H, L) /\ Busy(StartNext(a), H, L)
         /\ StartNext(a).callback = a.callback
  <1>1. CASE a.queueHi # NoTask
    <2>1. StartNext(a) = PopTaskQueueHi(a)
      BY <1>1, PopHi DEF StartNext
    <2> QED BY <1>1, <2>1, PopHi DEF Busy, Idle
  <1>2. CASE a.queueHi = NoTask /\ a.pendingLo # NoTask
    <2>1. PopTaskQueueHi(a) = a
      BY <1>2 DEF PopTaskQueueHi
    <2>2. StartNext(a) = StartChunk(a)
      BY <1>2, <2>1 DEF StartNext, ServiceQueueLo
    <2> QED BY <1>2, <2>2, Chunk DEF Busy, Idle
  <1>3. CASE a.queueHi = NoTask /\ a.pendingLo = NoTask /\ a.queueLo # NoTask
    <2> DEFINE b == [a EXCEPT !.pendingLo = a.queueLo, !.queueLo = a.next[a.queueLo]]
    <2>1. PopTaskQueueHi(a) = a
      BY <1>3 DEF PopTaskQueueHi
    <2>2. Represents(C, b, H, L) /\ b.pendingLo # NoTask /\ b.callback = a.callback
      BY <1>3, PopLo
    <2>3. StartNext(a) = StartChunk(b)
      BY <1>3, <2>1, <2>2 DEF StartNext, ServiceQueueLo
    <2> HIDE DEF b
    <2> QED BY <2>2, <2>3, Chunk DEF Busy, Idle
  <1>4. CASE a.queueHi = NoTask /\ a.pendingLo = NoTask /\ a.queueLo = NoTask
    <2>1. StartNext(a) = a
      BY <1>4 DEF StartNext, ServiceQueueLo, PopTaskQueueHi
    <2>2. QueueOf(a.next, NoTask, a.tailHi, NoTask, H) /\ QueueOf(a.next, NoTask, a.tailLo, NoTask, L)
      BY <1>4 DEF Represents
    <2>3. \A q, t, S : QueueOf(a.next, q, t, NoTask, S) /\ q = NoTask => Len(S) = 0
      <3> SUFFICES ASSUME NEW q, NEW t, NEW S, QueueOf(a.next, q, t, NoTask, S), Len(S) # 0
                   PROVE  q # NoTask
        OBVIOUS
      <3>1. Len(S) \in Nat /\ \A k \in 1 .. Len(S) : S[k] # NoTask
        BY QueueTasks
      <3>2. q = S[1]
        BY <3>1 DEF QueueOf, Under
      <3> QED BY <3>1, <3>2
    <2> QED BY <2>1, <2>2, <2>3 DEF Busy
  <1> QED BY <1>1, <1>2, <1>3, <1>4

-----------------------------------------------------------------------------
(* decomp_ARQPostRequest *)

Absent(t, S) == \A k \in 1 .. Len(S) : S[k] # t

\* Request t filled in, with a transfer of n chunks.
WithFields(a, t, n, call) ==
  [a EXCEPT !.next[t] = NoTask, !.length[t] = n, !.callback[t] = call]

\* The fields of a request that is not outstanding are nobody else's.
LEMMA FieldsSet ==
  ASSUME NEW C, NEW a, NEW H, NEW L, Represents(C, a, H, L),
         NEW t \in Tasks, Absent(t, H), Absent(t, L), NEW n \in Nat, NEW call \in C
  PROVE  /\ Represents(C, WithFields(a, t, n, call), H, L)
         /\ WithFields(a, t, n, call).next[t] = NoTask
         /\ WithFields(a, t, n, call).callback = [a.callback EXCEPT ![t] = call]
         /\ WithFields(a, t, n, call).callback[t] = call
         /\ WithFields(a, t, n, call).pendingHi = a.pendingHi
         /\ WithFields(a, t, n, call).pendingLo = a.pendingLo
  <1> DEFINE b == WithFields(a, t, n, call)
             nx == [a.next EXCEPT ![t] = NoTask]
             len == [a.length EXCEPT ![t] = n]
             cb == [a.callback EXCEPT ![t] = call]
  <1>1. /\ a \in ArqRecord(C) /\ a.next \in [Tasks -> Tasks \cup {NoTask}]
        /\ a.length \in [Tasks -> Nat] /\ a.callback \in [Tasks -> C]
    BY DEF Represents, ArqRecord
  <1>2. b = [a EXCEPT !.next = nx, !.length = len, !.callback = cb]
    BY <1>1 DEF ArqRecord, WithFields
  <1>3. /\ nx \in [Tasks -> Tasks \cup {NoTask}] /\ len \in [Tasks -> Nat]
        /\ cb \in [Tasks -> C]
    BY <1>1, ArqAssumption
  <1>4. /\ nx[t] = NoTask /\ cb[t] = call
        /\ \A x \in Tasks : x # t => nx[x] = a.next[x] /\ cb[x] = a.callback[x]
    BY <1>1
  <1> HIDE DEF nx, len, cb, b
  <1>5. /\ b.next = nx /\ b.callback = cb
        /\ b.queueHi = a.queueHi /\ b.tailHi = a.tailHi /\ b.pendingHi = a.pendingHi
        /\ b.callbackHi = a.callbackHi
        /\ b.queueLo = a.queueLo /\ b.tailLo = a.tailLo /\ b.pendingLo = a.pendingLo
        /\ b.callbackLo = a.callbackLo
    BY <1>1, <1>2 DEF ArqRecord
  <1>6. b \in ArqRecord(C)
    BY <1>1, <1>2, <1>3 DEF ArqRecord
  <1>7. /\ QueueOf(a.next, a.queueHi, a.tailHi, a.pendingHi, H)
        /\ QueueOf(a.next, a.queueLo, a.tailLo, a.pendingLo, L)
    BY DEF Represents
  <1>8. /\ \A k \in 1 .. Len(H) : H[k] \in Tasks /\ H[k] # t
        /\ \A k \in 1 .. Len(L) : L[k] \in Tasks /\ L[k] # t
    BY <1>7, QueueTasks DEF Absent
  <1>9. /\ QueueOf(nx, a.queueHi, a.tailHi, a.pendingHi, H)
        /\ QueueOf(nx, a.queueLo, a.tailLo, a.pendingLo, L)
    BY <1>4, <1>7, <1>8, QueueFrame
  <1>10. /\ \A k \in 1 .. Len(H) : cb[H[k]] = a.callback[H[k]]
         /\ \A k \in 1 .. Len(L) : cb[L[k]] = a.callback[L[k]]
    BY <1>4, <1>8
  <1>11. /\ a.pendingHi # NoTask => cb[a.pendingHi] = a.callback[a.pendingHi]
         /\ a.pendingLo # NoTask => cb[a.pendingLo] = a.callback[a.pendingLo]
    <2>1. /\ a.pendingHi # NoTask => 1 \in 1 .. Len(H) /\ a.pendingHi = H[1]
          /\ a.pendingLo # NoTask => 1 \in 1 .. Len(L) /\ a.pendingLo = L[1]
      BY <1>7, QueueTasks DEF QueueOf
    <2> QED BY <1>10, <2>1
  <1>12. Represents(C, b, H, L)
    BY <1>5, <1>6, <1>9, <1>10, <1>11 DEF Represents
  <1> QED BY <1>4, <1>5, <1>12 DEF cb, b

\* A request whose fields are set is linked to the low priority queue.
LEMMA EnqLo ==
  ASSUME NEW C, NEW a, NEW H, NEW L, Represents(C, a, H, L),
         NEW t \in Tasks, Absent(t, H), Absent(t, L), a.next[t] = NoTask, a.callback[t] # NoCall
  PROVE  /\ Represents(C, EnqueueLo(a, t), H, Append(L, t))
         /\ EnqueueLo(a, t).callback = a.callback
         /\ EnqueueLo(a, t).pendingHi = a.pendingHi
         /\ EnqueueLo(a, t).pendingLo = a.pendingLo
  <1> DEFINE nx == IF a.queueLo # NoTask THEN [a.next EXCEPT ![a.tailLo] = t] ELSE a.next
             q == IF a.queueLo # NoTask THEN a.queueLo ELSE t
             b == [a EXCEPT !.next = nx, !.queueLo = q, !.tailLo = t]
  <1>1. /\ a \in ArqRecord(C) /\ a.next \in [Tasks -> Tasks \cup {NoTask}]
        /\ a.queueLo # NoTask => a.queueLo \in Tasks /\ a.tailLo \in Tasks
    BY QueueTasks DEF Represents, ArqRecord
  <1>2. EnqueueLo(a, t) = b
    BY <1>1 DEF EnqueueLo, ArqRecord
  <1>3. nx \in [Tasks -> Tasks \cup {NoTask}] /\ q \in Tasks
    BY <1>1
  <1>4. QueueOf(nx, q, t, a.pendingLo, Append(L, t))
    <2>1. QueueOf(a.next, a.queueLo, a.tailLo, a.pendingLo, L)
      BY DEF Represents
    <2>2. CASE a.queueLo # NoTask
      BY <1>1, <2>1, <2>2, QueueAppend DEF Absent
    <2>3. CASE a.queueLo = NoTask
      <3>1. QueueOf(a.next, t, t, a.pendingLo, Append(L, t))
        BY <2>1, <2>3, QueueFirst DEF Absent
      <3> QED BY <2>3, <3>1
    <2> QED BY <2>2, <2>3
  <1>5. QueueOf(nx, a.queueHi, a.tailHi, a.pendingHi, H)
    <2>1. /\ QueueOf(a.next, a.queueHi, a.tailHi, a.pendingHi, H)
          /\ QueueOf(a.next, a.queueLo, a.tailLo, a.pendingLo, L)
      BY DEF Represents
    <2>2. a.queueLo # NoTask => Len(L) \in 1 .. Len(L) /\ a.tailLo = L[Len(L)]
      BY <2>1, QueueTasks
    <2>3. \A k \in 1 .. Len(H) : H[k] \in Tasks /\ (a.queueLo # NoTask => H[k] # a.tailLo)
      BY <2>1, <2>2, QueueTasks DEF Represents
    <2>4. \A k \in 1 .. Len(H) : nx[H[k]] = a.next[H[k]]
      BY <1>1, <2>3
    <2> HIDE DEF nx
    <2> QED BY <2>1, <2>4, QueueFrame
  <1> HIDE DEF nx, q
  <1>6. /\ b.next = nx /\ b.callback = a.callback
        /\ b.queueLo = q /\ b.tailLo = t /\ b.pendingLo = a.pendingLo
        /\ b.callbackLo = a.callbackLo
        /\ b.queueHi = a.queueHi /\ b.tailHi = a.tailHi /\ b.pendingHi = a.pendingHi
        /\ b.callbackHi = a.callbackHi
    BY <1>1 DEF ArqRecord
  <1>7. b \in ArqRecord(C)
    BY <1>1, <1>3 DEF ArqRecord
  <1> HIDE DEF b
  <1> DEFINE T == Append(L, t)
  <1>8. /\ Len(L) \in Nat /\ Len(T) = Len(L) + 1
        /\ \A k \in 1 .. Len(T) : (k \in 1 .. Len(L) /\ T[k] = L[k]) \/ T[k] = t
    <2>1. L \in Seq(Tasks) /\ Len(L) \in Nat
      BY DEF Represents, QueueOf
    <2> QED BY <2>1
  <1>9. QueueOf(nx, q, t, a.pendingLo, T)
    BY <1>4
  <1> HIDE DEF T
  <1>10. /\ \A j \in 1 .. Len(T) : \A k \in 1 .. Len(H) : T[j] # H[k]
         /\ \A k \in 1 .. Len(T) : a.callback[T[k]] # NoCall
    BY <1>8 DEF Represents, Absent
  <1>11. Represents(C, b, H, T)
    BY <1>5, <1>6, <1>7, <1>9, <1>10 DEF Represents
  <1> QED BY <1>2, <1>6, <1>11 DEF T

\* A request whose fields are set is linked to the high priority queue.
LEMMA EnqHi ==
  ASSUME NEW C, NEW a, NEW H, NEW L, Represents(C, a, H, L),
         NEW t \in Tasks, Absent(t, H), Absent(t, L), a.next[t] = NoTask, a.callback[t] # NoCall
  PROVE  /\ Represents(C, EnqueueHi(a, t), Append(H, t), L)
         /\ EnqueueHi(a, t).callback = a.callback
         /\ EnqueueHi(a, t).pendingHi = a.pendingHi
         /\ EnqueueHi(a, t).pendingLo = a.pendingLo
  <1> DEFINE nx == IF a.queueHi # NoTask THEN [a.next EXCEPT ![a.tailHi] = t] ELSE a.next
             q == IF a.queueHi # NoTask THEN a.queueHi ELSE t
             b == [a EXCEPT !.next = nx, !.queueHi = q, !.tailHi = t]
  <1>1. /\ a \in ArqRecord(C) /\ a.next \in [Tasks -> Tasks \cup {NoTask}]
        /\ a.queueHi # NoTask => a.queueHi \in Tasks /\ a.tailHi \in Tasks
    BY QueueTasks DEF Represents, ArqRecord
  <1>2. EnqueueHi(a, t) = b
    BY <1>1 DEF EnqueueHi, ArqRecord
  <1>3. nx \in [Tasks -> Tasks \cup {NoTask}] /\ q \in Tasks
    BY <1>1
  <1>4. QueueOf(nx, q, t, a.pendingHi, Append(H, t))
    <2>1. QueueOf(a.next, a.queueHi, a.tailHi, a.pendingHi, H)
      BY DEF Represents
    <2>2. CASE a.queueHi # NoTask
      BY <1>1, <2>1, <2>2, QueueAppend DEF Absent
    <2>3. CASE a.queueHi = NoTask
      <3>1. QueueOf(a.next, t, t, a.pendingHi, Append(H, t))
        BY <2>1, <2>3, QueueFirst DEF Absent
      <3> QED BY <2>3, <3>1
    <2> QED BY <2>2, <2>3
  <1>5. QueueOf(nx, a.queueLo, a.tailLo, a.pendingLo, L)
    <2>1. /\ QueueOf(a.next, a.queueLo, a.tailLo, a.pendingLo, L)
          /\ QueueOf(a.next, a.queueHi, a.tailHi, a.pendingHi, H)
      BY DEF Represents
    <2>2. a.queueHi # NoTask => Len(H) \in 1 .. Len(H) /\ a.tailHi = H[Len(H)]
      BY <2>1, QueueTasks
    <2>3. \A k \in 1 .. Len(L) : L[k] \in Tasks /\ (a.queueHi # NoTask => L[k] # a.tailHi)
      BY <2>1, <2>2, QueueTasks DEF Represents
    <2>4. \A k \in 1 .. Len(L) : nx[L[k]] = a.next[L[k]]
      BY <1>1, <2>3
    <2> HIDE DEF nx
    <2> QED BY <2>1, <2>4, QueueFrame
  <1> HIDE DEF nx, q
  <1>6. /\ b.next = nx /\ b.callback = a.callback
        /\ b.queueHi = q /\ b.tailHi = t /\ b.pendingHi = a.pendingHi
        /\ b.callbackHi = a.callbackHi
        /\ b.queueLo = a.queueLo /\ b.tailLo = a.tailLo /\ b.pendingLo = a.pendingLo
        /\ b.callbackLo = a.callbackLo
    BY <1>1 DEF ArqRecord
  <1>7. b \in ArqRecord(C)
    BY <1>1, <1>3 DEF ArqRecord
  <1> HIDE DEF b
  <1> DEFINE T == Append(H, t)
  <1>8. /\ Len(H) \in Nat /\ Len(T) = Len(H) + 1
        /\ \A k \in 1 .. Len(T) : (k \in 1 .. Len(H) /\ T[k] = H[k]) \/ T[k] = t
    <2>1. H \in Seq(Tasks) /\ Len(H) \in Nat
      BY DEF Represents, QueueOf
    <2> QED BY <2>1
  <1>9. QueueOf(nx, q, t, a.pendingHi, T)
    BY <1>4
  <1> HIDE DEF T
  <1>10. /\ \A j \in 1 .. Len(T) : \A k \in 1 .. Len(L) : T[j] # L[k]
         /\ \A k \in 1 .. Len(T) : a.callback[T[k]] # NoCall
    BY <1>8 DEF Represents, Absent
  <1>11. Represents(C, b, T, L)
    BY <1>5, <1>6, <1>7, <1>9, <1>10 DEF Represents
  <1> QED BY <1>2, <1>6, <1>11 DEF T

\* A low priority request that is not outstanding is posted: it comes last.
LEMMA PostsLo ==
  ASSUME NEW C, NEW a, NEW H, NEW L, Represents(C, a, H, L),
         NEW t \in Tasks, Absent(t, H), Absent(t, L), NEW call \in C, call # NoCall
  PROVE  /\ Represents(C, PostRequest(a, t, "low", call), H, Append(L, t))
         /\ Busy(PostRequest(a, t, "low", call), H, Append(L, t))
         /\ PostRequest(a, t, "low", call).callback = [a.callback EXCEPT ![t] = call]
  <1> DEFINE set == WithFields(a, t, Chunks, call)
             enq == EnqueueLo(set, t)
             b == PostRequest(a, t, "low", call)
  <1>1. Represents(C, set, H, L) /\ set.next[t] = NoTask /\ set.callback[t] # NoCall
    <2>1. /\ Represents(C, set, H, L) /\ set.next[t] = NoTask
          /\ set.callback = [a.callback EXCEPT ![t] = call] /\ set.callback[t] = call
      BY FieldsSet, ArqAssumption
    <2> QED BY <2>1
  <1>6. set.callback = [a.callback EXCEPT ![t] = call]
    BY FieldsSet, ArqAssumption
  <1>2. b = IF Idle(enq) THEN StartNext(enq) ELSE enq
    BY DEF PostRequest, WithFields
  <1> HIDE DEF set
  <1>3. Represents(C, enq, H, Append(L, t)) /\ enq.callback = set.callback
    BY <1>1, EnqLo
  <1> HIDE DEF enq, b
  <1>4. CASE Idle(enq)
    <2>1. enq.pendingHi = NoTask
      BY <1>4 DEF Idle
    <2> QED BY <1>2, <1>3, <1>4, <1>6, <2>1, StartsNext DEF b
  <1>5. CASE ~Idle(enq)
    BY <1>2, <1>3, <1>5, <1>6 DEF Busy, b
  <1> QED BY <1>4, <1>5

\* A high priority request that is not outstanding is posted: it comes last.
LEMMA PostsHi ==
  ASSUME NEW C, NEW a, NEW H, NEW L, Represents(C, a, H, L),
         NEW t \in Tasks, Absent(t, H), Absent(t, L), NEW call \in C, call # NoCall
  PROVE  /\ Represents(C, PostRequest(a, t, "high", call), Append(H, t), L)
         /\ Busy(PostRequest(a, t, "high", call), Append(H, t), L)
         /\ PostRequest(a, t, "high", call).callback = [a.callback EXCEPT ![t] = call]
  <1> DEFINE set == WithFields(a, t, Chunks, call)
             enq == EnqueueHi(set, t)
             b == PostRequest(a, t, "high", call)
  <1>1. Represents(C, set, H, L) /\ set.next[t] = NoTask /\ set.callback[t] # NoCall
    <2>1. /\ Represents(C, set, H, L) /\ set.next[t] = NoTask
          /\ set.callback = [a.callback EXCEPT ![t] = call] /\ set.callback[t] = call
      BY FieldsSet, ArqAssumption
    <2> QED BY <2>1
  <1>6. set.callback = [a.callback EXCEPT ![t] = call]
    BY FieldsSet, ArqAssumption
  <1>2. b = IF Idle(enq) THEN StartNext(enq) ELSE enq
    BY DEF PostRequest, WithFields
  <1> HIDE DEF set
  <1>3. Represents(C, enq, Append(H, t), L) /\ enq.callback = set.callback
    BY <1>1, EnqHi
  <1> HIDE DEF enq, b
  <1>4. CASE Idle(enq)
    <2>1. enq.pendingHi = NoTask
      BY <1>4 DEF Idle
    <2> QED BY <1>2, <1>3, <1>4, <1>6, <2>1, StartsNext DEF b
  <1>5. CASE ~Idle(enq)
    BY <1>2, <1>3, <1>5, <1>6 DEF Busy, b
  <1> QED BY <1>4, <1>5

-----------------------------------------------------------------------------
(* __ARQInterruptServiceRoutine *)

\* The high priority transfer is cleared.
EndedHi(a) == [a EXCEPT !.pendingHi = NoTask, !.callbackHi = NoCall]

\* A high priority transfer ends: its request is the oldest one, and leaves.
LEMMA EndsHi ==
  ASSUME NEW C, NoCall \in C, NEW a, NEW H, NEW L, Represents(C, a, H, L),
         a.callbackHi # NoCall
  PROVE  /\ Represents(C, EndedHi(a), Tail(H), L)
         /\ EndedHi(a).pendingHi = NoTask
         /\ EndedHi(a).pendingLo = a.pendingLo
         /\ EndedHi(a).callback = a.callback
         /\ Len(H) > 0 /\ a.pendingHi = H[1] /\ a.callbackHi = a.callback[H[1]]
  <1> DEFINE b == EndedHi(a)
  <1>1. a \in ArqRecord(C) /\ a.pendingHi # NoTask /\ a.callbackHi = a.callback[a.pendingHi]
    BY DEF Represents
  <1>2. /\ b.next = a.next /\ b.callback = a.callback
        /\ b.queueHi = a.queueHi /\ b.tailHi = a.tailHi /\ b.pendingHi = NoTask
        /\ b.callbackHi = NoCall
        /\ b.queueLo = a.queueLo /\ b.tailLo = a.tailLo /\ b.pendingLo = a.pendingLo
        /\ b.callbackLo = a.callbackLo
    BY <1>1 DEF ArqRecord, EndedHi
  <1>3. b \in ArqRecord(C)
    BY <1>1 DEF ArqRecord, EndedHi
  <1> HIDE DEF b
  <1>4. QueueOf(a.next, a.queueHi, a.tailHi, a.pendingHi, H)
    BY DEF Represents
  <1>5. H \in Seq(Tasks) /\ Len(H) \in Nat /\ Len(H) > 0 /\ a.pendingHi = H[1]
    BY <1>1, <1>4 DEF QueueOf
  <1> DEFINE T == Tail(H)
  <1>6. QueueOf(a.next, a.queueHi, a.tailHi, NoTask, T)
    BY <1>1, <1>4, QueueEnd
  <1>7. \A k \in 1 .. Len(T) : k + 1 \in 1 .. Len(H) /\ T[k] = H[k + 1]
    BY <1>5
  <1> HIDE DEF T
  <1>8. /\ \A j \in 1 .. Len(T) : \A k \in 1 .. Len(L) : T[j] # L[k]
        /\ \A k \in 1 .. Len(T) : a.callback[T[k]] # NoCall
    BY <1>7 DEF Represents
  <1>9. Represents(C, b, T, L)
    BY <1>2, <1>3, <1>6, <1>8 DEF Represents
  <1> QED BY <1>1, <1>2, <1>5, <1>9 DEF T, b

\* The low priority transfer is cleared.
EndedLo(a) == [a EXCEPT !.pendingLo = NoTask, !.callbackLo = NoCall]

\* A low priority transfer ends: its request is the oldest one, and leaves.
LEMMA EndsLo ==
  ASSUME NEW C, NoCall \in C, NEW a, NEW H, NEW L, Represents(C, a, H, L),
         a.callbackLo # NoCall
  PROVE  /\ Represents(C, EndedLo(a), H, Tail(L))
         /\ EndedLo(a).pendingLo = NoTask
         /\ EndedLo(a).pendingHi = a.pendingHi
         /\ EndedLo(a).callback = a.callback
         /\ Len(L) > 0 /\ a.pendingLo = L[1] /\ a.callbackLo = a.callback[L[1]]
  <1> DEFINE b == EndedLo(a)
  <1>1. a \in ArqRecord(C) /\ a.pendingLo # NoTask /\ a.callbackLo = a.callback[a.pendingLo]
    BY DEF Represents
  <1>2. /\ b.next = a.next /\ b.callback = a.callback
        /\ b.queueLo = a.queueLo /\ b.tailLo = a.tailLo /\ b.pendingLo = NoTask
        /\ b.callbackLo = NoCall
        /\ b.queueHi = a.queueHi /\ b.tailHi = a.tailHi /\ b.pendingHi = a.pendingHi
        /\ b.callbackHi = a.callbackHi
    BY <1>1 DEF ArqRecord, EndedLo
  <1>3. b \in ArqRecord(C)
    BY <1>1 DEF ArqRecord, EndedLo
  <1> HIDE DEF b
  <1>4. QueueOf(a.next, a.queueLo, a.tailLo, a.pendingLo, L)
    BY DEF Represents
  <1>5. L \in Seq(Tasks) /\ Len(L) \in Nat /\ Len(L) > 0 /\ a.pendingLo = L[1]
    BY <1>1, <1>4 DEF QueueOf
  <1> DEFINE T == Tail(L)
  <1>6. QueueOf(a.next, a.queueLo, a.tailLo, NoTask, T)
    BY <1>1, <1>4, QueueEnd
  <1>7. \A k \in 1 .. Len(T) : k + 1 \in 1 .. Len(L) /\ T[k] = L[k + 1]
    BY <1>5
  <1> HIDE DEF T
  <1>8. /\ \A j \in 1 .. Len(T) : \A k \in 1 .. Len(H) : T[j] # H[k]
        /\ \A k \in 1 .. Len(T) : a.callback[T[k]] # NoCall
    BY <1>7 DEF Represents
  <1>9. Represents(C, b, H, T)
    BY <1>2, <1>3, <1>6, <1>8 DEF Represents
  <1> QED BY <1>1, <1>2, <1>5, <1>9 DEF T, b

\* A high priority transfer under way always has its callback armed.
LEMMA HiFires ==
  ASSUME NEW C, NEW a, NEW H, NEW L, Represents(C, a, H, L), a.callbackHi = NoCall
  PROVE  a.pendingHi = NoTask
  <1> SUFFICES ASSUME a.pendingHi # NoTask
               PROVE  FALSE
    OBVIOUS
  <1>1. QueueOf(a.next, a.queueHi, a.tailHi, a.pendingHi, H)
    BY DEF Represents
  <1>2. Len(H) \in Nat /\ Len(H) > 0 /\ a.pendingHi = H[1]
    BY <1>1 DEF QueueOf
  <1> QED BY <1>2 DEF Represents

\* The interrupt answers the oldest request of one queue, with the callback it was posted
\* with, or a chunk of a longer transfer has ended.
LEMMA Interrupts ==
  ASSUME NEW C, NoCall \in C, NEW a, NEW H, NEW L, Represents(C, a, H, L)
  PROVE  /\ InterruptServiceRoutine(a).callback = a.callback
         /\ \/ /\ Len(H) > 0 /\ Fired(a) = <<H[1], a.callback[H[1]]>>
               /\ Represents(C, InterruptServiceRoutine(a), Tail(H), L)
               /\ Busy(InterruptServiceRoutine(a), Tail(H), L)
            \/ /\ Len(L) > 0 /\ Fired(a) = <<L[1], a.callback[L[1]]>>
               /\ Represents(C, InterruptServiceRoutine(a), H, Tail(L))
               /\ Busy(InterruptServiceRoutine(a), H, Tail(L))
            \/ /\ Fired(a) = <<NoTask, NoCall>>
               /\ Represents(C, InterruptServiceRoutine(a), H, L)
               /\ Busy(InterruptServiceRoutine(a), H, L)
  <1>1. CASE a.callbackHi # NoCall
    <2> DEFINE b == EndedHi(a)
    <2>1. /\ Represents(C, b, Tail(H), L) /\ b.pendingHi = NoTask /\ b.callback = a.callback
          /\ Len(H) > 0 /\ a.pendingHi = H[1] /\ a.callbackHi = a.callback[H[1]]
      BY <1>1, EndsHi
    <2>2. InterruptServiceRoutine(a) = StartNext(b)
      BY <1>1 DEF InterruptServiceRoutine, EndedHi
    <2>3. Fired(a) = <<H[1], a.callback[H[1]]>>
      BY <1>1, <2>1 DEF Fired
    <2> HIDE DEF b
    <2>4. /\ Represents(C, StartNext(b), Tail(H), L) /\ Busy(StartNext(b), Tail(H), L)
          /\ StartNext(b).callback = b.callback
      BY <2>1, StartsNext
    <2> QED BY <2>1, <2>2, <2>3, <2>4
  <1>2. CASE a.callbackHi = NoCall /\ a.callbackLo # NoCall
    <2> DEFINE b == EndedLo(a)
    <2>1. /\ Represents(C, b, H, Tail(L)) /\ b.pendingLo = NoTask
          /\ b.pendingHi = a.pendingHi /\ b.callback = a.callback
          /\ Len(L) > 0 /\ a.pendingLo = L[1] /\ a.callbackLo = a.callback[L[1]]
      BY <1>2, EndsLo
    <2>2. InterruptServiceRoutine(a) = StartNext(b)
      BY <1>2 DEF InterruptServiceRoutine, EndedLo
    <2>3. Fired(a) = <<L[1], a.callback[L[1]]>>
      BY <1>2, <2>1 DEF Fired
    <2> HIDE DEF b
    <2>4. a.pendingHi = NoTask
      BY <1>2, HiFires
    <2>5. /\ Represents(C, StartNext(b), H, Tail(L)) /\ Busy(StartNext(b), H, Tail(L))
          /\ StartNext(b).callback = b.callback
      BY <2>1, <2>4, StartsNext
    <2> QED BY <2>1, <2>2, <2>3, <2>5
  <1>3. CASE a.callbackHi = NoCall /\ a.callbackLo = NoCall
    <2>1. InterruptServiceRoutine(a) = StartNext(a) /\ Fired(a) = <<NoTask, NoCall>>
      BY <1>3 DEF InterruptServiceRoutine, Fired
    <2>2. a.pendingHi = NoTask
      BY <1>3, HiFires
    <2> QED BY <2>1, <2>2, StartsNext
  <1> QED BY <1>1, <1>2, <1>3

-----------------------------------------------------------------------------
(* Which requests are outstanding. *)

Elements(S) == {S[k] : k \in 1 .. Len(S)}

\* An element of a queue is under way or in its list.
LEMMA QueueElements ==
  ASSUME NEW next, NEW q, NEW tail, NEW p, NEW S, QueueOf(next, q, tail, p, S),
         NEW t \in Tasks
  PROVE  (t = p \/ t \in Elements(Waiting(p, S))) <=> t \in Elements(S)
  <1> DEFINE c == Waiting(p, S)
             In(s) == \E i \in 1 .. Len(s) : s[i] = t
  <1>1. S \in Seq(Tasks) /\ Len(S) \in Nat
    BY QueueTasks
  <1>2. CASE p = NoTask
    BY <1>2, ArqAssumption DEF Elements, Waiting
  <1>3. CASE p # NoTask
    <2>1. Len(S) > 0 /\ p = S[1] /\ c = Tail(S)
      BY <1>3 DEF QueueOf, Waiting
    <2> HIDE DEF c
    <2>2. Len(c) = Len(S) - 1 /\ \A k \in 1 .. Len(c) : c[k] = S[k + 1]
      BY <1>1, <2>1
    <2>3. ASSUME In(S)
          PROVE  t = p \/ In(c)
      <3>1. PICK i \in 1 .. Len(S) : S[i] = t
        BY <2>3
      <3>2. CASE i = 1
        BY <2>1, <3>1, <3>2
      <3>3. CASE i # 1
        <4>1. i - 1 \in 1 .. Len(c) /\ c[i - 1] = t
          BY <1>1, <2>2, <3>1, <3>3
        <4> QED BY <4>1
      <3> QED BY <3>2, <3>3
    <2>4. ASSUME t = p \/ In(c)
          PROVE  In(S)
      <3>1. CASE t = p
        <4>1. 1 \in 1 .. Len(S) /\ S[1] = t
          BY <1>1, <2>1, <3>1
        <4> QED BY <4>1
      <3>2. CASE In(c)
        <4>1. PICK i \in 1 .. Len(c) : c[i] = t
          BY <3>2
        <4>2. i + 1 \in 1 .. Len(S) /\ S[i + 1] = t
          BY <1>1, <2>2, <4>1
        <4> QED BY <4>2
      <3> QED BY <2>4, <3>1, <3>2
    <2> QED BY <2>3, <2>4 DEF Elements, c
  <1> QED BY <1>2, <1>3

\* The links of both queues, read.
LEMMA ChainsAre ==
  ASSUME NEW C, NEW a, NEW H, NEW L, Represents(C, a, H, L)
  PROVE  /\ Chain(a, a.queueHi, Cardinality(Tasks)) = Waiting(a.pendingHi, H)
         /\ Chain(a, a.queueLo, Cardinality(Tasks)) = Waiting(a.pendingLo, L)
  <1> DEFINE n == Cardinality(Tasks)
  <1>1. n \in Nat /\ Cardinality(Tasks) <= n
    BY ArqAssumption, FS_CardinalityType
  <1>2. QueueOf(a.next, a.queueHi, a.tailHi, a.pendingHi, H)
    BY DEF Represents
  <1>3. QueueOf(a.next, a.queueLo, a.tailLo, a.pendingLo, L)
    BY DEF Represents
  <1> HIDE DEF n
  <1>4. Chain(a, a.queueHi, n) = Waiting(a.pendingHi, H)
    <2> DEFINE q == a.queueHi  tail == a.tailHi  p == a.pendingHi
    <2>1. QueueOf(Links(a), q, tail, p, H)
      BY <1>2 DEF Links
    <2>2. Chain(a, q, n) = Waiting(p, H)
      <3> HIDE DEF q, tail, p
      <3>1. \A m \in Nat : Cardinality(Tasks) <= m => Chain(a, q, m) = Waiting(p, H)
        BY <2>1, QueueChain
      <3> QED BY <1>1, <3>1
    <2> QED BY <2>2
  <1>5. Chain(a, a.queueLo, n) = Waiting(a.pendingLo, L)
    <2> DEFINE q == a.queueLo  tail == a.tailLo  p == a.pendingLo
    <2>1. QueueOf(Links(a), q, tail, p, L)
      BY <1>3 DEF Links
    <2>2. Chain(a, q, n) = Waiting(p, L)
      <3> HIDE DEF q, tail, p
      <3>1. \A m \in Nat : Cardinality(Tasks) <= m => Chain(a, q, m) = Waiting(p, L)
        BY <2>1, QueueChain
      <3> QED BY <1>1, <3>1
    <2> QED BY <2>2
  <1> QED BY <1>4, <1>5 DEF n

\* A request under way, and those in its queue.
InOrder(a, p, q) ==
  LET c == Chain(a, q, Cardinality(Tasks)) IN IF p = NoTask THEN c ELSE <<p>> \o c

HiOf(a) == InOrder(a, a.pendingHi, a.queueHi)
LoOf(a) == InOrder(a, a.pendingLo, a.queueLo)

\* A queue is its head and the rest.
LEMMA HeadFirst ==
  ASSUME NEW next, NEW q, NEW tail, NEW p, NEW S, QueueOf(next, q, tail, p, S)
  PROVE  (IF p = NoTask THEN Waiting(p, S) ELSE <<p>> \o Waiting(p, S)) = S
  <1>1. CASE p = NoTask
    BY <1>1 DEF Waiting
  <1>2. CASE p # NoTask
    <2>1. S \in Seq(Tasks) /\ Len(S) > 0 /\ p = S[1] /\ S # <<>>
      BY <1>2 DEF QueueOf
    <2>2. <<p>> \o Tail(S) = S
      <3>1. Tail(S) \in Seq(Tasks) /\ <<p>> \in Seq(Tasks) /\ Len(Tail(S)) = Len(S) - 1
            /\ Len(S) \in Nat /\ <<p>> \o Tail(S) \in Seq(Tasks)
        BY <2>1
      <3>2. Len(<<p>> \o Tail(S)) = Len(S)
        BY <2>1, <3>1
      <3>3. \A k \in 1 .. Len(S) : (<<p>> \o Tail(S))[k] = S[k]
        BY <2>1, <3>1
      <3> QED BY <2>1, <3>1, <3>2, <3>3, SeqEqual
    <2> QED BY <1>2, <2>2 DEF Waiting
  <1> QED BY <1>1, <1>2

\* The two sequences are determined by the queue.
LEMMA InOrderIs ==
  ASSUME NEW C, NEW a, NEW H, NEW L, Represents(C, a, H, L)
  PROVE  HiOf(a) = H /\ LoOf(a) = L
  <1>1. /\ Chain(a, a.queueHi, Cardinality(Tasks)) = Waiting(a.pendingHi, H)
        /\ Chain(a, a.queueLo, Cardinality(Tasks)) = Waiting(a.pendingLo, L)
    BY ChainsAre
  <1>2. QueueOf(a.next, a.queueHi, a.tailHi, a.pendingHi, H)
    BY DEF Represents
  <1>3. QueueOf(a.next, a.queueLo, a.tailLo, a.pendingLo, L)
    BY DEF Represents
  <1>4. (IF a.pendingHi = NoTask THEN Waiting(a.pendingHi, H)
         ELSE <<a.pendingHi>> \o Waiting(a.pendingHi, H)) = H
    BY <1>2, HeadFirst
  <1>5. (IF a.pendingLo = NoTask THEN Waiting(a.pendingLo, L)
         ELSE <<a.pendingLo>> \o Waiting(a.pendingLo, L)) = L
    BY <1>3, HeadFirst
  <1> QED BY <1>1, <1>4, <1>5 DEF HiOf, LoOf, InOrder

\* InFlight finds them through the links.
LEMMA InFlightIs ==
  ASSUME NEW C, NEW a, NEW H, NEW L, Represents(C, a, H, L), NEW t \in Tasks
  PROVE  /\ InFlight(a, t) <=> t \in Elements(H) \cup Elements(L)
         /\ ~InFlight(a, t) <=> Absent(t, H) /\ Absent(t, L)
  <1> DEFINE n == Cardinality(Tasks)
  <1>1. n \in Nat /\ Cardinality(Tasks) <= n
    BY ArqAssumption, FS_CardinalityType
  <1>2. QueueOf(a.next, a.queueHi, a.tailHi, a.pendingHi, H)
    BY DEF Represents
  <1>3. QueueOf(a.next, a.queueLo, a.tailLo, a.pendingLo, L)
    BY DEF Represents
  <1> HIDE DEF n
  <1>4. Chain(a, a.queueHi, n) = Waiting(a.pendingHi, H)
    BY ChainsAre DEF n
  <1>5. Chain(a, a.queueLo, n) = Waiting(a.pendingLo, L)
    BY ChainsAre DEF n
  <1>6. InFlight(a, t) <=> \/ t = a.pendingHi \/ t = a.pendingLo
                           \/ t \in Elements(Chain(a, a.queueHi, n))
                           \/ t \in Elements(Chain(a, a.queueLo, n))
    BY DEF InFlight, Elements, n
  <1>7. InFlight(a, t) <=> t \in Elements(H) \/ t \in Elements(L)
    <2>1. (t = a.pendingHi \/ t \in Elements(Chain(a, a.queueHi, n))) <=> t \in Elements(H)
      BY <1>4, <1>2, QueueElements
    <2>2. (t = a.pendingLo \/ t \in Elements(Chain(a, a.queueLo, n))) <=> t \in Elements(L)
      BY <1>3, <1>5, QueueElements
    <2> QED BY <1>6, <2>1, <2>2
  <1> QED BY <1>7 DEF Elements, Absent
=============================================================================
