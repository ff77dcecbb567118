--------------------------- MODULE HeapUseProofs ---------------------------
(***************************************************************************)
(* Proofs about the heap of Pmalloc and its use in HeapUse, for every size *)
(* of the memory, of a header, of the entries and of the logo's buffers    *)
(* (under NoSliver and Deflated): the two linked lists are the free and    *)
(* the used blocks, which tile the memory.                                 *)
(***************************************************************************)
EXTENDS HeapUse, TLAPS, FiniteSetTheorems, WellFoundedInduction

-----------------------------------------------------------------------------
(* Linked lists as sets of headers. *)

\* m is the first of the headers S from a on, or Null.
IsNext(S, a, m) ==
  \/ m = Null /\ \A b \in S : b <= a
  \/ m \in S /\ a < m /\ \A b \in S : b <= a \/ m <= b

\* m is the last of the headers S in front of a, or Null.
IsPrev(S, a, m) ==
  \/ m = Null /\ \A b \in S : a <= b
  \/ m \in S /\ m < a /\ \A b \in S : a <= b \/ b <= m

IsFirst(S, m) ==
  \/ S = {} /\ m = Null
  \/ m \in S /\ \A b \in S : m <= b

\* The headers S in ascending order are the list from root, linked both ways.
Listed(nx, pv, root, S) ==
  /\ S \subseteq Addr
  /\ IsFirst(S, root)
  /\ \A a \in S : IsNext(S, a, nx[a]) /\ IsPrev(S, a, pv[a])

LEMMA Addresses ==
  /\ Words \in Nat /\ Hdr \in Nat /\ 0 < Hdr /\ Hdr < Words
  /\ Addr \subseteq Nat /\ \A a \in Addr : a < Words /\ a >= 0 /\ a \in Int
  /\ Null \notin Addr /\ Wild \notin Addr /\ Null # Wild
  /\ Null \notin Int /\ Wild \notin Int
  BY HeapAssumption DEF Addr

\* A set of numbers has a least one.
LEMMA LeastNumber ==
  ASSUME NEW S, S \subseteq Nat, S # {}
  PROVE  \E m \in S : \A k \in S : m <= k
  <1> DEFINE L == OpToRel(<, Nat)
  <1>1. IsWellFoundedOn(L, Nat)
    BY NatLessThanWellFounded
  <1>2. \A k, m \in Nat : k < m => <<k, m>> \in L
    BY DEF OpToRel
  <1> HIDE DEF L
  <1>3. \E m \in S : \A k \in S : ~(<<k, m>> \in L)
    BY <1>1, WFMin
  <1>4. PICK m \in S : \A k \in S : ~(<<k, m>> \in L)
    BY <1>3
  <1>5. \A k \in S : m <= k
    <2> SUFFICES ASSUME NEW k \in S
                 PROVE  m <= k
      OBVIOUS
    <2>1. k \in Nat /\ m \in Nat
      OBVIOUS
    <2>2. ~(k < m)
      BY <1>2, <1>4, <2>1
    <2> QED BY <2>1, <2>2
  <1> QED BY <1>5

\* The links nx2 and pv2 are nx and pv with n between its neighbours p and q.
Linking(nx, pv, S, n, p, q, nx2, pv2) ==
  /\ nx2[n] = q /\ pv2[n] = p
  /\ p # Null => nx2[p] = n
  /\ q # Null => pv2[q] = n
  /\ \A a \in S : a # p => nx2[a] = nx[a]
  /\ \A a \in S : a # q => pv2[a] = pv[a]

LEMMA LinkInsert ==
  ASSUME NEW nx, NEW pv, NEW root, NEW S, Listed(nx, pv, root, S),
         NEW n \in Addr, n \notin S,
         NEW p, NEW q, IsPrev(S, n, p), IsNext(S, n, q),
         NEW nx2, NEW pv2, Linking(nx, pv, S, n, p, q, nx2, pv2)
  PROVE  Listed(nx2, pv2, IF p = Null THEN n ELSE root, S \cup {n})
  <1> DEFINE root2 == IF p = Null THEN n ELSE root
  <1>l. /\ nx2[n] = q /\ pv2[n] = p
        /\ p # Null => nx2[p] = n
        /\ q # Null => pv2[q] = n
        /\ \A a \in S : a # p => nx2[a] = nx[a]
        /\ \A a \in S : a # q => pv2[a] = pv[a]
    BY DEF Linking
  <1>1. S \subseteq Addr /\ S \cup {n} \subseteq Addr /\ \A a \in S \cup {n} : a \in Int /\ a # Null
    BY Addresses DEF Listed
  <1>a. /\ p = Null \/ (p \in S /\ p < n)
        /\ \A b \in S : n <= b \/ (p \in S /\ b <= p)
        /\ q = Null \/ (q \in S /\ n < q)
        /\ \A b \in S : b <= n \/ (q \in S /\ q <= b)
    BY DEF IsPrev, IsNext
  <1>2. \A a \in S : a # n /\ (a < n \/ n < a)
    BY <1>1
  <1>3. IsFirst(S \cup {n}, root2)
    <2>1. CASE p = Null
      BY <2>1, <1>1, <1>a DEF IsFirst
    <2>2. CASE p # Null
      <3>1. p \in S /\ p < n /\ root2 = root /\ root \in S /\ \A b \in S : root <= b
        BY <2>2 DEF IsPrev, IsFirst, Listed
      <3>2. root < n
        BY <3>1, <1>1
      <3> QED BY <1>1, <3>1, <3>2 DEF IsFirst
    <2> QED BY <2>1, <2>2
  <1>4. ASSUME NEW a \in S \cup {n}
        PROVE  IsNext(S \cup {n}, a, nx2[a])
    <2>1. CASE a = n
      BY <2>1, <1>1, <1>2, <1>l DEF IsNext
    <2>2. CASE a \in S /\ a = p
      <3>1. nx2[a] = n /\ a < n /\ \A b \in S : n <= b \/ b <= a
        BY <1>1, <2>2, <1>l DEF IsPrev
      <3> QED BY <1>1, <2>2, <3>1 DEF IsNext
    <2>3. CASE a \in S /\ a # p
      <3>1. nx2[a] = nx[a] /\ IsNext(S, a, nx[a])
        BY <2>3, <1>l DEF Listed
      <3>2. a < n => nx[a] \in S /\ nx[a] < n
        <4> SUFFICES ASSUME a < n
                     PROVE  nx[a] \in S /\ nx[a] < n
          OBVIOUS
        <4>1. p \in S /\ p < n /\ a < p
          BY <1>1, <1>a, <2>3
        <4>2. nx[a] \in S /\ nx[a] <= p
          BY <1>1, <2>3, <3>1, <4>1 DEF IsNext
        <4> QED BY <1>1, <4>1, <4>2
      <3>3. CASE a < n
        BY <1>1, <1>2, <3>1, <3>2, <3>3 DEF IsNext
      <3>4. CASE n < a
        BY <1>1, <1>2, <3>1, <3>4 DEF IsNext
      <3> QED BY <1>2, <2>3, <3>3, <3>4
    <2> QED BY <2>1, <2>2, <2>3
  <1>5. ASSUME NEW a \in S \cup {n}
        PROVE  IsPrev(S \cup {n}, a, pv2[a])
    <2>1. CASE a = n
      BY <2>1, <1>1, <1>2, <1>l DEF IsPrev
    <2>2. CASE a \in S /\ a = q
      <3>1. pv2[a] = n /\ n < a /\ \A b \in S : b <= n \/ a <= b
        BY <1>1, <2>2, <1>l DEF IsNext
      <3> QED BY <1>1, <2>2, <3>1 DEF IsPrev
    <2>3. CASE a \in S /\ a # q
      <3>1. pv2[a] = pv[a] /\ IsPrev(S, a, pv[a])
        BY <2>3, <1>l DEF Listed
      <3>2. n < a => pv[a] \in S /\ n < pv[a]
        <4> SUFFICES ASSUME n < a
                     PROVE  pv[a] \in S /\ n < pv[a]
          OBVIOUS
        <4>1. q \in S /\ n < q /\ q < a
          BY <1>1, <1>a, <2>3
        <4>2. pv[a] \in S /\ q <= pv[a]
          BY <1>1, <2>3, <3>1, <4>1 DEF IsPrev
        <4> QED BY <1>1, <4>1, <4>2
      <3>3. CASE n < a
        BY <1>1, <1>2, <3>1, <3>2, <3>3 DEF IsPrev
      <3>4. CASE a < n
        BY <1>1, <1>2, <3>1, <3>4 DEF IsPrev
      <3> QED BY <1>2, <2>3, <3>3, <3>4
    <2> QED BY <2>1, <2>2, <2>3
  <1> QED BY <1>1, <1>3, <1>4, <1>5 DEF Listed

\* The links nx2 and pv2 are nx and pv without n.
Unlinking(nx, pv, S, n, nx2, pv2) ==
  /\ pv[n] # Null => nx2[pv[n]] = nx[n]
  /\ nx[n] # Null => pv2[nx[n]] = pv[n]
  /\ \A a \in S : a # n /\ a # pv[n] => nx2[a] = nx[a]
  /\ \A a \in S : a # n /\ a # nx[n] => pv2[a] = pv[a]

LEMMA LinkRemove ==
  ASSUME NEW nx, NEW pv, NEW root, NEW S, Listed(nx, pv, root, S),
         NEW n \in S, NEW nx2, NEW pv2, Unlinking(nx, pv, S, n, nx2, pv2)
  PROVE  Listed(nx2, pv2,
                IF n # root THEN root ELSE IF pv[n] # Null THEN pv[n] ELSE nx[n], S \ {n})
  <1> DEFINE p == pv[n]
             q == nx[n]
             R == S \ {n}
             root2 == IF n # root THEN root ELSE IF p # Null THEN p ELSE q
  <1>l. /\ p # Null => nx2[p] = q
        /\ q # Null => pv2[q] = p
        /\ \A a \in S : a # n /\ a # p => nx2[a] = nx[a]
        /\ \A a \in S : a # n /\ a # q => pv2[a] = pv[a]
    BY DEF Unlinking
  <1>1. S \subseteq Addr /\ \A a \in S : a \in Int /\ a # Null
    BY Addresses DEF Listed
  <1>2. IsNext(S, n, q) /\ IsPrev(S, n, p)
    BY DEF Listed
  <1>3. \A a \in R : a < n \/ n < a
    BY <1>1
  <1>4. /\ p # Null => p \in R /\ p < n
        /\ q # Null => q \in R /\ n < q
    BY <1>1, <1>2 DEF IsNext, IsPrev
  <1>5. \A a \in R : (a < n => p \in R /\ a <= p) /\ (n < a => q \in R /\ q <= a)
    BY <1>1, <1>2, <1>4 DEF IsNext, IsPrev
  <1>6. IsFirst(R, root2)
    <2>1. CASE n # root
      BY <1>1, <2>1 DEF IsFirst, Listed
    <2>2. CASE n = root
      <3>1. p = Null /\ root2 = q /\ \A b \in R : n < b
        BY <1>1, <1>3, <1>4, <2>2 DEF IsFirst, Listed
      <3> QED BY <1>4, <1>5, <3>1 DEF IsFirst
    <2> QED BY <2>1, <2>2
  <1>7. ASSUME NEW a \in R
        PROVE  IsNext(R, a, nx2[a])
    <2>1. CASE a = p
      <3>1. nx2[a] = q
        BY <1>1, <1>l, <2>1
      <3> QED BY <1>1, <1>2, <1>3, <1>4, <1>5, <2>1, <3>1 DEF IsNext
    <2>2. CASE a # p
      <3>1. nx2[a] = nx[a] /\ IsNext(S, a, nx[a])
        BY <1>l, <2>2 DEF Listed
      <3>2. nx[a] # n
        <4> SUFFICES ASSUME nx[a] = n
                     PROVE  FALSE
          OBVIOUS
        <4>1. a < n /\ \A b \in S : b <= a \/ n <= b
          BY <1>1, <3>1 DEF IsNext
        <4> QED BY <1>1, <1>4, <1>5, <2>2, <4>1
      <3> QED BY <1>1, <3>1, <3>2 DEF IsNext
    <2> QED BY <2>1, <2>2
  <1>8. ASSUME NEW a \in R
        PROVE  IsPrev(R, a, pv2[a])
    <2>1. CASE a = q
      <3>1. pv2[a] = p
        BY <1>1, <1>l, <2>1
      <3> QED BY <1>1, <1>2, <1>3, <1>4, <1>5, <2>1, <3>1 DEF IsPrev
    <2>2. CASE a # q
      <3>1. pv2[a] = pv[a] /\ IsPrev(S, a, pv[a])
        BY <1>l, <2>2 DEF Listed
      <3>2. pv[a] # n
        <4> SUFFICES ASSUME pv[a] = n
                     PROVE  FALSE
          OBVIOUS
        <4>1. n < a /\ \A b \in S : a <= b \/ b <= n
          BY <1>1, <3>1 DEF IsPrev
        <4> QED BY <1>1, <1>4, <1>5, <2>2, <4>1
      <3> QED BY <1>1, <3>1, <3>2 DEF IsPrev
    <2> QED BY <2>1, <2>2
  <1> QED BY <1>1, <1>6, <1>7, <1>8 DEF Listed

\* A list whose links did not change.
LEMMA LinkFrame ==
  ASSUME NEW nx, NEW pv, NEW root, NEW S, Listed(nx, pv, root, S), NEW nx2, NEW pv2,
         \A a \in S : nx2[a] = nx[a] /\ pv2[a] = pv[a]
  PROVE  Listed(nx2, pv2, root, S)
  BY DEF Listed

-----------------------------------------------------------------------------
(* Nodes walks such a list. *)

\* One step of the walk in Nodes.
Follow(g, s) ==
  IF s = <<>> \/ g.next[s[Len(s)]] = Null THEN s ELSE Append(s, g.next[s[Len(s)]])

IsWalk(g, root, n, w) ==
  w = [i \in 0 .. n |-> IF i = 0 THEN IF root = Null THEN <<>> ELSE <<root>>
                                 ELSE Follow(g, w[i - 1])]

LEMMA WalkExists ==
  ASSUME NEW g, NEW root, NEW n \in Nat
  PROVE  \E w : IsWalk(g, root, n, w)
  <1> DEFINE D == {m \in Nat : ~ \E w : IsWalk(g, root, m, w)}
  <1>1. D = {}
    <2> SUFFICES ASSUME D # {}
                 PROVE  FALSE
      OBVIOUS
    <2>1. PICK m \in D : \A j \in D : m <= j
      <3>1. D \subseteq Nat
        OBVIOUS
      <3> HIDE DEF D
      <3> QED BY <3>1, LeastNumber
    <2>2. m \in Nat /\ ~ \E w : IsWalk(g, root, m, w)
      BY <2>1
    <2>3. m # 0
      <3>1. SUFFICES ASSUME m = 0
                     PROVE  IsWalk(g, root, m, [i \in 0 .. 0 |-> IF root = Null THEN <<>> ELSE <<root>>])
        BY <2>2
      <3> QED BY <3>1 DEF IsWalk
    <2>4. m - 1 \in Nat /\ m - 1 \notin D
      BY <2>1, <2>2, <2>3
    <2>5. PICK w : IsWalk(g, root, m - 1, w)
      BY <2>4
    <2> DEFINE v == [i \in 0 .. m |-> IF i < m THEN w[i] ELSE Follow(g, w[m - 1])]
    <2>6. ASSUME NEW i \in 0 .. m
          PROVE  v[i] = IF i = 0 THEN IF root = Null THEN <<>> ELSE <<root>>
                                 ELSE Follow(g, v[i - 1])
      <3>1. i # 0 => i - 1 \in 0 .. m /\ v[i - 1] = w[i - 1]
        BY <2>2
      <3>2. i < m => w[i] = IF i = 0 THEN IF root = Null THEN <<>> ELSE <<root>>
                                     ELSE Follow(g, w[i - 1])
        BY <2>2, <2>5 DEF IsWalk
      <3>3. CASE i < m
        BY <3>1, <3>2, <3>3
      <3>4. CASE i = m
        BY <2>3, <3>1, <3>4
      <3> QED BY <2>2, <3>3, <3>4
    <2>7. IsWalk(g, root, m, v)
      BY <2>6 DEF IsWalk
    <2> QED BY <2>2, <2>7
  <1> QED BY <1>1

LEMMA NodesIs ==
  ASSUME NEW g, NEW root
  PROVE  \E w : IsWalk(g, root, MaxNodes, w) /\ Nodes(g, root) = w[MaxNodes]
  <1> DEFINE walk == CHOOSE w : IsWalk(g, root, MaxNodes, w)
  <1>1. MaxNodes \in Nat
    BY HeapAssumption DEF MaxNodes
  <1>2. IsWalk(g, root, MaxNodes, walk)
    BY <1>1, WalkExists
  <1>3. Nodes(g, root) = walk[MaxNodes]
    BY DEF Nodes, IsWalk, Follow
  <1> QED BY <1>2, <1>3

\* Headers do not overlap one another, and lie in the memory.
Apart(S) ==
  /\ \A a \in S : a + Hdr <= Words
  /\ \A a, b \in S : a < b => a + Hdr <= b

\* MaxNodes headers fill the memory.
LEMMA HeadersFit ==
  ASSUME NEW n \in Nat, n * Hdr <= Words
  PROVE  n <= MaxNodes
  <1> DEFINE q == Words \div Hdr
             r == Words % Hdr
  <1>1. Words \in Nat /\ Hdr \in Nat /\ 0 < Hdr
    BY HeapAssumption
  <1>2. Words = Hdr * q + r /\ q \in Nat /\ r \in 0 .. Hdr - 1
    BY <1>1
  <1> HIDE DEF q, r
  <1>3. ~(n >= q + 1)
    <2> SUFFICES ASSUME n >= q + 1
                 PROVE  FALSE
      OBVIOUS
    <2>1. PICK d \in Nat : n = q + 1 + d
      <3>1. n - (q + 1) \in Nat /\ n = q + 1 + (n - (q + 1))
        BY <1>2
      <3> QED BY <3>1
    <2>2. n * Hdr = Hdr * q + Hdr + d * Hdr
      BY <1>1, <1>2, <2>1
    <2>3. d * Hdr >= 0
      BY <1>1, <2>1
    <2> QED BY <1>1, <1>2, <2>2, <2>3
  <1> QED BY <1>2, <1>3 DEF MaxNodes, q

\* The sequence s is the list of the headers S, in order.
InOrder(g, S, s) ==
  /\ s \in Seq(S)
  /\ \A x \in S : \E i \in 1 .. Len(s) : s[i] = x
  /\ \A i, j \in 1 .. Len(s) : i < j => s[i] < s[j]
  /\ \A i \in 1 .. Len(s) : g.next[s[i]] = IF i = Len(s) THEN Null ELSE s[i + 1]
  /\ \A i \in 1 .. Len(s) : g.prev[s[i]] = IF i = 1 THEN Null ELSE s[i - 1]

\* Neighbours ascend, so all do.
LEMMA Ascends ==
  ASSUME NEW s \in Seq(Int), \A i \in 1 .. Len(s) - 1 : s[i] < s[i + 1]
  PROVE  \A i, j \in 1 .. Len(s) : i < j => s[i] < s[j]
  <1> SUFFICES ASSUME NEW i \in 1 .. Len(s)
               PROVE  \A j \in 1 .. Len(s) : i < j => s[i] < s[j]
    OBVIOUS
  <1>0. Len(s) \in Nat /\ \A j \in 1 .. Len(s) : s[j] \in Int
    OBVIOUS
  <1> DEFINE D == {j \in 1 .. Len(s) : i < j /\ ~(s[i] < s[j])}
  <1>1. D = {}
    <2> SUFFICES ASSUME D # {}
                 PROVE  FALSE
      OBVIOUS
    <2>1. PICK m \in D : \A j \in D : m <= j
      <3>1. D \subseteq Nat
        OBVIOUS
      <3> HIDE DEF D
      <3> QED BY <3>1, LeastNumber
    <2>2. m \in 1 .. Len(s) /\ i < m /\ ~(s[i] < s[m])
      BY <2>1
    <2>3. m - 1 \in 1 .. Len(s) - 1 /\ m - 1 \notin D /\ s[m - 1] < s[(m - 1) + 1]
      <3>1. m - 1 \in 1 .. Len(s) - 1
        BY <1>0, <2>2
      <3>2. m - 1 \notin D
        BY <2>1, <2>2
      <3> QED BY <3>1, <3>2
    <2>4. (m - 1) + 1 = m /\ m - 1 \in 1 .. Len(s)
      BY <1>0, <2>2, <2>3
    <2>5. i = m - 1 \/ s[i] < s[m - 1]
      BY <1>0, <2>2, <2>3, <2>4
    <2> QED BY <1>0, <2>2, <2>3, <2>4, <2>5
  <1> QED BY <1>1

\* A walk so far: a prefix of the list, or all of it.
Walked(g, S, root, s, n) ==
  /\ s \in Seq(S)
  /\ root = Null => s = <<>>
  /\ root # Null => Len(s) > 0 /\ s[1] = root
  /\ \A i \in 1 .. Len(s) - 1 : s[i] < s[i + 1] /\ g.next[s[i]] = s[i + 1]
  /\ Len(s) > 0 => Len(s) * Hdr <= s[Len(s)] + Hdr
  /\ Len(s) > n \/ Len(s) = 0 \/ g.next[s[Len(s)]] = Null

LEMMA WalkStep ==
  ASSUME NEW g, NEW S, NEW root, Listed(g.next, g.prev, root, S), Apart(S),
         NEW s, NEW n \in Nat, Walked(g, S, root, s, n)
  PROVE  Walked(g, S, root, Follow(g, s), n + 1)
  <1>1. s \in Seq(S) /\ Len(s) \in Nat /\ \A i \in 1 .. Len(s) : s[i] \in S
    BY DEF Walked
  <1>2. S \subseteq Addr /\ \A a \in S : a \in Nat
    BY Addresses DEF Listed
  <1>3. CASE s = <<>> \/ g.next[s[Len(s)]] = Null
    <2>1. Follow(g, s) = s
      BY <1>3 DEF Follow
    <2>2. Len(s) = 0 \/ g.next[s[Len(s)]] = Null
      BY <1>3
    <2> QED BY <2>1, <2>2 DEF Walked
  <1>4. CASE ~(s = <<>> \/ g.next[s[Len(s)]] = Null)
    <2> DEFINE l == s[Len(s)]
               m == g.next[l]
               t == Append(s, m)
    <2>1. Len(s) > 0 /\ l \in S /\ Len(s) \in 1 .. Len(s)
      BY <1>1, <1>4
    <2>2. m \in S /\ l < m
      <3>1. IsNext(S, l, m)
        BY <2>1 DEF Listed
      <3> QED BY <1>4, <3>1 DEF IsNext
    <2>3. Follow(g, s) = t
      BY <1>4 DEF Follow
    <2>4. /\ t \in Seq(S) /\ Len(t) = Len(s) + 1 /\ t[Len(s) + 1] = m
          /\ \A i \in 1 .. Len(s) : t[i] = s[i]
      BY <1>1, <2>2
    <2>5. l + Hdr <= m
      BY <2>1, <2>2 DEF Apart
    <2>6. (Len(s) + 1) * Hdr <= m + Hdr
      <3>1. Len(s) * Hdr <= l + Hdr
        BY <2>1 DEF Walked
      <3>2. (Len(s) + 1) * Hdr = Len(s) * Hdr + Hdr /\ Len(s) * Hdr \in Nat
        BY <1>1, HeapAssumption
      <3>3. Hdr \in Nat /\ l \in Nat /\ m \in Nat
        BY <1>2, <2>1, <2>2, HeapAssumption
      <3> HIDE DEF l, m
      <3> QED BY <2>5, <3>1, <3>2, <3>3
    <2>7. Len(s) > n
      BY <1>1, <1>4, <2>1 DEF Walked
    <2>8. root # Null /\ s[1] = root
      BY <1>4 DEF Walked
    <2>9. \A i \in 1 .. Len(s) - 1 : s[i] < s[i + 1] /\ g.next[s[i]] = s[i + 1]
      BY DEF Walked
    <2>10. ASSUME NEW i \in 1 .. Len(t) - 1
           PROVE  t[i] < t[i + 1] /\ g.next[t[i]] = t[i + 1]
      <3>1. CASE i = Len(s)
        BY <2>1, <2>2, <2>4, <3>1
      <3>2. CASE i # Len(s)
        <4>1. i \in 1 .. Len(s) - 1 /\ i \in 1 .. Len(s) /\ i + 1 \in 1 .. Len(s)
          BY <1>1, <2>4, <3>2
        <4>2. t[i] = s[i] /\ t[i + 1] = s[i + 1]
          BY <2>4, <4>1
        <4> QED BY <2>9, <4>1, <4>2
      <3> QED BY <3>1, <3>2
    <2>11. Len(t) > n + 1
      BY <1>1, <2>4, <2>7
    <2>12. Len(t) > 0 /\ t[1] = root /\ t[Len(t)] = m
      BY <1>1, <2>1, <2>4, <2>8
    <2> HIDE DEF l, m, t
    <2> QED BY <2>3, <2>4, <2>6, <2>8, <2>10, <2>11, <2>12 DEF Walked
  <1> QED BY <1>3, <1>4

LEMMA WalkedAll ==
  ASSUME NEW g, NEW S, NEW root, Listed(g.next, g.prev, root, S), Apart(S),
         NEW n \in Nat, NEW w, IsWalk(g, root, n, w)
  PROVE  \A i \in 0 .. n : Walked(g, S, root, w[i], i)
  <1> DEFINE D == {i \in 0 .. n : ~Walked(g, S, root, w[i], i)}
  <1>1. D = {}
    <2> SUFFICES ASSUME D # {}
                 PROVE  FALSE
      OBVIOUS
    <2>1. PICK m \in D : \A j \in D : m <= j
      <3>1. D \subseteq Nat
        OBVIOUS
      <3> HIDE DEF D
      <3> QED BY <3>1, LeastNumber
    <2>2. m \in 0 .. n /\ ~Walked(g, S, root, w[m], m)
      BY <2>1
    <2>3. CASE m = 0
      <3>1. w[0] = IF root = Null THEN <<>> ELSE <<root>>
        BY DEF IsWalk
      <3>2. CASE root = Null
        <4>1. w[0] = <<>>
          BY <3>1, <3>2
        <4>2. Walked(g, S, root, <<>>, 0)
          BY <3>2 DEF Walked
        <4> QED BY <2>2, <2>3, <4>1, <4>2
      <3>3. CASE root # Null
        <4>1. w[0] = <<root>>
          BY <3>1, <3>3
        <4>2. root \in S /\ root \in Nat
          BY <3>3, Addresses DEF Listed, IsFirst
        <4>3. 1 * Hdr = Hdr /\ Hdr \in Nat
          BY HeapAssumption
        <4>4. /\ <<root>> \in Seq(S) /\ Len(<<root>>) = 1 /\ <<root>>[1] = root
          BY <4>2
        <4>5. Walked(g, S, root, <<root>>, 0)
          BY <3>3, <4>2, <4>3, <4>4 DEF Walked
        <4> QED BY <2>2, <2>3, <4>1, <4>5
      <3> QED BY <3>2, <3>3
    <2>4. CASE m # 0
      <3>1. m - 1 \in Nat /\ m - 1 \in 0 .. n /\ m - 1 \notin D /\ (m - 1) + 1 = m
        BY <2>1, <2>2, <2>4
      <3>2. Walked(g, S, root, w[m - 1], m - 1)
        BY <3>1
      <3>3. w[m] = Follow(g, w[m - 1])
        BY <2>2, <2>4 DEF IsWalk
      <3>4. Walked(g, S, root, Follow(g, w[m - 1]), (m - 1) + 1)
        BY <3>1, <3>2, WalkStep
      <3> QED BY <2>2, <3>1, <3>3, <3>4
    <2> QED BY <2>3, <2>4
  <1> QED BY <1>1

\* What Nodes returns.
LEMMA NodesInOrder ==
  ASSUME NEW g, NEW S, NEW root, Listed(g.next, g.prev, root, S), Apart(S)
  PROVE  InOrder(g, S, Nodes(g, root))
  <1> DEFINE s == Nodes(g, root)
  <1>1. MaxNodes \in Nat
    BY HeapAssumption DEF MaxNodes
  <1>2. Walked(g, S, root, s, MaxNodes)
    BY <1>1, NodesIs, WalkedAll
  <1> HIDE DEF s
  <1>3. s \in Seq(S) /\ Len(s) \in Nat /\ \A i \in 1 .. Len(s) : s[i] \in S
    BY <1>2 DEF Walked
  <1>4. S \subseteq Addr /\ \A a \in S : a \in Nat /\ a \in Int /\ a # Null
    BY Addresses DEF Listed
  <1>5. Len(s) > 0 => g.next[s[Len(s)]] = Null
    <2>1. SUFFICES ASSUME Len(s) > 0, Len(s) > MaxNodes
                   PROVE  FALSE
      BY <1>2 DEF Walked
    <2>2. s[Len(s)] \in S /\ s[Len(s)] + Hdr <= Words
      BY <1>3, <2>1 DEF Apart
    <2>3. Len(s) * Hdr <= s[Len(s)] + Hdr
      BY <1>2, <2>1 DEF Walked
    <2>4. Len(s) * Hdr \in Nat /\ s[Len(s)] + Hdr \in Nat /\ Words \in Nat
      BY <1>3, <1>4, <2>2, HeapAssumption
    <2>5. Len(s) * Hdr <= Words
      BY <2>2, <2>3, <2>4
    <2> QED BY <1>1, <1>3, <2>1, <2>5, HeadersFit
  <1>6. \A i \in 1 .. Len(s) - 1 : s[i] < s[i + 1] /\ g.next[s[i]] = s[i + 1]
    BY <1>2 DEF Walked
  <1>7. \A i, j \in 1 .. Len(s) : i < j => s[i] < s[j]
    <2>1. s \in Seq(Int)
      BY <1>3, <1>4
    <2> QED BY <1>6, <2>1, Ascends
  <1>8. \A i \in 1 .. Len(s) : g.next[s[i]] = IF i = Len(s) THEN Null ELSE s[i + 1]
    <2> SUFFICES ASSUME NEW i \in 1 .. Len(s)
                 PROVE  g.next[s[i]] = IF i = Len(s) THEN Null ELSE s[i + 1]
      OBVIOUS
    <2>1. i # Len(s) => i \in 1 .. Len(s) - 1
      BY <1>3
    <2> QED BY <1>3, <1>5, <1>6, <2>1
  <1>9. ASSUME NEW x \in S
        PROVE  \E i \in 1 .. Len(s) : s[i] = x
    <2> DEFINE D == {i \in 1 .. Len(s) : x <= s[i]}
    <2>1. root # Null /\ root \in S /\ root <= x
      BY <1>4 DEF Listed, IsFirst
    <2>2. Len(s) > 0 /\ s[1] = root
      BY <1>2, <2>1 DEF Walked
    <2>3. Len(s) \in D
      <3>1. Len(s) \in 1 .. Len(s) /\ s[Len(s)] \in S
        BY <1>3, <2>2
      <3>2. IsNext(S, s[Len(s)], Null)
        BY <1>5, <2>2, <3>1 DEF Listed
      <3> QED BY <1>4, <3>1, <3>2 DEF IsNext
    <2>4. PICK m \in D : \A j \in D : m <= j
      <3>1. D \subseteq Nat /\ D # {}
        BY <2>3
      <3> HIDE DEF D
      <3> QED BY <3>1, LeastNumber
    <2>5. m \in 1 .. Len(s) /\ x <= s[m] /\ s[m] \in Int /\ x \in Int
      BY <1>3, <1>4, <2>4
    <2>6. CASE m = 1
      BY <2>1, <2>2, <2>5, <2>6
    <2>7. CASE m # 1
      <3>1. m - 1 \in 1 .. Len(s) - 1 /\ m - 1 \in 1 .. Len(s) /\ (m - 1) + 1 = m /\ m - 1 \notin D
        BY <1>3, <2>4, <2>5, <2>7
      <3>2. g.next[s[m - 1]] = s[m] /\ s[m - 1] \in S
        BY <1>3, <1>6, <3>1
      <3>3. ~(x <= s[m - 1])
        BY <3>1
      <3>4. IsNext(S, s[m - 1], s[m])
        BY <3>2 DEF Listed
      <3>5. x <= s[m - 1] \/ s[m] <= x
        BY <1>3, <1>4, <2>5, <3>4 DEF IsNext
      <3> QED BY <2>5, <3>3, <3>5
    <2> QED BY <2>6, <2>7
  <1>10. ASSUME NEW i \in 1 .. Len(s)
         PROVE  g.prev[s[i]] = IF i = 1 THEN Null ELSE s[i - 1]
    <2> DEFINE p == g.prev[s[i]]
    <2>1. s[i] \in S /\ IsPrev(S, s[i], p)
      BY <1>3 DEF Listed
    <2> HIDE DEF p
    <2>2. CASE p = Null
      <3>1. \A b \in S : s[i] <= b
        BY <1>4, <2>1, <2>2 DEF IsPrev
      <3>2. i = 1
        <4>1. SUFFICES ASSUME i # 1
                       PROVE  FALSE
          OBVIOUS
        <4>2. 1 \in 1 .. Len(s) /\ s[1] \in S /\ s[1] < s[i]
          BY <1>3, <1>7, <4>1
        <4> QED BY <1>4, <2>1, <3>1, <4>2
      <3> QED BY <2>2, <3>2 DEF p
    <2>3. CASE p # Null
      <3>1. p \in S /\ p < s[i] /\ \A b \in S : s[i] <= b \/ b <= p
        BY <2>1, <2>3 DEF IsPrev
      <3>2. PICK j \in 1 .. Len(s) : s[j] = p
        BY <1>9, <3>1
      <3>3. j < i
        <4>1. ~(i < j) /\ i # j
          BY <1>4, <1>7, <2>1, <3>1, <3>2
        <4> QED BY <4>1
      <3>4. j = i - 1
        <4>1. SUFFICES ASSUME j < i - 1
                       PROVE  FALSE
          BY <3>3
        <4>2. i - 1 \in 1 .. Len(s) /\ j < i - 1 /\ i - 1 < i
          BY <3>3, <4>1
        <4>3. s[j] < s[i - 1] /\ s[i - 1] < s[i] /\ s[i - 1] \in S
          BY <1>3, <1>7, <4>2
        <4> QED BY <1>4, <2>1, <3>1, <3>2, <4>3
      <3> QED BY <3>2, <3>3, <3>4 DEF p
    <2> QED BY <2>2, <2>3
  <1> QED BY <1>3, <1>7, <1>8, <1>9, <1>10 DEF InOrder, s

-----------------------------------------------------------------------------
(* Finding a block, and the insertion into and removal from a list. *)

HeapType ==
  [available : Addr \cup {Null}, assigned : Addr \cup {Null},
   prev : [Addr -> Addr \cup {Null, Wild}], next : [Addr -> Addr \cup {Null, Wild}],
   size : [Addr -> Nat], magic : SUBSET Addr, freemem : Int, totalnodes : Int,
   wild : BOOLEAN]

LEMMA MinIs ==
  ASSUME NEW S, S \subseteq Nat, S # {}
  PROVE  Min(S) \in S /\ \A y \in S : Min(S) <= y
  <1>1. \E x \in S : \A y \in S : x <= y
    BY LeastNumber
  <1> QED BY <1>1 DEF Min

\* The first block that is large enough.
Fitting(g, A, n, b) ==
  \/ b = Null /\ \A a \in A : g.size[a] < n
  \/ b \in A /\ g.size[b] >= n /\ \A a \in A : a < b => g.size[a] < n

LEMMA FirstFitIs ==
  ASSUME NEW g \in HeapType, NEW A, Listed(g.next, g.prev, g.available, A), Apart(A),
         NEW n \in Nat
  PROVE  Fitting(g, A, n, FirstFit(g, n))
  <1> DEFINE s == Nodes(g, g.available)
             fits == {i \in 1 .. Len(s) : g.size[s[i]] >= n}
  <1>1. FirstFit(g, n) = IF fits = {} THEN Null ELSE s[Min(fits)]
    BY DEF FirstFit
  <1>2. InOrder(g, A, s)
    BY NodesInOrder
  <1> HIDE DEF s
  <1>3. s \in Seq(A) /\ \A i \in 1 .. Len(s) : s[i] \in A
    BY <1>2 DEF InOrder
  <1>4. A \subseteq Addr /\ \A a \in A : a \in Int /\ g.size[a] \in Nat
    BY Addresses DEF Listed, HeapType
  <1>5. CASE fits = {}
    <2>1. ASSUME NEW a \in A
          PROVE  g.size[a] < n
      <3>1. PICK i \in 1 .. Len(s) : s[i] = a
        BY <1>2 DEF InOrder
      <3>2. ~(g.size[a] >= n)
        BY <1>5, <3>1
      <3> QED BY <1>4, <3>2
    <2> QED BY <1>1, <1>5, <2>1 DEF Fitting
  <1>6. CASE fits # {}
    <2> DEFINE m == Min(fits)
    <2>1. fits \subseteq Nat
      OBVIOUS
    <2> HIDE DEF fits
    <2>2. m \in fits /\ \A y \in fits : m <= y
      BY <1>6, <2>1, MinIs
    <2> HIDE DEF m
    <2>3. m \in 1 .. Len(s) /\ s[m] \in A /\ g.size[s[m]] >= n
      BY <1>3, <2>2 DEF fits
    <2>4. ASSUME NEW a \in A, a < s[m]
          PROVE  g.size[a] < n
      <3>1. PICK i \in 1 .. Len(s) : s[i] = a
        BY <1>2 DEF InOrder
      <3>2. ~(m < i) /\ m # i
        <4>1. m < i => s[m] < s[i]
          BY <1>2, <2>3 DEF InOrder
        <4> QED BY <1>4, <2>3, <2>4, <3>1, <4>1
      <3>3. ~(m <= i)
        BY <2>3, <3>2
      <3>4. i \notin fits
        BY <2>2, <3>3
      <3>5. ~(g.size[a] >= n)
        BY <3>1, <3>4 DEF fits
      <3> QED BY <1>4, <3>5
    <2>5. FirstFit(g, n) = s[m]
      BY <1>1, <1>6 DEF m
    <2> QED BY <2>3, <2>4, <2>5 DEF Fitting
  <1> QED BY <1>5, <1>6

Lists == {"available", "assigned"}

\* What does not depend on the links.
SameRest(g, r) ==
  /\ r.size = g.size /\ r.magic = g.magic
  /\ r.freemem = g.freemem /\ r.totalnodes = g.totalnodes

\* The links of the headers in S may have changed, the other list is as it was.
Relinked(g, r, list, S) ==
  /\ r \in HeapType
  /\ SameRest(g, r)
  /\ \A o \in Lists \ {list} : r[o] = g[o]
  /\ \A a \in Addr \ S : r.next[a] = g.next[a] /\ r.prev[a] = g.prev[a]

\* What an insertion leaves of the node's own links is right.
Clean(g, S, n) ==
  /\ S # {} /\ (\A b \in S : n < b) => g.prev[n] = Null
  /\ S # {} /\ (\A b \in S : b < n) => g.next[n] = Null

\* Two updates of a function.
LEMMA TwoUpdates ==
  ASSUME NEW D, NEW R, NEW f \in [D -> R], NEW c \in D, NEW n \in D, c # n, NEW x, NEW y
  PROVE  [f EXCEPT ![c] = x, ![n] = y]
           = [a \in D |-> IF a = n THEN y ELSE IF a = c THEN x ELSE f[a]]
  OBVIOUS

\* Writing the links of n between its neighbours p and q.
Between(g, r, list, n, p, q) ==
  /\ r.next = [a \in Addr |-> IF a = n THEN q ELSE IF a = p THEN n ELSE g.next[a]]
  /\ r.prev = [a \in Addr |-> IF a = n THEN p ELSE IF a = q THEN n ELSE g.prev[a]]
  /\ r = [g EXCEPT !.next = r.next, !.prev = r.prev,
                   ![list] = IF p = Null THEN n ELSE g[list]]

LEMMA InsertLinks ==
  ASSUME NEW g \in HeapType, NEW list \in Lists, NEW S,
         Listed(g.next, g.prev, g[list], S), NEW n \in Addr, n \notin S,
         NEW p, NEW q, IsPrev(S, n, p), IsNext(S, n, q), NEW r,
         Between(g, r, list, n, p, q)
  PROVE  /\ Listed(r.next, r.prev, r[list], S \cup {n})
         /\ Relinked(g, r, list, S \cup {n})
         /\ r.wild = g.wild
  <1>b. /\ r.next = [a \in Addr |-> IF a = n THEN q ELSE IF a = p THEN n ELSE g.next[a]]
        /\ r.prev = [a \in Addr |-> IF a = n THEN p ELSE IF a = q THEN n ELSE g.prev[a]]
        /\ r = [g EXCEPT !.next = r.next, !.prev = r.prev,
                         ![list] = IF p = Null THEN n ELSE g[list]]
    BY DEF Between
  <1>1. S \subseteq Addr
    BY DEF Listed
  <1>2. (p = Null \/ (p \in S /\ p # n)) /\ (q = Null \/ (q \in S /\ q # n))
    BY DEF IsPrev, IsNext
  <1>3. p \in Addr \cup {Null} /\ q \in Addr \cup {Null}
    BY <1>1, <1>2
  <1>4. r.next \in [Addr -> Addr \cup {Null, Wild}] /\ r.prev \in [Addr -> Addr \cup {Null, Wild}]
    BY <1>3, <1>b DEF HeapType
  <1>5. /\ r \in HeapType /\ r[list] = IF p = Null THEN n ELSE g[list]
        /\ SameRest(g, r) /\ r.wild = g.wild
        /\ \A o \in Lists \ {list} : r[o] = g[o]
    <2>1. CASE list = "available"
      <3>1. r = [g EXCEPT !.next = r.next, !.prev = r.prev,
                          !.available = IF p = Null THEN n ELSE g.available]
        BY <2>1, <1>b
      <3> QED BY <1>4, <2>1, <3>1 DEF HeapType, SameRest, Lists
    <2>2. CASE list = "assigned"
      <3>1. r = [g EXCEPT !.next = r.next, !.prev = r.prev,
                          !.assigned = IF p = Null THEN n ELSE g.assigned]
        BY <2>2, <1>b
      <3> QED BY <1>4, <2>2, <3>1 DEF HeapType, SameRest, Lists
    <2> QED BY <2>1, <2>2 DEF Lists
  <1>6. \A a \in Addr \ (S \cup {n}) : r.next[a] = g.next[a] /\ r.prev[a] = g.prev[a]
    BY <1>2, <1>b, Addresses
  <1>7. Listed(r.next, r.prev, r[list], S \cup {n})
    <2>1. p # n /\ q # n
      BY <1>2, Addresses
    <2>2. Linking(g.next, g.prev, S, n, p, q, r.next, r.prev)
      BY <1>b, <1>1, <1>3, <2>1 DEF Linking
    <2>3. Listed(r.next, r.prev, IF p = Null THEN n ELSE g[list], S \cup {n})
      BY <2>2, LinkInsert
    <2>4. r[list] = IF p = Null THEN n ELSE g[list]
      BY <1>5
    <2> QED BY <2>3, <2>4
  <1> QED BY <1>5, <1>6, <1>7 DEF Relinked

\* The node after which pmalloc_item_insert links n.
Position(g, s, n) ==
  s[Min({i \in 1 .. Len(s) : g.next[s[i]] = Null \/ n <= g.next[s[i]]})]

LEMMA PositionIs ==
  ASSUME NEW g \in HeapType, NEW root, NEW S, Listed(g.next, g.prev, root, S),
         Apart(S), NEW n \in Addr, n \notin S, root # Null, ~(n < root)
  PROVE  LET c == Position(g, Nodes(g, root), n)
         IN  IsPrev(S, n, c) /\ IsNext(S, n, g.next[c]) /\ c \in S
  <1> DEFINE s == Nodes(g, root)
             J == {i \in 1 .. Len(s) : g.next[s[i]] = Null \/ n <= g.next[s[i]]}
             m == Min(J)
             c == s[m]
  <1>1. InOrder(g, S, s)
    BY NodesInOrder
  <1>2. Position(g, s, n) = c
    BY DEF Position
  <1> HIDE DEF s
  <1>3. S \subseteq Addr /\ n \in Int /\ \A a \in S : a \in Int /\ a # Null /\ a # n
    BY Addresses DEF Listed
  <1>4. s \in Seq(S) /\ Len(s) \in Nat /\ \A i \in 1 .. Len(s) : s[i] \in S
    BY <1>1 DEF InOrder
  <1>5. root \in S /\ root < n /\ \A b \in S : root <= b
    <2>1. root \in S /\ \A b \in S : root <= b
      BY DEF Listed, IsFirst
    <2>2. root \in Int /\ root # n
      BY <1>3, <2>1
    <2> QED BY <1>3, <2>1, <2>2
  <1>6. J \subseteq Nat /\ Len(s) \in J
    <2>1. PICK i \in 1 .. Len(s) : s[i] = root
      BY <1>1, <1>5 DEF InOrder
    <2>2. Len(s) \in 1 .. Len(s)
      BY <1>4, <2>1
    <2>3. g.next[s[Len(s)]] = Null
      BY <1>1, <2>2 DEF InOrder
    <2> QED BY <2>2, <2>3
  <1> HIDE DEF J
  <1>7. m \in J /\ \A y \in J : m <= y
    BY <1>6, MinIs
  <1> HIDE DEF m
  <1>8. m \in 1 .. Len(s) /\ c \in S /\ (g.next[c] = Null \/ n <= g.next[c])
    BY <1>4, <1>7 DEF J
  <1>9. c < n
    <2>1. CASE m = 1
      <3>1. PICK i \in 1 .. Len(s) : s[i] = root
        BY <1>1, <1>5 DEF InOrder
      <3>2. ~(m < i)
        <4>1. m < i => c < root
          BY <1>1, <1>8, <3>1 DEF InOrder
        <4>2. root <= c /\ root \in Int /\ c \in Int
          BY <1>3, <1>5, <1>8
        <4> QED BY <4>1, <4>2
      <3>3. i = m
        BY <2>1, <3>2
      <3> QED BY <1>5, <3>1, <3>3
    <2>2. CASE m # 1
      <3>1. m - 1 \in 1 .. Len(s) /\ (m - 1) + 1 = m /\ m - 1 # Len(s)
        BY <1>4, <1>8, <2>2
      <3>2. m - 1 \notin J
        BY <1>7, <1>8, <3>1
      <3>3. g.next[s[m - 1]] = c
        BY <1>1, <3>1 DEF InOrder
      <3>4. ~(n <= c)
        BY <3>1, <3>2, <3>3 DEF J
      <3>5. c \in Int /\ n \in Int
        BY <1>3, <1>8
      <3> QED BY <3>4, <3>5
    <2> QED BY <2>1, <2>2
  <1>10. IsNext(S, c, g.next[c])
    BY <1>8 DEF Listed
  <1> HIDE DEF c
  <1>11. IsNext(S, n, g.next[c])
    <2>1. CASE g.next[c] = Null
      <3>1. \A b \in S : b <= c
        BY <1>3, <1>10, <2>1 DEF IsNext
      <3>2. \A b \in S : b <= n
        BY <1>3, <1>8, <1>9, <3>1
      <3> QED BY <2>1, <3>2 DEF IsNext
    <2>2. CASE g.next[c] # Null
      <3>1. g.next[c] \in S /\ \A b \in S : b <= c \/ g.next[c] <= b
        BY <1>10, <2>2 DEF IsNext
      <3>2. n < g.next[c]
        <4>1. n <= g.next[c]
          BY <1>8, <2>2
        <4>2. g.next[c] \in Int /\ g.next[c] # n /\ n \in Int
          BY <1>3, <3>1
        <4> QED BY <4>1, <4>2
      <3>3. \A b \in S : b <= n \/ g.next[c] <= b
        BY <1>3, <1>8, <1>9, <3>1
      <3> QED BY <3>1, <3>2, <3>3 DEF IsNext
    <2> QED BY <2>1, <2>2
  <1>12. IsPrev(S, n, c)
    <2>1. ASSUME NEW b \in S
          PROVE  n <= b \/ b <= c
      <3>1. CASE g.next[c] = Null
        BY <1>3, <1>10, <3>1 DEF IsNext
      <3>2. CASE g.next[c] # Null
        <4>1. g.next[c] \in S /\ (b <= c \/ g.next[c] <= b)
          BY <1>10, <3>2 DEF IsNext
        <4>2. n <= g.next[c] /\ g.next[c] \in Int /\ n \in Int /\ b \in Int
          BY <1>3, <1>8, <3>2, <4>1
        <4> QED BY <4>1, <4>2
      <3> QED BY <3>1, <3>2
    <2> QED BY <1>8, <1>9, <2>1 DEF IsPrev
  <1> QED BY <1>2, <1>8, <1>11, <1>12 DEF s

\* pmalloc_item_insert.
Inserted(g, r, list, S, n) ==
  /\ Listed(r.next, r.prev, r[list], S \cup {n})
  /\ Relinked(g, r, list, S \cup {n})
  /\ r.wild = g.wild

LEMMA ItemInsertIs ==
  ASSUME NEW g \in HeapType, NEW list \in Lists, NEW S,
         Listed(g.next, g.prev, g[list], S), Apart(S),
         NEW n \in Addr, n \notin S, Clean(g, S, n)
  PROVE  Inserted(g, ItemInsert(g, list, n), list, S, n)
  <1> DEFINE r == ItemInsert(g, list, n)
  <1> SUFFICES Inserted(g, r, list, S, n)
    OBVIOUS
  <1>1. S \subseteq Addr /\ n \in Int /\ \A a \in S : a \in Int /\ a # Null /\ a # n
    BY Addresses DEF Listed
  <1>2. g[list] = Null \/ (g[list] \in S /\ \A b \in S : g[list] <= b)
    BY DEF Listed, IsFirst
  <1>3. list = "available" \/ list = "assigned"
    BY DEF Lists
  <1>4. CASE g[list] = Null
    <2>1. S = {}
      BY <1>1, <1>4 DEF Listed, IsFirst
    <2>2. r = [g EXCEPT ![list] = n, !.prev[n] = Null, !.next[n] = Null]
      BY <1>4 DEF ItemInsert
    <2>3. IsPrev(S, n, Null) /\ IsNext(S, n, Null)
      BY <2>1 DEF IsPrev, IsNext
    <2> HIDE DEF r
    <2>4. /\ r.next = [g.next EXCEPT ![n] = Null] /\ r.prev = [g.prev EXCEPT ![n] = Null]
          /\ r = [g EXCEPT !.next = r.next, !.prev = r.prev, ![list] = n]
      <3>1. CASE list = "available"
        BY <2>2, <3>1 DEF HeapType
      <3>2. CASE list = "assigned"
        BY <2>2, <3>2 DEF HeapType
      <3> QED BY <1>3, <3>1, <3>2
    <2>5. /\ r.next = [a \in Addr |-> IF a = n THEN Null ELSE IF a = Null THEN n ELSE g.next[a]]
          /\ r.prev = [a \in Addr |-> IF a = n THEN Null ELSE IF a = Null THEN n ELSE g.prev[a]]
      BY <2>4, Addresses DEF HeapType
    <2>6. r = [g EXCEPT !.next = r.next, !.prev = r.prev,
                        ![list] = IF Null = Null THEN n ELSE g[list]]
      BY <2>4
    <2>7. Between(g, r, list, n, Null, Null)
      BY <2>5, <2>6 DEF Between
    <2> QED BY <2>3, <2>7, InsertLinks DEF Inserted
  <1>5. CASE g[list] # Null /\ n < g[list]
    <2> DEFINE q == g[list]
    <2>1. q \in S /\ q \in Int /\ q # n /\ \A b \in S : n < b
      <3>1. q \in S /\ \A b \in S : q <= b
        BY <1>2, <1>5
      <3>2. ASSUME NEW b \in S
            PROVE  n < b
        <4>1. q <= b /\ b \in Int /\ q \in Int /\ n < q
          BY <1>1, <1>5, <3>1
        <4> HIDE DEF q
        <4> QED BY <1>1, <4>1
      <3> QED BY <1>1, <3>1, <3>2
    <2>2. r = [g EXCEPT !.prev[q] = n, !.next[n] = q, ![list] = n]
      BY <1>5 DEF ItemInsert
    <2>3. g.prev[n] = Null
      BY <2>1 DEF Clean
    <2>4. IsPrev(S, n, Null) /\ IsNext(S, n, q)
      <3>1. \A b \in S : n <= b /\ q <= b
        BY <1>1, <1>2, <1>5, <2>1
      <3> QED BY <1>5, <2>1, <3>1 DEF IsPrev, IsNext
    <2> HIDE DEF r
    <2>5. /\ r.next = [g.next EXCEPT ![n] = q] /\ r.prev = [g.prev EXCEPT ![q] = n]
          /\ r = [g EXCEPT !.next = r.next, !.prev = r.prev, ![list] = n]
      <3>1. CASE list = "available"
        BY <2>2, <3>1 DEF HeapType
      <3>2. CASE list = "assigned"
        BY <2>2, <3>2 DEF HeapType
      <3> QED BY <1>3, <3>1, <3>2
    <2>6. q \in Addr
      BY <1>1, <2>1
    <2> HIDE DEF q
    <2>7. /\ r.next = [a \in Addr |-> IF a = n THEN q ELSE IF a = Null THEN n ELSE g.next[a]]
          /\ r.prev = [a \in Addr |-> IF a = n THEN Null ELSE IF a = q THEN n ELSE g.prev[a]]
      BY <2>1, <2>3, <2>5, <2>6, Addresses DEF HeapType
    <2>8. r = [g EXCEPT !.next = r.next, !.prev = r.prev,
                        ![list] = IF Null = Null THEN n ELSE g[list]]
      BY <2>5
    <2>9. Between(g, r, list, n, Null, q)
      BY <2>7, <2>8 DEF Between
    <2> QED BY <2>4, <2>9, InsertLinks DEF Inserted
  <1>6. CASE g[list] # Null /\ ~(n < g[list])
    <2> DEFINE c == Position(g, Nodes(g, g[list]), n)
               q == g.next[c]
    <2>1. IsPrev(S, n, c) /\ IsNext(S, n, q) /\ c \in S
      BY <1>6, PositionIs
    <2>2. r = IF q = Null
              THEN [g EXCEPT !.prev[n] = c, !.next[c] = n]
              ELSE [g EXCEPT !.next[c] = n, !.prev[n] = c, !.next[n] = q, !.prev[q] = n]
      BY <1>6 DEF ItemInsert, Position
    <2> HIDE DEF c, r
    <2>3. c \in Addr /\ c # n /\ c # Null
      BY <1>1, <2>1
    <2>4. q = Null => g.next[n] = Null
      <3>1. SUFFICES ASSUME q = Null
                     PROVE  \A b \in S : b < n
        BY <2>1 DEF Clean
      <3>2. \A b \in S : b <= n
        BY <1>1, <2>1, <3>1 DEF IsNext
      <3> QED BY <1>1, <3>2
    <2>5. q = Null \/ (q \in Addr /\ q # n)
      BY <1>1, <2>1 DEF IsNext
    <2>6. g = [g EXCEPT ![list] = g[list]]
      BY <1>3 DEF HeapType
    <2> HIDE DEF q
    <2>7. /\ r.next = [a \in Addr |-> IF a = n THEN q ELSE IF a = c THEN n ELSE g.next[a]]
          /\ r.prev = [a \in Addr |-> IF a = n THEN c ELSE IF a = q THEN n ELSE g.prev[a]]
      <3>1. CASE q = Null
        <4>1. r = [g EXCEPT !.prev[n] = c, !.next[c] = n]
          BY <2>2, <3>1
        <4>2. r.next = [g.next EXCEPT ![c] = n] /\ r.prev = [g.prev EXCEPT ![n] = c]
          BY <4>1 DEF HeapType
        <4> QED BY <2>3, <2>4, <3>1, <4>2, Addresses DEF HeapType
      <3>2. CASE q # Null
        <4>1. r = [g EXCEPT !.next[c] = n, !.prev[n] = c, !.next[n] = q, !.prev[q] = n]
          BY <2>2, <3>2
        <4>2. /\ r.next = [g.next EXCEPT ![c] = n, ![n] = q]
              /\ r.prev = [g.prev EXCEPT ![n] = c, ![q] = n]
          BY <4>1 DEF HeapType
        <4>3. /\ g.next \in [Addr -> Addr \cup {Null, Wild}]
              /\ g.prev \in [Addr -> Addr \cup {Null, Wild}]
          BY DEF HeapType
        <4>4. r.next = [a \in Addr |-> IF a = n THEN q ELSE IF a = c THEN n ELSE g.next[a]]
          BY <2>3, <4>2, <4>3, TwoUpdates
        <4>5. r.prev = [a \in Addr |-> IF a = q THEN n ELSE IF a = n THEN c ELSE g.prev[a]]
          BY <2>5, <3>2, <4>2, <4>3, TwoUpdates
        <4> QED BY <2>5, <3>2, <4>4, <4>5
      <3> QED BY <3>1, <3>2
    <2>8. r = [g EXCEPT !.next = r.next, !.prev = r.prev, ![list] = g[list]]
      <3>1. r = [g EXCEPT !.next = r.next, !.prev = r.prev]
        <4>1. CASE q = Null
          BY <2>2, <4>1 DEF HeapType
        <4>2. CASE q # Null
          BY <2>2, <4>2 DEF HeapType
        <4> QED BY <4>1, <4>2
      <3>2. CASE list = "available"
        BY <3>1, <3>2 DEF HeapType
      <3>3. CASE list = "assigned"
        BY <3>1, <3>3 DEF HeapType
      <3> QED BY <1>3, <3>2, <3>3
    <2>9. r = [g EXCEPT !.next = r.next, !.prev = r.prev,
                        ![list] = IF c = Null THEN n ELSE g[list]]
      BY <2>3, <2>8
    <2>10. Between(g, r, list, n, c, q)
      BY <2>7, <2>9 DEF Between
    <2> QED BY <2>1, <2>10, InsertLinks DEF Inserted
  <1> QED BY <1>4, <1>5, <1>6

\* pmalloc_item_remove.
LEMMA ItemRemoveIs ==
  ASSUME NEW g \in HeapType, NEW list \in Lists, NEW S,
         Listed(g.next, g.prev, g[list], S), NEW n \in S
  PROVE  LET r == ItemRemove(g, list, n)
         IN  /\ Listed(r.next, r.prev, r[list], S \ {n})
             /\ Relinked(g, r, list, S)
             /\ r.wild = g.wild /\ r.next[n] = Null /\ r.prev[n] = Null
  <1> DEFINE r == ItemRemove(g, list, n)
             p == g.prev[n]
             q == g.next[n]
             root == IF n # g[list] THEN g[list] ELSE IF p # Null THEN p ELSE q
             nx == [a \in Addr |-> IF a = n THEN Null ELSE IF a = p THEN q ELSE g.next[a]]
             pv == [a \in Addr |-> IF a = n THEN Null ELSE IF a = q THEN p ELSE g.prev[a]]
  <1>1. S \subseteq Addr /\ n \in Addr /\ IsNext(S, n, q) /\ IsPrev(S, n, p)
    BY DEF Listed
  <1>2. (p = Null \/ (p \in S /\ p # n)) /\ (q = Null \/ (q \in S /\ q # n))
    BY <1>1, Addresses DEF IsNext, IsPrev
  <1>3. p \in Addr \cup {Null} /\ q \in Addr \cup {Null} /\ p # Wild
    BY <1>1, <1>2, Addresses
  <1>4. root \in Addr \cup {Null}
    BY <1>1, <1>3 DEF Listed, IsFirst
  <1>5. r = [g EXCEPT !.next = nx, !.prev = pv, ![list] = root, !.wild = g.wild \/ p = Wild]
    <2>1. CASE list = "available"
      BY <2>1 DEF ItemRemove
    <2>2. CASE list = "assigned"
      BY <2>2 DEF ItemRemove
    <2> QED BY <2>1, <2>2 DEF Lists
  <1>6. nx \in [Addr -> Addr \cup {Null, Wild}] /\ pv \in [Addr -> Addr \cup {Null, Wild}]
    BY <1>3 DEF HeapType
  <1>7. (g.wild \/ p = Wild) = g.wild /\ g.wild \in BOOLEAN
    BY <1>3 DEF HeapType
  <1> HIDE DEF r
  <1>8. /\ r \in HeapType /\ r.next = nx /\ r.prev = pv /\ r[list] = root
        /\ SameRest(g, r) /\ r.wild = g.wild
        /\ \A o \in Lists \ {list} : r[o] = g[o]
    <2> HIDE DEF nx, pv, root, p
    <2>0. r = [g EXCEPT !.next = nx, !.prev = pv, ![list] = root, !.wild = g.wild]
      BY <1>5, <1>7
    <2>1. CASE list = "available"
      <3>1. r = [g EXCEPT !.next = nx, !.prev = pv, !.available = root, !.wild = g.wild]
        BY <2>0, <2>1
      <3> QED BY <1>4, <1>6, <2>1, <3>1 DEF HeapType, SameRest, Lists
    <2>2. CASE list = "assigned"
      <3>1. r = [g EXCEPT !.next = nx, !.prev = pv, !.assigned = root, !.wild = g.wild]
        BY <2>0, <2>2
      <3> QED BY <1>4, <1>6, <2>2, <3>1 DEF HeapType, SameRest, Lists
    <2> QED BY <2>1, <2>2 DEF Lists
  <1>9. Unlinking(g.next, g.prev, S, n, nx, pv)
    BY <1>1, <1>2 DEF Unlinking
  <1>10. nx[n] = Null /\ pv[n] = Null
    BY <1>1
  <1>11. \A a \in Addr \ S : nx[a] = g.next[a] /\ pv[a] = g.prev[a]
    BY <1>1, <1>2, Addresses
  <1> HIDE DEF nx, pv
  <1>12. Listed(nx, pv, root, S \ {n})
    BY <1>9, LinkRemove
  <1> HIDE DEF root
  <1>13. Relinked(g, r, list, S)
    BY <1>8, <1>11 DEF Relinked
  <1> QED BY <1>8, <1>10, <1>12, <1>13 DEF r

\* Relinking one list leaves the other one alone.
LEMMA OtherList ==
  ASSUME NEW g, NEW r, NEW list \in Lists, NEW o \in Lists, o # list, NEW S, NEW T,
         Relinked(g, r, list, S), Listed(g.next, g.prev, g[o], T), T \cap S = {}
  PROVE  Listed(r.next, r.prev, r[o], T)
  <1>1. r[o] = g[o]
    BY DEF Relinked
  <1>2. \A a \in T : r.next[a] = g.next[a] /\ r.prev[a] = g.prev[a]
    BY DEF Relinked, Listed
  <1> QED BY <1>1, <1>2 DEF Listed

-----------------------------------------------------------------------------
(* Merging. *)

\* The walk back in FirstOfRun.
BackStep(g, m) ==
  IF g.prev[m] \notin {Null, Wild} /\ After(g, g.prev[m]) = m THEN g.prev[m] ELSE m

IsBack(g, n, l, w) ==
  w = [i \in 0 .. l |-> IF i = 0 THEN n ELSE BackStep(g, w[i - 1])]

LEMMA BackExists ==
  ASSUME NEW g, NEW n, NEW l \in Nat
  PROVE  \E w : IsBack(g, n, l, w)
  <1> DEFINE D == {m \in Nat : ~ \E w : IsBack(g, n, m, w)}
  <1>1. D = {}
    <2> SUFFICES ASSUME D # {}
                 PROVE  FALSE
      OBVIOUS
    <2>1. PICK m \in D : \A j \in D : m <= j
      <3>1. D \subseteq Nat
        OBVIOUS
      <3> HIDE DEF D
      <3> QED BY <3>1, LeastNumber
    <2>2. m \in Nat /\ ~ \E w : IsBack(g, n, m, w)
      BY <2>1
    <2>3. m # 0
      <3>1. SUFFICES ASSUME m = 0
                     PROVE  IsBack(g, n, m, [i \in 0 .. 0 |-> n])
        BY <2>2
      <3> QED BY <3>1 DEF IsBack
    <2>4. m - 1 \in Nat /\ m - 1 \notin D
      BY <2>1, <2>2, <2>3
    <2>5. PICK w : IsBack(g, n, m - 1, w)
      BY <2>4
    <2> DEFINE v == [i \in 0 .. m |-> IF i < m THEN w[i] ELSE BackStep(g, w[m - 1])]
    <2>6. ASSUME NEW i \in 0 .. m
          PROVE  v[i] = IF i = 0 THEN n ELSE BackStep(g, v[i - 1])
      <3>1. i # 0 => i - 1 \in 0 .. m /\ v[i - 1] = w[i - 1]
        BY <2>2
      <3>2. i < m => w[i] = IF i = 0 THEN n ELSE BackStep(g, w[i - 1])
        BY <2>2, <2>5 DEF IsBack
      <3>3. CASE i < m
        BY <3>1, <3>2, <3>3
      <3>4. CASE i = m
        BY <2>3, <3>1, <3>4
      <3> QED BY <2>2, <3>3, <3>4
    <2>7. IsBack(g, n, m, v)
      BY <2>6 DEF IsBack
    <2> QED BY <2>2, <2>7
  <1> QED BY <1>1

\* The walk stays where it finds no contiguous block.
LEMMA BackStays ==
  ASSUME NEW g, NEW n, NEW j \in 0 .. MaxNodes, NEW f,
         \A w : IsBack(g, n, MaxNodes, w) => w[j] = f, BackStep(g, f) = f
  PROVE  FirstOfRun(g, n) = f
  <1>1. MaxNodes \in Nat
    BY HeapAssumption DEF MaxNodes
  <1> DEFINE w == CHOOSE v : IsBack(g, n, MaxNodes, v)
  <1>2. IsBack(g, n, MaxNodes, w)
    BY <1>1, BackExists
  <1>3. FirstOfRun(g, n) = w[MaxNodes]
    BY DEF FirstOfRun, IsBack, BackStep
  <1> HIDE DEF w
  <1> DEFINE D == {i \in j .. MaxNodes : w[i] # f}
  <1>4. D = {}
    <2> SUFFICES ASSUME D # {}
                 PROVE  FALSE
      OBVIOUS
    <2>1. PICK m \in D : \A i \in D : m <= i
      <3>1. D \subseteq Nat
        BY <1>1
      <3> HIDE DEF D
      <3> QED BY <3>1, LeastNumber
    <2>2. m \in j .. MaxNodes /\ w[m] # f /\ m # j
      BY <1>2, <2>1
    <2>3. m - 1 \in j .. MaxNodes /\ m - 1 \notin D
      BY <1>1, <2>1, <2>2
    <2>4. w[m] = BackStep(g, w[m - 1])
      BY <1>1, <1>2, <2>2 DEF IsBack
    <2> QED BY <2>2, <2>3, <2>4
  <1>5. MaxNodes \in j .. MaxNodes
    BY <1>1
  <1> QED BY <1>3, <1>4, <1>5

\* The second loop.
MergeStep(g, f) == IF g.next[f] = After(g, f) THEN Swallow(g, f) ELSE g

IsRun(g, f, l, w) ==
  w = [i \in 0 .. l |-> IF i = 0 THEN [g EXCEPT !.wild = @ \/ g.prev[f] = Wild]
                                 ELSE MergeStep(w[i - 1], f)]

LEMMA RunExists ==
  ASSUME NEW g, NEW f, NEW l \in Nat
  PROVE  \E w : IsRun(g, f, l, w)
  <1> DEFINE g0 == [g EXCEPT !.wild = @ \/ g.prev[f] = Wild]
             D == {m \in Nat : ~ \E w : IsRun(g, f, m, w)}
  <1>0. \A m, w : IsRun(g, f, m, w)
          <=> w = [i \in 0 .. m |-> IF i = 0 THEN g0 ELSE MergeStep(w[i - 1], f)]
    BY DEF IsRun
  <1> HIDE DEF g0
  <1>1. D = {}
    <2> SUFFICES ASSUME D # {}
                 PROVE  FALSE
      OBVIOUS
    <2>1. PICK m \in D : \A j \in D : m <= j
      <3>1. D \subseteq Nat
        OBVIOUS
      <3> HIDE DEF D
      <3> QED BY <3>1, LeastNumber
    <2>2. m \in Nat /\ ~ \E w : IsRun(g, f, m, w)
      BY <2>1
    <2>3. m # 0
      <3>1. SUFFICES ASSUME m = 0
                     PROVE  IsRun(g, f, m, [i \in 0 .. 0 |-> g0])
        BY <2>2
      <3> DEFINE v == [i \in 0 .. 0 |-> g0]
      <3>2. v = [i \in 0 .. m |-> IF i = 0 THEN g0 ELSE MergeStep(v[i - 1], f)]
        BY <3>1
      <3> QED BY <1>0, <3>2
    <2>4. m - 1 \in Nat /\ m - 1 \notin D
      BY <2>1, <2>2, <2>3
    <2>5. PICK w : IsRun(g, f, m - 1, w)
      BY <2>4
    <2> DEFINE v == [i \in 0 .. m |-> IF i < m THEN w[i] ELSE MergeStep(w[m - 1], f)]
    <2>6. ASSUME NEW i \in 0 .. m
          PROVE  v[i] = IF i = 0 THEN g0 ELSE MergeStep(v[i - 1], f)
      <3>1. i # 0 => i - 1 \in 0 .. m /\ v[i - 1] = w[i - 1]
        BY <2>2
      <3>2. i < m => w[i] = IF i = 0 THEN g0 ELSE MergeStep(w[i - 1], f)
        BY <1>0, <2>2, <2>5
      <3>3. CASE i < m
        BY <3>1, <3>2, <3>3
      <3>4. CASE i = m
        BY <2>3, <3>1, <3>4
      <3> QED BY <2>2, <3>3, <3>4
    <2>7. IsRun(g, f, m, v)
      BY <1>0, <2>6
    <2> QED BY <2>2, <2>7
  <1> QED BY <1>1

\* The loop ends where the next free block is not contiguous.
LEMMA RunStays ==
  ASSUME NEW g, NEW n, NEW f, f = FirstOfRun(g, n), NEW j \in 0 .. MaxNodes, NEW r,
         \A w : IsRun(g, f, MaxNodes, w) => w[j] = r, r.next[f] # After(r, f)
  PROVE  Merge(g, n) = r
  <1>1. MaxNodes \in Nat
    BY HeapAssumption DEF MaxNodes
  <1> DEFINE w == CHOOSE v : IsRun(g, f, MaxNodes, v)
  <1>2. IsRun(g, f, MaxNodes, w)
    BY <1>1, RunExists
  <1>3. Merge(g, n) = w[MaxNodes]
    BY DEF Merge, IsRun, MergeStep
  <1> HIDE DEF w
  <1>4. MergeStep(r, f) = r
    BY DEF MergeStep
  <1> DEFINE D == {i \in j .. MaxNodes : w[i] # r}
  <1>5. D = {}
    <2> SUFFICES ASSUME D # {}
                 PROVE  FALSE
      OBVIOUS
    <2>1. PICK m \in D : \A i \in D : m <= i
      <3>1. D \subseteq Nat
        BY <1>1
      <3> HIDE DEF D
      <3> QED BY <3>1, LeastNumber
    <2>2. m \in j .. MaxNodes /\ w[m] # r /\ m # j
      BY <1>2, <2>1
    <2>3. m - 1 \in j .. MaxNodes /\ m - 1 \notin D
      BY <1>1, <2>1, <2>2
    <2>4. w[m] = MergeStep(w[m - 1], f)
      <3> DEFINE g0 == [g EXCEPT !.wild = @ \/ g.prev[f] = Wild]
      <3>1. w = [i \in 0 .. MaxNodes |-> IF i = 0 THEN g0 ELSE MergeStep(w[i - 1], f)]
        BY <1>2 DEF IsRun
      <3> HIDE DEF g0
      <3>2. m \in 0 .. MaxNodes /\ m # 0
        BY <1>1, <2>2
      <3> QED BY <3>1, <3>2
    <2> QED BY <1>4, <2>2, <2>3, <2>4
  <1>6. MaxNodes \in j .. MaxNodes
    BY <1>1
  <1> QED BY <1>3, <1>5, <1>6

\* The two lists of the heap g.
TwoLists(g, S, T) ==
  /\ g \in HeapType /\ g.wild = FALSE
  /\ Listed(g.next, g.prev, g.available, S)
  /\ Listed(g.next, g.prev, g.assigned, T)
  /\ S \cap T = {}

\* r is g with c blocks Q swallowed by the free block f, which then ends at e.
Joined(g, r, S, T, f, Q, e, c) ==
  /\ TwoLists(r, S \ Q, T)
  /\ r.magic = g.magic
  /\ r.size = [g.size EXCEPT ![f] = e - f - Hdr]
  /\ r.freemem = g.freemem + c * Hdr
  /\ r.totalnodes = g.totalnodes - c

LEMMA SwallowIs ==
  ASSUME NEW g, NEW S, NEW T, TwoLists(g, S, T),
         NEW f \in S, g.next[f] \in S, After(g, f) = g.next[f]
  PROVE  Joined(g, Swallow(g, f), S, T, f, {g.next[f]}, After(g, g.next[f]), 1)
  <1> DEFINE m == g.next[f]
             g1 == [g EXCEPT !.freemem = @ + Hdr, !.totalnodes = @ - 1]
             r == ItemRemove(g1, "available", m)
             r1 == [r EXCEPT !.size[f] = @ + g.size[m] + Hdr]
  <1>1. Swallow(g, f) = r1
    BY DEF Swallow
  <1>2. /\ g \in HeapType /\ Hdr \in Nat /\ 0 < Hdr
        /\ S \subseteq Addr /\ T \subseteq Addr /\ f \in Addr /\ m \in Addr /\ f \in Nat /\ m \in Nat
        /\ g.size[f] \in Nat /\ g.size[m] \in Nat
    BY Addresses DEF TwoLists, Listed, HeapType
  <1> HIDE DEF m
  <1>3. /\ g1 \in HeapType /\ g1.next = g.next /\ g1.prev = g.prev /\ g1.size = g.size
        /\ g1.magic = g.magic /\ g1.wild = g.wild
        /\ g1.freemem = g.freemem + Hdr /\ g1.totalnodes = g.totalnodes - 1
        /\ g1["available"] = g.available /\ g1["assigned"] = g.assigned
    <2>1. g.freemem \in Int /\ g.totalnodes \in Int
      BY <1>2 DEF HeapType
    <2>2. g.freemem + Hdr \in Int /\ g.totalnodes - 1 \in Int
      BY <1>2, <2>1
    <2> QED BY <1>2, <2>2 DEF HeapType
  <1> HIDE DEF g1
  <1>4. /\ Listed(r.next, r.prev, r["available"], S \ {m})
        /\ Relinked(g1, r, "available", S)
        /\ r.wild = g.wild
    <2>1. "available" \in Lists /\ Listed(g1.next, g1.prev, g1["available"], S) /\ m \in S
      BY <1>3 DEF TwoLists, Lists, m
    <2> QED BY <1>3, <2>1, ItemRemoveIs
  <1> HIDE DEF r
  <1>5. Listed(r.next, r.prev, r["assigned"], T)
    <2>1. Listed(g1.next, g1.prev, g1["assigned"], T) /\ T \cap S = {}
      BY <1>3 DEF TwoLists
    <2>2. "available" \in Lists /\ "assigned" \in Lists /\ "available" # "assigned"
      BY DEF Lists
    <2> QED BY <1>4, <2>1, <2>2, OtherList
  <1>6. /\ r \in HeapType /\ r.size = g.size /\ r.magic = g.magic
        /\ r.freemem = g.freemem + Hdr /\ r.totalnodes = g.totalnodes - 1
    BY <1>3, <1>4 DEF Relinked, SameRest
  <1>7. /\ r1 \in HeapType /\ r1.next = r.next /\ r1.prev = r.prev
        /\ r1.available = r.available /\ r1.assigned = r.assigned
        /\ r1.magic = g.magic /\ r1.wild = r.wild
        /\ r1.freemem = g.freemem + Hdr /\ r1.totalnodes = g.totalnodes - 1
        /\ r1.size = [g.size EXCEPT ![f] = g.size[f] + g.size[m] + Hdr]
    BY <1>2, <1>6 DEF HeapType
  <1>8. After(g, m) - f - Hdr = g.size[f] + g.size[m] + Hdr
    <2>1. m = f + Hdr + g.size[f] /\ After(g, m) = m + Hdr + g.size[m]
      BY DEF After, m
    <2> QED BY <1>2, <2>1
  <1> HIDE DEF r1
  <1>9. TwoLists(r1, S \ {m}, T)
    BY <1>4, <1>5, <1>7 DEF TwoLists
  <1>10. 1 * Hdr = Hdr
    BY <1>2
  <1>11. Joined(g, r1, S, T, f, {m}, After(g, m), 1)
    BY <1>7, <1>8, <1>9, <1>10 DEF Joined
  <1> QED BY <1>1, <1>11 DEF m

\* The blocks S do not overlap, and lie in the memory.
Disjoint(g, S) ==
  /\ \A a \in S : After(g, a) <= Words
  /\ \A a, b \in S : a < b => After(g, a) <= b

\* Of the free blocks S only n may have a free neighbour.
OnlyAt(g, S, n) == \A a \in S \ {n} : After(g, a) \notin S \ {n}

LEMMA AfterIs ==
  ASSUME NEW g \in HeapType, NEW a \in Addr
  PROVE  /\ After(g, a) = a + Hdr + g.size[a] /\ After(g, a) \in Nat
         /\ a < After(g, a) /\ a + Hdr <= After(g, a)
  <1>1. a \in Nat /\ g.size[a] \in Nat /\ Hdr \in Nat /\ 0 < Hdr
    BY Addresses DEF HeapType
  <1> QED BY <1>1 DEF After

\* The block behind a in the list is the one a ends at, if a free block begins there.
LEMMA NextIsAfter ==
  ASSUME NEW g, NEW S, NEW T, TwoLists(g, S, T), Disjoint(g, S), NEW a \in S
  PROVE  /\ After(g, a) \in S => g.next[a] = After(g, a) /\ g.prev[After(g, a)] = a
         /\ g.next[a] = After(g, a) => After(g, a) \in S
         /\ g.prev[a] \in S \cup {Null}
  <1> DEFINE x == After(g, a)
  <1>1. g \in HeapType /\ S \subseteq Addr /\ \A b \in S : b \in Nat /\ b \in Addr /\ b # Null
    BY Addresses DEF TwoLists, Listed
  <1>2. x \in Nat /\ a < x /\ x # Null
    BY <1>1, AfterIs, Addresses
  <1>3. IsNext(S, a, g.next[a]) /\ IsPrev(S, a, g.prev[a])
    BY DEF TwoLists, Listed
  <1> HIDE DEF x
  <1>4. ASSUME x \in S
        PROVE  g.next[a] = x
    <2>1. g.next[a] \in S /\ a < g.next[a] /\ g.next[a] <= x
      <3>1. ~(x <= a) /\ a \in S /\ x \in S
        BY <1>1, <1>2, <1>4
      <3> QED BY <1>3, <3>1 DEF IsNext
    <2>2. x <= g.next[a]
      BY <2>1 DEF Disjoint, x
    <2> QED BY <1>1, <1>2, <2>1, <2>2
  <1>5. ASSUME x \in S
        PROVE  g.prev[x] = a
    <2>1. IsPrev(S, x, g.prev[x])
      BY <1>5 DEF TwoLists, Listed
    <2>2. g.prev[x] \in S /\ g.prev[x] < x /\ a <= g.prev[x]
      BY <1>1, <1>2, <2>1 DEF IsPrev
    <2>3. ~(a < g.prev[x])
      <3>1. SUFFICES ASSUME a < g.prev[x]
                     PROVE  FALSE
        OBVIOUS
      <3>2. x <= g.prev[x]
        BY <2>2, <3>1 DEF Disjoint, x
      <3> QED BY <1>1, <1>2, <2>2, <3>2
    <2> QED BY <1>1, <2>2, <2>3
  <1>6. g.next[a] = x => x \in S
    BY <1>2, <1>3 DEF IsNext
  <1>7. g.prev[a] \in S \cup {Null}
    BY <1>3 DEF IsPrev
  <1> QED BY <1>4, <1>5, <1>6, <1>7 DEF x

\* Where merging around n starts: at the free block that ends at n, if there is one.
LEMMA FirstOfRunIs ==
  ASSUME NEW g, NEW S, NEW T, TwoLists(g, S, T), Disjoint(g, S), NEW n \in S,
         OnlyAt(g, S, n)
  PROVE  /\ \A p \in S : After(g, p) = n => FirstOfRun(g, n) = p
         /\ (\A p \in S : After(g, p) # n) => FirstOfRun(g, n) = n
  <1>1. g \in HeapType /\ S \subseteq Addr /\ \A b \in S : b \in Nat /\ b \in Addr /\ b # Null /\ b # Wild
    BY Addresses DEF TwoLists, Listed
  <1>2. ASSUME NEW p \in S, After(g, p) = n
        PROVE  FirstOfRun(g, n) = p
    <2>1. g.prev[n] = p
      BY <1>2, NextIsAfter
    <2>2. BackStep(g, n) = p
      BY <1>1, <1>2, <2>1 DEF BackStep
    <2>3. p < n /\ p # n
      BY <1>1, <1>2, AfterIs
    <2>4. BackStep(g, p) = p
      <3>1. SUFFICES ASSUME g.prev[p] \notin {Null, Wild}, After(g, g.prev[p]) = p
                     PROVE  FALSE
        BY DEF BackStep
      <3>2. g.prev[p] \in S
        BY <3>1, NextIsAfter
      <3>3. g.prev[p] < p
        BY <1>1, <3>1, <3>2, AfterIs
      <3>4. g.prev[p] \in S \ {n}
        BY <1>1, <2>3, <3>2, <3>3
      <3> QED BY <2>3, <3>1, <3>4 DEF OnlyAt
    <2>5. 1 \in 0 .. MaxNodes
      <3>1. 1 * Hdr <= Words /\ MaxNodes \in Nat
        BY HeapAssumption DEF MaxNodes
      <3> QED BY <3>1, HeadersFit
    <2>6. \A w : IsBack(g, n, MaxNodes, w) => w[1] = p
      <3> SUFFICES ASSUME NEW w, IsBack(g, n, MaxNodes, w)
                   PROVE  w[1] = p
        OBVIOUS
      <3>1. w[0] = n /\ w[1] = BackStep(g, w[0])
        <4>1. 0 \in 0 .. MaxNodes /\ 1 \in 0 .. MaxNodes /\ 1 - 1 = 0 /\ 1 # 0
          BY <2>5, HeapAssumption DEF MaxNodes
        <4> QED BY <4>1 DEF IsBack
      <3> QED BY <2>2, <3>1
    <2> QED BY <2>4, <2>5, <2>6, BackStays
  <1>3. ASSUME \A p \in S : After(g, p) # n
        PROVE  FirstOfRun(g, n) = n
    <2>1. BackStep(g, n) = n
      BY <1>3, NextIsAfter DEF BackStep
    <2>2. MaxNodes \in Nat
      BY HeapAssumption DEF MaxNodes
    <2>3. 0 \in 0 .. MaxNodes /\ \A w : IsBack(g, n, MaxNodes, w) => w[0] = n
      BY <2>2 DEF IsBack
    <2> QED BY <2>1, <2>3, BackStays
  <1> QED BY <1>2, <1>3

\* What merging around n makes of the free blocks: f swallows the c blocks Q, to e.
MergesTo(g, S, n, f, Q, e, c) ==
  \/ /\ \A p \in S : After(g, p) # n
     /\ After(g, n) \notin S
     /\ f = n /\ Q = {} /\ e = After(g, n) /\ c = 0
  \/ /\ \A p \in S : After(g, p) # n
     /\ After(g, n) \in S
     /\ f = n /\ Q = {After(g, n)} /\ e = After(g, After(g, n)) /\ c = 1
  \/ /\ f \in S /\ After(g, f) = n
     /\ After(g, n) \notin S
     /\ Q = {n} /\ e = After(g, n) /\ c = 1
  \/ /\ f \in S /\ After(g, f) = n
     /\ After(g, n) \in S
     /\ Q = {n, After(g, n)} /\ e = After(g, After(g, n)) /\ c = 2

\* The blocks after one has been swallowed.
LEMMA JoinedOne ==
  ASSUME NEW g, NEW S, NEW T, TwoLists(g, S, T), Disjoint(g, S), NEW f \in S,
         NEW m \in S, After(g, f) = m, NEW r, Joined(g, r, S, T, f, {m}, After(g, m), 1)
  PROVE  /\ TwoLists(r, S \ {m}, T) /\ Disjoint(r, S \ {m})
         /\ After(r, f) = After(g, m) /\ f \in S \ {m}
         /\ \A a \in Addr \ {f} : After(r, a) = After(g, a)
  <1>1. /\ g \in HeapType /\ S \subseteq Addr
        /\ \A b \in S : b \in Nat /\ b \in Addr
        /\ Hdr \in Nat /\ Words \in Nat
    BY Addresses DEF TwoLists, Listed
  <1>2. /\ \A a \in S : After(g, a) \in Nat /\ a < After(g, a)
        /\ f + Hdr <= m
    BY <1>1, AfterIs
  <1>3. /\ TwoLists(r, S \ {m}, T)
        /\ r.size = [g.size EXCEPT ![f] = After(g, m) - f - Hdr]
    BY DEF Joined
  <1>4. f \in S \ {m} /\ f < m
    BY <1>1, <1>2
  <1>5. After(r, f) = After(g, m)
    <2>1. r.size[f] = After(g, m) - f - Hdr
      BY <1>1, <1>3 DEF HeapType
    <2>2. After(r, f) = f + Hdr + r.size[f]
      BY DEF After
    <2> QED BY <1>1, <1>2, <2>1, <2>2
  <1>6. \A a \in Addr \ {f} : After(r, a) = After(g, a)
    BY <1>1, <1>3 DEF After, HeapType
  <1>7. Disjoint(r, S \ {m})
    <2>1. ASSUME NEW a \in S \ {m}
          PROVE  After(r, a) <= Words
      <3>1. CASE a = f
        BY <1>5, <3>1 DEF Disjoint
      <3>2. CASE a # f
        BY <1>1, <1>6, <3>2 DEF Disjoint
      <3> QED BY <3>1, <3>2
    <2>2. ASSUME NEW a \in S \ {m}, NEW b \in S \ {m}, a < b
          PROVE  After(r, a) <= b
      <3>1. CASE a = f
        <4>1. m <= b
          BY <2>2, <3>1 DEF Disjoint
        <4>2. m < b
          BY <1>1, <4>1
        <4> QED BY <1>5, <3>1, <4>2 DEF Disjoint
      <3>2. CASE a # f
        <4>1. After(g, a) <= b
          BY <2>2 DEF Disjoint
        <4> QED BY <1>1, <1>6, <3>2, <4>1
      <3> QED BY <3>1, <3>2
    <2> QED BY <2>1, <2>2 DEF Disjoint
  <1> QED BY <1>3, <1>4, <1>5, <1>6, <1>7

\* Three blocks: memory for two headers.
LEMMA RoomForTwo ==
  ASSUME NEW g, NEW S, NEW T, TwoLists(g, S, T), Disjoint(g, S),
         NEW a \in S, NEW b \in S, a < b
  PROVE  2 \in 0 .. MaxNodes
  <1>1. /\ g \in HeapType /\ a \in Addr /\ b \in Addr /\ a \in Nat /\ b \in Nat
        /\ Hdr \in Nat /\ Words \in Nat
    BY Addresses DEF TwoLists, Listed
  <1>2. /\ a + Hdr <= After(g, a) /\ b + Hdr <= After(g, b)
        /\ After(g, a) \in Nat /\ After(g, b) \in Nat
    BY <1>1, AfterIs
  <1>3. After(g, a) <= b /\ After(g, b) <= Words
    BY DEF Disjoint
  <1>4. 2 * Hdr <= Words
    BY <1>1, <1>2, <1>3
  <1>5. MaxNodes \in Nat
    BY HeapAssumption DEF MaxNodes
  <1> QED BY <1>4, <1>5, HeadersFit

LEMMA MergeIs ==
  ASSUME NEW g, NEW S, NEW T, TwoLists(g, S, T), Disjoint(g, S), NEW n \in S,
         OnlyAt(g, S, n), NEW f, NEW Q, NEW e, NEW c, MergesTo(g, S, n, f, Q, e, c)
  PROVE  Joined(g, Merge(g, n), S, T, f, Q, e, c)
  <1>1. /\ g \in HeapType /\ g.wild = FALSE /\ S \subseteq Addr
        /\ \A b \in S : b \in Nat /\ b \in Addr /\ b # Null /\ b # Wild
        /\ Hdr \in Nat
    BY Addresses DEF TwoLists, Listed
  <1>2. \A a \in S : a < After(g, a) /\ After(g, a) \in Nat
    BY <1>1, AfterIs
  <1>3. f \in S /\ f = FirstOfRun(g, n)
    BY FirstOfRunIs DEF MergesTo
  <1>4. MaxNodes \in Nat
    BY HeapAssumption DEF MaxNodes
  <1>5. ASSUME NEW w, IsRun(g, f, MaxNodes, w)
        PROVE  /\ w[0] = g
               /\ 1 \in 0 .. MaxNodes => w[1] = MergeStep(g, f)
               /\ 2 \in 0 .. MaxNodes => w[2] = MergeStep(MergeStep(g, f), f)
    <2> DEFINE g0 == [g EXCEPT !.wild = @ \/ g.prev[f] = Wild]
    <2>1. g0 = g
      <3>1. g.prev[f] # Wild
        <4>1. g.prev[f] \in S \cup {Null}
          BY <1>3, NextIsAfter
        <4> QED BY <1>1, <4>1, Addresses
      <3>2. (g.wild \/ g.prev[f] = Wild) = g.wild
        BY <1>1, <3>1
      <3>3. g0 = [g EXCEPT !.wild = g.wild]
        BY <3>2
      <3> QED BY <1>1, <3>3 DEF HeapType
    <2>2. w = [i \in 0 .. MaxNodes |-> IF i = 0 THEN g0 ELSE MergeStep(w[i - 1], f)]
      BY <1>5 DEF IsRun
    <2> HIDE DEF g0
    <2>3. 0 \in 0 .. MaxNodes /\ 1 - 1 = 0 /\ 2 - 1 = 1 /\ 1 # 0 /\ 2 # 0
      BY <1>4
    <2>4. 2 \in 0 .. MaxNodes => 1 \in 0 .. MaxNodes
      BY <1>4
    <2> QED BY <2>1, <2>2, <2>3, <2>4
  <1>6. ASSUME After(g, f) \notin S
        PROVE  Merge(g, n) = g
    <2>1. g.next[f] # After(g, f)
      BY <1>3, <1>6, NextIsAfter
    <2>2. 0 \in 0 .. MaxNodes
      BY <1>4
    <2> QED BY <1>3, <1>5, <2>1, <2>2, RunStays
  <1>7. 1 \in 0 .. MaxNodes
    <2>1. 1 * Hdr <= Words
      BY HeapAssumption
    <2> QED BY <1>4, <2>1, HeadersFit
  <1> DEFINE m == After(g, f)
             r1 == Swallow(g, f)
  <1>8. ASSUME m \in S
        PROVE  /\ MergeStep(g, f) = r1
               /\ Joined(g, r1, S, T, f, {m}, After(g, m), 1)
               /\ TwoLists(r1, S \ {m}, T) /\ Disjoint(r1, S \ {m})
               /\ After(r1, f) = After(g, m) /\ f \in S \ {m}
               /\ \A a \in Addr \ {f} : After(r1, a) = After(g, a)
    <2>1. g.next[f] = m
      BY <1>3, <1>8, NextIsAfter
    <2>2. Joined(g, r1, S, T, f, {m}, After(g, m), 1)
      BY <1>3, <1>8, <2>1, SwallowIs
    <2>3. MergeStep(g, f) = r1
      BY <2>1 DEF MergeStep
    <2> HIDE DEF r1
    <2> QED BY <1>3, <1>8, <2>2, <2>3, JoinedOne
  <1> HIDE DEF r1
  <1>9. ASSUME m \in S, After(g, m) \notin S
        PROVE  Merge(g, n) = r1
    <2>1. r1.next[f] # After(r1, f)
      BY <1>8, <1>9, NextIsAfter
    <2>2. \A w : IsRun(g, f, MaxNodes, w) => w[1] = r1
      BY <1>5, <1>7, <1>8, <1>9
    <2> QED BY <1>3, <1>7, <2>1, <2>2, RunStays
  <1>10. ASSUME NEW q \in S \ {n}, q > n
         PROVE  After(g, q) \notin S
    <2>1. After(g, q) \notin S \ {n}
      BY DEF OnlyAt
    <2>2. After(g, q) # n
      BY <1>1, <1>2, <1>10
    <2> QED BY <2>1, <2>2
  <1>11. CASE /\ \A p \in S : After(g, p) # n
              /\ After(g, n) \notin S
              /\ f = n /\ Q = {} /\ e = After(g, n) /\ c = 0
    <2>1. Merge(g, n) = g
      BY <1>6, <1>11
    <2>2. e - f - Hdr = g.size[f]
      <3>1. g.size[f] \in Nat
        BY <1>1, <1>3 DEF HeapType
      <3> QED BY <1>1, <1>3, <1>11, <3>1 DEF After
    <2>3. /\ g.size = [g.size EXCEPT ![f] = e - f - Hdr] /\ S \ Q = S
          /\ g.freemem = g.freemem + 0 * Hdr /\ g.totalnodes = g.totalnodes - 0
      BY <1>1, <1>11, <2>2 DEF HeapType
    <2> QED BY <1>11, <2>1, <2>3 DEF Joined
  <1>12. CASE /\ \A p \in S : After(g, p) # n
              /\ After(g, n) \in S
              /\ f = n /\ Q = {After(g, n)} /\ e = After(g, After(g, n)) /\ c = 1
    <2>1. m \in S \ {n} /\ m > n
      BY <1>1, <1>2, <1>12
    <2>2. Merge(g, n) = r1
      BY <1>9, <1>10, <2>1
    <2> QED BY <1>8, <1>12, <2>1, <2>2
  <1>13. CASE /\ f \in S /\ After(g, f) = n
              /\ After(g, n) \notin S
              /\ Q = {n} /\ e = After(g, n) /\ c = 1
    <2>1. Merge(g, n) = r1
      BY <1>9, <1>13
    <2> QED BY <1>8, <1>13, <2>1
  <1>14. CASE /\ f \in S /\ After(g, f) = n
              /\ After(g, n) \in S
              /\ Q = {n, After(g, n)} /\ e = After(g, After(g, n)) /\ c = 2
    <2> DEFINE q == After(g, n)
               r2 == Swallow(r1, f)
    <2>1. m = n /\ q \in S \ {n} /\ q > n /\ f < n /\ q # f /\ q \in Addr
      BY <1>1, <1>2, <1>14
    <2>2. /\ TwoLists(r1, S \ {n}, T) /\ Disjoint(r1, S \ {n})
          /\ After(r1, f) = q /\ f \in S \ {n}
          /\ MergeStep(g, f) = r1
          /\ Joined(g, r1, S, T, f, {n}, q, 1)
          /\ After(r1, q) = After(g, q)
      BY <1>8, <2>1
    <2> HIDE DEF q
    <2>3. r1.next[f] = q
      BY <2>1, <2>2, NextIsAfter
    <2>4. Joined(r1, r2, S \ {n}, T, f, {q}, After(r1, q), 1)
      BY <2>1, <2>2, <2>3, SwallowIs
    <2>5. MergeStep(r1, f) = r2
      BY <2>2, <2>3 DEF MergeStep
    <2> HIDE DEF r2
    <2>6. /\ TwoLists(r2, (S \ {n}) \ {q}, T) /\ Disjoint(r2, (S \ {n}) \ {q})
          /\ After(r2, f) = After(g, q) /\ f \in (S \ {n}) \ {q}
      BY <2>1, <2>2, <2>4, JoinedOne
    <2>7. After(g, q) \notin S
      BY <1>10, <2>1
    <2>8. r2.next[f] # After(r2, f)
      BY <2>6, <2>7, NextIsAfter
    <2>9. 2 \in 0 .. MaxNodes
      BY <1>3, <2>1, RoomForTwo
    <2>10. \A w : IsRun(g, f, MaxNodes, w) => w[2] = r2
      BY <1>5, <2>2, <2>5, <2>9
    <2>11. Merge(g, n) = r2
      BY <1>3, <2>8, <2>9, <2>10, RunStays
    <2>12. S \ {n, q} = (S \ {n}) \ {q}
      OBVIOUS
    <2>13. /\ r2.magic = g.magic
           /\ r2.size = [g.size EXCEPT ![f] = After(g, q) - f - Hdr]
           /\ r2.freemem = g.freemem + 2 * Hdr /\ r2.totalnodes = g.totalnodes - 2
      <3>1. /\ r1.magic = g.magic /\ r1.size = [g.size EXCEPT ![f] = q - f - Hdr]
            /\ r1.freemem = g.freemem + 1 * Hdr /\ r1.totalnodes = g.totalnodes - 1
        BY <2>2 DEF Joined
      <3>2. /\ r2.magic = r1.magic /\ r2.size = [r1.size EXCEPT ![f] = After(g, q) - f - Hdr]
            /\ r2.freemem = r1.freemem + 1 * Hdr /\ r2.totalnodes = r1.totalnodes - 1
        BY <2>2, <2>4 DEF Joined
      <3>3. g.freemem \in Int /\ g.totalnodes \in Int /\ g.size \in [Addr -> Nat]
        BY <1>1 DEF HeapType
      <3>4. r2.size = [g.size EXCEPT ![f] = After(g, q) - f - Hdr]
        BY <1>1, <1>3, <3>1, <3>2, <3>3
      <3> QED BY <1>1, <3>1, <3>2, <3>3, <3>4
    <2>14. Joined(g, r2, S, T, f, {n, q}, After(g, q), 2)
      BY <2>6, <2>12, <2>13 DEF Joined
    <2> QED BY <1>14, <2>11, <2>14 DEF q
  <1> QED BY <1>11, <1>12, <1>13, <1>14 DEF MergesTo

-----------------------------------------------------------------------------
(* A sound heap, and what allocating and freeing do to it. *)

\* The blocks lie side by side and fill the memory; no two neighbours are free.
Layout(g, A, U) ==
  /\ 0 \in A \cup U
  /\ \A b \in A \cup U : After(g, b) \in A \cup U \cup {Words}
  /\ Disjoint(g, A \cup U)
  /\ \A b \in A : After(g, b) \notin A

\* The program never leaves more than two free blocks.
Counted(g, A) ==
  \/ A = {} /\ g.freemem = 0
  \/ \E a \in A : A = {a} /\ g.freemem = g.size[a]
  \/ \E a, b \in A : a # b /\ A = {a, b} /\ g.freemem = g.size[a] + g.size[b]

\* A are the free and U the used blocks of the heap g.
Sound(g, A, U) ==
  /\ TwoLists(g, A, U)
  /\ Layout(g, A, U)
  /\ g.totalnodes = Cardinality(A \cup U)
  /\ Counted(g, A)

LEMMA FiniteBlocks ==
  ASSUME NEW S, S \subseteq Addr
  PROVE  IsFiniteSet(S)
  <1>1. IsFiniteSet(0 .. Words - 1)
    <2>1. 0 \in Int /\ Words - 1 \in Int
      BY HeapAssumption
    <2> QED BY <2>1, FS_Interval
  <1>2. IsFiniteSet(Addr) /\ S \in SUBSET Addr
    BY <1>1 DEF Addr
  <1> QED BY <1>2, FS_Subset

\* No two blocks end in the same place.
LEMMA OneEndsAt ==
  ASSUME NEW g \in HeapType, NEW S, S \subseteq Addr, Disjoint(g, S),
         NEW a \in S, NEW b \in S, After(g, a) = After(g, b)
  PROVE  a = b
  <1>1. a \in Nat /\ b \in Nat /\ After(g, a) \in Nat /\ a < After(g, a) /\ b < After(g, b)
    BY AfterIs, Addresses
  <1>2. (a < b => After(g, a) <= b) /\ (b < a => After(g, b) <= a)
    BY DEF Disjoint
  <1> QED BY <1>1, <1>2

\* The used block n becomes free: f is to swallow the c blocks Q, up to e.
Frees(g, A, U, n, f, Q, e, c) ==
  /\ TwoLists(g, A, U) /\ Layout(g, A, U)
  /\ n \in U
  /\ MergesTo(g, A \cup {n}, n, f, Q, e, c)

LEMMA MergesFacts ==
  ASSUME NEW g, NEW A, NEW U, NEW n, NEW f, NEW Q, NEW e, NEW c, Frees(g, A, U, n, f, Q, e, c)
  PROVE  /\ f \in A \cup {n} /\ f \notin Q /\ Q \subseteq A \cup {n}
         /\ f \in Nat /\ e \in Nat /\ f + Hdr <= e /\ e <= Words
         /\ e \in A \cup U \cup {Words} /\ e \notin A \cup {n}
         /\ \A x \in Q : f < x /\ x < e
         /\ \A b \in A \cup U : b # f /\ b \notin Q => After(g, b) \notin Q
         /\ \A b \in A : b # f => After(g, b) # n
         /\ \A b \in A \cup U : f < b => b \in Q \/ e <= b
  <1> DEFINE B == A \cup U
             q == After(g, n)
  <1> USE DEF Frees
  <1>1. /\ g \in HeapType /\ B \subseteq Addr /\ n \in B /\ n \notin A
        /\ \A b \in B : b \in Nat /\ b \in Addr /\ b # Words
        /\ Hdr \in Nat /\ Words \in Nat /\ 0 < Hdr
    <2>1. g \in HeapType /\ A \subseteq Addr /\ U \subseteq Addr /\ n \notin A
      BY DEF TwoLists, Listed
    <2> QED BY <2>1, Addresses
  <1>2. /\ \A b \in B : /\ b < After(g, b) /\ b + Hdr <= After(g, b) /\ After(g, b) \in Nat
                        /\ After(g, b) \in B \cup {Words} /\ After(g, b) <= Words
        /\ \A a, b \in B : a < b => After(g, a) <= b
        /\ \A b \in A : After(g, b) \notin A
    BY <1>1, AfterIs DEF Layout, Disjoint
  <1>3. \A a, b \in B : After(g, a) = After(g, b) => a = b
    BY <1>1, OneEndsAt DEF Layout
  <1>4. q # n /\ n < q /\ q \in Nat
    BY <1>1, <1>2
  <1>5. q \in A => After(g, q) \notin A \cup {n} /\ q < After(g, q) /\ After(g, q) # n
    BY <1>1, <1>2, <1>4
  <1>6. CASE (\A p \in A \cup {n} : After(g, p) # n) /\ q \notin A \cup {n}
             /\ f = n /\ Q = {} /\ e = q /\ c = 0
    <2>1. \A b \in B : f < b => e <= b
      BY <1>1, <1>2, <1>6
    <2>2. /\ f \in A \cup {n} /\ f \notin Q /\ Q \subseteq A \cup {n} /\ f \in Nat
          /\ \A x \in Q : f < x /\ x < e
          /\ \A b \in B : b # f /\ b \notin Q => After(g, b) \notin Q
      BY <1>1, <1>6
    <2>4. \A b \in A : b # f => After(g, b) # n
      BY <1>6
    <2>3. /\ e \in Nat /\ f + Hdr <= e /\ e <= Words
          /\ e \in B \cup {Words} /\ e \notin A \cup {n}
      BY <1>1, <1>2, <1>6
    <2> QED BY <2>1, <2>2, <2>3, <2>4
  <1>7. CASE (\A p \in A \cup {n} : After(g, p) # n) /\ q \in A \cup {n}
             /\ f = n /\ Q = {q} /\ e = After(g, q) /\ c = 1
    <2>1. q \in A
      BY <1>4, <1>7
    <2>2. \A b \in B : f < b => b = q \/ e <= b
      <3> SUFFICES ASSUME NEW b \in B, n < b, b # q
                   PROVE  After(g, q) <= b
        BY <1>7
      <3>1. q <= b
        BY <1>1, <1>2
      <3>2. q < b
        BY <1>1, <1>4, <3>1
      <3> QED BY <1>2, <2>1, <3>2
    <2>3. \A b \in B : b # n => After(g, b) # q
      BY <1>1, <1>3
    <2>4. n + Hdr <= After(g, q) /\ q < After(g, q) /\ After(g, q) \in Nat
      BY <1>1, <1>2, <1>4, <2>1
    <2> QED BY <1>1, <1>2, <1>4, <1>5, <1>7, <2>1, <2>2, <2>3, <2>4
  <1>8. CASE f \in A \cup {n} /\ After(g, f) = n /\ q \notin A \cup {n}
             /\ Q = {n} /\ e = q /\ c = 1
    <2>1. f \in A /\ f < n /\ f \in Nat
      BY <1>1, <1>2, <1>4, <1>8
    <2>2. \A b \in B : f < b => b = n \/ e <= b
      <3> SUFFICES ASSUME NEW b \in B, f < b, b # n
                   PROVE  q <= b
        BY <1>8
      <3>1. n <= b
        BY <1>2, <1>8, <2>1
      <3>2. n < b
        BY <1>1, <3>1
      <3> QED BY <1>1, <1>2, <3>2
    <2>3. \A b \in B : b # f => After(g, b) # n
      BY <1>3, <1>8, <2>1
    <2>4. f + Hdr <= n /\ f + Hdr <= q
      BY <1>1, <1>2, <1>4, <1>8, <2>1
    <2> QED BY <1>1, <1>2, <1>4, <1>8, <2>1, <2>2, <2>3, <2>4
  <1>9. CASE f \in A \cup {n} /\ After(g, f) = n /\ q \in A \cup {n}
             /\ Q = {n, q} /\ e = After(g, q) /\ c = 2
    <2>1. f \in A /\ f < n /\ f \in Nat /\ q \in A
      BY <1>1, <1>2, <1>4, <1>9
    <2>2. \A b \in B : f < b => b = n \/ b = q \/ e <= b
      <3> SUFFICES ASSUME NEW b \in B, f < b, b # n, b # q
                   PROVE  After(g, q) <= b
        BY <1>9
      <3>1. n <= b
        BY <1>2, <1>9, <2>1
      <3>2. n < b
        BY <1>1, <3>1
      <3>3. q <= b
        BY <1>1, <1>2, <3>2
      <3>4. q < b
        BY <1>1, <1>4, <3>3
      <3> QED BY <1>2, <2>1, <3>4
    <2>3. \A b \in B : (b # f => After(g, b) # n) /\ (b # n => After(g, b) # q)
      BY <1>1, <1>3, <1>9, <2>1
    <2>4. /\ f + Hdr <= n /\ f + Hdr <= After(g, q) /\ f < q
          /\ n < After(g, q) /\ q < After(g, q) /\ After(g, q) \in Nat
      BY <1>1, <1>2, <1>4, <1>9, <2>1
    <2> QED BY <1>1, <1>2, <1>4, <1>5, <1>9, <2>1, <2>2, <2>3, <2>4
  <1> QED BY <1>6, <1>7, <1>8, <1>9 DEF MergesTo

\* Taking c blocks out of a set of blocks.
LEMMA FewerBlocks ==
  ASSUME NEW B, B \subseteq Addr, NEW Q, Q \subseteq B, NEW c,
         \/ Q = {} /\ c = 0
         \/ \E x \in Q : Q = {x} /\ c = 1
         \/ \E x, y \in Q : x # y /\ Q = {x, y} /\ c = 2
  PROVE  Cardinality(B \ Q) = Cardinality(B) - c /\ Cardinality(B) \in Nat
  <1>1. IsFiniteSet(B) /\ Cardinality(B) \in Nat
    BY FiniteBlocks, FS_CardinalityType
  <1>2. CASE Q = {} /\ c = 0
    <2>1. B \ Q = B
      BY <1>2
    <2> QED BY <1>1, <1>2, <2>1
  <1>3. ASSUME NEW x \in Q, Q = {x}, c = 1
        PROVE  Cardinality(B \ Q) = Cardinality(B) - c
    <2>1. Cardinality(B \ {x}) = Cardinality(B) - 1
      BY <1>1, FS_RemoveElement
    <2> QED BY <1>3, <2>1
  <1>4. ASSUME NEW x \in Q, NEW y \in Q, x # y, Q = {x, y}, c = 2
        PROVE  Cardinality(B \ Q) = Cardinality(B) - c
    <2>1. Cardinality(B \ {x}) = Cardinality(B) - 1 /\ IsFiniteSet(B \ {x})
      BY <1>1, FS_RemoveElement
    <2>2. y \in B \ {x}
      BY <1>4
    <2>3. Cardinality((B \ {x}) \ {y}) = Cardinality(B \ {x}) - 1
      BY <2>1, <2>2, FS_RemoveElement
    <2>4. B \ Q = (B \ {x}) \ {y}
      BY <1>4
    <2>5. Cardinality(B \ Q) = Cardinality(B \ {x}) - 1
      BY <2>3, <2>4
    <2> QED BY <1>1, <1>4, <2>1, <2>5
  <1> QED BY <1>1, <1>2, <1>3, <1>4

\* How many blocks a merge swallows.
LEMMA MergesCount ==
  ASSUME NEW g, NEW A, NEW U, NEW n, NEW f, NEW Q, NEW e, NEW c, Frees(g, A, U, n, f, Q, e, c)
  PROVE  /\ \/ Q = {} /\ c = 0
            \/ \E x \in Q : Q = {x} /\ c = 1
            \/ \E x, y \in Q : x # y /\ Q = {x, y} /\ c = 2
         /\ n = f \/ n \in Q
  <1>1. g \in HeapType /\ n \in Addr /\ n \in Nat
    BY Addresses DEF Frees, TwoLists, Listed
  <1>2. n # After(g, n)
    BY <1>1, AfterIs
  <1> QED BY <1>2 DEF Frees, MergesTo

\* The layout after a merge: g differs from r in the size of f.
LEMMA MergedLayout ==
  ASSUME NEW g, NEW A, NEW U, NEW n, NEW f, NEW Q, NEW e, NEW c, Frees(g, A, U, n, f, Q, e, c),
         NEW r, r.size = [g.size EXCEPT ![f] = e - f - Hdr]
  PROVE  Layout(r, (A \cup {n}) \ Q, U \ {n})
  <1> DEFINE B == A \cup U
             C == ((A \cup {n}) \ Q) \cup (U \ {n})
  <1>1. /\ g \in HeapType /\ B \subseteq Addr /\ A \cap U = {}
        /\ \A b \in B : b \in Nat /\ b \in Addr /\ b # Words
        /\ Hdr \in Nat /\ Words \in Nat
    <2>1. g \in HeapType /\ A \subseteq Addr /\ U \subseteq Addr /\ A \cap U = {}
      BY DEF Frees, TwoLists, Listed
    <2> QED BY <2>1, Addresses
  <1>2. /\ f \in A \cup {n} /\ f \notin Q /\ Q \subseteq A \cup {n}
        /\ f \in Nat /\ e \in Nat /\ f + Hdr <= e /\ e <= Words
        /\ e \in B \cup {Words} /\ e \notin A \cup {n}
    BY MergesFacts
  <1>3. /\ \A x \in Q : f < x
        /\ \A b \in B : b # f /\ b \notin Q => After(g, b) \notin Q
        /\ \A b \in A : b # f => After(g, b) # n
        /\ \A b \in B : f < b => b \in Q \/ e <= b
    BY MergesFacts
  <1>4. n = f \/ n \in Q
    BY MergesCount
  <1>5. C = B \ Q /\ f \in B
    BY <1>1, <1>2 DEF Frees
  <1>6. /\ After(r, f) = e
        /\ \A b \in B : b # f => After(r, b) = After(g, b)
    <2>1. /\ r.size[f] = e - f - Hdr
          /\ \A b \in B : b # f => r.size[b] = g.size[b]
      <3>1. g.size \in [Addr -> Nat] /\ B \subseteq Addr /\ f \in B
        BY <1>1, <1>5 DEF HeapType
      <3> QED BY <3>1
    <2>2. After(r, f) = f + Hdr + r.size[f]
      BY DEF After
    <2>3. After(r, f) = e
      BY <1>1, <1>2, <2>1, <2>2
    <2>4. \A b \in B : b # f => After(r, b) = After(g, b)
      BY <2>1 DEF After
    <2> QED BY <2>3, <2>4
  <1>7. /\ 0 \in B
        /\ \A b \in B : After(g, b) \in B \cup {Words}
        /\ \A b \in B : After(g, b) <= Words
        /\ \A a, b \in B : a < b => After(g, a) <= b
        /\ \A b \in A : After(g, b) \notin A
    BY DEF Frees, Layout, Disjoint
  <1> HIDE DEF B, C
  <1>8. 0 \in C
    BY <1>2, <1>3, <1>5, <1>7
  <1>9. ASSUME NEW b \in C
        PROVE  After(r, b) \in C \cup {Words} /\ After(r, b) <= Words
    <2>1. CASE b = f
      BY <1>2, <1>5, <1>6, <2>1
    <2>2. CASE b # f
      BY <1>3, <1>5, <1>6, <1>7, <2>2
    <2> QED BY <2>1, <2>2
  <1>10. ASSUME NEW a \in C, NEW b \in C, a < b
         PROVE  After(r, a) <= b
    <2>1. CASE a = f
      BY <1>3, <1>5, <1>6, <1>10, <2>1
    <2>2. CASE a # f
      BY <1>5, <1>6, <1>7, <1>10, <2>2
    <2> QED BY <2>1, <2>2
  <1>11. ASSUME NEW b \in (A \cup {n}) \ Q
         PROVE  After(r, b) \notin (A \cup {n}) \ Q
    <2>1. CASE b = f
      BY <1>2, <1>6, <2>1
    <2>2. CASE b # f
      <3>1. b \in A /\ b \in B
        BY <1>4, <2>2 DEF B
      <3>2. After(g, b) \notin A /\ After(g, b) # n
        BY <1>3, <1>7, <2>2, <3>1
      <3> QED BY <1>6, <2>2, <3>1, <3>2
    <2> QED BY <2>1, <2>2
  <1> QED BY <1>8, <1>9, <1>10, <1>11 DEF Layout, Disjoint, C

LEMMA DisjointApart ==
  ASSUME NEW g \in HeapType, NEW S, S \subseteq Addr, Disjoint(g, S)
  PROVE  Apart(S)
  <1>1. \A a \in S : a + Hdr <= After(g, a) /\ After(g, a) \in Nat /\ a \in Nat
    BY AfterIs, Addresses
  <1>2. Words \in Nat /\ Hdr \in Nat
    BY Addresses
  <1>3. ASSUME NEW a \in S
        PROVE  a + Hdr <= Words
    BY <1>1, <1>2 DEF Disjoint
  <1>4. ASSUME NEW a \in S, NEW b \in S, a < b
        PROVE  a + Hdr <= b
    <2>1. After(g, a) <= b
      BY <1>4 DEF Disjoint
    <2> QED BY <1>1, <1>2, <2>1
  <1> QED BY <1>3, <1>4 DEF Apart

\* A used block moves to the free list, before it is merged.
LEMMA Unassigned ==
  ASSUME NEW g, NEW A, NEW U, TwoLists(g, A, U), Layout(g, A, U), NEW n \in U
  PROVE  LET out == ItemRemove(g, "assigned", n)
             r == ItemInsert([out EXCEPT !.freemem = @ + g.size[n]], "available", n)
         IN  /\ TwoLists(r, A \cup {n}, U \ {n})
             /\ r.size = g.size /\ r.magic = g.magic
             /\ r.freemem = g.freemem + g.size[n] /\ r.totalnodes = g.totalnodes
  <1> DEFINE out == ItemRemove(g, "assigned", n)
             o == [out EXCEPT !.freemem = @ + g.size[n]]
             r == ItemInsert(o, "available", n)
  <1>1. /\ g \in HeapType /\ g.wild = FALSE /\ A \subseteq Addr /\ U \subseteq Addr
        /\ n \in Addr /\ n \notin A /\ A \cap U = {}
        /\ "available" \in Lists /\ "assigned" \in Lists /\ "available" # "assigned"
    BY DEF TwoLists, Listed, Lists
  <1>2. /\ Listed(g.next, g.prev, g["available"], A)
        /\ Listed(g.next, g.prev, g["assigned"], U)
    BY DEF TwoLists
  <1>3. /\ Listed(out.next, out.prev, out["assigned"], U \ {n})
        /\ Relinked(g, out, "assigned", U)
        /\ out.wild = g.wild /\ out.next[n] = Null /\ out.prev[n] = Null
    BY <1>1, <1>2, ItemRemoveIs
  <1> HIDE DEF out
  <1>4. Listed(out.next, out.prev, out["available"], A)
    BY <1>1, <1>2, <1>3, OtherList
  <1>5. out \in HeapType /\ SameRest(g, out)
    BY <1>3 DEF Relinked
  <1>6. g.size[n] \in Nat
    BY <1>1 DEF HeapType
  <1>7. /\ o \in HeapType /\ o.wild = g.wild /\ o.size = g.size /\ o.magic = g.magic
        /\ o.freemem = g.freemem + g.size[n] /\ o.totalnodes = g.totalnodes
        /\ o.next = out.next /\ o.prev = out.prev
        /\ o["available"] = out["available"] /\ o["assigned"] = out["assigned"]
    BY <1>5, <1>6 , <1>3 DEF HeapType, SameRest
  <1> HIDE DEF o
  <1>8. Clean(o, A, n)
    BY <1>3, <1>7 DEF Clean
  <1>9. Apart(A)
    <2>1. Disjoint(g, A)
      BY DEF Layout, Disjoint
    <2> QED BY <1>1, <2>1, DisjointApart
  <1>10. Listed(o.next, o.prev, o["available"], A)
    BY <1>4, <1>7
  <1>11. Inserted(o, r, "available", A, n)
    BY <1>1, <1>7, <1>8, <1>9, <1>10, ItemInsertIs
  <1> HIDE DEF r
  <1>12. /\ Listed(r.next, r.prev, r["available"], A \cup {n})
         /\ Relinked(o, r, "available", A \cup {n})
         /\ r.wild = o.wild
    BY <1>11 DEF Inserted
  <1>13. Listed(r.next, r.prev, r["assigned"], U \ {n})
    <2>1. Listed(o.next, o.prev, o["assigned"], U \ {n}) /\ (U \ {n}) \cap (A \cup {n}) = {}
      BY <1>1, <1>3, <1>7
    <2> QED BY <1>1, <1>12, <2>1, OtherList
  <1>14. r \in HeapType /\ SameRest(o, r)
    BY <1>12 DEF Relinked
  <1>15. /\ TwoLists(r, A \cup {n}, U \ {n})
         /\ r.size = g.size /\ r.magic = g.magic
         /\ r.freemem = g.freemem + g.size[n] /\ r.totalnodes = g.totalnodes
    BY <1>1, <1>7, <1>12, <1>13, <1>14 DEF TwoLists, SameRest
  <1> QED BY <1>15 DEF r, o, out

\* The lists and counters of r, which is g with n freed.
FreedInto(g, r, A, U, n, f, Q, e, c) ==
  /\ TwoLists(r, (A \cup {n}) \ Q, U \ {n})
  /\ r.magic = g.magic
  /\ r.size = [g.size EXCEPT ![f] = e - f - Hdr]
  /\ r.freemem = g.freemem + g.size[n] + c * Hdr
  /\ r.totalnodes = g.totalnodes - c

LEMMA FreeNodeJoined ==
  ASSUME NEW g, NEW A, NEW U, NEW n, NEW f, NEW Q, NEW e, NEW c, Frees(g, A, U, n, f, Q, e, c)
  PROVE  FreedInto(g, FreeNode(g, n), A, U, n, f, Q, e, c)
  <1> DEFINE out == ItemRemove(g, "assigned", n)
             i == ItemInsert([out EXCEPT !.freemem = @ + g.size[n]], "available", n)
             S == A \cup {n}
  <1>1. TwoLists(g, A, U) /\ Layout(g, A, U) /\ n \in U /\ MergesTo(g, S, n, f, Q, e, c)
    BY DEF Frees
  <1>2. /\ TwoLists(i, S, U \ {n})
        /\ i.size = g.size /\ i.magic = g.magic
        /\ i.freemem = g.freemem + g.size[n] /\ i.totalnodes = g.totalnodes
    BY <1>1, Unassigned
  <1>3. FreeNode(g, n) = Merge(i, n)
    BY DEF FreeNode
  <1> HIDE DEF i
  <1>4. Disjoint(i, S) /\ OnlyAt(i, S, n)
    <2>1. S \subseteq A \cup U /\ S \ {n} \subseteq A
      BY <1>1
    <2>2. Disjoint(g, S)
      BY <1>1, <2>1 DEF Layout, Disjoint
    <2>3. OnlyAt(g, S, n)
      BY <1>1, <2>1 DEF Layout, OnlyAt
    <2> QED BY <1>2, <2>2, <2>3 DEF Disjoint, OnlyAt, After
  <1>5. MergesTo(i, S, n, f, Q, e, c)
    BY <1>1, <1>2 DEF MergesTo, After
  <1>6. n \in S
    OBVIOUS
  <1> HIDE DEF S
  <1>7. Joined(i, Merge(i, n), S, U \ {n}, f, Q, e, c)
    BY <1>2, <1>4, <1>5, <1>6, MergeIs
  <1> QED BY <1>2, <1>3, <1>7 DEF Joined, S, FreedInto

\* The free block x, and perhaps one more.
LEMMA CountedWith ==
  ASSUME NEW g \in HeapType, NEW A, A \subseteq Addr, Counted(g, A), NEW x \in A
  PROVE  \/ A = {x} /\ g.freemem = g.size[x]
         \/ \E b \in A : b # x /\ A = {x, b} /\ g.freemem = g.size[x] + g.size[b]
  <1>1. \A a \in A : g.size[a] \in Nat
    BY DEF HeapType
  <1>2. CASE \E a \in A : A = {a} /\ g.freemem = g.size[a]
    BY <1>2
  <1>3. ASSUME NEW a \in A, NEW b \in A, a # b, A = {a, b},
               g.freemem = g.size[a] + g.size[b]
        PROVE  \E d \in A : d # x /\ A = {x, d} /\ g.freemem = g.size[x] + g.size[d]
    <2>1. CASE x = a
      BY <1>3, <2>1
    <2>2. CASE x = b
      <3>1. A = {x, a} /\ a # x /\ g.freemem = g.size[x] + g.size[a]
        BY <1>1, <1>3, <2>2
      <3> QED BY <3>1
    <2> QED BY <1>3, <2>1, <2>2
  <1> QED BY <1>2, <1>3 DEF Counted

\* What the heap counts after a block is freed.
LEMMA FreedCount ==
  ASSUME NEW g, NEW A, NEW U, NEW n, NEW f, NEW Q, NEW e, NEW c, Frees(g, A, U, n, f, Q, e, c),
         Counted(g, A), c > 0 \/ A = {} \/ \E a \in A : A = {a},
         NEW r, r.size = [g.size EXCEPT ![f] = e - f - Hdr],
         r.freemem = g.freemem + g.size[n] + c * Hdr
  PROVE  Counted(r, (A \cup {n}) \ Q)
  <1> DEFINE D == (A \cup {n}) \ Q
             q == After(g, n)
  <1>1. /\ g \in HeapType /\ A \subseteq Addr /\ n \in Addr /\ n \notin A /\ Hdr \in Nat
        /\ \A b \in A \cup {n} : b \in Nat /\ g.size[b] \in Nat
    <2>1. g \in HeapType /\ A \subseteq Addr /\ n \in Addr /\ n \notin A
      BY DEF Frees, TwoLists, Listed
    <2> QED BY <2>1, Addresses DEF HeapType
  <1>2. \A b \in A \cup {n} : After(g, b) = b + Hdr + g.size[b] /\ After(g, b) \in Nat /\ b < After(g, b)
    BY <1>1, AfterIs
  <1>3. \A b \in A : After(g, b) \notin A
    BY DEF Frees, Layout
  <1>4. f \in A \cup {n} /\ e \in Nat
    BY MergesFacts
  <1>5. /\ r.size[f] = e - f - Hdr
        /\ \A b \in A \cup {n} : b # f => r.size[b] = g.size[b]
    <2>1. g.size \in [Addr -> Nat] /\ A \cup {n} \subseteq Addr
      BY <1>1 DEF HeapType
    <2> QED BY <1>4, <2>1
  <1>6. g.freemem \in Int
    BY <1>1 DEF HeapType
  <1>7. CASE /\ \A p \in A \cup {n} : After(g, p) # n
             /\ q \notin A \cup {n}
             /\ f = n /\ Q = {} /\ e = q /\ c = 0
    <2>1. D = A \cup {n} /\ r.freemem = g.freemem + g.size[n]
      BY <1>1, <1>6, <1>7
    <2>2. r.size[n] = g.size[n]
      BY <1>1, <1>2, <1>5, <1>7
    <2>3. CASE A = {}
      <3>1. g.freemem = 0
        BY <2>3 DEF Counted
      <3> QED BY <1>1, <2>1, <2>2, <2>3, <3>1 DEF Counted
    <2>4. ASSUME NEW a \in A, A = {a}
          PROVE  Counted(r, D)
      <3>1. g.freemem = g.size[a]
        BY <1>1, <2>4, CountedWith
      <3>2. D = {a, n} /\ a # n /\ r.freemem = r.size[a] + r.size[n]
        BY <1>1, <1>5, <1>7, <2>1, <2>2, <2>4, <3>1
      <3> QED BY <3>2 DEF Counted
    <2> QED BY <1>7, <2>3, <2>4
  <1>8. CASE /\ \A p \in A \cup {n} : After(g, p) # n
             /\ q \in A \cup {n}
             /\ f = n /\ Q = {q} /\ e = After(g, q) /\ c = 1
    <2>1. q \in A /\ q # n
      BY <1>1, <1>2, <1>8
    <2>2. r.size[n] = g.size[n] + Hdr + g.size[q]
      <3>1. r.size[n] = After(g, q) - n - Hdr /\ After(g, q) = q + Hdr + g.size[q]
            /\ q = n + Hdr + g.size[n]
        BY <1>2, <1>5, <1>8, <2>1
      <3> QED BY <1>1, <2>1, <3>1
    <2>3. r.freemem = g.freemem + g.size[n] + Hdr
      BY <1>1, <1>8
    <2> HIDE DEF q
    <2>4. CASE A = {q} /\ g.freemem = g.size[q]
      <3>1. D = {n} /\ r.freemem = r.size[n]
        BY <1>1, <1>8, <2>1, <2>2, <2>3, <2>4
      <3> QED BY <3>1 DEF Counted
    <2>5. ASSUME NEW b \in A, b # q, A = {q, b}, g.freemem = g.size[q] + g.size[b]
          PROVE  Counted(r, D)
      <3>1. D = {n, b} /\ n # b
        BY <1>1, <1>8, <2>1, <2>5
      <3>2. r.freemem = r.size[n] + r.size[b]
        BY <1>1, <1>5, <1>8, <2>1, <2>2, <2>3, <2>5
      <3> QED BY <3>1, <3>2 DEF Counted
    <2>6. \/ A = {q} /\ g.freemem = g.size[q]
          \/ \E b \in A : b # q /\ A = {q, b} /\ g.freemem = g.size[q] + g.size[b]
      BY <1>1, <2>1, CountedWith
    <2> QED BY <2>4, <2>5, <2>6
  <1>9. CASE /\ f \in A \cup {n} /\ After(g, f) = n
             /\ q \notin A \cup {n}
             /\ Q = {n} /\ e = q /\ c = 1
    <2>1. f \in A /\ f # n
      BY <1>1, <1>2, <1>9
    <2>2. r.size[f] = g.size[f] + Hdr + g.size[n]
      <3>1. r.size[f] = q - f - Hdr /\ q = n + Hdr + g.size[n] /\ n = f + Hdr + g.size[f]
        BY <1>2, <1>5, <1>9, <2>1
      <3> QED BY <1>1, <2>1, <3>1
    <2>3. r.freemem = g.freemem + g.size[n] + Hdr /\ D = A
      BY <1>1, <1>9
    <2>4. CASE A = {f} /\ g.freemem = g.size[f]
      <3>1. r.freemem = r.size[f]
        BY <1>1, <2>1, <2>2, <2>3, <2>4
      <3> QED BY <2>1, <2>3, <2>4, <3>1 DEF Counted
    <2>5. ASSUME NEW b \in A, b # f, A = {f, b}, g.freemem = g.size[f] + g.size[b]
          PROVE  Counted(r, D)
      <3>1. r.freemem = r.size[f] + r.size[b]
        BY <1>1, <1>5, <2>1, <2>2, <2>3, <2>5
      <3> QED BY <2>1, <2>3, <2>5, <3>1 DEF Counted
    <2>6. \/ A = {f} /\ g.freemem = g.size[f]
          \/ \E b \in A : b # f /\ A = {f, b} /\ g.freemem = g.size[f] + g.size[b]
      BY <1>1, <2>1, CountedWith
    <2> QED BY <2>4, <2>5, <2>6
  <1>10. CASE /\ f \in A \cup {n} /\ After(g, f) = n
              /\ q \in A \cup {n}
              /\ Q = {n, q} /\ e = After(g, q) /\ c = 2
    <2>1. f \in A /\ f # n /\ q \in A /\ q # n /\ f < q
      BY <1>1, <1>2, <1>10
    <2>2. f # q
      BY <1>1, <2>1
    <2>3. r.size[f] = g.size[f] + Hdr + g.size[n] + Hdr + g.size[q]
      <3>1. /\ r.size[f] = After(g, q) - f - Hdr /\ q = n + Hdr + g.size[n]
            /\ n = f + Hdr + g.size[f] /\ After(g, q) = q + Hdr + g.size[q]
        BY <1>2, <1>5, <1>10, <2>1
      <3> QED BY <1>1, <2>1, <3>1
    <2>4. r.freemem = g.freemem + g.size[n] + 2 * Hdr
      BY <1>10
    <2> HIDE DEF q
    <2>5. ~(A = {f})
      BY <2>1, <2>2
    <2>6. ASSUME NEW b \in A, b # f, A = {f, b}, g.freemem = g.size[f] + g.size[b]
          PROVE  Counted(r, D)
      <3>1. b = q
        BY <2>1, <2>2, <2>6
      <3>2. D = {f}
        BY <1>1, <1>10, <2>1, <2>2, <2>6, <3>1
      <3>3. r.freemem = r.size[f]
        BY <1>1, <2>1, <2>3, <2>4, <2>6, <3>1
      <3> QED BY <3>2, <3>3 DEF Counted
    <2>7. \/ A = {f} /\ g.freemem = g.size[f]
          \/ \E b \in A : b # f /\ A = {f, b} /\ g.freemem = g.size[f] + g.size[b]
      BY <1>1, <2>1, CountedWith
    <2> QED BY <2>5, <2>6, <2>7
  <1> QED BY <1>7, <1>8, <1>9, <1>10 DEF Frees, MergesTo

\* pmalloc_free.
LEMMA FreeNodeIs ==
  ASSUME NEW g, NEW A, NEW U, Sound(g, A, U),
         NEW n, NEW f, NEW Q, NEW e, NEW c, Frees(g, A, U, n, f, Q, e, c),
         c > 0 \/ A = {} \/ \E a \in A : A = {a}
  PROVE  /\ Sound(FreeNode(g, n), (A \cup {n}) \ Q, U \ {n})
         /\ FreeNode(g, n).magic = g.magic
  <1> DEFINE r == FreeNode(g, n)
             D == (A \cup {n}) \ Q
  <1>1. /\ TwoLists(r, D, U \ {n})
        /\ r.magic = g.magic /\ r.size = [g.size EXCEPT ![f] = e - f - Hdr]
        /\ r.freemem = g.freemem + g.size[n] + c * Hdr
        /\ r.totalnodes = g.totalnodes - c
    <2>1. FreedInto(g, r, A, U, n, f, Q, e, c)
      <3> HIDE DEF r
      <3>1. FreedInto(g, FreeNode(g, n), A, U, n, f, Q, e, c)
        BY FreeNodeJoined
      <3> QED BY <3>1 DEF r
    <2> HIDE DEF r
    <2> QED BY <2>1 DEF FreedInto
  <1> HIDE DEF r
  <1>2. Layout(r, D, U \ {n})
    <2>1. r.size = [g.size EXCEPT ![f] = e - f - Hdr]
      BY <1>1
    <2> QED BY <2>1, MergedLayout
  <1>3. Counted(r, D)
    <2>1. /\ r.size = [g.size EXCEPT ![f] = e - f - Hdr]
          /\ r.freemem = g.freemem + g.size[n] + c * Hdr
      BY <1>1
    <2>2. Counted(g, A)
      BY DEF Sound
    <2> QED BY <2>1, <2>2, FreedCount
  <1>4. r.totalnodes = Cardinality(D \cup (U \ {n}))
    <2> DEFINE B == A \cup U
    <2>1. B \subseteq Addr /\ A \cap U = {} /\ n \in U /\ g.totalnodes = Cardinality(B)
      BY DEF Frees, TwoLists, Listed, Sound
    <2>2. Q \subseteq A \cup {n} /\ f \notin Q
      BY MergesFacts
    <2>3. /\ \/ Q = {} /\ c = 0
             \/ \E x \in Q : Q = {x} /\ c = 1
             \/ \E x, y \in Q : x # y /\ Q = {x, y} /\ c = 2
          /\ n = f \/ n \in Q
      BY MergesCount
    <2>4. Q \subseteq B /\ D \cup (U \ {n}) = B \ Q
      BY <2>1, <2>2, <2>3
    <2> HIDE DEF B, D
    <2>5. Cardinality(B \ Q) = Cardinality(B) - c
      BY <2>1, <2>3, <2>4, FewerBlocks
    <2> QED BY <1>1, <2>1, <2>4, <2>5
  <1>5. Sound(r, D, U \ {n}) /\ r.magic = g.magic
    BY <1>1, <1>2, <1>3, <1>4 DEF Sound
  <1> QED BY <1>5 DEF r

\* A free block moves to the used list, before it is cut.
MovedTo(g, r, A, U, b) ==
  /\ TwoLists(r, A \ {b}, U \cup {b})
  /\ r.size = g.size /\ r.magic = g.magic \cup {b + Hdr - 1}
  /\ r.freemem = g.freemem /\ r.totalnodes = g.totalnodes

LEMMA Assigns ==
  ASSUME NEW g, NEW A, NEW U, TwoLists(g, A, U), Layout(g, A, U), NEW b \in A
  PROVE  LET tagged == [g EXCEPT !.magic = @ \cup {b + Hdr - 1}]
         IN  MovedTo(g, ItemInsert(ItemRemove(tagged, "available", b), "assigned", b), A, U, b)
  <1> DEFINE t == [g EXCEPT !.magic = @ \cup {b + Hdr - 1}]
             out == ItemRemove(t, "available", b)
             r == ItemInsert(out, "assigned", b)
  <1>1. /\ g \in HeapType /\ g.wild = FALSE /\ A \subseteq Addr /\ U \subseteq Addr
        /\ b \in Addr /\ b \notin U /\ A \cap U = {}
        /\ "available" \in Lists /\ "assigned" \in Lists /\ "available" # "assigned"
    BY DEF TwoLists, Listed, Lists
  <1>2. b + Hdr - 1 \in Addr
    <2>1. b + Hdr <= After(g, b) /\ After(g, b) \in Nat /\ After(g, b) <= Words
      BY <1>1, AfterIs DEF Layout, Disjoint
    <2>2. b \in Nat /\ Hdr \in Nat /\ 0 < Hdr /\ Words \in Nat
      BY <1>1, Addresses
    <2>3. b + Hdr - 1 \in Int /\ 0 <= b + Hdr - 1 /\ b + Hdr - 1 <= Words - 1
      BY <2>1, <2>2
    <2> QED BY <2>3 DEF Addr
  <1>3. /\ t \in HeapType /\ t.wild = FALSE /\ t.size = g.size
        /\ t.magic = g.magic \cup {b + Hdr - 1}
        /\ t.freemem = g.freemem /\ t.totalnodes = g.totalnodes
        /\ t.next = g.next /\ t.prev = g.prev
        /\ t["available"] = g["available"] /\ t["assigned"] = g["assigned"]
    BY <1>1, <1>2 DEF HeapType
  <1> HIDE DEF t
  <1>4. /\ Listed(t.next, t.prev, t["available"], A)
        /\ Listed(t.next, t.prev, t["assigned"], U)
    BY <1>3 DEF TwoLists
  <1>5. /\ Listed(out.next, out.prev, out["available"], A \ {b})
        /\ Relinked(t, out, "available", A)
        /\ out.wild = t.wild /\ out.next[b] = Null /\ out.prev[b] = Null
    BY <1>1, <1>3, <1>4, ItemRemoveIs
  <1> HIDE DEF out
  <1>6. Listed(out.next, out.prev, out["assigned"], U)
    BY <1>1, <1>4, <1>5, OtherList
  <1>7. out \in HeapType /\ SameRest(t, out)
    BY <1>5 DEF Relinked
  <1>8. Clean(out, U, b)
    BY <1>5 DEF Clean
  <1>9. Apart(U)
    <2>1. Disjoint(g, U)
      BY DEF Layout, Disjoint
    <2> QED BY <1>1, <2>1, DisjointApart
  <1>10. Inserted(out, r, "assigned", U, b)
    BY <1>1, <1>6, <1>7, <1>8, <1>9, ItemInsertIs
  <1> HIDE DEF r
  <1>11. /\ Listed(r.next, r.prev, r["assigned"], U \cup {b})
         /\ Relinked(out, r, "assigned", U \cup {b})
         /\ r.wild = out.wild
    BY <1>10 DEF Inserted
  <1>12. Listed(r.next, r.prev, r["available"], A \ {b})
    <2>1. (A \ {b}) \cap (U \cup {b}) = {}
      BY <1>1
    <2> QED BY <1>1, <1>5, <1>11, <2>1, OtherList
  <1>13. r \in HeapType /\ SameRest(out, r)
    BY <1>11 DEF Relinked
  <1>14. MovedTo(g, r, A, U, b)
    <2>1. TwoLists(r, A \ {b}, U \cup {b})
      BY <1>1, <1>3, <1>5, <1>11, <1>12, <1>13 DEF TwoLists
    <2> QED BY <1>3, <1>7, <1>13, <2>1 DEF MovedTo, SameRest
  <1> QED BY <1>14 DEF r, out, t

\* r is g with the block b in use, and the free blocks C.
Takes(g, r, C, U, b) ==
  Sound(r, C, U \cup {b}) /\ r.magic = g.magic \cup {b + Hdr - 1}

\* pmalloc_malloc of a block of exactly n words.
LEMMA MallocExact ==
  ASSUME NEW g, NEW A, NEW U, Sound(g, A, U), NEW b \in A, NEW n, g.size[b] = n
  PROVE  Takes(g, Malloc(g, b, n), A \ {b}, U, b)
  <1> DEFINE t == [g EXCEPT !.magic = @ \cup {b + Hdr - 1}]
             m == ItemInsert(ItemRemove(t, "available", b), "assigned", b)
             r == [m EXCEPT !.freemem = @ - n]
  <1>1. /\ TwoLists(g, A, U) /\ Layout(g, A, U) /\ Counted(g, A)
        /\ g.totalnodes = Cardinality(A \cup U)
        /\ g \in HeapType /\ A \subseteq Addr /\ U \subseteq Addr /\ b \in Addr
    BY DEF Sound, TwoLists, Listed
  <1>2. MovedTo(g, m, A, U, b)
    BY <1>1, Assigns
  <1>3. Malloc(g, b, n) = IF m.size[b] # n THEN [Split(m, b, n) EXCEPT !.freemem = @ - n] ELSE r
    BY DEF Malloc
  <1> HIDE DEF m
  <1>4. /\ TwoLists(m, A \ {b}, U \cup {b})
        /\ m.size = g.size /\ m.magic = g.magic \cup {b + Hdr - 1}
        /\ m.freemem = g.freemem /\ m.totalnodes = g.totalnodes
    BY <1>2 DEF MovedTo
  <1>5. Malloc(g, b, n) = r
    BY <1>3, <1>4
  <1>6. n \in Nat
    BY <1>1 DEF HeapType
  <1>7. /\ TwoLists(r, A \ {b}, U \cup {b})
        /\ r.size = g.size /\ r.magic = g.magic \cup {b + Hdr - 1}
        /\ r.freemem = g.freemem - n /\ r.totalnodes = g.totalnodes
    <2>1. m \in HeapType
      BY <1>4 DEF TwoLists
    <2>2. /\ r \in HeapType /\ r.size = m.size /\ r.magic = m.magic /\ r.freemem = m.freemem - n
          /\ r.totalnodes = m.totalnodes /\ r.next = m.next /\ r.prev = m.prev
          /\ r.available = m.available /\ r.assigned = m.assigned /\ r.wild = m.wild
      BY <1>6, <2>1 DEF HeapType
    <2> HIDE DEF r
    <2> QED BY <1>4, <2>2 DEF TwoLists
  <1> HIDE DEF r
  <1>8. (A \ {b}) \cup (U \cup {b}) = A \cup U
    OBVIOUS
  <1>9. Layout(r, A \ {b}, U \cup {b})
    BY <1>1, <1>7, <1>8 DEF Layout, Disjoint, After
  <1>10. Counted(r, A \ {b})
    <2>1. \A a \in A : g.size[a] \in Nat
      BY <1>1 DEF HeapType
    <2>2. CASE A = {b} /\ g.freemem = g.size[b]
      BY <1>7, <2>1, <2>2 DEF Counted
    <2>3. ASSUME NEW a \in A, a # b, A = {b, a}, g.freemem = g.size[b] + g.size[a]
          PROVE  Counted(r, A \ {b})
      <3>1. A \ {b} = {a} /\ r.freemem = r.size[a]
        BY <1>7, <2>1, <2>3
      <3> QED BY <3>1 DEF Counted
    <2>4. \/ A = {b} /\ g.freemem = g.size[b]
          \/ \E a \in A : a # b /\ A = {b, a} /\ g.freemem = g.size[b] + g.size[a]
      BY <1>1, CountedWith
    <2> QED BY <2>2, <2>3, <2>4
  <1> QED BY <1>1, <1>5, <1>7, <1>8, <1>9, <1>10 DEF Sound, Takes

\* n words of the last block b are allocated, and a free block f is left.
Cuts(g, A, U, b, n, f) ==
  /\ Sound(g, A, U) /\ b \in A /\ After(g, b) = Words
  /\ n \in Nat /\ n + Hdr <= g.size[b] /\ f = b + Hdr + n

LEMMA CutFacts ==
  ASSUME NEW g, NEW A, NEW U, NEW b, NEW n, NEW f, Cuts(g, A, U, b, n, f)
  PROVE  /\ g \in HeapType /\ A \subseteq Addr /\ U \subseteq Addr /\ A \cap U = {}
         /\ f \in Addr /\ f \in Nat /\ f \notin A \cup U /\ b < f /\ f + Hdr <= Words
         /\ b \in Addr /\ b \in Nat /\ b \notin U
         /\ g.size[b] - Hdr - n = Words - f - Hdr /\ g.size[b] # n
         /\ \A x \in A \cup U : x # b => x < b /\ After(g, x) <= b
  <1>1. /\ g \in HeapType /\ A \subseteq Addr /\ U \subseteq Addr /\ A \cap U = {} /\ b \in A
    BY DEF Cuts, Sound, TwoLists, Listed
  <1>2. /\ Words \in Nat /\ Hdr \in Nat /\ 0 < Hdr /\ b \in Nat /\ g.size[b] \in Nat /\ n \in Nat
        /\ \A x \in A \cup U : x \in Nat /\ x < Words
    BY <1>1, Addresses DEF HeapType, Cuts
  <1>3. b + Hdr + g.size[b] = Words /\ n + Hdr <= g.size[b] /\ f = b + Hdr + n
    BY DEF Cuts, After
  <1>4. f \in Nat /\ b < f /\ f + Hdr <= Words /\ f < Words
        /\ g.size[b] - Hdr - n = Words - f - Hdr /\ g.size[b] # n
    BY <1>2, <1>3
  <1>5. ASSUME NEW x \in A \cup U, x # b
        PROVE  x < b /\ After(g, x) <= b
    <2>1. Disjoint(g, A \cup U) /\ b \in A \cup U /\ After(g, b) = Words
      BY <1>1 DEF Cuts, Sound, Layout
    <2>2. ~(b < x)
      <3>1. SUFFICES ASSUME b < x
                     PROVE  FALSE
        OBVIOUS
      <3>2. Words <= x
        BY <2>1, <3>1 DEF Disjoint
      <3> QED BY <1>2, <3>2
    <2>3. x < b
      BY <1>2, <1>5, <2>2
    <2> QED BY <2>1, <2>3 DEF Disjoint
  <1>6. f \in Addr
    BY <1>2, <1>4 DEF Addr
  <1>7. f \notin A \cup U
    <2>1. f # b
      BY <1>2, <1>4
    <2>2. ~(f < b)
      BY <1>2, <1>4
    <2> QED BY <1>5, <2>1, <2>2
  <1> QED BY <1>1, <1>2, <1>4, <1>5, <1>6, <1>7

\* The sizes after the cut.
CutSizes(g, r, b, n, f) ==
  /\ r.size[b] = n /\ r.size[f] = Words - f - Hdr
  /\ \A x \in Addr : x # b /\ x # f => r.size[x] = g.size[x]

LEMMA CutLayout ==
  ASSUME NEW g, NEW A, NEW U, NEW b, NEW n, NEW f, Cuts(g, A, U, b, n, f),
         NEW r, CutSizes(g, r, b, n, f)
  PROVE  /\ Layout(r, (A \ {b}) \cup {f}, U \cup {b})
         /\ After(r, f) = Words
         /\ \A p \in (A \ {b}) \cup {f} : After(r, p) # f
  <1> DEFINE B == A \cup U
             C == ((A \ {b}) \cup {f}) \cup (U \cup {b})
  <1>1. /\ g \in HeapType /\ B \subseteq Addr /\ A \cap U = {}
        /\ f \in Addr /\ f \in Nat /\ f \notin B /\ b < f /\ f + Hdr <= Words
        /\ b \in Addr /\ b \in Nat /\ b \notin U
        /\ \A x \in B : x # b => x < b /\ After(g, x) <= b
    BY CutFacts
  <1>2. /\ Words \in Nat /\ Hdr \in Nat /\ 0 < Hdr /\ n \in Nat /\ b \in A /\ f = b + Hdr + n
        /\ \A x \in B : x \in Nat /\ x \in Addr /\ After(g, x) \in Nat /\ x # Words
    BY <1>1, Addresses, AfterIs DEF Cuts
  <1>3. /\ 0 \in B /\ \A x \in B : After(g, x) \in B \cup {Words}
        /\ \A x \in B : After(g, x) <= Words
        /\ \A x, y \in B : x < y => After(g, x) <= y
        /\ \A x \in A : After(g, x) \notin A
    BY DEF Cuts, Sound, Layout, Disjoint
  <1>4. After(r, b) = f /\ After(r, f) = Words
    BY <1>1, <1>2 DEF After, CutSizes
  <1>5. \A x \in B : x # b => After(r, x) = After(g, x)
    BY <1>1, <1>2 DEF After, CutSizes
  <1>6. C = B \cup {f}
    BY <1>2
  <1>7. \A x \in A : x \in B
    OBVIOUS
  <1> HIDE DEF B, C
  <1>8. ASSUME NEW x \in C
        PROVE  After(r, x) \in C \cup {Words} /\ After(r, x) <= Words
    <2>1. CASE x = b
      BY <1>1, <1>2, <1>4, <1>6, <2>1
    <2>2. CASE x = f
      BY <1>2, <1>4, <2>2
    <2>3. CASE x \in B /\ x # b
      BY <1>3, <1>5, <1>6, <2>3
    <2> QED BY <1>6, <2>1, <2>2, <2>3
  <1>9. ASSUME NEW x \in C, NEW y \in C, x < y
        PROVE  After(r, x) <= y
    <2>1. CASE x = b
      <3>1. y = f
        <4>1. SUFFICES ASSUME y \in B, y # b
                       PROVE  FALSE
          BY <1>1, <1>6, <1>9, <2>1
        <4>2. y < b /\ y \in Nat
          BY <1>1, <1>2, <4>1
        <4> QED BY <1>1, <1>9, <2>1, <4>2
      <3> QED BY <1>1, <1>4, <2>1, <3>1
    <2>2. CASE x = f
      <3>1. y \in B \/ y = f
        BY <1>6
      <3>2. y \in Nat
        BY <1>1, <1>2, <3>1
      <3>3. y = f \/ y = b \/ y < b
        BY <1>1, <3>1
      <3> QED BY <1>1, <1>9, <2>2, <3>2, <3>3
    <2>3. CASE x \in B /\ x # b
      <3>1. CASE y = f
        <4>1. After(r, x) <= b /\ After(r, x) \in Nat
          BY <1>1, <1>2, <1>5, <2>3
        <4> QED BY <1>1, <3>1, <4>1
      <3>2. CASE y \in B
        BY <1>3, <1>5, <1>9, <2>3, <3>2
      <3> QED BY <1>6, <3>1, <3>2
    <2> QED BY <1>6, <2>1, <2>2, <2>3
  <1>10. \A p \in (A \ {b}) \cup {f} : After(r, p) # f
    <2>1. \A p \in A \ {b} : After(r, p) <= b /\ After(r, p) \in Nat
      BY <1>1, <1>2, <1>5, <1>7
    <2>2. Words # f
      BY <1>1, <1>2
    <2> QED BY <1>1, <1>4, <2>1, <2>2
  <1>11. ASSUME NEW p \in (A \ {b}) \cup {f}
         PROVE  After(r, p) \notin (A \ {b}) \cup {f}
    <2>1. CASE p = f
      <3>1. Words \notin A /\ Words # f
        BY <1>1, <1>2, <1>7
      <3> QED BY <1>4, <2>1, <3>1
    <2>2. CASE p \in A \ {b}
      BY <1>3, <1>5, <1>7, <1>10, <2>2
    <2> QED BY <2>1, <2>2
  <1>12. 0 \in C
    BY <1>3, <1>6
  <1> QED BY <1>4, <1>8, <1>9, <1>10, <1>11, <1>12 DEF Layout, Disjoint, C

\* The headers of b and f are written, and f is put into the free list.
CutTo(g, r, A, U, b, n, f) ==
  /\ TwoLists(r, (A \ {b}) \cup {f}, U \cup {b})
  /\ CutSizes(g, r, b, n, f)
  /\ r.magic = g.magic \cup {b + Hdr - 1}
  /\ r.freemem = g.freemem - Hdr /\ r.totalnodes = g.totalnodes + 1

LEMMA CutLinks ==
  ASSUME NEW g, NEW A, NEW U, NEW b, NEW n, NEW f, Cuts(g, A, U, b, n, f),
         NEW m, MovedTo(g, m, A, U, b)
  PROVE  LET cut == [m EXCEPT !.size[f] = Wrap(m.size[b] - Hdr - n), !.next[f] = m.next[b],
                              !.next[b] = Null, !.size[b] = n]
             ins == ItemInsert(cut, "available", f)
         IN  CutTo(g, [ins EXCEPT !.freemem = @ - Hdr, !.totalnodes = @ + 1], A, U, b, n, f)
  <1> DEFINE cut == [m EXCEPT !.size[f] = Wrap(m.size[b] - Hdr - n), !.next[f] = m.next[b],
                              !.next[b] = Null, !.size[b] = n]
             ins == ItemInsert(cut, "available", f)
             r == [ins EXCEPT !.freemem = @ - Hdr, !.totalnodes = @ + 1]
             D == A \ {b}
             V == U \cup {b}
  <1>1. /\ g \in HeapType /\ A \subseteq Addr /\ U \subseteq Addr /\ A \cap U = {}
        /\ f \in Addr /\ f \in Nat /\ f \notin A \cup U /\ b < f /\ f + Hdr <= Words
        /\ b \in Addr /\ b \in Nat /\ b \notin U /\ b # f
        /\ g.size[b] - Hdr - n = Words - f - Hdr
        /\ \A x \in A \cup U : x # b => x < b
    BY CutFacts
  <1>2. /\ Words \in Nat /\ Hdr \in Nat /\ n \in Nat
        /\ \A x \in A \cup U : x \in Nat
        /\ "available" \in Lists /\ "assigned" \in Lists /\ "available" # "assigned"
    BY <1>1, Addresses DEF Cuts, Lists
  <1>3. /\ TwoLists(m, D, V) /\ m \in HeapType /\ m.wild = FALSE
        /\ Listed(m.next, m.prev, m["available"], D)
        /\ Listed(m.next, m.prev, m["assigned"], V)
        /\ m.size = g.size /\ m.magic = g.magic \cup {b + Hdr - 1}
        /\ m.freemem = g.freemem /\ m.totalnodes = g.totalnodes
    BY DEF MovedTo, TwoLists
  <1>4. m.next[b] = Null
    <2>1. IsNext(V, b, m.next[b])
      BY <1>3 DEF Listed
    <2>2. \A x \in V : x <= b /\ x \in Nat
      BY <1>1, <1>2
    <2> QED BY <1>1, <2>1, <2>2 DEF IsNext
  <1>5. Wrap(m.size[b] - Hdr - n) = Words - f - Hdr /\ Words - f - Hdr \in Nat
    <2>1. Words - f - Hdr \in Int /\ 0 <= Words - f - Hdr
      BY <1>1, <1>2
    <2> QED BY <1>1, <1>3, <2>1 DEF Wrap
  <1>6. /\ cut \in HeapType /\ cut.wild = FALSE
        /\ cut.prev = m.prev
        /\ cut["available"] = m["available"] /\ cut["assigned"] = m["assigned"]
        /\ cut.magic = m.magic /\ cut.freemem = m.freemem /\ cut.totalnodes = m.totalnodes
        /\ cut.next[f] = Null /\ cut.next[b] = Null
        /\ \A x \in Addr : x # b /\ x # f => cut.next[x] = m.next[x]
        /\ cut.size[f] = Words - f - Hdr /\ cut.size[b] = n
        /\ \A x \in Addr : x # b /\ x # f => cut.size[x] = g.size[x]
    <2> DEFINE w == Wrap(m.size[b] - Hdr - n)
    <2>1. w = Words - f - Hdr /\ w \in Nat
      BY <1>5
    <2> HIDE DEF w
    <2>2. cut = [m EXCEPT !.size = [[m.size EXCEPT ![f] = w] EXCEPT ![b] = n],
                          !.next = [[m.next EXCEPT ![f] = Null] EXCEPT ![b] = Null]]
      BY <1>3, <1>4 DEF HeapType, w
    <2>3. /\ [[m.size EXCEPT ![f] = w] EXCEPT ![b] = n] \in [Addr -> Nat]
          /\ [[m.next EXCEPT ![f] = Null] EXCEPT ![b] = Null] \in [Addr -> Addr \cup {Null, Wild}]
      BY <1>1, <1>2, <1>3, <2>1 DEF HeapType
    <2> HIDE DEF cut
    <2>4. /\ cut.prev = m.prev /\ cut.wild = FALSE
          /\ cut["available"] = m["available"] /\ cut["assigned"] = m["assigned"]
          /\ cut.magic = m.magic /\ cut.freemem = m.freemem /\ cut.totalnodes = m.totalnodes
          /\ cut.size = [[m.size EXCEPT ![f] = w] EXCEPT ![b] = n]
          /\ cut.next = [[m.next EXCEPT ![f] = Null] EXCEPT ![b] = Null]
      BY <1>3, <2>2 DEF HeapType
    <2>5. cut \in HeapType
      BY <1>3, <2>2, <2>3 DEF HeapType
    <2>6. m.size \in [Addr -> Nat] /\ m.next \in [Addr -> Addr \cup {Null, Wild}]
      BY <1>3 DEF HeapType
    <2> QED BY <1>1, <1>3, <2>1, <2>4, <2>5, <2>6
  <1> HIDE DEF cut
  <1>7. Listed(cut.next, cut.prev, cut["available"], D)
    <2>1. \A x \in D : cut.next[x] = m.next[x] /\ cut.prev[x] = m.prev[x]
      BY <1>1, <1>6
    <2> QED BY <1>3, <1>6, <2>1, LinkFrame
  <1>8. Listed(cut.next, cut.prev, cut["assigned"], V)
    <2>1. \A x \in V : cut.next[x] = m.next[x] /\ cut.prev[x] = m.prev[x]
      BY <1>1, <1>4, <1>6
    <2> QED BY <1>3, <1>6, <2>1, LinkFrame
  <1>9. Clean(cut, D, f)
    <2>1. \A x \in D : ~(f < x)
      BY <1>1, <1>2
    <2> QED BY <1>6, <2>1 DEF Clean
  <1>10. Apart(D)
    <2>1. Disjoint(g, D) /\ D \subseteq Addr
      BY <1>1 DEF Cuts, Sound, Layout, Disjoint
    <2> QED BY <1>1, <2>1, DisjointApart
  <1>11. f \notin D
    BY <1>1
  <1>12. Inserted(cut, ins, "available", D, f)
    BY <1>1, <1>2, <1>6, <1>7, <1>9, <1>10, <1>11, ItemInsertIs
  <1> HIDE DEF ins
  <1>13. /\ Listed(ins.next, ins.prev, ins["available"], D \cup {f})
         /\ Relinked(cut, ins, "available", D \cup {f})
         /\ ins.wild = cut.wild
    BY <1>12 DEF Inserted
  <1>14. Listed(ins.next, ins.prev, ins["assigned"], V) /\ (D \cup {f}) \cap V = {}
    <2>1. V \cap (D \cup {f}) = {}
      BY <1>1
    <2> QED BY <1>2, <1>8, <1>13, <2>1, OtherList
  <1>15. ins \in HeapType /\ SameRest(cut, ins)
    BY <1>13 DEF Relinked
  <1>16. /\ r \in HeapType /\ r.size = ins.size /\ r.magic = ins.magic
         /\ r.freemem = ins.freemem - Hdr /\ r.totalnodes = ins.totalnodes + 1
         /\ r.next = ins.next /\ r.prev = ins.prev /\ r.wild = ins.wild
         /\ r["available"] = ins["available"] /\ r["assigned"] = ins["assigned"]
    <2> DEFINE mid == [ins EXCEPT !.freemem = @ - Hdr]
    <2>1. /\ mid \in HeapType /\ mid.size = ins.size /\ mid.magic = ins.magic
          /\ mid.freemem = ins.freemem - Hdr /\ mid.totalnodes = ins.totalnodes
          /\ mid.next = ins.next /\ mid.prev = ins.prev /\ mid.wild = ins.wild
          /\ mid["available"] = ins["available"] /\ mid["assigned"] = ins["assigned"]
      BY <1>2, <1>15 DEF HeapType
    <2>2. r = [mid EXCEPT !.totalnodes = @ + 1]
      BY <1>2, <1>15 DEF HeapType
    <2> HIDE DEF mid, r
    <2>3. /\ r \in HeapType /\ r.size = mid.size /\ r.magic = mid.magic
          /\ r.freemem = mid.freemem /\ r.totalnodes = mid.totalnodes + 1
          /\ r.next = mid.next /\ r.prev = mid.prev /\ r.wild = mid.wild
          /\ r["available"] = mid["available"] /\ r["assigned"] = mid["assigned"]
      BY <2>1, <2>2 DEF HeapType
    <2> QED BY <2>1, <2>3
  <1> HIDE DEF r
  <1>17. TwoLists(r, D \cup {f}, V)
    BY <1>6, <1>13, <1>14, <1>16 DEF TwoLists
  <1>18. CutSizes(g, r, b, n, f)
    BY <1>6, <1>15, <1>16 DEF SameRest, CutSizes
  <1>19. CutTo(g, r, A, U, b, n, f)
    BY <1>3, <1>6, <1>15, <1>16, <1>17, <1>18 DEF SameRest, CutTo
  <1> QED BY <1>19 DEF r, ins, cut

\* pmalloc_malloc from the last block, of which a free block is left.
LEMMA MallocSplit ==
  ASSUME NEW g, NEW A, NEW U, NEW b, NEW n, NEW f, Cuts(g, A, U, b, n, f)
  PROVE  Takes(g, Malloc(g, b, n), (A \ {b}) \cup {f}, U, b)
  <1> DEFINE t == [g EXCEPT !.magic = @ \cup {b + Hdr - 1}]
             m == ItemInsert(ItemRemove(t, "available", b), "assigned", b)
             cut == [m EXCEPT !.size[f] = Wrap(m.size[b] - Hdr - n), !.next[f] = m.next[b],
                              !.next[b] = Null, !.size[b] = n]
             ins == ItemInsert(cut, "available", f)
             i == [ins EXCEPT !.freemem = @ - Hdr, !.totalnodes = @ + 1]
             j == Merge(i, f)
             r == [j EXCEPT !.freemem = @ - n]
             D == (A \ {b}) \cup {f}
             V == U \cup {b}
  <1>1. /\ TwoLists(g, A, U) /\ Layout(g, A, U) /\ Counted(g, A) /\ b \in A
        /\ g.totalnodes = Cardinality(A \cup U) /\ n \in Nat /\ f = b + Hdr + n
    BY DEF Cuts, Sound
  <1>2. /\ g \in HeapType /\ A \subseteq Addr /\ U \subseteq Addr /\ A \cap U = {}
        /\ f \in Addr /\ f \in Nat /\ f \notin A \cup U /\ b # f /\ f + Hdr <= Words
        /\ g.size[b] - Hdr - n = Words - f - Hdr /\ g.size[b] # n
    BY CutFacts
  <1>3. MovedTo(g, m, A, U, b)
    BY <1>1, Assigns
  <1>4. m.size = g.size
    BY <1>3 DEF MovedTo
  <1>5. Malloc(g, b, n) = r
    <2>1. Malloc(g, b, n) = IF m.size[b] # n THEN [Split(m, b, n) EXCEPT !.freemem = @ - n]
                                             ELSE [m EXCEPT !.freemem = @ - n]
      BY DEF Malloc
    <2> HIDE DEF m
    <2>2. Split(m, b, n) = j
      BY <1>1 DEF Split
    <2> HIDE DEF j
    <2> QED BY <1>2, <1>4, <2>1, <2>2
  <1> HIDE DEF m
  <1>6. CutTo(g, i, A, U, b, n, f)
    BY <1>3, CutLinks
  <1> HIDE DEF i
  <1>7. /\ TwoLists(i, D, V) /\ CutSizes(g, i, b, n, f)
        /\ i.magic = g.magic \cup {b + Hdr - 1}
        /\ i.freemem = g.freemem - Hdr /\ i.totalnodes = g.totalnodes + 1
    BY <1>6 DEF CutTo
  <1>8. /\ Layout(i, D, V) /\ After(i, f) = Words
        /\ \A p \in D : After(i, p) # f
    BY <1>7, CutLayout
  <1>9. f \in D
    OBVIOUS
  <1>10. Words \notin D /\ Words \in Nat /\ Hdr \in Nat /\ \A x \in A : g.size[x] \in Nat
    BY <1>2, Addresses DEF HeapType
  <1>11. MergesTo(i, D, f, f, {}, Words, 0)
    BY <1>8, <1>10 DEF MergesTo
  <1>12. Disjoint(i, D) /\ OnlyAt(i, D, f)
    BY <1>8 DEF Layout, Disjoint, OnlyAt
  <1> HIDE DEF D, V
  <1>13. Joined(i, j, D, V, f, {}, Words, 0)
    BY <1>7, <1>9, <1>11, <1>12, MergeIs
  <1> HIDE DEF j
  <1>14. i \in HeapType /\ j \in HeapType
    BY <1>7, <1>13 DEF Joined, TwoLists
  <1>15. /\ TwoLists(j, D, V) /\ j.magic = i.magic /\ j.size = i.size
         /\ j.freemem = i.freemem /\ j.totalnodes = i.totalnodes
    <2>1. D \ {} = D
      OBVIOUS
    <2>2. i.size = [i.size EXCEPT ![f] = Words - f - Hdr]
      BY <1>2, <1>7, <1>14 DEF HeapType, CutSizes
    <2>3. i.freemem + 0 * Hdr = i.freemem /\ i.totalnodes - 0 = i.totalnodes
      BY <1>10, <1>14 DEF HeapType
    <2> QED BY <1>13, <2>1, <2>2, <2>3 DEF Joined
  <1>16. /\ TwoLists(r, D, V) /\ r.magic = i.magic /\ r.size = i.size
         /\ r.freemem = i.freemem - n /\ r.totalnodes = i.totalnodes
    <2>1. /\ r \in HeapType /\ r.size = j.size /\ r.magic = j.magic /\ r.freemem = j.freemem - n
          /\ r.totalnodes = j.totalnodes /\ r.next = j.next /\ r.prev = j.prev
          /\ r.available = j.available /\ r.assigned = j.assigned /\ r.wild = j.wild
      BY <1>1, <1>14 DEF HeapType
    <2> HIDE DEF r
    <2> QED BY <1>15, <2>1 DEF TwoLists
  <1> HIDE DEF r
  <1>17. Layout(r, D, V)
    BY <1>8, <1>16 DEF Layout, Disjoint, After
  <1>18. Counted(r, D)
    <2>1. /\ r.size[f] = g.size[b] - Hdr - n
          /\ \A x \in A : x # b => r.size[x] = g.size[x]
      BY <1>2, <1>7, <1>16 DEF CutSizes
    <2>2. r.freemem = g.freemem - Hdr - n
      BY <1>7, <1>16
    <2>3. CASE A = {b} /\ g.freemem = g.size[b]
      <3>1. D = {f} /\ r.freemem = r.size[f]
        BY <2>1, <2>2, <2>3 DEF D
      <3> QED BY <3>1 DEF Counted
    <2>4. ASSUME NEW a \in A, a # b, A = {b, a}, g.freemem = g.size[b] + g.size[a]
          PROVE  Counted(r, D)
      <3>1. D = {a, f} /\ a # f
        BY <1>2, <2>4 DEF D
      <3>2. r.freemem = r.size[a] + r.size[f]
        <4>1. /\ g.size[a] \in Int /\ g.size[b] \in Int /\ n \in Int /\ Hdr \in Int
              /\ r.size[a] = g.size[a]
          BY <1>1, <1>10, <2>1, <2>4
        <4>2. r.freemem = (g.size[b] + g.size[a]) - Hdr - n /\ r.size[f] = g.size[b] - Hdr - n
          BY <2>1, <2>2, <2>4
        <4> DEFINE x == g.size[a]
                   y == g.size[b]
        <4>3. /\ x \in Int /\ y \in Int /\ r.freemem = (y + x) - Hdr - n
              /\ r.size[f] = y - Hdr - n /\ r.size[a] = x
          BY <4>1, <4>2
        <4> HIDE DEF x, y
        <4>4. (y + x) - Hdr - n = x + (y - Hdr - n)
          BY <4>1, <4>3
        <4> QED BY <4>3, <4>4
      <3>3. \E x, y \in D : x # y /\ D = {x, y} /\ r.freemem = r.size[x] + r.size[y]
        <4>1. a \in D /\ f \in D
          BY <3>1
        <4> QED BY <3>1, <3>2, <4>1
      <3> QED BY <3>3 DEF Counted
    <2>5. \/ A = {b} /\ g.freemem = g.size[b]
          \/ \E a \in A : a # b /\ A = {b, a} /\ g.freemem = g.size[b] + g.size[a]
      <3>1. g \in HeapType /\ A \subseteq Addr
        BY <1>2
      <3>2. Counted(g, A) /\ b \in A
        BY <1>1
      <3> QED BY <3>1, <3>2, CountedWith
    <2> QED BY <2>3, <2>4, <2>5
  <1>19. r.totalnodes = Cardinality(D \cup V)
    <2> DEFINE B == A \cup U
    <2>1. D \cup V = B \cup {f} /\ f \notin B /\ B \subseteq Addr
      BY <1>1, <1>2 DEF D, V
    <2>2. IsFiniteSet(B) /\ g.totalnodes = Cardinality(B)
      BY <1>1, <2>1, FiniteBlocks
    <2> HIDE DEF B
    <2>3. Cardinality(B \cup {f}) = Cardinality(B) + 1
      BY <2>1, <2>2, FS_AddElement
    <2> QED BY <1>7, <1>16, <2>1, <2>2, <2>3
  <1>20. Sound(r, D, V) /\ r.magic = g.magic \cup {b + Hdr - 1}
    BY <1>7, <1>16, <1>17, <1>18, <1>19 DEF Sound
  <1> QED BY <1>5, <1>20 DEF D, V, Takes

-----------------------------------------------------------------------------
(* Blocks, what is written into them, and the pointers rounded up in them. *)

LEMMA SoundFacts ==
  ASSUME NEW g, NEW A, NEW U, Sound(g, A, U)
  PROVE  /\ g \in HeapType /\ A \cap U = {}
         /\ \A x \in A \cup U : /\ x \in Addr /\ x \in Nat /\ x < Words
                                /\ After(g, x) \in Nat /\ x + Hdr <= After(g, x) /\ x < After(g, x)
                                /\ After(g, x) \in A \cup U \cup {Words} /\ After(g, x) <= Words
         /\ \A x, y \in A \cup U : x < y => After(g, x) <= y
  <1>1. g \in HeapType /\ A \subseteq Addr /\ U \subseteq Addr /\ A \cap U = {}
    BY DEF Sound, TwoLists, Listed
  <1>2. /\ \A x \in A \cup U : After(g, x) \in A \cup U \cup {Words}
        /\ Disjoint(g, A \cup U)
    BY DEF Sound, Layout
  <1>3. \A x \in A \cup U : /\ x \in Addr /\ x \in Nat /\ x < Words
                            /\ After(g, x) \in Nat /\ x + Hdr <= After(g, x) /\ x < After(g, x)
    BY <1>1, Addresses, AfterIs
  <1> QED BY <1>1, <1>2, <1>3 DEF Disjoint

\* A block reaches to the next one, the last block to the end of the memory.
LEMMA NextBlock ==
  ASSUME NEW g, NEW A, NEW U, Sound(g, A, U), NEW x \in A \cup U,
         NEW y \in A \cup U \cup {Words}, x < y, \A z \in A \cup U : z <= x \/ y <= z
  PROVE  After(g, x) = y
  <1>1. /\ Words \in Nat /\ After(g, x) \in Nat /\ x \in Nat /\ y \in Nat /\ x < After(g, x)
        /\ After(g, x) \in A \cup U \cup {Words} /\ After(g, x) <= Words
    BY SoundFacts, Addresses
  <1>2. After(g, x) <= y
    BY <1>1, SoundFacts
  <1>3. y <= After(g, x)
    <2>1. CASE After(g, x) = Words
      BY <1>1, SoundFacts, <2>1
    <2>2. CASE After(g, x) \in A \cup U
      BY <1>1, <2>2
    <2> QED BY <1>1, <2>1, <2>2
  <1> QED BY <1>1, <1>2, <1>3

\* The words from lo to hi belong to the block b.
Inside(g, b, lo, hi) ==
  lo \in Int /\ hi \in Int /\ b + Hdr <= lo /\ hi < After(g, b)

\* No header of a block is written, nor its magic word.
LEMMA OutsideHeaders ==
  ASSUME NEW g, NEW A, NEW U, Sound(g, A, U), NEW b \in A \cup U, NEW lo, NEW hi,
         Inside(g, b, lo, hi), NEW x \in A \cup U
  PROVE  x \notin lo .. hi /\ x + Hdr - 1 \notin lo .. hi
  <1>1. /\ lo \in Int /\ hi \in Int /\ b + Hdr <= lo /\ hi < After(g, b)
        /\ Hdr \in Nat /\ 0 < Hdr
        /\ b \in Nat /\ x \in Nat /\ After(g, b) \in Nat /\ After(g, x) \in Nat
        /\ x + Hdr <= After(g, x)
    BY SoundFacts, Addresses DEF Inside
  <1>2. b < x => After(g, b) <= x
    BY SoundFacts
  <1>3. x < b => After(g, x) <= b
    BY SoundFacts
  <1> QED BY <1>1, <1>2, <1>3

LEMMA WrittenKeeps ==
  ASSUME NEW g, NEW A, NEW U, Sound(g, A, U), NEW b \in A \cup U, NEW lo, NEW hi,
         Inside(g, b, lo, hi)
  PROVE  /\ Sound(Written(g, lo, hi), A, U)
         /\ Written(g, lo, hi).magic = g.magic \ (lo .. hi)
         /\ \A x \in A \cup U : After(Written(g, lo, hi), x) = After(g, x)
  <1> DEFINE r == Written(g, lo, hi)
  <1>1. /\ TwoLists(g, A, U) /\ Layout(g, A, U) /\ Counted(g, A)
        /\ g.totalnodes = Cardinality(A \cup U)
        /\ g \in HeapType /\ A \subseteq Addr /\ U \subseteq Addr
    BY DEF Sound, TwoLists, Listed
  <1>2. Wild \in Addr \cup {Null, Wild} /\ 0 \in Nat
    OBVIOUS
  <1>3. /\ r \in HeapType
        /\ r.next = [a \in Addr |-> IF a \in lo .. hi THEN Wild ELSE g.next[a]]
        /\ r.prev = [a \in Addr |-> IF a \in lo .. hi THEN Wild ELSE g.prev[a]]
        /\ r.size = [a \in Addr |-> IF a \in lo .. hi THEN 0 ELSE g.size[a]]
        /\ r.magic = g.magic \ (lo .. hi) /\ r.wild = g.wild
        /\ r.available = g.available /\ r.assigned = g.assigned
        /\ r.freemem = g.freemem /\ r.totalnodes = g.totalnodes
    <2>1. r = [available |-> g.available, assigned |-> g.assigned,
               prev |-> [a \in Addr |-> IF a \in lo .. hi THEN Wild ELSE g.prev[a]],
               next |-> [a \in Addr |-> IF a \in lo .. hi THEN Wild ELSE g.next[a]],
               size |-> [a \in Addr |-> IF a \in lo .. hi THEN 0 ELSE g.size[a]],
               magic |-> g.magic \ (lo .. hi), freemem |-> g.freemem,
               totalnodes |-> g.totalnodes, wild |-> g.wild]
      <3> DEFINE N == [a \in Addr |-> IF a \in lo .. hi THEN Wild ELSE g.next[a]]
                 P == [a \in Addr |-> IF a \in lo .. hi THEN Wild ELSE g.prev[a]]
                 Z == [a \in Addr |-> IF a \in lo .. hi THEN 0 ELSE g.size[a]]
                 M == g.magic \ (lo .. hi)
      <3>1. r = [g EXCEPT !.prev = P, !.next = N, !.size = Z, !.magic = M]
        BY DEF Written
      <3> HIDE DEF N, P, Z, M, r
      <3>2. r = [available |-> g.available, assigned |-> g.assigned, prev |-> P, next |-> N,
                 size |-> Z, magic |-> M, freemem |-> g.freemem,
                 totalnodes |-> g.totalnodes, wild |-> g.wild]
        BY <1>1, <3>1 DEF HeapType
      <3> QED BY <3>2 DEF N, P, Z, M
    <2>2. /\ [a \in Addr |-> IF a \in lo .. hi THEN Wild ELSE g.next[a]] \in [Addr -> Addr \cup {Null, Wild}]
          /\ [a \in Addr |-> IF a \in lo .. hi THEN Wild ELSE g.prev[a]] \in [Addr -> Addr \cup {Null, Wild}]
          /\ [a \in Addr |-> IF a \in lo .. hi THEN 0 ELSE g.size[a]] \in [Addr -> Nat]
      BY <1>1 DEF HeapType
    <2>3. r \in HeapType
      BY <1>1, <2>1, <2>2 DEF HeapType
    <2> HIDE DEF r
    <2> QED BY <2>1, <2>3
  <1> HIDE DEF r
  <1>4. \A x \in A \cup U : /\ r.next[x] = g.next[x] /\ r.prev[x] = g.prev[x]
                            /\ r.size[x] = g.size[x]
    <2>1. \A x \in A \cup U : x \notin lo .. hi
      BY OutsideHeaders
    <2> QED BY <1>1, <1>3, <2>1
  <1>5. TwoLists(r, A, U)
    <2>1. /\ Listed(g.next, g.prev, g.available, A) /\ Listed(g.next, g.prev, g.assigned, U)
          /\ g.wild = FALSE /\ A \cap U = {}
      BY <1>1 DEF TwoLists
    <2>2. Listed(r.next, r.prev, g.available, A)
      BY <1>4, <2>1, LinkFrame
    <2>3. Listed(r.next, r.prev, g.assigned, U)
      BY <1>4, <2>1, LinkFrame
    <2> QED BY <1>3, <2>1, <2>2, <2>3 DEF TwoLists
  <1>6. \A x \in A \cup U : After(r, x) = After(g, x)
    BY <1>4 DEF After
  <1>7. Layout(r, A, U)
    BY <1>1, <1>6 DEF Layout, Disjoint
  <1>8. Counted(r, A)
    <2>1. r.freemem = g.freemem /\ \A x \in A : r.size[x] = g.size[x]
      BY <1>3, <1>4
    <2>2. ASSUME NEW x \in A, A = {x}, g.freemem = g.size[x]
          PROVE  Counted(r, A)
      BY <2>1, <2>2 DEF Counted
    <2>3. ASSUME NEW x \in A, NEW y \in A, x # y, A = {x, y}, g.freemem = g.size[x] + g.size[y]
          PROVE  Counted(r, A)
      <3>1. x # y /\ A = {x, y} /\ r.freemem = r.size[x] + r.size[y]
        BY <2>1, <2>3
      <3> QED BY <3>1 DEF Counted
    <2>4. CASE A = {} /\ g.freemem = 0
      BY <2>1, <2>4 DEF Counted
    <2> QED BY <1>1, <2>2, <2>3, <2>4 DEF Counted
  <1> QED BY <1>1, <1>3, <1>5, <1>6, <1>7, <1>8 DEF Sound, r

\* pmalloc_freealign finds the header b from the pointer p.
Owner(g, b, p) ==
  /\ p \in Nat /\ b + Hdr <= p
  /\ b + Hdr - 1 \in g.magic
  /\ \A w \in g.magic : w < b + Hdr \/ p <= w

LEMMA HeaderOfIs ==
  ASSUME NEW g \in HeapType, NEW b \in Addr, NEW p, Owner(g, b, p)
  PROVE  HeaderOf(g, p) = b
  <1> DEFINE W == {w \in g.magic : w < p}
             m == b + Hdr - 1
  <1>1. /\ b \in Nat /\ Hdr \in Nat /\ p \in Nat /\ b + Hdr <= p
        /\ \A w \in g.magic : w \in Int
    BY Addresses DEF HeapType, Owner
  <1>2. m \in W
    BY <1>1 DEF Owner
  <1>3. \A w \in W : m >= w
    BY <1>1 DEF Owner
  <1>4. W \subseteq Int
    BY <1>1
  <1> HIDE DEF W
  <1>5. Max(W) \in W /\ \A w \in W : Max(W) >= w
    BY <1>2, <1>3 DEF Max
  <1>6. Max(W) = m
    <2> DEFINE x == Max(W)
    <2>1. x \in W /\ x \in Int /\ m \in Int /\ x >= m
      BY <1>2, <1>4, <1>5
    <2>2. m >= x
      BY <1>3, <2>1
    <2> HIDE DEF x, m
    <2>3. x = m
      BY <2>1, <2>2
    <2> QED BY <2>3 DEF x
  <1>7. m + 1 - Hdr = b
    BY <1>1
  <1> QED BY <1>6, <1>7 DEF HeaderOf, W

\* Rounding up moves a pointer by less than the alignment.
LEMMA RoundsUp ==
  ASSUME NEW a \in Nat
  PROVE  RoundUp(a, Align) \in Nat /\ a <= RoundUp(a, Align) /\ RoundUp(a, Align) < a + Align
  <1> DEFINE n == a + Align - 1
             q == n \div Align
             r == n % Align
  <1>1. Align \in Nat /\ 0 < Align /\ n \in Nat
    BY SizeAssumption
  <1>2. n = Align * q + r /\ q \in Nat /\ r \in 0 .. Align - 1
    <2> HIDE DEF n
    <2> QED BY <1>1
  <1>3. RoundUp(a, Align) = q * Align
    BY DEF RoundUp
  <1>4. q * Align = Align * q /\ q * Align \in Nat
    <2> HIDE DEF q
    <2> QED BY <1>1, <1>2
  <1> DEFINE x == q * Align
  <1>5. n = x + r /\ x \in Nat
    BY <1>2, <1>4
  <1> HIDE DEF x, r, q
  <1> QED BY <1>1, <1>2, <1>3, <1>5 DEF x

-----------------------------------------------------------------------------
(* What an allocation and a release of the program do to the heap. *)

\* p points into the block x, and pmalloc_freealign finds x from it.
Owns(g, x, p) == Owner(g, x, p) /\ p < After(g, x)

\* The aligned pointers into the blocks U stay good.
Keeps(g, r, U) == \A x \in U, p \in Nat : Owns(g, x, p) => Owns(r, x, p)

\* The blocks around x are as they were.
LEMMA SameEnd ==
  ASSUME NEW g, NEW A, NEW U, Sound(g, A, U), NEW r, NEW C, NEW V, Sound(r, C, V),
         NEW x \in U \cap V, After(g, x) \in C \cup V \cup {Words},
         \A z \in C \cup V : z \in A \cup U \/ After(g, x) <= z
  PROVE  After(r, x) = After(g, x)
  <1>1. x \in Nat /\ x < After(g, x) /\ After(g, x) \in Nat
    BY SoundFacts
  <1>2. \A z \in C \cup V : z <= x \/ After(g, x) <= z
    <2>1. \A z \in A \cup U : z \in Nat /\ (x < z => After(g, x) <= z)
      BY SoundFacts
    <2> QED BY <1>1, <2>1
  <1> QED BY <1>1, <1>2, NextBlock

\* Another block is allocated.
LEMMA TaggedKeeps ==
  ASSUME NEW g, NEW A, NEW U, Sound(g, A, U), NEW b \in A, NEW r,
         r.magic = g.magic \cup {b + Hdr - 1}, \A x \in U : After(r, x) = After(g, x)
  PROVE  Keeps(g, r, U)
  <1> SUFFICES ASSUME NEW x \in U, NEW p \in Nat, Owns(g, x, p)
               PROVE  Owns(r, x, p)
    BY DEF Keeps
  <1>1. /\ g \in HeapType /\ x # b /\ Hdr \in Nat /\ 0 < Hdr
        /\ x \in Nat /\ b \in Nat /\ After(g, x) \in Nat /\ After(g, b) \in Nat
        /\ b + Hdr <= After(g, b) /\ p < After(g, x)
        /\ x < b => After(g, x) <= b
        /\ b < x => After(g, b) <= x
    BY SoundFacts, Addresses DEF Owns
  <1>2. b + Hdr - 1 < x + Hdr \/ p <= b + Hdr - 1
    BY <1>1
  <1> QED BY <1>2 DEF Owns, Owner

\* Another block is written, or a part of its own behind p.
LEMMA WritingKeeps ==
  ASSUME NEW g, NEW A, NEW U, Sound(g, A, U), NEW b \in A \cup U, NEW lo, NEW hi,
         Inside(g, b, lo, hi)
  PROVE  Keeps(g, Written(g, lo, hi), U)
  <1> DEFINE r == Written(g, lo, hi)
  <1> SUFFICES ASSUME NEW x \in U, NEW p \in Nat, Owns(g, x, p)
               PROVE  Owns(r, x, p)
    BY DEF Keeps
  <1>1. /\ r.magic = g.magic \ (lo .. hi)
        /\ After(r, x) = After(g, x)
    BY WrittenKeeps
  <1>2. x + Hdr - 1 \notin lo .. hi
    BY OutsideHeaders
  <1> HIDE DEF r
  <1> QED BY <1>1, <1>2 DEF Owns, Owner

\* The block b is the one to allocate n words from; the free blocks then are C.
Suits(g, A, U, b, n, C) ==
  /\ Sound(g, A, U) /\ b \in A /\ n \in Nat
  /\ \/ g.size[b] = n /\ C = A \ {b}
     \/ After(g, b) = Words /\ n + Hdr <= g.size[b] /\ C = (A \ {b}) \cup {b + Hdr + n}

Allocated(g, r, U, b, n, C) ==
  /\ Sound(r, C, U \cup {b})
  /\ r.magic = g.magic \cup {b + Hdr - 1}
  /\ After(r, b) = b + Hdr + n
  /\ Keeps(g, r, U)

LEMMA MallocIs ==
  ASSUME NEW g, NEW A, NEW U, NEW b, NEW n, NEW C, Suits(g, A, U, b, n, C)
  PROVE  Allocated(g, Malloc(g, b, n), U, b, n, C)
  <1> DEFINE r == Malloc(g, b, n)
             f == b + Hdr + n
             V == U \cup {b}
  <1>1. Sound(g, A, U) /\ b \in A /\ n \in Nat
    BY DEF Suits
  <1>2. /\ g \in HeapType /\ A \cap U = {} /\ Hdr \in Nat /\ 0 < Hdr
        /\ \A x \in A \cup U : /\ x \in Nat /\ After(g, x) \in Nat
                               /\ After(g, x) \in A \cup U \cup {Words}
                               /\ x < After(g, x)
        /\ \A x, y \in A \cup U : x < y => After(g, x) <= y
    BY <1>1, SoundFacts, Addresses
  <1>3. ASSUME g.size[b] = n, C = A \ {b}
        PROVE  Sound(r, C, V) /\ r.magic = g.magic \cup {b + Hdr - 1} /\ After(r, b) = f /\ Keeps(g, r, U)
    <2>1. Sound(r, C, V) /\ r.magic = g.magic \cup {b + Hdr - 1}
      <3>1. Takes(g, r, A \ {b}, U, b)
        BY <1>1, <1>3, MallocExact
      <3> HIDE DEF r
      <3> QED BY <1>3, <3>1 DEF Takes
    <2>2. C \cup V = A \cup U
      BY <1>1, <1>3
    <2> HIDE DEF r
    <2>3. ASSUME NEW x \in U
          PROVE  After(r, x) = After(g, x)
      <3>1. x \in U \cap V /\ After(g, x) \in C \cup V \cup {Words}
        BY <1>2, <2>2
      <3> QED BY <1>1, <2>1, <2>2, <3>1, SameEnd
    <2>4. Keeps(g, r, U)
      BY <1>1, <2>1, <2>3, TaggedKeeps
    <2>5. After(g, b) = f
      BY <1>3 DEF After
    <2>6. After(r, b) = f
      <3>1. /\ b \in C \cup V
            /\ f \in C \cup V \cup {Words}
            /\ b < f
            /\ \A z \in C \cup V : z <= b \/ f <= z
        <4>1. \A z \in A \cup U : z <= b \/ f <= z
          BY <1>1, <1>2, <2>5
        <4> QED BY <1>1, <1>2, <2>2, <2>5, <4>1
      <3> HIDE DEF f, V
      <3> QED BY <2>1, <3>1, NextBlock
    <2> HIDE DEF f, V
    <2> QED BY <2>1, <2>4, <2>6
  <1>4. ASSUME After(g, b) = Words, n + Hdr <= g.size[b], C = (A \ {b}) \cup {f}
        PROVE  Sound(r, C, V) /\ r.magic = g.magic \cup {b + Hdr - 1} /\ After(r, b) = f /\ Keeps(g, r, U)
    <2>1. Cuts(g, A, U, b, n, f)
      BY <1>1, <1>4 DEF Cuts
    <2>2. /\ b < f /\ f \in Nat
          /\ \A x \in A \cup U : x # b => x < b /\ After(g, x) <= b
      BY <2>1, CutFacts
    <2> HIDE DEF f
    <2>3. Sound(r, C, V) /\ r.magic = g.magic \cup {b + Hdr - 1}
      <3>1. Sound(r, (A \ {b}) \cup {f}, V) /\ r.magic = g.magic \cup {b + Hdr - 1}
        <4>1. Takes(g, r, (A \ {b}) \cup {f}, U, b)
          BY <2>1, MallocSplit
        <4> HIDE DEF r
        <4> QED BY <4>1 DEF Takes
      <3> HIDE DEF r
      <3> QED BY <1>4, <3>1
    <2>4. C \cup V = (A \cup U) \cup {f}
      BY <1>1, <1>4
    <2> HIDE DEF r
    <2>5. ASSUME NEW x \in U
          PROVE  After(r, x) = After(g, x)
      <3>1. x \in U \cap V /\ After(g, x) \in C \cup V \cup {Words}
        BY <1>2, <2>4
      <3>2. \A z \in C \cup V : z \in A \cup U \/ After(g, x) <= z
        <4>1. After(g, x) <= b /\ After(g, x) \in Nat /\ b \in Nat
          BY <1>1, <1>2, <2>2
        <4> QED BY <2>2, <2>4, <4>1
      <3> QED BY <1>1, <2>3, <3>1, <3>2, SameEnd
    <2>6. Keeps(g, r, U)
      BY <1>1, <2>3, <2>5, TaggedKeeps
    <2>7. After(r, b) = f
      <3>1. \A z \in C \cup V : z <= b \/ f <= z
        BY <1>1, <1>2, <2>2, <2>4
      <3>2. b \in C \cup V /\ f \in C \cup V \cup {Words} /\ b < f
        BY <2>2, <2>4
      <3> QED BY <2>3, <3>1, <3>2, NextBlock
    <2> HIDE DEF V
    <2> QED BY <2>3, <2>6, <2>7
  <1>5. \/ g.size[b] = n /\ C = A \ {b}
        \/ After(g, b) = Words /\ n + Hdr <= g.size[b] /\ C = (A \ {b}) \cup {f}
    BY DEF Suits
  <1>6. /\ Sound(r, C, V) /\ r.magic = g.magic \cup {b + Hdr - 1}
        /\ After(r, b) = f /\ Keeps(g, r, U)
    <2> HIDE DEF r, f, V
    <2> QED BY <1>3, <1>4, <1>5
  <1> HIDE DEF r
  <1>7. Allocated(g, r, U, b, n, C)
    BY <1>6 DEF Allocated
  <1> QED BY <1>7 DEF r

LEMMA KeepsOn ==
  ASSUME NEW g, NEW r, NEW s, NEW U, NEW V, U \subseteq V, Keeps(g, r, U), Keeps(r, s, V)
  PROVE  Keeps(g, s, U)
  BY DEF Keeps

\* pmalloc_malloc, and the block filled.
LEMMA AllocIs ==
  ASSUME NEW g, NEW A, NEW U, NEW b, NEW n, NEW C, Suits(g, A, U, b, n, C)
  PROVE  LET r == Written(Malloc(g, b, n), b + Hdr, b + Hdr + n - 1)
         IN  Sound(r, C, U \cup {b}) /\ Keeps(g, r, U)
  <1> DEFINE m == Malloc(g, b, n)
  <1>1. /\ Sound(m, C, U \cup {b}) /\ After(m, b) = b + Hdr + n
        /\ Keeps(g, m, U)
    <2>1. Allocated(g, m, U, b, n, C)
      BY MallocIs
    <2> HIDE DEF m
    <2> QED BY <2>1 DEF Allocated
  <1> HIDE DEF m
  <1>2. b \in Nat /\ Hdr \in Nat /\ n \in Nat
    <2>1. Sound(g, A, U) /\ b \in A /\ n \in Nat
      BY DEF Suits
    <2> QED BY <2>1, SoundFacts, Addresses
  <1>3. Inside(m, b, b + Hdr, b + Hdr + n - 1)
    BY <1>1, <1>2 DEF Inside
  <1>4. Sound(Written(m, b + Hdr, b + Hdr + n - 1), C, U \cup {b})
    BY <1>1, <1>3, WrittenKeeps
  <1>5. Keeps(m, Written(m, b + Hdr, b + Hdr + n - 1), U \cup {b})
    BY <1>1, <1>3, WritingKeeps
  <1>6. Keeps(g, Written(m, b + Hdr, b + Hdr + n - 1), U)
    BY <1>1, <1>5, KeepsOn
  <1> QED BY <1>4, <1>6 DEF m

\* pmalloc_memalign, and the block filled from the aligned pointer on.
LEMMA AlignedIs ==
  ASSUME NEW g, NEW A, NEW U, NEW b, NEW k \in Nat, NEW C, Suits(g, A, U, b, k + Align, C)
  PROVE  LET p == AlignedPtr(b, Align)
             r == Written(Padded(Malloc(g, b, k + Align), b, Align), p, p + k - 1)
         IN  Sound(r, C, U \cup {b}) /\ Keeps(g, r, U) /\ Owns(r, b, p)
  <1> DEFINE m == Malloc(g, b, k + Align)
             p == AlignedPtr(b, Align)
             q == Padded(m, b, Align)
             r == Written(q, p, p + k - 1)
  <1>1. /\ Sound(m, C, U \cup {b}) /\ After(m, b) = b + Hdr + (k + Align)
        /\ m.magic = g.magic \cup {b + Hdr - 1}
        /\ Keeps(g, m, U)
    <2>1. Allocated(g, m, U, b, k + Align, C)
      BY MallocIs
    <2> HIDE DEF m
    <2> QED BY <2>1 DEF Allocated
  <1> HIDE DEF m
  <1>2. b \in Nat /\ Hdr \in Nat /\ 0 < Hdr /\ Align \in Nat /\ 0 < Align
    <2>1. Sound(g, A, U) /\ b \in A
      BY DEF Suits
    <2> QED BY <2>1, SoundFacts, Addresses, SizeAssumption
  <1>3. p \in Nat /\ b + Hdr <= p /\ p < b + Hdr + Align
    <2>1. b + Hdr \in Nat
      BY <1>2
    <2> QED BY <2>1, RoundsUp DEF AlignedPtr
  <1> HIDE DEF p
  <1>4. Inside(m, b, b + Hdr, p - 1)
    BY <1>1, <1>2, <1>3 DEF Inside
  <1>5. /\ Sound(q, C, U \cup {b}) /\ Keeps(m, q, U \cup {b})
        /\ q.magic = m.magic \ (b + Hdr .. p - 1) /\ After(q, b) = After(m, b)
    <2>1. q = Written(m, b + Hdr, p - 1)
      BY DEF Padded, p
    <2> HIDE DEF q
    <2> QED BY <1>1, <1>4, <2>1, WrittenKeeps, WritingKeeps
  <1> HIDE DEF q
  <1>6. Inside(q, b, p, p + k - 1)
    BY <1>1, <1>2, <1>3, <1>5 DEF Inside
  <1>7. Sound(r, C, U \cup {b}) /\ Keeps(q, r, U \cup {b})
    BY <1>5, <1>6, WrittenKeeps, WritingKeeps
  <1>8. Owns(q, b, p)
    <2>1. b + Hdr - 1 \in q.magic
      BY <1>1, <1>2, <1>5
    <2>2. \A w \in m.magic : w \in Int
      <3>1. m \in HeapType
        BY <1>1, SoundFacts
      <3> QED BY <3>1, Addresses DEF HeapType
    <2>3. \A w \in q.magic : w < b + Hdr \/ p <= w
      BY <1>2, <1>3, <1>5, <2>2
    <2>4. p < After(q, b)
      BY <1>1, <1>2, <1>3, <1>5
    <2> QED BY <1>3, <2>1, <2>3, <2>4 DEF Owns, Owner
  <1> HIDE DEF r
  <1>9. Owns(r, b, p)
    BY <1>3, <1>7, <1>8 DEF Keeps
  <1>10. Keeps(g, r, U)
    BY <1>1, <1>5, <1>7 DEF Keeps
  <1> QED BY <1>7, <1>9, <1>10 DEF r, q, p, m

\* pmalloc_free.
LEMMA FreeIs ==
  ASSUME NEW g, NEW A, NEW U, Sound(g, A, U),
         NEW n, NEW f, NEW Q, NEW e, NEW c, Frees(g, A, U, n, f, Q, e, c),
         c > 0 \/ A = {} \/ \E a \in A : A = {a}
  PROVE  Sound(FreeNode(g, n), (A \cup {n}) \ Q, U \ {n}) /\ Keeps(g, FreeNode(g, n), U \ {n})
  <1> DEFINE r == FreeNode(g, n)
             C == (A \cup {n}) \ Q
             V == U \ {n}
  <1>1. Sound(r, C, V) /\ r.magic = g.magic
    BY FreeNodeIs
  <1> HIDE DEF r
  <1>2. /\ f \in A \cup {n} /\ f \notin Q /\ Q \subseteq A \cup {n}
        /\ \A b \in A \cup U : b # f /\ b \notin Q => After(g, b) \notin Q
    BY MergesFacts
  <1>3. /\ A \cap U = {} /\ n \in U
        /\ \A x \in A \cup U : After(g, x) \in A \cup U \cup {Words}
    BY SoundFacts DEF Frees
  <1>4. ASSUME NEW x \in V
        PROVE  After(r, x) = After(g, x)
    <2>1. x \in U \cap V /\ x # f /\ x \notin Q
      BY <1>2, <1>3
    <2>2. After(g, x) \in C \cup V \cup {Words}
      BY <1>2, <1>3, <2>1
    <2>3. \A z \in C \cup V : z \in A \cup U \/ After(g, x) <= z
      BY <1>3
    <2> HIDE DEF C, V
    <2> QED BY <1>1, <2>1, <2>2, <2>3, SameEnd
  <1>5. Keeps(g, r, V)
    BY <1>1, <1>4 DEF Keeps, Owns, Owner
  <1> QED BY <1>1, <1>5 DEF r

-----------------------------------------------------------------------------
(* A sound heap, seen through its lists and counters, is HeapSound. *)

\* The sequence of a list is its set in ascending order.
LEMMA OrderIs ==
  ASSUME NEW g, NEW S, S \subseteq Nat, NEW s, InOrder(g, S, s)
  PROVE  /\ SetOf(s) = S /\ Ascending(s) /\ Len(s) \in Nat
         /\ \A i \in 1 .. Len(s) : s[i] \in S
         /\ \A i, j \in 1 .. Len(s) : s[i] = s[j] => i = j
  <1>1. /\ s \in Seq(S) /\ Len(s) \in Nat
        /\ \A i \in 1 .. Len(s) : s[i] \in S
        /\ \A x \in S : \E i \in 1 .. Len(s) : s[i] = x
        /\ \A i, j \in 1 .. Len(s) : i < j => s[i] < s[j]
    BY DEF InOrder
  <1>2. SetOf(s) = S
    BY <1>1 DEF SetOf
  <1>3. Ascending(s)
    <2> SUFFICES ASSUME NEW i \in 1 .. Len(s) - 1
                 PROVE  s[i] < s[i + 1]
      BY DEF Ascending
    <2>1. i \in 1 .. Len(s) /\ i + 1 \in 1 .. Len(s) /\ i < i + 1
      BY <1>1
    <2> QED BY <1>1, <2>1
  <1>4. ASSUME NEW i \in 1 .. Len(s), NEW j \in 1 .. Len(s), s[i] = s[j]
        PROVE  i = j
    <2>1. ~(i < j) /\ ~(j < i)
      <3>1. s[i] \in Nat /\ s[j] \in Nat
        BY <1>1
      <3> QED BY <1>1, <1>4, <3>1
    <2> QED BY <2>1
  <1> QED BY <1>1, <1>2, <1>3, <1>4

\* The sum of at most two sizes.
IsSum(g, s, w) == w = [i \in 0 .. Len(s) |-> IF i = 0 THEN 0 ELSE w[i - 1] + g.size[s[i]]]

LEMMA SumTo ==
  ASSUME NEW g, NEW s, Len(s) \in 0 .. 2, \A i \in 1 .. Len(s) : g.size[s[i]] \in Nat
  PROVE  /\ \E w : IsSum(g, s, w)
         /\ \A w : IsSum(g, s, w) =>
              w[Len(s)] = IF Len(s) = 0 THEN 0
                          ELSE IF Len(s) = 1 THEN g.size[s[1]] ELSE g.size[s[1]] + g.size[s[2]]
  <1> DEFINE x == g.size[s[1]]
             y == g.size[s[2]]
             v == [i \in 0 .. Len(s) |-> IF i = 0 THEN 0 ELSE IF i = 1 THEN x ELSE x + y]
  <1>1. ASSUME NEW i \in 0 .. Len(s)
        PROVE  v[i] = IF i = 0 THEN 0 ELSE v[i - 1] + g.size[s[i]]
    <2>1. CASE i = 0
      BY <2>1
    <2>2. CASE i = 1
      <3>1. x \in Nat /\ 1 - 1 = 0 /\ 0 \in 0 .. Len(s)
        BY <2>2
      <3> QED BY <2>2, <3>1
    <2>3. CASE i = 2
      <3>1. 2 - 1 = 1 /\ 1 \in 0 .. Len(s)
        BY <2>3
      <3> QED BY <2>3, <3>1
    <2> QED BY <2>1, <2>2, <2>3
  <1>2. IsSum(g, s, v)
    BY <1>1 DEF IsSum
  <1>3. ASSUME NEW w, IsSum(g, s, w)
        PROVE  w[Len(s)] = IF Len(s) = 0 THEN 0 ELSE IF Len(s) = 1 THEN x ELSE x + y
    <2>1. w = [i \in 0 .. Len(s) |-> IF i = 0 THEN 0 ELSE w[i - 1] + g.size[s[i]]]
      BY <1>3 DEF IsSum
    <2>2. /\ w[0] = 0
          /\ 1 \in 0 .. Len(s) => w[1] = w[0] + x
          /\ 2 \in 0 .. Len(s) => w[2] = w[1] + y
      <3>1. 0 \in 0 .. Len(s) /\ 1 - 1 = 0 /\ 2 - 1 = 1 /\ 1 # 0 /\ 2 # 0
        OBVIOUS
      <3> QED BY <2>1, <3>1
    <2>3. Len(s) > 0 => x \in Nat
      OBVIOUS
    <2> HIDE DEF x, y
    <2>4. CASE Len(s) = 0
      BY <2>2, <2>4
    <2>5. CASE Len(s) = 1
      BY <2>2, <2>3, <2>5
    <2>6. CASE Len(s) = 2
      <3>1. y \in Nat
        BY <2>6 DEF y
      <3> QED BY <2>2, <2>3, <2>6, <3>1
    <2> QED BY <2>4, <2>5, <2>6
  <1> QED BY <1>2, <1>3

LEMMA FreeWordsIs ==
  ASSUME NEW A, A \subseteq Addr, h \in HeapType, InOrder(h, A, Available), Counted(h, A)
  PROVE  h.freemem = FreeWords
  <1> DEFINE s == Available
             sum == CHOOSE w : IsSum(h, s, w)
  <1>1. A \subseteq Nat /\ \A x \in A : h.size[x] \in Nat
    BY Addresses DEF HeapType
  <1>2. /\ SetOf(s) = A /\ Len(s) \in Nat
        /\ \A i \in 1 .. Len(s) : s[i] \in A
        /\ \A i, j \in 1 .. Len(s) : s[i] = s[j] => i = j
    BY <1>1, OrderIs
  <1>3. FreeWords = sum[Len(s)]
    BY DEF FreeWords, IsSum
  <1> HIDE DEF s
  <1>4. \A x \in A : \E i \in 1 .. Len(s) : s[i] = x
    BY <1>2 DEF SetOf
  <1>5. ASSUME Len(s) \in 0 .. 2
        PROVE  sum[Len(s)] = IF Len(s) = 0 THEN 0
                 ELSE IF Len(s) = 1 THEN h.size[s[1]] ELSE h.size[s[1]] + h.size[s[2]]
    <2>1. \A i \in 1 .. Len(s) : h.size[s[i]] \in Nat
      BY <1>1, <1>2
    <2>2. IsSum(h, s, sum)
      BY <1>5, <2>1, SumTo
    <2> HIDE DEF sum
    <2> QED BY <1>5, <2>1, <2>2, SumTo
  <1> HIDE DEF sum
  <1>6. CASE A = {} /\ h.freemem = 0
    <2>1. Len(s) = 0
      <3>1. ~(1 \in 1 .. Len(s))
        BY <1>2, <1>6
      <3> QED BY <1>2, <3>1
    <2> QED BY <1>3, <1>5, <1>6, <2>1
  <1>7. ASSUME NEW a \in A, A = {a}, h.freemem = h.size[a]
        PROVE  h.freemem = FreeWords
    <2>1. ~(2 \in 1 .. Len(s))
      <3>1. SUFFICES ASSUME 2 \in 1 .. Len(s)
                     PROVE  FALSE
        OBVIOUS
      <3>2. 1 \in 1 .. Len(s) /\ 1 # 2
        BY <1>2, <3>1
      <3> QED BY <1>2, <1>7, <3>1, <3>2
    <2>2. Len(s) = 1
      <3>1. PICK i \in 1 .. Len(s) : s[i] = a
        BY <1>4
      <3>2. Len(s) >= 1 /\ ~(Len(s) >= 2)
        BY <1>2, <2>1
      <3> QED BY <1>2, <3>2
    <2>3. s[1] = a
      BY <1>2, <1>7, <2>2
    <2> QED BY <1>3, <1>5, <1>7, <2>2, <2>3
  <1>8. ASSUME NEW a \in A, NEW b \in A, a # b, A = {a, b}, h.freemem = h.size[a] + h.size[b]
        PROVE  h.freemem = FreeWords
    <2>1. PICK i \in 1 .. Len(s) : s[i] = a
      BY <1>4
    <2>2. PICK j \in 1 .. Len(s) : s[j] = b
      BY <1>4
    <2>3. i # j
      BY <1>8, <2>1, <2>2
    <2>4. \A k \in 1 .. Len(s) : k = i \/ k = j
      BY <1>2, <1>8, <2>1, <2>2
    <2>5. ~(3 \in 1 .. Len(s))
      <3>1. SUFFICES ASSUME 3 \in 1 .. Len(s)
                     PROVE  FALSE
        OBVIOUS
      <3>2. 1 \in 1 .. Len(s) /\ 2 \in 1 .. Len(s)
        BY <1>2, <3>1
      <3> QED BY <2>4, <3>1, <3>2
    <2>6. Len(s) = 2
      <3>1. /\ i \in Nat /\ 1 <= i /\ i <= Len(s)
            /\ j \in Nat /\ 1 <= j /\ j <= Len(s)
        BY <1>2, <2>1, <2>2
      <3>2. Len(s) \in Int
        BY <1>2
      <3>3. Len(s) >= 2
        BY <2>3, <3>1, <3>2
      <3>4. ~(Len(s) >= 3)
        BY <2>5, <3>2
      <3> DEFINE k == Len(s)
      <3>5. k \in Int /\ k >= 2 /\ ~(k >= 3)
        BY <3>2, <3>3, <3>4
      <3> HIDE DEF k
      <3>6. k = 2
        BY <3>5
      <3> QED BY <3>6 DEF k
    <2>7. (i = 1 /\ j = 2) \/ (i = 2 /\ j = 1)
      BY <2>1, <2>2, <2>3, <2>6
    <2>8. h.size[s[1]] + h.size[s[2]] = h.size[a] + h.size[b]
      BY <1>1, <2>1, <2>2, <2>7
    <2> QED BY <1>3, <1>5, <1>8, <2>6, <2>8
  <1> QED BY <1>6, <1>7, <1>8 DEF Counted

LEMMA HeapSoundIs ==
  ASSUME NEW A, NEW U, Sound(h, A, U), U = HeldBlocks, OwnersFound
  PROVE  HeapSound
  <1>1. /\ h \in HeapType /\ h.wild = FALSE
        /\ Listed(h.next, h.prev, h.available, A) /\ Listed(h.next, h.prev, h.assigned, U)
        /\ A \cap U = {} /\ Layout(h, A, U) /\ Counted(h, A)
        /\ h.totalnodes = Cardinality(A \cup U)
    BY DEF Sound, TwoLists
  <1>2. A \subseteq Addr /\ U \subseteq Addr /\ A \subseteq Nat /\ U \subseteq Nat
    <2>1. A \subseteq Addr /\ U \subseteq Addr
      BY <1>1 DEF Listed
    <2> QED BY <2>1, Addresses
  <1>3. Apart(A) /\ Apart(U)
    <2>1. Disjoint(h, A) /\ Disjoint(h, U)
      BY <1>1 DEF Layout, Disjoint
    <2> QED BY <1>1, <1>2, <2>1, DisjointApart
  <1>4. InOrder(h, A, Available) /\ InOrder(h, U, Assigned)
    BY <1>1, <1>3, NodesInOrder DEF Available, Assigned
  <1>5. /\ SetOf(Available) = A /\ Ascending(Available)
        /\ SetOf(Assigned) = U /\ Ascending(Assigned)
    BY <1>2, <1>4, OrderIs
  <1>6. PrevIsPrevious
    BY <1>4 DEF InOrder, PrevIsPrevious
  <1>7. \A i \in 1 .. Len(Assigned) : h.prev[Assigned[i]] = IF i = 1 THEN Null ELSE Assigned[i - 1]
    BY <1>4 DEF InOrder
  <1>8. Blocks = A \cup U
    BY <1>5 DEF Blocks
  <1>9. h.freemem = FreeWords
    BY <1>1, <1>2, <1>4, FreeWordsIs
  <1>10. /\ 0 \in A \cup U
         /\ \A b \in A \cup U : After(h, b) = Words \/ After(h, b) \in A \cup U
         /\ \A b \in A : After(h, b) \notin A
    BY <1>1 DEF Layout
  <1> QED BY <1>1, <1>5, <1>6, <1>7, <1>8, <1>9, <1>10 DEF HeapSound

-----------------------------------------------------------------------------
(* The four ways a block of the program is freed. *)

\* r is g after a release that leaves the free blocks C and the used blocks V.
Released(g, r, C, V) == Sound(r, C, V) /\ Keeps(g, r, V)

\* What is free follows n, or nothing is.
LEMMA FreeFirst ==
  ASSUME NEW g, NEW A, NEW U, Sound(g, A, U), NEW n \in U, A \subseteq {After(g, n)}
  PROVE  Released(g, FreeNode(g, n), {n}, U \ {n})
  <1> DEFINE q == After(g, n)
             r == FreeNode(g, n)
  <1>1. /\ n \in Nat /\ q \in Nat /\ n < q /\ n \notin A
        /\ \A x \in A \cup U : x \in Nat /\ After(g, x) \in Nat /\ x < After(g, x)
    BY SoundFacts
  <1>2. TwoLists(g, A, U) /\ Layout(g, A, U)
    BY DEF Sound
  <1>3. \A p \in A \cup {n} : After(g, p) # n
    BY <1>1
  <1> HIDE DEF q, r
  <1>4. CASE A = {q}
    <2>1. MergesTo(g, A \cup {n}, n, n, {q}, After(g, q), 1)
      BY <1>3, <1>4 DEF MergesTo, q
    <2>2. Frees(g, A, U, n, n, {q}, After(g, q), 1)
      BY <1>2, <2>1 DEF Frees
    <2>3. (A \cup {n}) \ {q} = {n} /\ 1 > 0
      BY <1>1, <1>4
    <2>4. Sound(r, (A \cup {n}) \ {q}, U \ {n}) /\ Keeps(g, r, U \ {n})
      BY <2>2, <2>3, FreeIs DEF r
    <2> QED BY <2>3, <2>4 DEF Released, r
  <1>5. CASE A = {}
    <2>1. MergesTo(g, A \cup {n}, n, n, {}, q, 0)
      BY <1>1, <1>3, <1>5 DEF MergesTo, q
    <2>2. Frees(g, A, U, n, n, {}, q, 0)
      BY <1>2, <2>1 DEF Frees
    <2>3. (A \cup {n}) \ {} = {n}
      BY <1>5
    <2>4. Sound(r, (A \cup {n}) \ {}, U \ {n}) /\ Keeps(g, r, U \ {n})
      BY <1>5, <2>2, FreeIs DEF r
    <2> QED BY <2>3, <2>4 DEF Released, r
  <1> QED BY <1>4, <1>5 DEF q

\* No free block is next to n.
LEMMA FreeApart ==
  ASSUME NEW g, NEW A, NEW U, Sound(g, A, U), NEW n \in U,
         A = {} \/ \E a \in A : A = {a},
         \A p \in A : After(g, p) # n, After(g, n) \notin A
  PROVE  Released(g, FreeNode(g, n), A \cup {n}, U \ {n})
  <1> DEFINE q == After(g, n)
             r == FreeNode(g, n)
  <1>1. n \in Nat /\ q \in Nat /\ n < q /\ n \notin A
    BY SoundFacts
  <1>2. TwoLists(g, A, U) /\ Layout(g, A, U)
    BY DEF Sound
  <1> HIDE DEF r
  <1>3. MergesTo(g, A \cup {n}, n, n, {}, q, 0)
    BY <1>1 DEF MergesTo
  <1> HIDE DEF q
  <1>4. Frees(g, A, U, n, n, {}, q, 0)
    BY <1>2, <1>3 DEF Frees
  <1>5. (A \cup {n}) \ {} = A \cup {n}
    OBVIOUS
  <1>6. Sound(r, (A \cup {n}) \ {}, U \ {n}) /\ Keeps(g, r, U \ {n})
    BY <1>4, FreeIs DEF r
  <1> QED BY <1>5, <1>6 DEF Released, r

\* The free block f ends at n, and a used one follows.
LEMMA FreeBehind ==
  ASSUME NEW g, NEW A, NEW U, Sound(g, A, U), NEW n \in U,
         NEW f \in A, After(g, f) = n, After(g, n) \notin A
  PROVE  Released(g, FreeNode(g, n), A, U \ {n})
  <1> DEFINE q == After(g, n)
             r == FreeNode(g, n)
  <1>1. n \in Nat /\ q \in Nat /\ n < q /\ n \notin A
    BY SoundFacts
  <1>2. TwoLists(g, A, U) /\ Layout(g, A, U)
    BY DEF Sound
  <1> HIDE DEF r
  <1>3. MergesTo(g, A \cup {n}, n, f, {n}, q, 1)
    BY <1>1 DEF MergesTo
  <1> HIDE DEF q
  <1>4. Frees(g, A, U, n, f, {n}, q, 1)
    BY <1>2, <1>3 DEF Frees
  <1>5. (A \cup {n}) \ {n} = A /\ 1 > 0
    BY <1>1
  <1>6. Sound(r, (A \cup {n}) \ {n}, U \ {n}) /\ Keeps(g, r, U \ {n})
    BY <1>4, <1>5, FreeIs DEF r
  <1> QED BY <1>5, <1>6 DEF Released, r

\* The free block f ends at n, and what else is free follows n.
LEMMA FreeBetween ==
  ASSUME NEW g, NEW A, NEW U, Sound(g, A, U), NEW n \in U,
         NEW f \in A, After(g, f) = n, A \subseteq {f, After(g, n)}
  PROVE  Released(g, FreeNode(g, n), {f}, U \ {n})
  <1> DEFINE q == After(g, n)
             r == FreeNode(g, n)
  <1>1. /\ n \in Nat /\ q \in Nat /\ n < q /\ n \notin A
        /\ f \in Nat /\ f < n
    BY SoundFacts
  <1>2. TwoLists(g, A, U) /\ Layout(g, A, U)
    BY DEF Sound
  <1>3. CASE q \in A
    <2>1. MergesTo(g, A \cup {n}, n, f, {n, q}, After(g, q), 2)
      BY <1>3 DEF MergesTo
    <2> HIDE DEF r
    <2>2. (A \cup {n}) \ {n, q} = {f} /\ 2 > 0
      <3>1. A = {f, q}
        BY <1>3
      <3>2. f # n /\ f # q /\ n # q
        BY <1>1
      <3> HIDE DEF q
      <3> QED BY <3>1, <3>2
    <2> HIDE DEF q
    <2>3. Frees(g, A, U, n, f, {n, q}, After(g, q), 2)
      BY <1>2, <2>1 DEF Frees
    <2>4. Sound(r, (A \cup {n}) \ {n, q}, U \ {n}) /\ Keeps(g, r, U \ {n})
      BY <2>2, <2>3, FreeIs DEF r
    <2> QED BY <2>2, <2>4 DEF Released, r
  <1>4. CASE q \notin A
    <2>1. A = {f}
      BY <1>4
    <2>2. Released(g, r, A, U \ {n})
      BY <1>4, FreeBehind
    <2> QED BY <2>1, <2>2
  <1> QED BY <1>3, <1>4

-----------------------------------------------------------------------------
(* The inductive invariant of the program. *)

\* Where the logo's buffers are: one behind the other, behind the file.  The image is
\* at ImageAt, unless it takes the place of the compressed data.
ImgAt(l) == Hdr + l.file + Align
CompressedAt(l) == ImgAt(l) + Hdr + ImgWords
InflatedAt(l) == CompressedAt(l) + Hdr + l.compressed
ImageAt(l) == InflatedAt(l) + Hdr + l.inflated
BehindAt(l) == ImageAt(l) + Hdr + l.image

\* The free block that reaches to the end of the memory.
TailAt(t) == IF t < Words THEN {t} ELSE {}

Block(x) == IF x = Null THEN {} ELSE {x}
Ptr(x) == IF x = Null THEN Null ELSE x + Hdr

\* The blocks of the logo in use.
LogoUsed(i, c, f, m) == {0} \cup Block(i) \cup Block(c) \cup Block(f) \cup Block(m)

\* The heap is g, and d holds the file and the buffers i, c, f and m only; t is the first
\* word never used so far, and F are the free blocks in front of it.
LogoHeap(g, d, F, t, i, c, f, m) ==
  /\ t \in Nat /\ t <= Words
  /\ Sound(g, F \cup TailAt(t), LogoUsed(i, c, f, m))
  /\ d["img"] = Ptr(i) /\ d["compressed"] = Ptr(c)
  /\ d["inflated"] = Ptr(f) /\ d["image"] = Ptr(m)

\* The image is the only buffer left.
Decoded(l) ==
  \/ LogoHeap(h, held, {CompressedAt(l)}, BehindAt(l), ImgAt(l), Null, Null, ImageAt(l))
  \/ LogoHeap(h, held, {}, InflatedAt(l), ImgAt(l), Null, Null, CompressedAt(l))

LogoState(l) ==
  /\ pc \in {"struct", "free_file"} => LogoHeap(h, held, {}, ImgAt(l), Null, Null, Null, Null)
  /\ pc \in {"header", "free_img"} => LogoHeap(h, held, {}, CompressedAt(l), ImgAt(l), Null, Null, Null)
  /\ pc \in {"inflated", "no_inflated"} =>
       LogoHeap(h, held, {}, InflatedAt(l), ImgAt(l), CompressedAt(l), Null, Null)
  /\ pc = "inflate" => LogoHeap(h, held, {}, ImageAt(l), ImgAt(l), CompressedAt(l), InflatedAt(l), Null)
  /\ pc \in {"image", "free_inflated"} =>
       LogoHeap(h, held, {CompressedAt(l)}, ImageAt(l), ImgAt(l), Null, InflatedAt(l), Null)
  /\ pc = "unfilter" =>
       \/ LogoHeap(h, held, {CompressedAt(l)}, BehindAt(l), ImgAt(l), Null, InflatedAt(l), ImageAt(l))
       \/ LogoHeap(h, held, {}, ImageAt(l), ImgAt(l), Null, InflatedAt(l), CompressedAt(l))
  /\ pc = "bad_image" => Decoded(l)
  /\ pc = "free_image" =>
       Decoded(l) \/ LogoHeap(h, held, {}, CompressedAt(l), ImgAt(l), Null, Null, Null)

LogoPcs ==
  {"struct", "header", "inflated", "no_inflated", "inflate", "image", "unfilter",
   "free_inflated", "bad_image", "free_image", "free_img", "free_file"}
EntryPcs == {"open", "file", "check", "freeing"}

LogoInv ==
  pc \in LogoPcs =>
    /\ LogoState(logo)
    /\ held["file"] = AlignedPtr(0, Align) /\ Owns(h, 0, held["file"])
    /\ entries = <<>>

\* The block of the i-th entry.
Pos(i) == (i - 1) * (Hdr + EntryWords + Align)

\* The free blocks when k of n entries are freed.
EntriesFree(k, n) ==
  IF k = 0 THEN {Pos(n + 1)} ELSE IF k < n THEN {0, Pos(n + 1)} ELSE {0}

EntryInv ==
  pc \in EntryPcs =>
    /\ \A n \in Names : held[n] = Null
    /\ Len(entries) <= MaxEntries /\ freed <= Len(entries)
    /\ Sound(h, EntriesFree(freed, Len(entries)), {Pos(i) : i \in freed + 1 .. Len(entries)})
    /\ \A i \in 1 .. Len(entries) : entries[i] = AlignedPtr(Pos(i), Align)
    /\ \A i \in freed + 1 .. Len(entries) : Owns(h, Pos(i), entries[i])
    /\ pc \in {"open", "file"} => entries = <<>>

UseType ==
  /\ pc \in LogoPcs \cup EntryPcs
  /\ logo \in Logos
  /\ held \in [Names -> Nat \cup {Null}]
  /\ entries \in Seq(Nat)
  /\ freed \in Nat /\ (pc # "freeing" => freed = 0)

IInv == UseType /\ LogoInv /\ EntryInv

-----------------------------------------------------------------------------
(* The steps of the program. *)

LEMMA Places ==
  ASSUME NEW l \in Logos
  PROVE  /\ ImgAt(l) \in Nat /\ Hdr <= ImgAt(l)
         /\ CompressedAt(l) \in Nat /\ ImgAt(l) + Hdr <= CompressedAt(l)
         /\ InflatedAt(l) \in Nat /\ CompressedAt(l) + Hdr <= InflatedAt(l)
         /\ ImageAt(l) \in Nat /\ InflatedAt(l) + Hdr <= ImageAt(l)
         /\ BehindAt(l) \in Nat /\ ImageAt(l) + Hdr <= BehindAt(l)
         /\ l.file \in Nat /\ l.compressed \in Nat /\ l.inflated \in Nat /\ l.image \in Nat
         /\ Ends(l) = {ImgAt(l), CompressedAt(l), InflatedAt(l), ImageAt(l), BehindAt(l)}
  <1>1. /\ l.file \in Nat /\ l.compressed \in Nat /\ l.inflated \in Nat /\ l.image \in Nat
        /\ Hdr \in Nat /\ ImgWords \in Nat /\ Align \in Nat
    BY LogoAssumption, SizeAssumption, Addresses
  <1>2. ImgAt(l) \in Nat /\ Hdr <= ImgAt(l)
    BY <1>1 DEF ImgAt
  <1>3. CompressedAt(l) \in Nat /\ ImgAt(l) + Hdr <= CompressedAt(l)
    BY <1>1, <1>2 DEF CompressedAt
  <1>4. InflatedAt(l) \in Nat /\ CompressedAt(l) + Hdr <= InflatedAt(l)
    BY <1>1, <1>3 DEF InflatedAt
  <1>5. ImageAt(l) \in Nat /\ InflatedAt(l) + Hdr <= ImageAt(l)
    BY <1>1, <1>4 DEF ImageAt
  <1>6. BehindAt(l) \in Nat /\ ImageAt(l) + Hdr <= BehindAt(l)
    BY <1>1, <1>5 DEF BehindAt
  <1>7. Ends(l) = {ImgAt(l), CompressedAt(l), InflatedAt(l), ImageAt(l), BehindAt(l)}
    BY DEF Ends, ImgAt, CompressedAt, InflatedAt, ImageAt, BehindAt
  <1> QED BY <1>1, <1>2, <1>3, <1>4, <1>5, <1>6, <1>7

\* Behind t the memory was never used; no free block F in front of it holds n words,
\* and n words behind t leave no sliver.
Grows(g, F, U, t, n) ==
  /\ t \in Nat /\ t <= Words /\ n \in Nat
  /\ Sound(g, F \cup TailAt(t), U)
  /\ \A x \in F \cup U : x < t
  /\ \A x \in F : g.size[x] < n
  /\ Words - (t + Hdr + n) \notin 1 .. Hdr - 1

LEMMA TailOrNull ==
  ASSUME NEW g, NEW F, NEW U, NEW t, NEW n, Grows(g, F, U, t, n)
  PROVE  \/ FirstFit(g, n) = Null
         \/ /\ FirstFit(g, n) = t /\ t # Null
            /\ t + Hdr + n <= Words
            /\ Suits(g, F \cup TailAt(t), U, t, n, F \cup TailAt(t + Hdr + n))
  <1> DEFINE A == F \cup TailAt(t)
             b == FirstFit(g, n)
             e == t + Hdr + n
  <1>1. /\ t \in Nat /\ t <= Words /\ n \in Nat /\ Sound(g, A, U)
        /\ \A x \in F \cup U : x < t
        /\ \A x \in F : g.size[x] < n
        /\ Words - e \notin 1 .. Hdr - 1
    BY DEF Grows
  <1>2. /\ g \in HeapType /\ Listed(g.next, g.prev, g.available, A) /\ A \subseteq Addr
        /\ Hdr \in Nat /\ 0 < Hdr /\ Words \in Nat
    BY <1>1, Addresses DEF Sound, TwoLists, Listed
  <1>3. Apart(A)
    <2>1. Disjoint(g, A)
      BY <1>1 DEF Sound, Layout, Disjoint
    <2> QED BY <1>2, <2>1, DisjointApart
  <1>4. Fitting(g, A, n, b)
    BY <1>1, <1>2, <1>3, FirstFitIs
  <1> HIDE DEF b
  <1>5. CASE b = Null
    BY <1>5 DEF b
  <1>6. CASE b \in A /\ g.size[b] >= n
    <2>1. b \notin F
      <3>1. g.size[b] \in Nat
        BY <1>2, <1>6 DEF HeapType
      <3> QED BY <1>1, <1>6, <3>1
    <2>2. b = t /\ t < Words
      BY <1>6, <2>1 DEF TailAt
    <2>3. t \in A \cup U /\ t # Null
      BY <1>2, <1>6, <2>2, Addresses
    <2>4. \A z \in A \cup U : z <= t
      <3>1. \A z \in TailAt(t) : z = t
        BY DEF TailAt
      <3>2. \A z \in A \cup U : z < t \/ z = t
        BY <1>1, <3>1
      <3>3. \A z \in A \cup U : z \in Nat
        BY <1>1, SoundFacts
      <3> QED BY <1>1, <3>2, <3>3
    <2>5. After(g, t) = Words
      BY <1>1, <2>2, <2>3, <2>4, NextBlock
    <2>6. t + Hdr + g.size[t] = Words /\ g.size[t] \in Nat /\ g.size[t] >= n
      BY <1>2, <1>6, <2>2, <2>5 DEF After, HeapType
    <2>7. e <= Words /\ e \in Nat
      BY <1>1, <1>2, <2>6
    <2>8. t \notin F
      BY <1>1
    <2>9. A \ {t} = F
      BY <2>8 DEF TailAt
    <2>10. CASE e = Words
      <3>1. g.size[t] = n
        BY <1>1, <1>2, <2>6, <2>10
      <3>2. TailAt(e) = {}
        BY <1>2, <2>10 DEF TailAt
      <3>3. F \cup TailAt(e) = A \ {t}
        BY <2>9, <3>2
      <3> HIDE DEF A, e
      <3>4. Suits(g, A, U, t, n, F \cup TailAt(e))
        BY <1>1, <1>6, <2>2, <3>1, <3>3 DEF Suits
      <3> QED BY <2>2, <2>3, <2>7, <3>4 DEF b, A, e
    <2>11. CASE e # Words
      <3>1. e + Hdr <= Words /\ e < Words
        <4>1. Words - e \in Int /\ Words - e > 0
          BY <1>2, <2>7, <2>11
        <4>2. Words - e >= Hdr
          BY <1>1, <1>2, <4>1
        <4> QED BY <1>2, <2>7, <4>2
      <3>2. n + Hdr <= g.size[t]
        BY <1>1, <1>2, <2>6, <3>1
      <3>3. F \cup TailAt(e) = (A \ {t}) \cup {t + Hdr + n}
        BY <2>9, <3>1 DEF TailAt
      <3> HIDE DEF A
      <3>4. Suits(g, A, U, t, n, F \cup TailAt(e))
        BY <1>1, <1>6, <2>2, <2>5, <3>2, <3>3 DEF Suits
      <3> QED BY <2>2, <2>3, <2>7, <3>4 DEF b, A
    <2> QED BY <2>10, <2>11
  <1> QED BY <1>4, <1>5, <1>6 DEF Fitting

\* The places are different, and none is null.
LEMMA PlacesApart ==
  ASSUME NEW l \in Logos
  PROVE  /\ ImgAt(l) \in Nat /\ CompressedAt(l) \in Nat /\ InflatedAt(l) \in Nat
         /\ ImageAt(l) \in Nat /\ BehindAt(l) \in Nat /\ 0 \in Nat
         /\ 0 < ImgAt(l) /\ ImgAt(l) < CompressedAt(l) /\ CompressedAt(l) < InflatedAt(l)
         /\ InflatedAt(l) < ImageAt(l) /\ ImageAt(l) < BehindAt(l)
  BY Places, Addresses

LEMMA PtrIs ==
  /\ Ptr(Null) = Null /\ Block(Null) = {}
  /\ \A x \in Nat : /\ x # Null /\ x + Hdr # Null /\ x + Hdr \in Nat
                    /\ Ptr(x) = x + Hdr /\ (x + Hdr) - Hdr = x /\ Block(x) = {x}
  <1>1. \A x \in Nat : x # Null /\ x + Hdr \in Nat /\ (x + Hdr) - Hdr = x
    BY Addresses, HeapAssumption
  <1> QED BY <1>1 DEF Ptr, Block

\* The used blocks, whichever buffers are held.
LEMMA UsedIs ==
  /\ LogoUsed(Null, Null, Null, Null) = {0}
  /\ \A i \in Nat :
       /\ LogoUsed(i, Null, Null, Null) = {0, i}
       /\ \A x \in Nat : /\ LogoUsed(i, x, Null, Null) = {0, i, x}
                         /\ LogoUsed(i, Null, x, Null) = {0, i, x}
                         /\ LogoUsed(i, Null, Null, x) = {0, i, x}
       /\ \A x, y \in Nat : /\ LogoUsed(i, x, y, Null) = {0, i, x, y}
                            /\ LogoUsed(i, Null, x, y) = {0, i, x, y}
  <1>1. Block(Null) = {} /\ \A x \in Nat : Block(x) = {x}
    BY PtrIs
  <1>2. LogoUsed(Null, Null, Null, Null) = {0}
    BY <1>1 DEF LogoUsed
  <1>3. ASSUME NEW i \in Nat
        PROVE  LogoUsed(i, Null, Null, Null) = {0, i}
    BY <1>1 DEF LogoUsed
  <1>4. ASSUME NEW i \in Nat, NEW x \in Nat
        PROVE  /\ LogoUsed(i, x, Null, Null) = {0, i, x}
               /\ LogoUsed(i, Null, x, Null) = {0, i, x}
               /\ LogoUsed(i, Null, Null, x) = {0, i, x}
    BY <1>1 DEF LogoUsed
  <1>5. ASSUME NEW i \in Nat, NEW x \in Nat, NEW y \in Nat
        PROVE  /\ LogoUsed(i, x, y, Null) = {0, i, x, y}
               /\ LogoUsed(i, Null, x, y) = {0, i, x, y}
    BY <1>1 DEF LogoUsed
  <1> QED BY <1>2, <1>3, <1>4, <1>5

\* The last used block is freed, and nothing in front of it is free.
LEMMA FreeLast ==
  ASSUME NEW g, NEW U, NEW t \in Nat, Sound(g, TailAt(t), U), NEW n \in U,
         \A x \in U : x <= n, n < t
  PROVE  Released(g, FreeNode(g, n), TailAt(n), U \ {n})
  <1> DEFINE A == TailAt(t)
  <1>1. n \in Nat /\ n < Words
    BY SoundFacts
  <1>2. A \subseteq {After(g, n)}
    <2>1. CASE t < Words
      <3>1. A = {t}
        BY <2>1 DEF TailAt
      <3>2. \A z \in A \cup U : z <= n \/ t <= z
        BY <3>1
      <3>3. n \in A \cup U /\ t \in A \cup U \cup {Words}
        BY <3>1
      <3> HIDE DEF A
      <3>4. Sound(g, A, U)
        BY DEF A
      <3>5. After(g, n) = t
        BY <3>2, <3>3, <3>4, NextBlock
      <3> QED BY <3>1, <3>5
    <2>2. CASE ~(t < Words)
      BY <2>2 DEF TailAt
    <2> QED BY <2>1, <2>2
  <1>3. TailAt(n) = {n}
    BY <1>1 DEF TailAt
  <1> HIDE DEF A
  <1>4. Sound(g, A, U)
    BY DEF A
  <1>5. Released(g, FreeNode(g, n), {n}, U \ {n})
    BY <1>2, <1>4, FreeFirst
  <1> QED BY <1>3, <1>5

\* The last used block is freed, and the free block f is in front of it.
LEMMA FreeLastBehind ==
  ASSUME NEW g, NEW U, NEW f \in Nat, NEW t \in Nat, Sound(g, {f} \cup TailAt(t), U), NEW n \in U,
         \A x \in U : x < f \/ x = n, f < n, n < t
  PROVE  Released(g, FreeNode(g, n), TailAt(f), U \ {n})
  <1> DEFINE A == {f} \cup TailAt(t)
  <1>1. n \in Nat /\ f < Words /\ \A z \in A \cup U : z \in Nat
    BY SoundFacts
  <1>2. \A z \in TailAt(t) : z = t
    BY DEF TailAt
  <1> HIDE DEF A
  <1>3. Sound(g, A, U)
    BY DEF A
  <1>4. After(g, f) = n
    <2>1. \A z \in A \cup U : z <= f \/ n <= z
      BY <1>1, <1>2 DEF A
    <2>2. f \in A \cup U /\ n \in A \cup U \cup {Words}
      BY DEF A
    <2> QED BY <1>3, <2>1, <2>2, NextBlock
  <1>5. A \subseteq {f, After(g, n)}
    <2>1. CASE t < Words
      <3>1. A = {f, t}
        BY <2>1 DEF TailAt, A
      <3>2. \A z \in A \cup U : z <= n \/ t <= z
        BY <1>1, <3>1
      <3>3. n \in A \cup U /\ t \in A \cup U \cup {Words}
        BY <3>1
      <3>4. After(g, n) = t
        BY <1>3, <3>2, <3>3, NextBlock
      <3> QED BY <3>1, <3>4
    <2>2. CASE ~(t < Words)
      BY <2>2 DEF TailAt, A
    <2> QED BY <2>1, <2>2
  <1>6. TailAt(f) = {f}
    BY <1>1 DEF TailAt
  <1>7. f \in A
    BY DEF A
  <1>8. Released(g, FreeNode(g, n), {f}, U \ {n})
    BY <1>3, <1>4, <1>5, <1>7, FreeBetween
  <1> QED BY <1>6, <1>8

\* Alloc with a heap that grows at the end: it fails, or the block is at t.
LEMMA AllocStep ==
  ASSUME NEW F, NEW U, NEW t, NEW n, NEW name, NEW next, NEW fail,
         Grows(h, F, U, t, n), Alloc(name, n, next, fail)
  PROVE  \/ pc' = fail /\ h' = h /\ held' = held
         \/ /\ pc' = next /\ held' = [held EXCEPT ![name] = t + Hdr]
            /\ t + Hdr + n <= Words /\ t + Hdr + n \in Nat
            /\ Sound(h', F \cup TailAt(t + Hdr + n), U \cup {t})
            /\ Keeps(h, h', U)
  <1> DEFINE b == FirstFit(h, n)
             C == F \cup TailAt(t + Hdr + n)
  <1>1. t + Hdr + n \in Nat
    BY Addresses DEF Grows
  <1>2. CASE b = Null
    BY <1>2 DEF Alloc
  <1>3. CASE b # Null
    <2>1. b = t /\ t + Hdr + n <= Words /\ Suits(h, F \cup TailAt(t), U, t, n, C)
      BY <1>3, TailOrNull
    <2>2. /\ h' = Written(Malloc(h, b, n), b + Hdr, b + Hdr + n - 1)
          /\ held' = [held EXCEPT ![name] = b + Hdr]
          /\ pc' = next
      BY <1>3 DEF Alloc
    <2> HIDE DEF b, C
    <2>3. h' = Written(Malloc(h, t, n), t + Hdr, t + Hdr + n - 1)
      BY <2>1, <2>2
    <2>4. Sound(h', C, U \cup {t}) /\ Keeps(h, h', U)
      BY <2>1, <2>3, AllocIs
    <2>5. held' = [held EXCEPT ![name] = t + Hdr] /\ pc' = next
      BY <2>1, <2>2
    <2> QED BY <1>1, <2>1, <2>4, <2>5 DEF C
  <1> QED BY <1>2, <1>3

\* Release of the buffer whose block is x.
LEMMA ReleaseStep ==
  ASSUME NEW name, NEW next, NEW x \in Nat, held[name] = Ptr(x), Release(name, next)
  PROVE  h' = FreeNode(h, x) /\ held' = [held EXCEPT ![name] = Null] /\ pc' = next
  BY PtrIs DEF Release

\* The fields of LogoHeap taken together.
HeldIs(d, i, c, f, m) ==
  /\ d["img"] = Ptr(i) /\ d["compressed"] = Ptr(c)
  /\ d["inflated"] = Ptr(f) /\ d["image"] = Ptr(m)

\* A step of load_cube_logo or upng after the file was read: one buffer comes or goes,
\* and the file stays.
Moves(name, v) ==
  /\ pc \in LogoPcs /\ pc' \in LogoPcs
  /\ LogoStep
  /\ name \in Names \ {"file"} /\ v \in Nat \cup {Null}
  /\ held' = [held EXCEPT ![name] = v]
  /\ Keeps(h, h', {0})

LEMMA MovesKeep ==
  ASSUME IInv, NEW name, NEW v, Moves(name, v), LogoState(logo)'
  PROVE  IInv'
  <1>1. /\ pc \in LogoPcs /\ pc' \in LogoPcs /\ pc # "freeing" /\ pc' \notin EntryPcs
        /\ logo' = logo /\ entries' = entries /\ freed' = freed
        /\ held' = [held EXCEPT ![name] = v] /\ name \in Names \ {"file"}
        /\ v \in Nat \cup {Null} /\ Keeps(h, h', {0})
    BY DEF Moves, LogoStep, LogoPcs, EntryPcs
  <1>2. UseType /\ held["file"] = AlignedPtr(0, Align) /\ Owns(h, 0, held["file"]) /\ entries = <<>>
    BY <1>1 DEF IInv, LogoInv
  <1>3. held \in [Names -> Nat \cup {Null}] /\ "file" \in Names
    BY <1>2 DEF UseType, Names
  <1>4. held' \in [Names -> Nat \cup {Null}] /\ held'["file"] = held["file"]
    BY <1>1, <1>3
  <1>5. UseType'
    BY <1>1, <1>2, <1>4 DEF UseType
  <1>6. Owns(h', 0, held'["file"])
    <2>1. held["file"] \in Nat
      BY <1>2 DEF Owns, Owner
    <2> QED BY <1>1, <1>2, <1>4, <2>1 DEF Keeps
  <1>7. LogoInv'
    BY <1>1, <1>2, <1>4, <1>6 DEF LogoInv
  <1>8. EntryInv'
    BY <1>1 DEF EntryInv
  <1> QED BY <1>5, <1>7, <1>8 DEF IInv

\* The heap stays as it is.
LEMMA StaysKeep ==
  ASSUME IInv, pc \in LogoPcs, pc' \in LogoPcs, h' = h, held' = held, LogoStep, LogoState(logo)'
  PROVE  IInv'
  <1>1. held \in [Names -> Nat \cup {Null}] /\ "img" \in Names \ {"file"}
    BY DEF IInv, UseType, Names
  <1>2. held' = [held EXCEPT !["img"] = held["img"]] /\ held["img"] \in Nat \cup {Null}
    BY <1>1
  <1>3. Keeps(h, h', {0})
    BY DEF Keeps
  <1>4. Moves("img", held["img"])
    BY <1>1, <1>2, <1>3 DEF Moves
  <1> QED BY <1>4, MovesKeep

\* A heap whose free blocks are all too small but the last.
LEMMA LogoGrows ==
  ASSUME NEW F, NEW t, NEW i, NEW c, NEW f, NEW m, LogoHeap(h, held, F, t, i, c, f, m),
         NEW n \in Nat, \A x \in F \cup LogoUsed(i, c, f, m) : x < t,
         \A x \in F : h.size[x] < n, Words - (t + Hdr + n) \notin 1 .. Hdr - 1
  PROVE  Grows(h, F, LogoUsed(i, c, f, m), t, n)
  BY DEF LogoHeap, Grows

\* One buffer more: the heap of an Alloc that succeeds.
AllocatesTo(F, t, i, c, f, m, name, n, I, C, L, M) ==
  /\ LogoHeap(h, held, F, t, i, c, f, m)
  /\ Grows(h, F, LogoUsed(i, c, f, m), t, n)
  /\ name \in Names \ {"file"}
  /\ HeldIs([held EXCEPT ![name] = t + Hdr], I, C, L, M)
  /\ LogoUsed(i, c, f, m) \cup {t} = LogoUsed(I, C, L, M)

LEMMA AllocMoves ==
  ASSUME IInv, NEW F, NEW t, NEW i, NEW c, NEW f, NEW m, NEW name, NEW n,
         NEW I, NEW C, NEW L, NEW M, NEW next \in LogoPcs, NEW fail,
         AllocatesTo(F, t, i, c, f, m, name, n, I, C, L, M),
         pc \in LogoPcs, Alloc(name, n, next, fail), LogoStep
  PROVE  \/ pc' = fail /\ h' = h /\ held' = held
         \/ /\ pc' = next
            /\ LogoHeap(h', held', F, t + Hdr + n, I, C, L, M)
            /\ Moves(name, t + Hdr)
  <1> DEFINE U == LogoUsed(i, c, f, m)
             V == LogoUsed(I, C, L, M)
  <1>1. /\ Grows(h, F, U, t, n) /\ U \cup {t} = V /\ name \in Names \ {"file"}
        /\ HeldIs([held EXCEPT ![name] = t + Hdr], I, C, L, M)
        /\ t \in Nat /\ n \in Nat
    BY DEF AllocatesTo, LogoHeap, Grows
  <1>2. 0 \in U
    BY DEF LogoUsed
  <1> HIDE DEF U, V
  <1>3. CASE pc' = fail /\ h' = h /\ held' = held
    BY <1>3
  <1>4. CASE /\ pc' = next /\ held' = [held EXCEPT ![name] = t + Hdr]
             /\ t + Hdr + n <= Words /\ t + Hdr + n \in Nat
             /\ Sound(h', F \cup TailAt(t + Hdr + n), U \cup {t})
             /\ Keeps(h, h', U)
    <2>1. Sound(h', F \cup TailAt(t + Hdr + n), V)
      BY <1>1, <1>4
    <2>2. HeldIs(held', I, C, L, M)
      BY <1>1, <1>4
    <2>3. LogoHeap(h', held', F, t + Hdr + n, I, C, L, M)
      BY <1>4, <2>1, <2>2 DEF LogoHeap, HeldIs, V
    <2>4. Keeps(h, h', {0})
      BY <1>2, <1>4 DEF Keeps
    <2>5. t + Hdr \in Nat
      BY <1>1, Addresses
    <2>6. Moves(name, t + Hdr)
      BY <1>1, <1>4, <2>4, <2>5 DEF Moves
    <2> QED BY <1>4, <2>3, <2>6
  <1>5. \/ pc' = fail /\ h' = h /\ held' = held
        \/ /\ pc' = next /\ held' = [held EXCEPT ![name] = t + Hdr]
           /\ t + Hdr + n <= Words /\ t + Hdr + n \in Nat
           /\ Sound(h', F \cup TailAt(t + Hdr + n), U \cup {t})
           /\ Keeps(h, h', U)
    BY <1>1, AllocStep
  <1> QED BY <1>3, <1>4, <1>5

LEMMA AllocImgKeeps ==
  ASSUME IInv, NoSliver, AllocImg
  PROVE  IInv'
  <1> DEFINE l == logo
             t == ImgAt(l)
  <1>1. pc = "struct" /\ Alloc("img", ImgWords, "header", "free_file") /\ LogoStep /\ l \in Logos
    BY DEF AllocImg, IInv, UseType
  <1>2. /\ LogoHeap(h, held, {}, t, Null, Null, Null, Null)
        /\ held \in [Names -> Nat \cup {Null}] /\ l' = l
    BY <1>1 DEF IInv, LogoInv, LogoPcs, LogoState, UseType, LogoStep
  <1>3. /\ t \in Nat /\ 0 < t /\ CompressedAt(l) = t + Hdr + ImgWords /\ ImgWords \in Nat
        /\ Words - CompressedAt(l) \notin 1 .. Hdr - 1
    BY <1>1, Places, PlacesApart, SizeAssumption DEF NoSliver, CompressedAt
  <1>4. AllocatesTo({}, t, Null, Null, Null, Null, "img", ImgWords, t, Null, Null, Null)
    <2>1. Grows(h, {}, LogoUsed(Null, Null, Null, Null), t, ImgWords)
      <3>1. \A x \in {} \cup LogoUsed(Null, Null, Null, Null) : x < t
        BY <1>3, UsedIs
      <3> QED BY <1>2, <1>3, <3>1, LogoGrows
    <2>2. HeldIs([held EXCEPT !["img"] = t + Hdr], t, Null, Null, Null)
      BY <1>2, <1>3, PtrIs DEF HeldIs, LogoHeap, Names
    <2>3. LogoUsed(Null, Null, Null, Null) \cup {t} = LogoUsed(t, Null, Null, Null)
      BY <1>3, UsedIs
    <2> QED BY <1>2, <2>1, <2>2, <2>3 DEF AllocatesTo, Names
  <1> HIDE DEF t
  <1>5. \/ pc' = "free_file" /\ h' = h /\ held' = held
        \/ /\ pc' = "header" /\ Moves("img", t + Hdr)
           /\ LogoHeap(h', held', {}, t + Hdr + ImgWords, t, Null, Null, Null)
    BY <1>1, <1>4, AllocMoves DEF LogoPcs
  <1>6. CASE pc' = "free_file" /\ h' = h /\ held' = held
    <2>1. LogoState(logo)'
      BY <1>2, <1>6 DEF LogoState, t
    <2> QED BY <1>1, <1>6, <2>1, StaysKeep DEF LogoPcs
  <1>7. CASE /\ pc' = "header" /\ Moves("img", t + Hdr)
             /\ LogoHeap(h', held', {}, t + Hdr + ImgWords, t, Null, Null, Null)
    <2>1. LogoHeap(h', held', {}, CompressedAt(l), ImgAt(l), Null, Null, Null)
      BY <1>3, <1>7 DEF t
    <2>2. LogoState(logo)'
      BY <1>2, <1>7, <2>1 DEF LogoState
    <2> QED BY <1>7, <2>2, MovesKeep
  <1> QED BY <1>5, <1>6, <1>7

LEMMA AllocCompressedKeeps ==
  ASSUME IInv, NoSliver, AllocCompressed
  PROVE  IInv'
  <1> DEFINE l == logo
             s == ImgAt(l)
             t == CompressedAt(l)
             n == l.compressed
  <1>1. pc = "header" /\ Alloc("compressed", n, "inflated", "free_image") /\ LogoStep /\ l \in Logos
    BY DEF AllocCompressed, IInv, UseType
  <1>2. /\ LogoHeap(h, held, {}, t, s, Null, Null, Null)
        /\ held \in [Names -> Nat \cup {Null}] /\ l' = l
    BY <1>1 DEF IInv, LogoInv, LogoPcs, LogoState, UseType, LogoStep
  <1>3. /\ s \in Nat /\ t \in Nat /\ 0 < s /\ s < t /\ InflatedAt(l) = t + Hdr + n /\ n \in Nat
        /\ Words - InflatedAt(l) \notin 1 .. Hdr - 1
    BY <1>1, Places, PlacesApart DEF NoSliver, InflatedAt
  <1>4. AllocatesTo({}, t, s, Null, Null, Null, "compressed", n, s, t, Null, Null)
    <2>1. Grows(h, {}, LogoUsed(s, Null, Null, Null), t, n)
      <3>1. \A x \in {} \cup LogoUsed(s, Null, Null, Null) : x < t
        BY <1>3, UsedIs
      <3> QED BY <1>2, <1>3, <3>1, LogoGrows
    <2>2. HeldIs([held EXCEPT !["compressed"] = t + Hdr], s, t, Null, Null)
      BY <1>2, <1>3, PtrIs DEF HeldIs, LogoHeap, Names
    <2>3. LogoUsed(s, Null, Null, Null) \cup {t} = LogoUsed(s, t, Null, Null)
      BY <1>3, UsedIs
    <2> QED BY <1>2, <2>1, <2>2, <2>3 DEF AllocatesTo, Names
  <1> HIDE DEF s, t, n
  <1>5. \/ pc' = "free_image" /\ h' = h /\ held' = held
        \/ /\ pc' = "inflated" /\ Moves("compressed", t + Hdr)
           /\ LogoHeap(h', held', {}, t + Hdr + n, s, t, Null, Null)
    BY <1>1, <1>4, AllocMoves DEF LogoPcs
  <1>6. CASE pc' = "free_image" /\ h' = h /\ held' = held
    <2>1. LogoState(logo)'
      BY <1>2, <1>6 DEF LogoState, s, t
    <2> QED BY <1>1, <1>6, <2>1, StaysKeep DEF LogoPcs
  <1>7. CASE /\ pc' = "inflated" /\ Moves("compressed", t + Hdr)
             /\ LogoHeap(h', held', {}, t + Hdr + n, s, t, Null, Null)
    <2>1. LogoHeap(h', held', {}, InflatedAt(l), ImgAt(l), CompressedAt(l), Null, Null)
      BY <1>3, <1>7 DEF s, t
    <2>2. LogoState(logo)'
      BY <1>2, <1>7, <2>1 DEF LogoState
    <2> QED BY <1>7, <2>2, MovesKeep
  <1> QED BY <1>5, <1>6, <1>7

LEMMA AllocInflatedKeeps ==
  ASSUME IInv, NoSliver, AllocInflated
  PROVE  IInv'
  <1> DEFINE l == logo
             s == ImgAt(l)
             c == CompressedAt(l)
             t == InflatedAt(l)
             n == l.inflated
  <1>1. pc = "inflated" /\ Alloc("inflated", n, "inflate", "no_inflated") /\ LogoStep /\ l \in Logos
    BY DEF AllocInflated, IInv, UseType
  <1>2. /\ LogoHeap(h, held, {}, t, s, c, Null, Null)
        /\ held \in [Names -> Nat \cup {Null}] /\ l' = l
    BY <1>1 DEF IInv, LogoInv, LogoPcs, LogoState, UseType, LogoStep
  <1>3. /\ s \in Nat /\ c \in Nat /\ t \in Nat /\ 0 < s /\ s < c /\ c < t
        /\ ImageAt(l) = t + Hdr + n /\ n \in Nat
        /\ Words - ImageAt(l) \notin 1 .. Hdr - 1
    BY <1>1, Places, PlacesApart DEF NoSliver, ImageAt
  <1>4. AllocatesTo({}, t, s, c, Null, Null, "inflated", n, s, c, t, Null)
    <2>1. Grows(h, {}, LogoUsed(s, c, Null, Null), t, n)
      <3>1. \A x \in {} \cup LogoUsed(s, c, Null, Null) : x < t
        BY <1>3, UsedIs
      <3> QED BY <1>2, <1>3, <3>1, LogoGrows
    <2>2. HeldIs([held EXCEPT !["inflated"] = t + Hdr], s, c, t, Null)
      BY <1>2, <1>3, PtrIs DEF HeldIs, LogoHeap, Names
    <2>3. LogoUsed(s, c, Null, Null) \cup {t} = LogoUsed(s, c, t, Null)
      BY <1>3, UsedIs
    <2> QED BY <1>2, <2>1, <2>2, <2>3 DEF AllocatesTo, Names
  <1> HIDE DEF s, c, t, n
  <1>5. \/ pc' = "no_inflated" /\ h' = h /\ held' = held
        \/ /\ pc' = "inflate" /\ Moves("inflated", t + Hdr)
           /\ LogoHeap(h', held', {}, t + Hdr + n, s, c, t, Null)
    BY <1>1, <1>4, AllocMoves DEF LogoPcs
  <1>6. CASE pc' = "no_inflated" /\ h' = h /\ held' = held
    <2>1. LogoState(logo)'
      BY <1>2, <1>6 DEF LogoState, s, c, t
    <2> QED BY <1>1, <1>6, <2>1, StaysKeep DEF LogoPcs
  <1>7. CASE /\ pc' = "inflate" /\ Moves("inflated", t + Hdr)
             /\ LogoHeap(h', held', {}, t + Hdr + n, s, c, t, Null)
    <2>1. LogoHeap(h', held', {}, ImageAt(l), ImgAt(l), CompressedAt(l), InflatedAt(l), Null)
      BY <1>3, <1>7 DEF s, c, t
    <2>2. LogoState(logo)'
      BY <1>2, <1>7, <2>1 DEF LogoState
    <2> QED BY <1>7, <2>2, MovesKeep
  <1> QED BY <1>5, <1>6, <1>7

\* The compressed data are gone, the inflated data behind them are not.
Inflation(l, F, c, f, t) ==
  /\ c = CompressedAt(l) /\ f = InflatedAt(l) /\ t = ImageAt(l)
  /\ F = {c}
  /\ LogoHeap(h, held, F, t, ImgAt(l), Null, f, Null)

LEMMA CompressedSize ==
  ASSUME NEW l \in Logos, NEW F, NEW c, NEW f, NEW t, Inflation(l, F, c, f, t)
  PROVE  h.size[c] = l.compressed
  <1> DEFINE i == ImgAt(l)
             A == F \cup TailAt(t)
             U == {0, i, f}
  <1>1. /\ i \in Nat /\ c \in Nat /\ f \in Nat /\ t \in Nat
        /\ 0 < i /\ i < c /\ c < f /\ f < t
        /\ f = c + Hdr + l.compressed /\ l.compressed \in Nat
    BY Places, PlacesApart DEF Inflation, InflatedAt
  <1>2. Sound(h, A, U)
    <2>1. LogoUsed(i, Null, f, Null) = U
      BY <1>1, UsedIs
    <2> HIDE DEF i, U
    <2>2. Sound(h, A, LogoUsed(i, Null, f, Null))
      BY DEF Inflation, LogoHeap, i
    <2> QED BY <2>1, <2>2
  <1>3. \A z \in A \cup U : z <= c \/ f <= z
    <2>1. \A z \in A : z = c \/ z = t
      BY DEF Inflation, TailAt
    <2> QED BY <1>1, <2>1
  <1>4. c \in A \cup U /\ f \in A \cup U \cup {Words}
    BY DEF Inflation
  <1> HIDE DEF A, U, i
  <1>5. After(h, c) = f
    BY <1>1, <1>2, <1>3, <1>4, NextBlock
  <1>6. h.size[c] \in Nat /\ Hdr \in Nat
    <2>1. c \in Addr /\ h \in HeapType
      BY <1>2, <1>4, SoundFacts
    <2> QED BY <2>1, Addresses DEF HeapType
  <1>7. c + Hdr + h.size[c] = c + Hdr + l.compressed
    BY <1>1, <1>5 DEF After
  <1> QED BY <1>1, <1>6, <1>7

\* The image takes exactly the place of the compressed data.
LEMMA ImageInPlace ==
  ASSUME NEW l \in Logos, NEW F, NEW c, NEW f, NEW t, Inflation(l, F, c, f, t),
         l.compressed = l.image, Alloc("image", l.image, "unfilter", "free_inflated"),
         held \in [Names -> Nat \cup {Null}]
  PROVE  /\ pc' = "unfilter" /\ held' = [held EXCEPT !["image"] = c + Hdr]
         /\ LogoHeap(h', held', {}, t, ImgAt(l), Null, f, c)
         /\ Keeps(h, h', {0})
  <1> DEFINE i == ImgAt(l)
             A == F \cup TailAt(t)
             U == LogoUsed(i, Null, f, Null)
             n == l.image
             b == FirstFit(h, n)
  <1>1. /\ i \in Nat /\ c \in Nat /\ f \in Nat /\ t \in Nat
        /\ 0 < i /\ i < c /\ c < f /\ f < t /\ n \in Nat
    BY Places, PlacesApart DEF Inflation
  <1>2. /\ LogoHeap(h, held, F, t, i, Null, f, Null) /\ F = {c}
        /\ Sound(h, A, U)
    BY DEF Inflation, LogoHeap
  <1>3. h.size[c] = n
    BY CompressedSize
  <1>4. h \in HeapType /\ Listed(h.next, h.prev, h.available, A) /\ A \subseteq Addr
    BY <1>2 DEF Sound, TwoLists, Listed
  <1>5. Apart(A)
    <2>1. Disjoint(h, A)
      BY <1>2 DEF Sound, Layout, Disjoint
    <2> QED BY <1>4, <2>1, DisjointApart
  <1>6. Fitting(h, A, n, b)
    BY <1>1, <1>4, <1>5, FirstFitIs
  <1> HIDE DEF b, n, i
  <1>7. b = c
    <2>1. c \in A /\ ~(h.size[c] < n)
      BY <1>1, <1>2, <1>3
    <2>2. b \in A /\ \A a \in A : a < b => h.size[a] < n
      BY <1>6, <2>1 DEF Fitting
    <2>3. \A a \in A : a = c \/ a = t
      BY <1>2 DEF TailAt
    <2> QED BY <1>1, <2>1, <2>2, <2>3
  <1>8. A \ {c} = TailAt(t)
    BY <1>1, <1>2 DEF TailAt
  <1> HIDE DEF A, U
  <1>9. Suits(h, A, U, c, n, TailAt(t))
    <2>1. c \in A
      BY <1>2 DEF A
    <2> QED BY <1>1, <1>2, <1>3, <1>8, <2>1 DEF Suits
  <1>10. /\ h' = Written(Malloc(h, c, n), c + Hdr, c + Hdr + n - 1)
         /\ held' = [held EXCEPT !["image"] = c + Hdr]
         /\ pc' = "unfilter"
    <2>1. b # Null
      BY <1>1, <1>7, PtrIs
    <2>2. /\ h' = Written(Malloc(h, b, n), b + Hdr, b + Hdr + n - 1)
          /\ held' = [held EXCEPT !["image"] = b + Hdr]
          /\ pc' = "unfilter"
      BY <2>1 DEF Alloc, b, n
    <2> QED BY <1>7, <2>2
  <1>11. Sound(h', TailAt(t), U \cup {c}) /\ Keeps(h, h', U)
    BY <1>9, <1>10, AllocIs
  <1>12. U \cup {c} = LogoUsed(i, Null, f, c)
    BY <1>1, UsedIs DEF U
  <1>13. LogoHeap(h', held', {}, t, i, Null, f, c)
    <2>1. Sound(h', {} \cup TailAt(t), LogoUsed(i, Null, f, c))
      BY <1>11, <1>12
    <2>2. HeldIs(held', i, Null, f, c)
      BY <1>1, <1>2, <1>10, PtrIs DEF HeldIs, LogoHeap, Names
    <2>3. t \in Nat /\ t <= Words
      BY <1>2 DEF LogoHeap
    <2> QED BY <2>1, <2>2, <2>3 DEF LogoHeap, HeldIs
  <1>14. Keeps(h, h', {0})
    <2>1. 0 \in U
      BY DEF U, LogoUsed
    <2> QED BY <1>11, <2>1 DEF Keeps
  <1> QED BY <1>10, <1>13, <1>14 DEF i

LEMMA AllocImageKeeps ==
  ASSUME IInv, NoSliver, Deflated, AllocImage
  PROVE  IInv'
  <1> DEFINE l == logo
             i == ImgAt(l)
             c == CompressedAt(l)
             f == InflatedAt(l)
             t == ImageAt(l)
             n == l.image
  <1>1. pc = "image" /\ Alloc("image", n, "unfilter", "free_inflated") /\ LogoStep /\ l \in Logos
    BY DEF AllocImage, IInv, UseType
  <1>2. /\ LogoHeap(h, held, {c}, t, i, Null, f, Null)
        /\ held \in [Names -> Nat \cup {Null}] /\ l' = l
    BY <1>1 DEF IInv, LogoInv, LogoPcs, LogoState, UseType, LogoStep
  <1>3. /\ i \in Nat /\ c \in Nat /\ f \in Nat /\ t \in Nat
        /\ 0 < i /\ i < c /\ c < f /\ f < t
        /\ BehindAt(l) = t + Hdr + n /\ n \in Nat /\ l.compressed \in Nat
        /\ Words - BehindAt(l) \notin 1 .. Hdr - 1 /\ l.compressed <= n
    BY <1>1, Places, PlacesApart DEF NoSliver, Deflated, BehindAt
  <1>4. Inflation(l, {c}, c, f, t)
    BY <1>2 DEF Inflation
  <1>5. h.size[c] = l.compressed
    BY <1>1, <1>4, CompressedSize
  <1>6. CASE l.compressed = n
    <2>1. /\ pc' = "unfilter" /\ held' = [held EXCEPT !["image"] = c + Hdr]
          /\ LogoHeap(h', held', {}, t, i, Null, f, c) /\ Keeps(h, h', {0})
      BY <1>1, <1>2, <1>4, <1>6, ImageInPlace
    <2>2. Moves("image", c + Hdr)
      BY <1>1, <1>3, <2>1, PtrIs DEF Moves, Names, LogoPcs
    <2>3. LogoState(logo)'
      BY <1>2, <2>1 DEF LogoState
    <2> QED BY <2>2, <2>3, MovesKeep
  <1>7. CASE l.compressed # n
    <2>1. AllocatesTo({c}, t, i, Null, f, Null, "image", n, i, Null, f, t)
      <3>1. Grows(h, {c}, LogoUsed(i, Null, f, Null), t, n)
        <4>1. \A x \in {c} \cup LogoUsed(i, Null, f, Null) : x < t
          BY <1>3, UsedIs
        <4>2. \A x \in {c} : h.size[x] < n
          BY <1>3, <1>5, <1>7
        <4> QED BY <1>2, <1>3, <4>1, <4>2, LogoGrows
      <3>2. HeldIs([held EXCEPT !["image"] = t + Hdr], i, Null, f, t)
        BY <1>2, <1>3, PtrIs DEF HeldIs, LogoHeap, Names
      <3>3. LogoUsed(i, Null, f, Null) \cup {t} = LogoUsed(i, Null, f, t)
        BY <1>3, UsedIs
      <3> QED BY <1>2, <3>1, <3>2, <3>3 DEF AllocatesTo, Names
    <2> HIDE DEF i, c, f, t, n
    <2>2. \/ pc' = "free_inflated" /\ h' = h /\ held' = held
          \/ /\ pc' = "unfilter" /\ Moves("image", t + Hdr)
             /\ LogoHeap(h', held', {c}, t + Hdr + n, i, Null, f, t)
      BY <1>1, <2>1, AllocMoves DEF LogoPcs
    <2>3. CASE pc' = "free_inflated" /\ h' = h /\ held' = held
      <3>1. LogoState(logo)'
        BY <1>2, <2>3 DEF LogoState, i, c, f, t
      <3> QED BY <1>1, <2>3, <3>1, StaysKeep DEF LogoPcs
    <2>4. CASE /\ pc' = "unfilter" /\ Moves("image", t + Hdr)
               /\ LogoHeap(h', held', {c}, t + Hdr + n, i, Null, f, t)
      <3>1. LogoHeap(h', held', {CompressedAt(l)}, BehindAt(l), ImgAt(l), Null, InflatedAt(l), ImageAt(l))
        BY <1>3, <2>4 DEF i, c, f, t
      <3>2. LogoState(logo)'
        BY <1>2, <2>4, <3>1 DEF LogoState
      <3> QED BY <2>4, <3>2, MovesKeep
    <2> QED BY <2>2, <2>3, <2>4
  <1> QED BY <1>6, <1>7

\* One buffer less: the heap of a Release of the block x.
ReleasesTo(name, x, F, t, I, C, L, M) ==
  /\ x \in Nat /\ held[name] = Ptr(x) /\ name \in Names \ {"file"}
  /\ t \in Nat /\ t <= Words
  /\ Released(h, FreeNode(h, x), F \cup TailAt(t), LogoUsed(I, C, L, M))
  /\ HeldIs([held EXCEPT ![name] = Null], I, C, L, M)

LEMMA ReleaseMoves ==
  ASSUME IInv, NEW name, NEW x, NEW F, NEW t, NEW I, NEW C, NEW L, NEW M,
         NEW next \in LogoPcs, ReleasesTo(name, x, F, t, I, C, L, M),
         pc \in LogoPcs, Release(name, next), LogoStep
  PROVE  pc' = next /\ LogoHeap(h', held', F, t, I, C, L, M) /\ Moves(name, Null)
  <1>1. /\ x \in Nat /\ held[name] = Ptr(x) /\ name \in Names \ {"file"}
        /\ t \in Nat /\ t <= Words
        /\ Released(h, FreeNode(h, x), F \cup TailAt(t), LogoUsed(I, C, L, M))
        /\ HeldIs([held EXCEPT ![name] = Null], I, C, L, M)
    BY DEF ReleasesTo
  <1>2. h' = FreeNode(h, x) /\ held' = [held EXCEPT ![name] = Null] /\ pc' = next
    BY <1>1, ReleaseStep
  <1>3. Sound(h', F \cup TailAt(t), LogoUsed(I, C, L, M)) /\ Keeps(h, h', LogoUsed(I, C, L, M))
    BY <1>1, <1>2 DEF Released
  <1>4. HeldIs(held', I, C, L, M)
    BY <1>1, <1>2
  <1>5. LogoHeap(h', held', F, t, I, C, L, M)
    BY <1>1, <1>3, <1>4 DEF LogoHeap, HeldIs
  <1>6. Keeps(h, h', {0})
    <2>1. 0 \in LogoUsed(I, C, L, M)
      BY DEF LogoUsed
    <2> QED BY <1>3, <2>1 DEF Keeps
  <1>7. Moves(name, Null)
    BY <1>1, <1>2, <1>6 DEF Moves
  <1> QED BY <1>2, <1>5, <1>7

LEMMA BadHeaderKeeps ==
  ASSUME IInv, BadHeader
  PROVE  IInv'
  <1>1. pc = "header" /\ pc' = "free_image" /\ h' = h /\ held' = held /\ LogoStep
    BY DEF BadHeader
  <1>2. LogoHeap(h, held, {}, CompressedAt(logo), ImgAt(logo), Null, Null, Null) /\ logo' = logo
    BY <1>1 DEF IInv, LogoInv, LogoPcs, LogoState, LogoStep
  <1>3. LogoState(logo)'
    BY <1>1, <1>2 DEF LogoState
  <1> QED BY <1>1, <1>3, StaysKeep DEF LogoPcs

LEMMA FreeCompressedNoMemKeeps ==
  ASSUME IInv, FreeCompressedNoMem
  PROVE  IInv'
  <1> DEFINE l == logo
             i == ImgAt(l)
             c == CompressedAt(l)
             t == InflatedAt(l)
  <1>1. pc = "no_inflated" /\ Release("compressed", "free_image") /\ LogoStep /\ l \in Logos
    BY DEF FreeCompressedNoMem, IInv, UseType
  <1>2. /\ LogoHeap(h, held, {}, t, i, c, Null, Null)
        /\ held \in [Names -> Nat \cup {Null}] /\ l' = l
    BY <1>1 DEF IInv, LogoInv, LogoPcs, LogoState, UseType, LogoStep
  <1>3. i \in Nat /\ c \in Nat /\ t \in Nat /\ 0 < i /\ i < c /\ c < t
    BY <1>1, PlacesApart
  <1>4. ReleasesTo("compressed", c, {}, c, i, Null, Null, Null)
    <2>1. Sound(h, TailAt(t), {0, i, c}) /\ t <= Words /\ HeldIs(held, i, c, Null, Null)
      <3>1. LogoUsed(i, c, Null, Null) = {0, i, c} /\ {} \cup TailAt(t) = TailAt(t)
        BY <1>3, UsedIs
      <3> HIDE DEF i, c, t
      <3> QED BY <1>2, <3>1 DEF LogoHeap, HeldIs
    <2>2. Released(h, FreeNode(h, c), TailAt(c), {0, i, c} \ {c})
      <3>1. \A x \in {0, i, c} : x <= c
        BY <1>3
      <3> HIDE DEF i, c, t
      <3> QED BY <1>3, <2>1, <3>1, FreeLast
    <2>3. {0, i, c} \ {c} = LogoUsed(i, Null, Null, Null) /\ {} \cup TailAt(c) = TailAt(c)
      BY <1>3, UsedIs
    <2>4. Released(h, FreeNode(h, c), {} \cup TailAt(c), LogoUsed(i, Null, Null, Null))
      BY <2>2, <2>3
    <2>5. HeldIs([held EXCEPT !["compressed"] = Null], i, Null, Null, Null)
      BY <1>2, <2>1, PtrIs DEF HeldIs, Names
    <2>6. held["compressed"] = Ptr(c) /\ c <= Words /\ "compressed" \in Names \ {"file"}
      BY <1>3, <2>1, Addresses DEF HeldIs, Names
    <2> QED BY <1>3, <2>4, <2>5, <2>6 DEF ReleasesTo
  <1> HIDE DEF i, c, t
  <1>5. /\ pc' = "free_image" /\ LogoHeap(h', held', {}, c, i, Null, Null, Null)
        /\ Moves("compressed", Null)
    BY <1>1, <1>4, ReleaseMoves DEF LogoPcs
  <1>6. LogoState(logo)'
    BY <1>2, <1>5 DEF LogoState, i, c
  <1> QED BY <1>5, <1>6, MovesKeep

LEMMA InflateKeeps ==
  ASSUME IInv, InflateFails \/ Inflated
  PROVE  IInv'
  <1> DEFINE l == logo
             i == ImgAt(l)
             c == CompressedAt(l)
             f == InflatedAt(l)
             t == ImageAt(l)
  <1>1. /\ pc = "inflate" /\ LogoStep /\ l \in Logos
        /\ Release("compressed", "free_inflated") \/ Release("compressed", "image")
    BY DEF InflateFails, Inflated, IInv, UseType
  <1>2. /\ LogoHeap(h, held, {}, t, i, c, f, Null)
        /\ held \in [Names -> Nat \cup {Null}] /\ l' = l
    BY <1>1 DEF IInv, LogoInv, LogoPcs, LogoState, UseType, LogoStep
  <1>3. /\ i \in Nat /\ c \in Nat /\ f \in Nat /\ t \in Nat
        /\ 0 < i /\ i < c /\ c < f /\ f < t
    BY <1>1, PlacesApart
  <1>4. ReleasesTo("compressed", c, {c}, t, i, Null, f, Null)
    <2>1. Sound(h, TailAt(t), {0, i, c, f}) /\ t <= Words /\ HeldIs(held, i, c, f, Null)
      <3>1. LogoUsed(i, c, f, Null) = {0, i, c, f} /\ {} \cup TailAt(t) = TailAt(t)
        BY <1>3, UsedIs
      <3> HIDE DEF i, c, f, t
      <3> QED BY <1>2, <3>1 DEF LogoHeap, HeldIs
    <2>2. TailAt(t) = {} \/ TailAt(t) = {t}
      BY DEF TailAt
    <2> DEFINE A == TailAt(t)
               U == {0, i, c, f}
    <2>3. After(h, c) = f
      <3>1. \A z \in A \cup U : z <= c \/ f <= z
        BY <1>3, <2>2
      <3>2. c \in A \cup U /\ f \in A \cup U \cup {Words} /\ c < f
        BY <1>3
      <3>3. Sound(h, A, U)
        BY <2>1
      <3> HIDE DEF A, U, i, c, f, t
      <3> QED BY <3>1, <3>2, <3>3, NextBlock
    <2>4. Released(h, FreeNode(h, c), TailAt(t) \cup {c}, {0, i, c, f} \ {c})
      <3>1. \A p \in A : After(h, p) # c
        <4>1. \A p \in A : p = t /\ After(h, p) \in Nat /\ p < After(h, p)
          BY <2>1, <2>2, SoundFacts
        <4> QED BY <1>3, <4>1
      <3>2. After(h, c) \notin A
        BY <1>3, <2>2, <2>3
      <3>3. A = {} \/ \E a \in A : A = {a}
        BY <2>2
      <3>4. Sound(h, A, U) /\ c \in U
        BY <2>1
      <3> HIDE DEF A, U, i, c, f, t
      <3>5. Released(h, FreeNode(h, c), A \cup {c}, U \ {c})
        BY <3>1, <3>2, <3>3, <3>4, FreeApart
      <3> QED BY <3>5 DEF A, U
    <2>5. {0, i, c, f} \ {c} = LogoUsed(i, Null, f, Null) /\ TailAt(t) \cup {c} = {c} \cup TailAt(t)
      BY <1>3, UsedIs
    <2>6. Released(h, FreeNode(h, c), {c} \cup TailAt(t), LogoUsed(i, Null, f, Null))
      BY <2>4, <2>5
    <2>7. HeldIs([held EXCEPT !["compressed"] = Null], i, Null, f, Null)
      BY <1>2, <2>1, PtrIs DEF HeldIs, Names
    <2>8. held["compressed"] = Ptr(c) /\ "compressed" \in Names \ {"file"}
      BY <2>1 DEF HeldIs, Names
    <2> QED BY <1>3, <2>1, <2>6, <2>7, <2>8 DEF ReleasesTo
  <1> HIDE DEF i, c, f, t
  <1>5. /\ pc' \in {"free_inflated", "image"} /\ LogoHeap(h', held', {c}, t, i, Null, f, Null)
        /\ Moves("compressed", Null)
    BY <1>1, <1>4, ReleaseMoves DEF LogoPcs
  <1>6. LogoState(logo)'
    BY <1>2, <1>5 DEF LogoState, i, c, f, t
  <1> QED BY <1>5, <1>6, MovesKeep

\* The inflated data are freed with no image behind them.
LEMMA InflatedAlone ==
  ASSUME NEW l \in Logos, NEW F, NEW c, NEW f, NEW t, Inflation(l, F, c, f, t),
         held \in [Names -> Nat \cup {Null}]
  PROVE  ReleasesTo("inflated", f, {}, c, ImgAt(l), Null, Null, Null)
  <1> DEFINE i == ImgAt(l)
  <1>1. /\ i \in Nat /\ c \in Nat /\ f \in Nat /\ t \in Nat
        /\ 0 < i /\ i < c /\ c < f /\ f < t
    BY PlacesApart DEF Inflation
  <1>2. LogoHeap(h, held, {c}, t, i, Null, f, Null)
    BY DEF Inflation
  <1> HIDE DEF i
  <1>3. Sound(h, {c} \cup TailAt(t), {0, i, f}) /\ t <= Words /\ HeldIs(held, i, Null, f, Null)
    <2>1. LogoUsed(i, Null, f, Null) = {0, i, f}
      BY <1>1, UsedIs
    <2> QED BY <1>2, <2>1 DEF LogoHeap, HeldIs
  <1>4. Released(h, FreeNode(h, f), TailAt(c), {0, i, f} \ {f})
    <2>1. \A x \in {0, i, f} : x < c \/ x = f
      BY <1>1
    <2> QED BY <1>1, <1>3, <2>1, FreeLastBehind
  <1>5. {0, i, f} \ {f} = LogoUsed(i, Null, Null, Null) /\ {} \cup TailAt(c) = TailAt(c)
    BY <1>1, UsedIs
  <1>6. Released(h, FreeNode(h, f), {} \cup TailAt(c), LogoUsed(i, Null, Null, Null))
    BY <1>4, <1>5
  <1>7. HeldIs([held EXCEPT !["inflated"] = Null], i, Null, Null, Null)
    BY <1>3, PtrIs DEF HeldIs, Names
  <1>8. held["inflated"] = Ptr(f) /\ c <= Words /\ "inflated" \in Names \ {"file"}
    BY <1>1, <1>3, Addresses DEF HeldIs, Names
  <1>9. ReleasesTo("inflated", f, {}, c, i, Null, Null, Null)
    BY <1>1, <1>6, <1>7, <1>8 DEF ReleasesTo
  <1> QED BY <1>9 DEF i

\* The inflated data are freed between the place of the compressed data and the image.
LEMMA InflatedBetween ==
  ASSUME NEW i \in Nat, NEW c \in Nat, NEW f \in Nat, NEW m \in Nat, NEW t \in Nat,
         0 < i, i < c, c < f, f < m, m < t, LogoHeap(h, held, {c}, t, i, Null, f, m),
         held \in [Names -> Nat \cup {Null}]
  PROVE  ReleasesTo("inflated", f, {c}, t, i, Null, Null, m)
  <1> DEFINE A == {c} \cup TailAt(t)
             U == {0, i, f, m}
  <1>1. Sound(h, A, U) /\ t <= Words /\ HeldIs(held, i, Null, f, m)
    <2>1. LogoUsed(i, Null, f, m) = {0, i, f, m}
      BY UsedIs
    <2> QED BY <2>1 DEF LogoHeap, HeldIs
  <1>2. \A z \in A : z = c \/ z = t
    BY DEF TailAt
  <1>3. After(h, c) = f /\ After(h, f) = m
    <2>1. \A z \in A \cup U : z <= c \/ f <= z
      BY <1>2
    <2>2. \A z \in A \cup U : z <= f \/ m <= z
      BY <1>2
    <2>3. /\ c \in A \cup U /\ f \in A \cup U
          /\ f \in A \cup U \cup {Words} /\ m \in A \cup U \cup {Words}
      OBVIOUS
    <2> HIDE DEF A, U
    <2>4. Sound(h, A, U)
      BY <1>1
    <2>5. After(h, c) = f
      <3>1. c \in A \cup U /\ f \in A \cup U \cup {Words} /\ c < f
        BY <2>3
      <3> QED BY <2>1, <2>4, <3>1, NextBlock
    <2>6. After(h, f) = m
      <3>1. f \in A \cup U /\ m \in A \cup U \cup {Words} /\ f < m
        BY <2>3
      <3> QED BY <2>2, <2>4, <3>1, NextBlock
    <2> QED BY <2>5, <2>6
  <1>4. Released(h, FreeNode(h, f), A, U \ {f})
    <2>1. After(h, f) \notin A /\ c \in A /\ f \in U
      BY <1>2, <1>3
    <2> HIDE DEF A, U
    <2> QED BY <1>1, <1>3, <2>1, FreeBehind
  <1>5. U \ {f} = LogoUsed(i, Null, Null, m)
    BY UsedIs
  <1>6. Released(h, FreeNode(h, f), {c} \cup TailAt(t), LogoUsed(i, Null, Null, m))
    BY <1>4, <1>5
  <1>7. HeldIs([held EXCEPT !["inflated"] = Null], i, Null, Null, m)
    BY <1>1, PtrIs DEF HeldIs, Names
  <1>8. held["inflated"] = Ptr(f) /\ "inflated" \in Names \ {"file"}
    BY <1>1 DEF HeldIs, Names
  <1> QED BY <1>1, <1>6, <1>7, <1>8 DEF ReleasesTo

\* The inflated data are freed, and the image is where the compressed data were.
LEMMA InflatedBehind ==
  ASSUME NEW i \in Nat, NEW c \in Nat, NEW f \in Nat, NEW t \in Nat,
         0 < i, i < c, c < f, f < t, LogoHeap(h, held, {}, t, i, Null, f, c),
         held \in [Names -> Nat \cup {Null}]
  PROVE  ReleasesTo("inflated", f, {}, f, i, Null, Null, c)
  <1> DEFINE A == TailAt(t)
             U == {0, i, f, c}
  <1>1. Sound(h, A, U) /\ t <= Words /\ HeldIs(held, i, Null, f, c)
    <2>1. LogoUsed(i, Null, f, c) = {0, i, f, c} /\ {} \cup TailAt(t) = TailAt(t)
      BY UsedIs
    <2> QED BY <2>1 DEF LogoHeap, HeldIs
  <1>2. Released(h, FreeNode(h, f), TailAt(f), U \ {f})
    <2>1. f \in U /\ \A x \in U : x <= f
      OBVIOUS
    <2> HIDE DEF U
    <2> QED BY <1>1, <2>1, FreeLast
  <1>3. U \ {f} = LogoUsed(i, Null, Null, c) /\ {} \cup TailAt(f) = TailAt(f)
    BY UsedIs
  <1>4. Released(h, FreeNode(h, f), {} \cup TailAt(f), LogoUsed(i, Null, Null, c))
    BY <1>2, <1>3
  <1>5. HeldIs([held EXCEPT !["inflated"] = Null], i, Null, Null, c)
    BY <1>1, PtrIs DEF HeldIs, Names
  <1>6. held["inflated"] = Ptr(f) /\ f <= Words /\ "inflated" \in Names \ {"file"}
    BY <1>1, Addresses DEF HeldIs, Names
  <1> QED BY <1>4, <1>5, <1>6 DEF ReleasesTo

LEMMA FreeInflatedKeeps ==
  ASSUME IInv, FreeInflated
  PROVE  IInv'
  <1> DEFINE l == logo
             i == ImgAt(l)
             c == CompressedAt(l)
             f == InflatedAt(l)
             m == ImageAt(l)
             t == BehindAt(l)
  <1>1. /\ LogoStep /\ l \in Logos /\ l' = l /\ held \in [Names -> Nat \cup {Null}]
        /\ \/ pc = "free_inflated" /\ Release("inflated", "free_image")
           \/ pc = "unfilter" /\ Release("inflated", "free_image")
           \/ pc = "unfilter" /\ Release("inflated", "bad_image")
    BY DEF FreeInflated, IInv, UseType, LogoStep
  <1>2. /\ i \in Nat /\ c \in Nat /\ f \in Nat /\ m \in Nat /\ t \in Nat
        /\ 0 < i /\ i < c /\ c < f /\ f < m /\ m < t
    BY <1>1, PlacesApart
  <1>3. pc \in LogoPcs /\ LogoState(l)
    BY <1>1 DEF IInv, LogoInv, LogoPcs
  <1>4. CASE pc = "free_inflated"
    <2>1. Inflation(l, {c}, c, f, m)
      BY <1>3, <1>4 DEF LogoState, Inflation
    <2>2. ReleasesTo("inflated", f, {}, c, i, Null, Null, Null)
      BY <1>1, <2>1, InflatedAlone
    <2> HIDE DEF i, c, f, m, t
    <2>3. /\ pc' = "free_image" /\ LogoHeap(h', held', {}, c, i, Null, Null, Null)
          /\ Moves("inflated", Null)
      BY <1>1, <1>3, <1>4, <2>2, ReleaseMoves DEF LogoPcs
    <2>4. LogoState(logo)'
      BY <1>1, <2>3 DEF LogoState, i, c
    <2> QED BY <2>3, <2>4, MovesKeep
  <1>5. CASE pc = "unfilter"
    <2>1. \/ LogoHeap(h, held, {c}, t, i, Null, f, m)
          \/ LogoHeap(h, held, {}, m, i, Null, f, c)
      BY <1>3, <1>5 DEF LogoState
    <2> HIDE DEF i, c, f, m, t
    <2>2. /\ Moves("inflated", Null) /\ pc' \in {"free_image", "bad_image"}
          /\ \/ LogoHeap(h', held', {c}, t, i, Null, Null, m)
             \/ LogoHeap(h', held', {}, f, i, Null, Null, c)
      <3>1. CASE LogoHeap(h, held, {c}, t, i, Null, f, m)
        <4>1. ReleasesTo("inflated", f, {c}, t, i, Null, Null, m)
          BY <1>1, <1>2, <3>1, InflatedBetween
        <4> QED BY <1>1, <1>3, <1>5, <4>1, ReleaseMoves DEF LogoPcs
      <3>2. CASE LogoHeap(h, held, {}, m, i, Null, f, c)
        <4>1. ReleasesTo("inflated", f, {}, f, i, Null, Null, c)
          BY <1>1, <1>2, <3>2, InflatedBehind
        <4> QED BY <1>1, <1>3, <1>5, <4>1, ReleaseMoves DEF LogoPcs
      <3> QED BY <2>1, <3>1, <3>2
    <2>3. Decoded(l)'
      BY <1>1, <2>2 DEF Decoded, i, c, f, m, t
    <2>4. LogoState(logo)'
      BY <1>1, <2>2, <2>3 DEF LogoState
    <2> QED BY <2>2, <2>4, MovesKeep
  <1> QED BY <1>1, <1>4, <1>5

\* The image is freed, wherever it is.
LEMMA ImageFreed ==
  ASSUME NEW l \in Logos, Decoded(l), held \in [Names -> Nat \cup {Null}]
  PROVE  \E m \in Nat : ReleasesTo("image", m, {}, CompressedAt(l), ImgAt(l), Null, Null, Null)
  <1> DEFINE i == ImgAt(l)
             c == CompressedAt(l)
             f == InflatedAt(l)
             m == ImageAt(l)
             t == BehindAt(l)
  <1>1. /\ i \in Nat /\ c \in Nat /\ f \in Nat /\ m \in Nat /\ t \in Nat
        /\ 0 < i /\ i < c /\ c < f /\ f < m /\ m < t
    BY PlacesApart
  <1>2. \/ LogoHeap(h, held, {c}, t, i, Null, Null, m)
        \/ LogoHeap(h, held, {}, f, i, Null, Null, c)
    BY DEF Decoded
  <1> HIDE DEF i, c, f, m, t
  <1>3. ASSUME LogoHeap(h, held, {c}, t, i, Null, Null, m)
        PROVE  ReleasesTo("image", m, {}, c, i, Null, Null, Null)
    <2>1. Sound(h, {c} \cup TailAt(t), {0, i, m}) /\ t <= Words /\ HeldIs(held, i, Null, Null, m)
      <3>1. LogoUsed(i, Null, Null, m) = {0, i, m}
        BY <1>1, UsedIs
      <3> QED BY <1>3, <3>1 DEF LogoHeap, HeldIs
    <2>2. Released(h, FreeNode(h, m), TailAt(c), {0, i, m} \ {m})
      <3>1. \A x \in {0, i, m} : x < c \/ x = m
        BY <1>1
      <3>2. c < m
        BY <1>1
      <3> QED BY <1>1, <2>1, <3>1, <3>2, FreeLastBehind
    <2>3. {0, i, m} \ {m} = LogoUsed(i, Null, Null, Null) /\ {} \cup TailAt(c) = TailAt(c)
      BY <1>1, UsedIs
    <2>4. Released(h, FreeNode(h, m), {} \cup TailAt(c), LogoUsed(i, Null, Null, Null))
      BY <2>2, <2>3
    <2>5. HeldIs([held EXCEPT !["image"] = Null], i, Null, Null, Null)
      BY <2>1, PtrIs DEF HeldIs, Names
    <2>6. held["image"] = Ptr(m) /\ c <= Words /\ "image" \in Names \ {"file"}
      BY <1>1, <2>1, Addresses DEF HeldIs, Names
    <2> QED BY <1>1, <2>4, <2>5, <2>6 DEF ReleasesTo
  <1>4. ASSUME LogoHeap(h, held, {}, f, i, Null, Null, c)
        PROVE  ReleasesTo("image", c, {}, c, i, Null, Null, Null)
    <2>1. Sound(h, TailAt(f), {0, i, c}) /\ f <= Words /\ HeldIs(held, i, Null, Null, c)
      <3>1. LogoUsed(i, Null, Null, c) = {0, i, c} /\ {} \cup TailAt(f) = TailAt(f)
        BY <1>1, UsedIs
      <3> QED BY <1>4, <3>1 DEF LogoHeap, HeldIs
    <2>2. Released(h, FreeNode(h, c), TailAt(c), {0, i, c} \ {c})
      <3>1. \A x \in {0, i, c} : x <= c
        BY <1>1
      <3> QED BY <1>1, <2>1, <3>1, FreeLast
    <2>3. {0, i, c} \ {c} = LogoUsed(i, Null, Null, Null) /\ {} \cup TailAt(c) = TailAt(c)
      BY <1>1, UsedIs
    <2>4. Released(h, FreeNode(h, c), {} \cup TailAt(c), LogoUsed(i, Null, Null, Null))
      BY <2>2, <2>3
    <2>5. HeldIs([held EXCEPT !["image"] = Null], i, Null, Null, Null)
      BY <2>1, PtrIs DEF HeldIs, Names
    <2>6. held["image"] = Ptr(c) /\ c <= Words /\ "image" \in Names \ {"file"}
      BY <1>1, <2>1, Addresses DEF HeldIs, Names
    <2> QED BY <1>1, <2>4, <2>5, <2>6 DEF ReleasesTo
  <1> QED BY <1>1, <1>2, <1>3, <1>4 DEF i, c

LEMMA FreeImageKeeps ==
  ASSUME IInv, BadImage \/ FreeImage
  PROVE  IInv'
  <1> DEFINE l == logo
             i == ImgAt(l)
             c == CompressedAt(l)
  <1>1. /\ LogoStep /\ l \in Logos /\ l' = l /\ held \in [Names -> Nat \cup {Null}]
        /\ \/ pc = "bad_image" /\ Release("image", "free_image")
           \/ pc = "free_image" /\ Release("image", "free_img")
    BY DEF BadImage, FreeImage, IInv, UseType, LogoStep
  <1>2. pc \in LogoPcs /\ LogoState(l)
    BY <1>1 DEF IInv, LogoInv, LogoPcs
  <1>3. ASSUME LogoHeap(h', held', {}, c, i, Null, Null, Null), pc' \in {"free_image", "free_img"}
        PROVE  LogoState(logo)'
    BY <1>1, <1>3 DEF LogoState
  <1>4. CASE Decoded(l)
    <2>1. PICK m \in Nat : ReleasesTo("image", m, {}, c, i, Null, Null, Null)
      BY <1>1, <1>4, ImageFreed
    <2> HIDE DEF i, c
    <2>2. /\ pc' \in {"free_image", "free_img"} /\ Moves("image", Null)
          /\ LogoHeap(h', held', {}, c, i, Null, Null, Null)
      BY <1>1, <1>2, <2>1, ReleaseMoves DEF LogoPcs
    <2> QED BY <1>3, <2>2, MovesKeep
  <1>5. CASE pc = "free_image" /\ LogoHeap(h, held, {}, c, i, Null, Null, Null)
    <2>1. held["image"] = Null
      BY <1>5, PtrIs DEF LogoHeap
    <2>2. Release("image", "free_img")
      BY <1>1, <1>5
    <2>3. h' = h /\ held' = [held EXCEPT !["image"] = Null] /\ pc' = "free_img"
      BY <2>1, <2>2 DEF Release
    <2>4. held' = held
      BY <1>1, <2>1, <2>3
    <2>5. LogoState(logo)'
      BY <1>3, <1>5, <2>3, <2>4
    <2> QED BY <1>1, <1>2, <2>3, <2>4, <2>5, StaysKeep DEF LogoPcs
  <1>6. \/ Decoded(l)
        \/ pc = "free_image" /\ LogoHeap(h, held, {}, c, i, Null, Null, Null)
    BY <1>1, <1>2 DEF LogoState
  <1> QED BY <1>4, <1>5, <1>6

LEMMA FreeImgKeeps ==
  ASSUME IInv, FreeImg
  PROVE  IInv'
  <1> DEFINE l == logo
             i == ImgAt(l)
             t == CompressedAt(l)
  <1>1. pc = "free_img" /\ Release("img", "free_file") /\ LogoStep /\ l \in Logos
    BY DEF FreeImg, IInv, UseType
  <1>2. /\ LogoHeap(h, held, {}, t, i, Null, Null, Null)
        /\ held \in [Names -> Nat \cup {Null}] /\ l' = l
    BY <1>1 DEF IInv, LogoInv, LogoPcs, LogoState, UseType, LogoStep
  <1>3. i \in Nat /\ t \in Nat /\ 0 < i /\ i < t
    BY <1>1, PlacesApart
  <1>4. ReleasesTo("img", i, {}, i, Null, Null, Null, Null)
    <2>1. Sound(h, TailAt(t), {0, i}) /\ t <= Words /\ HeldIs(held, i, Null, Null, Null)
      <3>1. LogoUsed(i, Null, Null, Null) = {0, i} /\ {} \cup TailAt(t) = TailAt(t)
        BY <1>3, UsedIs
      <3> HIDE DEF i, t
      <3> QED BY <1>2, <3>1 DEF LogoHeap, HeldIs
    <2> HIDE DEF i, t
    <2>2. Released(h, FreeNode(h, i), TailAt(i), {0, i} \ {i})
      <3>1. \A x \in {0, i} : x <= i
        BY <1>3
      <3> QED BY <1>3, <2>1, <3>1, FreeLast
    <2>3. {0, i} \ {i} = LogoUsed(Null, Null, Null, Null) /\ {} \cup TailAt(i) = TailAt(i)
      BY <1>3, UsedIs
    <2>4. Released(h, FreeNode(h, i), {} \cup TailAt(i), LogoUsed(Null, Null, Null, Null))
      BY <2>2, <2>3
    <2>5. HeldIs([held EXCEPT !["img"] = Null], Null, Null, Null, Null)
      BY <1>2, <2>1, PtrIs DEF HeldIs, Names
    <2>6. held["img"] = Ptr(i) /\ i <= Words /\ "img" \in Names \ {"file"}
      BY <1>3, <2>1, Addresses DEF HeldIs, Names
    <2> QED BY <1>3, <2>4, <2>5, <2>6 DEF ReleasesTo
  <1> HIDE DEF i, t
  <1>5. /\ pc' = "free_file" /\ LogoHeap(h', held', {}, i, Null, Null, Null, Null)
        /\ Moves("img", Null)
    BY <1>1, <1>4, ReleaseMoves DEF LogoPcs
  <1>6. LogoState(logo)'
    BY <1>2, <1>5 DEF LogoState, i
  <1> QED BY <1>5, <1>6, MovesKeep

LEMMA PosIs ==
  /\ Pos(1) = 0
  /\ \A i \in Nat \ {0} : /\ Pos(i) \in Nat
                          /\ Pos(i + 1) = Pos(i) + Hdr + (EntryWords + Align)
  /\ \A i, j \in Nat \ {0} : i < j => Pos(i) < Pos(j)
  <1> DEFINE S == Hdr + EntryWords + Align
  <1>1. /\ S \in Nat /\ 0 < S /\ Hdr \in Nat /\ EntryWords \in Nat /\ Align \in Nat
    BY Addresses, SizeAssumption
  <1> HIDE DEF S
  <1>2. \A i : Pos(i) = (i - 1) * S
    BY DEF Pos, S
  <1>3. Pos(1) = 0
    BY <1>1, <1>2
  <1>4. ASSUME NEW i \in Nat \ {0}
        PROVE  Pos(i) \in Nat /\ Pos(i + 1) = Pos(i) + S
    <2>1. i - 1 \in Nat /\ (i + 1) - 1 = (i - 1) + 1
      OBVIOUS
    <2> DEFINE k == i - 1
    <2>2. Pos(i) = k * S /\ Pos(i + 1) = (k + 1) * S /\ k \in Nat
      BY <1>2, <2>1
    <2> HIDE DEF k
    <2>3. k * S \in Nat /\ (k + 1) * S = k * S + S
      BY <1>1, <2>2
    <2> QED BY <2>2, <2>3
  <1>5. ASSUME NEW i \in Nat \ {0}
        PROVE  Pos(i + 1) = Pos(i) + Hdr + (EntryWords + Align)
    BY <1>1, <1>4 DEF S
  <1>6. ASSUME NEW i \in Nat \ {0}, NEW j \in Nat \ {0}, i < j
        PROVE  Pos(i) < Pos(j)
    <2> DEFINE k == i - 1
               m == j - i
    <2>1. k \in Nat /\ m \in Nat /\ 0 < m /\ j - 1 = k + m
      BY <1>6
    <2>2. Pos(i) = k * S /\ Pos(j) = (k + m) * S
      BY <1>2, <2>1
    <2> HIDE DEF k, m
    <2>3. (k + m) * S = k * S + m * S /\ k * S \in Nat /\ m * S \in Nat /\ 0 < m * S
      BY <1>1, <2>1
    <2> QED BY <2>2, <2>3
  <1> QED BY <1>3, <1>4, <1>5, <1>6

\* The entries of a full list fit, and a header more.
LEMMA EntriesFit ==
  ASSUME NoSliver, NEW k \in Nat, k < MaxEntries
  PROVE  Pos(k + 2) + Hdr <= Words
  <1> DEFINE S == Hdr + EntryWords + Align
             m == MaxEntries - (k + 1)
  <1>1. /\ S \in Nat /\ Words \in Nat /\ Hdr \in Nat /\ MaxEntries \in Nat
        /\ MaxEntries * S + Hdr <= Words
    BY Addresses, SizeAssumption DEF NoSliver
  <1>2. m \in Nat /\ MaxEntries = (k + 1) + m
    BY <1>1
  <1>3. Pos(k + 2) = (k + 1) * S
    BY DEF Pos
  <1> HIDE DEF S, m
  <1>4. ((k + 1) + m) * S = (k + 1) * S + m * S /\ (k + 1) * S \in Nat /\ m * S \in Nat
    BY <1>1, <1>2
  <1> QED BY <1>1, <1>2, <1>3, <1>4

\* No entries, and nothing held: all the memory is free.
LEMMA NothingHeld ==
  EntriesFree(0, 0) = {0} /\ {Pos(i) : i \in 1 .. 0} = {} /\ TailAt(0) = {0}
  BY PosIs, Addresses DEF EntriesFree, TailAt

LEMMA FreeFileKeeps ==
  ASSUME IInv, FreeFile
  PROVE  IInv'
  <1> DEFINE l == logo
             t == ImgAt(l)
             p == held["file"]
  <1>1. /\ pc = "free_file" /\ pc' = "check" /\ LogoStep /\ l \in Logos
        /\ h' = FreeNode(h, HeaderOf(h, p))
        /\ held' = [held EXCEPT !["file"] = Null]
    BY DEF FreeFile, IInv, UseType
  <1>2. /\ UseType /\ Owns(h, 0, p) /\ entries = <<>> /\ held \in [Names -> Nat \cup {Null}]
        /\ LogoHeap(h, held, {}, t, Null, Null, Null, Null)
    BY <1>1 DEF IInv, LogoInv, LogoPcs, LogoState, UseType
  <1>3. t \in Nat /\ 0 < t
    BY <1>1, PlacesApart
  <1>4. Sound(h, TailAt(t), {0})
    <2>1. LogoUsed(Null, Null, Null, Null) = {0} /\ {} \cup TailAt(t) = TailAt(t)
      BY UsedIs
    <2> HIDE DEF t
    <2> QED BY <1>2, <2>1 DEF LogoHeap
  <1>5. HeaderOf(h, p) = 0
    <2>1. h \in HeapType /\ 0 \in Addr
      BY <1>4, SoundFacts
    <2>2. Owner(h, 0, p)
      BY <1>2 DEF Owns
    <2> QED BY <2>1, <2>2, HeaderOfIs
  <1> HIDE DEF t, p
  <1>6. Sound(h', {0}, {})
    <2>1. Released(h, FreeNode(h, 0), TailAt(0), {0} \ {0})
      BY <1>3, <1>4, FreeLast
    <2>2. {0} \ {0} = {}
      OBVIOUS
    <2>3. Released(h, h', {0}, {})
      BY <1>1, <1>5, <2>1, <2>2, NothingHeld
    <2> QED BY <2>3 DEF Released
  <1>7. \A n \in Names : held'[n] = Null
    BY <1>1, <1>2, PtrIs DEF LogoHeap, Names
  <1>8. entries' = <<>> /\ freed' = 0 /\ Len(<<>>) = 0
    BY <1>1, <1>2 DEF LogoStep, UseType
  <1>9. UseType'
    <2>1. held' \in [Names -> Nat \cup {Null}]
      BY <1>1, <1>2
    <2>2. logo' = logo /\ entries' = entries /\ freed' = freed
      BY <1>1 DEF LogoStep
    <2> QED BY <1>1, <1>2, <2>1, <2>2 DEF UseType, EntryPcs
  <1>10. LogoInv'
    BY <1>1 DEF LogoInv, LogoPcs
  <1>11. EntryInv'
    <2>1. Sound(h', EntriesFree(freed', Len(entries')), {Pos(i) : i \in freed' + 1 .. Len(entries')})
      <3>1. freed' + 1 = 1
        BY <1>8
      <3> QED BY <1>6, <1>8, <3>1, NothingHeld
    <2>2. Len(entries') <= MaxEntries /\ freed' <= Len(entries') /\ Len(entries') = 0
      BY <1>8, SizeAssumption
    <2>3. \A i \in 1 .. Len(entries') : FALSE
      BY <2>2
    <2>4. \A i \in freed' + 1 .. Len(entries') : FALSE
      BY <1>8
    <2> QED BY <1>7, <1>8, <2>1, <2>2, <2>3, <2>4 DEF EntryInv
  <1> QED BY <1>9, <1>10, <1>11 DEF IInv

\* What the invariant says of the heap when there are no entries.
LEMMA AllFree ==
  ASSUME IInv, pc \in EntryPcs, entries = <<>>
  PROVE  Sound(h, {0}, {}) /\ freed = 0
  <1>1. freed = 0 /\ Len(entries) = 0
    BY DEF IInv, EntryInv, UseType
  <1>2. Sound(h, EntriesFree(0, 0), {Pos(i) : i \in 1 .. 0})
    <2>1. Sound(h, EntriesFree(freed, Len(entries)), {Pos(i) : i \in freed + 1 .. Len(entries)})
      BY DEF IInv, EntryInv
    <2>2. freed + 1 = 1
      BY <1>1
    <2> QED BY <1>1, <2>1, <2>2
  <1> QED BY <1>1, <1>2, NothingHeld

\* The steps that only change pc between the users of the heap.
LEMMA NoLogoKeeps ==
  ASSUME IInv, NoLogo \/ OpenLogo \/ StartThread
  PROVE  IInv'
  <1>1. /\ pc \in {"open", "check"} /\ pc' \in EntryPcs
        /\ logo' \in Logos /\ h' = h /\ held' = held /\ entries' = entries
        /\ pc = "check" => pc' = "freeing" /\ freed' = 0
        /\ pc = "open" => pc' \in {"file", "check"} /\ freed' = freed
    BY DEF NoLogo, OpenLogo, StartThread, LogoStep, EntryPcs, IInv, UseType
  <1>2. pc \in EntryPcs /\ UseType /\ freed = 0 /\ freed' = 0
    BY <1>1 DEF EntryPcs, IInv, UseType
  <1>3. UseType'
    BY <1>1, <1>2 DEF UseType
  <1>4. LogoInv'
    BY <1>1 DEF LogoInv, LogoPcs, EntryPcs
  <1>5. EntryInv'
    <2>1. EntryInv
      BY DEF IInv
    <2>2. pc' \in {"open", "file"} => entries = <<>>
      BY <1>1, <1>2, <2>1 DEF EntryInv
    <2>3. freed' = freed
      BY <1>2
    <2> QED BY <1>1, <1>2, <2>1, <2>2, <2>3 DEF EntryInv
  <1> QED BY <1>3, <1>4, <1>5 DEF IInv

\* gm_memalign in a heap that grows at the end: no memory, or the block is at t.
LEMMA AlignedStep ==
  ASSUME NEW F, NEW U, NEW t, NEW k \in Nat, Grows(h, F, U, t, k + Align),
         NEW r, NEW p, FirstFit(h, k + Align) # Null,
         p = AlignedPtr(FirstFit(h, k + Align), Align),
         r = Written(Padded(Malloc(h, FirstFit(h, k + Align), k + Align),
                            FirstFit(h, k + Align), Align), p, p + k - 1)
  PROVE  /\ p = AlignedPtr(t, Align) /\ p \in Nat
         /\ t + Hdr + (k + Align) <= Words
         /\ Sound(r, F \cup TailAt(t + Hdr + (k + Align)), U \cup {t})
         /\ Keeps(h, r, U) /\ Owns(r, t, p)
  <1> DEFINE n == k + Align
             C == F \cup TailAt(t + Hdr + n)
             q == AlignedPtr(t, Align)
             s == Written(Padded(Malloc(h, t, n), t, Align), q, q + k - 1)
  <1>1. /\ FirstFit(h, n) = t /\ t + Hdr + n <= Words
        /\ Suits(h, F \cup TailAt(t), U, t, n, C)
    BY TailOrNull
  <1>2. p = q /\ r = s
    BY <1>1
  <1>3. Sound(s, C, U \cup {t}) /\ Keeps(h, s, U) /\ Owns(s, t, q)
    <2> HIDE DEF C
    <2> QED BY <1>1, AlignedIs
  <1>4. q \in Nat
    BY <1>3 DEF Owns, Owner
  <1> QED BY <1>1, <1>2, <1>3, <1>4

LEMMA AllocFileKeeps ==
  ASSUME IInv, NoSliver, AllocFile
  PROVE  IInv'
  <1> DEFINE l == logo
             k == l.file
             n == k + Align
             b == FirstFit(h, n)
             p == AlignedPtr(b, Align)
             t == ImgAt(l)
  <1>1. /\ pc = "file" /\ l \in Logos /\ l' = l /\ entries' = entries /\ freed' = freed
        /\ UseType /\ EntryInv /\ pc \in EntryPcs
    BY DEF AllocFile, LogoStep, IInv, UseType, EntryPcs
  <1>2. entries = <<>> /\ \A x \in Names : held[x] = Null
    BY <1>1 DEF EntryInv
  <1>3. Sound(h, {0}, {}) /\ freed = 0
    BY <1>1, <1>2, AllFree
  <1>4. CASE b = Null
    <2>1. pc' = "check" /\ h' = h /\ held' = held
      BY <1>4 DEF AllocFile
    <2>2. UseType'
      BY <1>1, <2>1 DEF UseType, EntryPcs
    <2>3. LogoInv'
      BY <2>1 DEF LogoInv, LogoPcs
    <2>4. EntryInv'
      BY <1>1, <2>1 DEF EntryInv
    <2> QED BY <2>2, <2>3, <2>4 DEF IInv
  <1>5. CASE b # Null
    <2> DEFINE r == Written(Padded(Malloc(h, b, n), b, Align), p, p + k - 1)
    <2>1. h' = r /\ held' = [held EXCEPT !["file"] = p] /\ pc' = "struct"
      BY <1>5 DEF AllocFile
    <2>2. /\ k \in Nat /\ Align \in Nat /\ t \in Nat /\ t = 0 + Hdr + n
          /\ Words - t \notin 1 .. Hdr - 1
      BY <1>1, Places, SizeAssumption, Addresses DEF ImgAt, NoSliver
    <2>3. Grows(h, {}, {}, 0, n)
      <3>1. Sound(h, {} \cup TailAt(0), {})
        BY <1>3, NothingHeld
      <3> HIDE DEF t
      <3> QED BY <2>2, <3>1, Addresses DEF Grows
    <2>4. /\ p = AlignedPtr(0, Align) /\ p \in Nat /\ 0 + Hdr + n <= Words
          /\ Sound(r, {} \cup TailAt(0 + Hdr + n), {} \cup {0})
          /\ Owns(r, 0, p)
      <3> HIDE DEF r, p, k
      <3>1. b = FirstFit(h, k + Align) /\ p = AlignedPtr(b, Align)
            /\ r = Written(Padded(Malloc(h, b, k + Align), b, Align), p, p + k - 1)
        BY DEF r, p
      <3> QED BY <1>5, <2>2, <2>3, <3>1, AlignedStep
    <2> HIDE DEF r, p, n, b
    <2>5. LogoHeap(h', held', {}, t, Null, Null, Null, Null)
      <3>1. {} \cup {0} = LogoUsed(Null, Null, Null, Null)
        BY UsedIs
      <3>2. Sound(h', {} \cup TailAt(t), LogoUsed(Null, Null, Null, Null)) /\ t <= Words
        BY <2>1, <2>2, <2>4, <3>1
      <3>3. HeldIs(held', Null, Null, Null, Null)
        BY <1>1, <1>2, <2>1, PtrIs DEF HeldIs, Names, UseType
      <3> QED BY <2>2, <3>2, <3>3 DEF LogoHeap, HeldIs
    <2>6. held'["file"] = p /\ held' \in [Names -> Nat \cup {Null}]
      BY <1>1, <2>1, <2>4 DEF UseType, Names
    <2>7. UseType'
      BY <1>1, <1>3, <2>1, <2>6 DEF UseType, LogoPcs
    <2>8. LogoInv'
      <3>1. LogoState(logo)'
        BY <1>1, <2>1, <2>5 DEF LogoState
      <3>2. held'["file"] = AlignedPtr(0, Align) /\ Owns(h', 0, held'["file"]) /\ entries' = <<>>
        BY <1>1, <1>2, <2>1, <2>4, <2>6
      <3> QED BY <3>1, <3>2 DEF LogoInv
    <2>9. EntryInv'
      BY <2>1 DEF EntryInv, EntryPcs
    <2> QED BY <2>7, <2>8, <2>9 DEF IInv
  <1> QED BY <1>4, <1>5

\* The blocks of the entries from the a-th to the n-th.
EntryBlocks(a, n) == {Pos(i) : i \in a .. n}

\* There is always room for one more entry, at the end.
LEMMA RoomForEntry ==
  ASSUME NoSliver, NEW m \in Nat, m < MaxEntries,
         Sound(h, EntriesFree(0, m), EntryBlocks(1, m))
  PROVE  /\ Grows(h, {}, EntryBlocks(1, m), Pos(m + 1), EntryWords + Align)
         /\ FirstFit(h, EntryWords + Align) # Null
  <1> DEFINE t == Pos(m + 1)
             n == EntryWords + Align
             U == EntryBlocks(1, m)
             A == {t}
  <1>1. /\ t \in Nat /\ Pos(m + 2) = t + Hdr + n /\ Pos(m + 2) \in Nat
        /\ Pos(m + 2) + Hdr <= Words
        /\ Words \in Nat /\ Hdr \in Nat /\ 0 < Hdr /\ n \in Nat
    <2>1. m + 1 \in Nat \ {0} /\ (m + 1) + 1 = m + 2 /\ m + 2 \in Nat \ {0}
      OBVIOUS
    <2>2. Pos(m + 2) + Hdr <= Words
      BY EntriesFit
    <2>3. t \in Nat /\ Pos((m + 1) + 1) = t + Hdr + n /\ Pos(m + 2) \in Nat
      BY <2>1, PosIs
    <2>4. Words \in Nat /\ Hdr \in Nat /\ 0 < Hdr /\ n \in Nat
      BY Addresses, SizeAssumption
    <2> QED BY <2>1, <2>2, <2>3, <2>4
  <1>2. Sound(h, A, U)
    BY DEF EntriesFree
  <1>3. \A x \in U : x \in Nat /\ x < t
    <2>1. \A i \in 1 .. m : i \in Nat \ {0} /\ m + 1 \in Nat \ {0} /\ i < m + 1
      OBVIOUS
    <2> QED BY <2>1, PosIs DEF EntryBlocks
  <1> HIDE DEF t, U, n
  <1>4. TailAt(t) = A /\ {} \cup TailAt(t) = A
    BY <1>1 DEF TailAt
  <1>5. Grows(h, {}, U, t, n)
    <2>1. t <= Words /\ Words - (t + Hdr + n) \notin 1 .. Hdr - 1
      BY <1>1
    <2>2. \A x \in {} \cup U : x < t
      BY <1>3
    <2> QED BY <1>1, <1>2, <1>4, <2>1, <2>2 DEF Grows
  <1>6. h.size[t] >= n
    <2>1. t \in A \cup U /\ Words \in A \cup U \cup {Words} /\ t < Words
      BY <1>1
    <2>2. \A z \in A \cup U : z <= t \/ Words <= z
      BY <1>1, <1>3
    <2> HIDE DEF A
    <2>3. After(h, t) = Words
      BY <1>2, <2>1, <2>2, NextBlock
    <2>4. h.size[t] \in Nat
      <3>1. t \in Addr /\ h \in HeapType
        BY <1>2, <2>1, SoundFacts
      <3> QED BY <3>1 DEF HeapType
    <2>5. t + Hdr + h.size[t] = Words
      BY <2>3 DEF After
    <2> QED BY <1>1, <2>4, <2>5
  <1>7. FirstFit(h, n) # Null
    <2>1. h \in HeapType /\ Listed(h.next, h.prev, h.available, A) /\ A \subseteq Addr /\ Disjoint(h, A)
      BY <1>2 DEF Sound, TwoLists, Listed, Layout, Disjoint
    <2>2. Apart(A)
      BY <2>1, DisjointApart
    <2>3. Fitting(h, A, n, FirstFit(h, n))
      BY <1>1, <2>1, <2>2, FirstFitIs
    <2>4. t \in A /\ ~(h.size[t] < n)
      <3>1. h.size[t] \in Nat
        BY <2>1 DEF HeapType
      <3> QED BY <1>1, <1>6, <3>1
    <2>5. \A b \in A : b # Null
      BY <2>1, Addresses
    <2> QED BY <2>3, <2>4, <2>5 DEF Fitting
  <1> QED BY <1>5, <1>7 DEF t, U, n

LEMMA AddEntryKeeps ==
  ASSUME IInv, NoSliver, AddEntry
  PROVE  IInv'
  <1> DEFINE m == Len(entries)
             n == EntryWords + Align
             b == FirstFit(h, n)
             p == AlignedPtr(b, Align)
             t == Pos(m + 1)
             U == EntryBlocks(1, m)
             r == Written(Padded(Malloc(h, b, n), b, Align), p, p + EntryWords - 1)
  <1>1. /\ pc = "check" /\ m < MaxEntries /\ logo' = logo /\ held' = held /\ freed' = freed
        /\ UseType /\ EntryInv /\ pc \in EntryPcs /\ m \in Nat /\ freed = 0
    BY DEF AddEntry, IInv, UseType, EntryPcs
  <1>2. Sound(h, EntriesFree(0, m), U)
    <2>1. Sound(h, EntriesFree(freed, m), {Pos(i) : i \in freed + 1 .. m})
      BY <1>1 DEF EntryInv
    <2>2. freed + 1 = 1
      BY <1>1
    <2> QED BY <1>1, <2>1, <2>2 DEF EntryBlocks
  <1>3. Grows(h, {}, U, t, n) /\ b # Null
    BY <1>1, <1>2, RoomForEntry
  <1>4. h' = r /\ entries' = Append(entries, p) /\ pc' = pc
    BY <1>3 DEF AddEntry
  <1>5. /\ p = AlignedPtr(t, Align) /\ p \in Nat
        /\ Sound(h', {} \cup TailAt(t + Hdr + n), U \cup {t})
        /\ Keeps(h, h', U) /\ Owns(h', t, p)
    <2>1. b = FirstFit(h, EntryWords + Align) /\ p = AlignedPtr(b, Align)
      OBVIOUS
    <2>2. h' = Written(Padded(Malloc(h, b, n), b, Align), p, p + EntryWords - 1)
      BY <1>4
    <2> HIDE DEF p, t, U, r
    <2> QED BY <1>3, <2>1, <2>2, SizeAssumption, AlignedStep
  <1> HIDE DEF p, t, U, r, b
  <1>6. /\ entries \in Seq(Nat) /\ entries' \in Seq(Nat) /\ Len(entries') = m + 1
        /\ \A i \in 1 .. m : entries'[i] = entries[i]
        /\ entries'[m + 1] = p
    BY <1>1, <1>4, <1>5 DEF UseType
  <1>7. Sound(h', EntriesFree(0, m + 1), EntryBlocks(1, m + 1))
    <2>1. t + Hdr + n = Pos(m + 2) /\ Pos(m + 2) < Words
      <3>1. m + 1 \in Nat \ {0} /\ (m + 1) + 1 = m + 2 /\ m + 2 \in Nat \ {0}
        BY <1>1
      <3>2. Pos(m + 2) + Hdr <= Words
        BY <1>1, EntriesFit
      <3> QED BY <3>1, <3>2, PosIs, Addresses DEF t
    <2>2. {} \cup TailAt(t + Hdr + n) = EntriesFree(0, m + 1)
      <3>1. (m + 1) + 1 = m + 2
        BY <1>1
      <3> QED BY <2>1, <3>1 DEF TailAt, EntriesFree
    <2>3. U \cup {t} = EntryBlocks(1, m + 1)
      <3>1. 1 .. m + 1 = (1 .. m) \cup {m + 1}
        BY <1>1
      <3> QED BY <3>1 DEF U, t, EntryBlocks
    <2> QED BY <1>5, <2>2, <2>3
  <1>8. UseType'
    BY <1>1, <1>4, <1>6 DEF UseType
  <1>9. LogoInv'
    BY <1>1, <1>4 DEF LogoInv, LogoPcs
  <1>10. EntryInv'
    <2>1. /\ \A x \in Names : held'[x] = Null
          /\ Len(entries') <= MaxEntries /\ freed' <= Len(entries')
      BY <1>1, <1>6, SizeAssumption DEF EntryInv
    <2>2. Sound(h', EntriesFree(freed', Len(entries')), {Pos(i) : i \in freed' + 1 .. Len(entries')})
      <3>1. freed' + 1 = 1 /\ freed' = 0
        BY <1>1
      <3> QED BY <1>6, <1>7, <3>1 DEF EntryBlocks
    <2>3. \A i \in 1 .. m + 1 : i \in 1 .. m \/ i = m + 1
      BY <1>1
    <2>4. \A i \in 1 .. Len(entries') : entries'[i] = AlignedPtr(Pos(i), Align)
      <3>1. \A i \in 1 .. m : entries[i] = AlignedPtr(Pos(i), Align)
        BY <1>1 DEF EntryInv
      <3> QED BY <1>5, <1>6, <2>3, <3>1 DEF t
    <2>5. \A i \in freed' + 1 .. Len(entries') : Owns(h', Pos(i), entries'[i])
      <3>1. ASSUME NEW i \in 1 .. m
            PROVE  Owns(h', Pos(i), entries'[i])
        <4>1. Owns(h, Pos(i), entries[i])
          BY <1>1 DEF EntryInv
        <4>2. Pos(i) \in U /\ entries[i] \in Nat
          BY <1>6 DEF U, EntryBlocks
        <4> QED BY <1>5, <1>6, <4>1, <4>2 DEF Keeps
      <3>2. Owns(h', Pos(m + 1), entries'[m + 1])
        BY <1>5, <1>6 DEF t
      <3> QED BY <1>1, <1>6, <2>3, <3>1, <3>2
    <2>6. pc' \notin {"open", "file"}
      BY <1>1, <1>4
    <2> QED BY <2>1, <2>2, <2>4, <2>5, <2>6 DEF EntryInv
  <1> QED BY <1>8, <1>9, <1>10 DEF IInv

\* The blocks still in use are behind those that were freed.
LEMMA EntryBlocksAre ==
  ASSUME NEW k \in Nat, NEW m \in Nat, k < m
  PROVE  /\ Pos(k + 1) \in EntryBlocks(k + 1, m)
         /\ EntryBlocks(k + 1, m) \ {Pos(k + 1)} = EntryBlocks(k + 2, m)
         /\ \A x \in EntryBlocks(k + 1, m) : x \in Nat /\ Pos(k + 1) <= x /\ x < Pos(m + 1)
         /\ \A x \in EntryBlocks(k + 2, m) : Pos(k + 2) <= x
         /\ k + 1 < m => Pos(k + 2) \in EntryBlocks(k + 2, m)
         /\ k + 1 = m => EntryBlocks(k + 2, m) = {}
  <1>1. ASSUME NEW a \in Nat \ {0}, NEW x \in EntryBlocks(a, m)
        PROVE  x \in Nat /\ Pos(a) <= x /\ x < Pos(m + 1)
    <2>1. PICK i \in a .. m : x = Pos(i)
      BY DEF EntryBlocks
    <2>2. /\ i \in Nat \ {0} /\ m + 1 \in Nat \ {0} /\ i < m + 1
          /\ a < i \/ a = i
      BY <2>1
    <2>3. Pos(i) \in Nat /\ Pos(a) \in Nat /\ Pos(i) < Pos(m + 1)
      BY <2>2, PosIs
    <2>4. Pos(a) < Pos(i) \/ Pos(a) = Pos(i)
      BY <2>2, PosIs
    <2> QED BY <2>1, <2>3, <2>4
  <1>2. k + 1 \in Nat \ {0} /\ k + 2 \in Nat \ {0} /\ k + 1 \in k + 1 .. m
    OBVIOUS
  <1>3. Pos(k + 1) \in EntryBlocks(k + 1, m)
    BY <1>2 DEF EntryBlocks
  <1>4. EntryBlocks(k + 1, m) \ {Pos(k + 1)} = EntryBlocks(k + 2, m)
    <2>1. \A i \in k + 2 .. m : i \in k + 1 .. m /\ i \in Nat \ {0} /\ k + 1 < i
      OBVIOUS
    <2>2. \A i \in k + 2 .. m : Pos(i) # Pos(k + 1)
      <3>1. \A i \in k + 2 .. m : Pos(k + 1) \in Nat /\ Pos(i) \in Nat /\ Pos(k + 1) < Pos(i)
        BY <1>2, <2>1, PosIs
      <3> QED BY <3>1
    <2>3. \A i \in k + 1 .. m : i = k + 1 \/ i \in k + 2 .. m
      OBVIOUS
    <2> QED BY <2>1, <2>2, <2>3 DEF EntryBlocks
  <1>5. k + 1 < m => Pos(k + 2) \in EntryBlocks(k + 2, m)
    <2>1. k + 1 < m => k + 2 \in k + 2 .. m
      OBVIOUS
    <2> QED BY <2>1 DEF EntryBlocks
  <1>6. k + 1 = m => EntryBlocks(k + 2, m) = {}
    <2>1. k + 1 = m => \A i \in k + 2 .. m : FALSE
      OBVIOUS
    <2> QED BY <2>1 DEF EntryBlocks
  <1> QED BY <1>1, <1>2, <1>3, <1>4, <1>5, <1>6

\* The first entry is freed.
LEMMA FirstEntryFreed ==
  ASSUME NEW m \in Nat, 0 < m, Sound(h, EntriesFree(0, m), EntryBlocks(1, m))
  PROVE  Released(h, FreeNode(h, Pos(1)), EntriesFree(1, m), EntryBlocks(2, m))
  <1> DEFINE t == Pos(m + 1)
             A == {t}
             U == EntryBlocks(1, m)
             V == EntryBlocks(2, m)
             n == Pos(1)
  <1>1. n = 0 /\ t \in Nat /\ n \in U
    <2>1. m + 1 \in Nat \ {0}
      OBVIOUS
    <2> QED BY <2>1, PosIs, EntryBlocksAre
  <1>2. /\ U \ {n} = V
        /\ \A x \in U : x \in Nat /\ n <= x /\ x < t
        /\ \A x \in V : Pos(2) <= x
        /\ 1 < m => Pos(2) \in V
        /\ 1 = m => V = {}
    <2>1. 0 + 1 = 1 /\ 0 + 2 = 2
      OBVIOUS
    <2> QED BY <2>1, EntryBlocksAre
  <1>3. Sound(h, A, U)
    BY DEF EntriesFree
  <1>4. n < t
    BY <1>1, <1>2
  <1>5. n \in A \cup U /\ t \in A \cup U \cup {Words}
    BY <1>1
  <1> HIDE DEF t, U, V, n
  <1>6. CASE m = 1
    <2>1. \A z \in A \cup U : z <= n \/ t <= z
      BY <1>1, <1>2, <1>6
    <2>2. After(h, n) = t
      BY <1>3, <1>4, <1>5, <2>1, NextBlock
    <2>3. Released(h, FreeNode(h, n), {n}, U \ {n})
      <3>1. A \subseteq {After(h, n)}
        BY <2>2
      <3> HIDE DEF A
      <3> QED BY <1>1, <1>3, <3>1, FreeFirst
    <2>4. EntriesFree(1, m) = {n}
      BY <1>1, <1>6 DEF EntriesFree
    <2> QED BY <1>2, <2>3, <2>4 DEF n, V
  <1>7. CASE 1 < m
    <2>1. Pos(2) \in U /\ Pos(2) # n /\ Pos(2) < t /\ Pos(2) \in Nat /\ n < Pos(2)
      <3>1. Pos(2) \in U /\ Pos(2) # n
        BY <1>2, <1>7
      <3>2. Pos(2) \in Nat /\ Pos(2) < t
        BY <1>2, <3>1
      <3>3. Pos(2) > 0
        BY <1>1, <3>1, <3>2
      <3> QED BY <1>1, <3>1, <3>2, <3>3
    <2>2. \A z \in A \cup U : z <= n \/ Pos(2) <= z
      <3>1. \A z \in U : z = n \/ z \in V
        BY <1>2
      <3> QED BY <1>1, <1>2, <2>1, <3>1
    <2>3. Pos(2) \in A \cup U \cup {Words}
      BY <2>1
    <2>4. After(h, n) = Pos(2)
      BY <1>3, <1>5, <2>1, <2>2, <2>3, NextBlock
    <2>5. \A p \in A : After(h, p) # n
      <3>1. After(h, t) \in Nat /\ t < After(h, t)
        BY <1>3, SoundFacts
      <3> QED BY <1>1, <3>1
    <2>6. After(h, n) \notin A
      BY <1>1, <2>1, <2>4
    <2>7. \E a \in A : A = {a}
      OBVIOUS
    <2>8. EntriesFree(1, m) = A \cup {n}
      BY <1>1, <1>7 DEF EntriesFree, t
    <2> HIDE DEF A
    <2>9. Released(h, FreeNode(h, n), A \cup {n}, U \ {n})
      BY <1>1, <1>3, <2>5, <2>6, <2>7, FreeApart
    <2> QED BY <1>2, <2>8, <2>9 DEF n, V
  <1> QED BY <1>6, <1>7

\* A later entry is freed: the free block at 0 ends where it begins.
LEMMA LaterEntryFreed ==
  ASSUME NEW k \in Nat, NEW m \in Nat, 0 < k, k < m,
         Sound(h, EntriesFree(k, m), EntryBlocks(k + 1, m))
  PROVE  Released(h, FreeNode(h, Pos(k + 1)), EntriesFree(k + 1, m), EntryBlocks(k + 2, m))
  <1> DEFINE t == Pos(m + 1)
             A == {0, t}
             U == EntryBlocks(k + 1, m)
             V == EntryBlocks(k + 2, m)
             n == Pos(k + 1)
             q == Pos(k + 2)
  <1>1. /\ n \in U /\ U \ {n} = V
        /\ \A x \in U : x \in Nat /\ n <= x /\ x < t
        /\ \A x \in V : q <= x
        /\ k + 1 < m => q \in V
        /\ k + 1 = m => V = {}
    BY EntryBlocksAre
  <1>2. t \in Nat /\ n \in Nat /\ 0 < n /\ n < t /\ n < q /\ q \in Nat
    <2>1. /\ m + 1 \in Nat \ {0} /\ k + 1 \in Nat \ {0} /\ k + 2 \in Nat \ {0}
          /\ 1 \in Nat \ {0} /\ 1 < k + 1 /\ k + 1 < k + 2
      OBVIOUS
    <2> QED BY <1>1, <2>1, PosIs
  <1>3. Sound(h, A, U) /\ 0 \in A
    BY DEF EntriesFree
  <1> HIDE DEF t, U, V, n, q
  <1>4. After(h, 0) = n
    <2>1. \A z \in A \cup U : z <= 0 \/ n <= z
      BY <1>1, <1>2
    <2>2. 0 \in A \cup U /\ n \in A \cup U \cup {Words} /\ 0 < n
      BY <1>1, <1>2
    <2>3. Sound(h, A, U)
      BY <1>3
    <2> HIDE DEF A
    <2> QED BY <2>1, <2>2, <2>3, NextBlock
  <1>5. CASE k + 1 < m
    <2>1. q \in U /\ q < t
      BY <1>1, <1>5
    <2>2. After(h, n) = q
      <3>1. \A z \in A \cup U : z <= n \/ q <= z
        <4>1. \A z \in U : z = n \/ z \in V
          BY <1>1
        <4> QED BY <1>1, <1>2, <2>1, <4>1
      <3>2. n \in A \cup U /\ q \in A \cup U \cup {Words} /\ n < q
        BY <1>1, <1>2, <2>1
      <3>3. Sound(h, A, U)
        BY <1>3
      <3> HIDE DEF A
      <3> QED BY <3>1, <3>2, <3>3, NextBlock
    <2>3. After(h, n) \notin A
      BY <1>2, <2>1, <2>2
    <2>4. EntriesFree(k + 1, m) = A
      <3>1. k + 1 # 0
        OBVIOUS
      <3> QED BY <1>5, <3>1 DEF EntriesFree, t
    <2> HIDE DEF A
    <2>5. Released(h, FreeNode(h, n), A, U \ {n})
      BY <1>1, <1>3, <1>4, <2>3, FreeBehind
    <2> QED BY <1>1, <2>4, <2>5 DEF n, V
  <1>6. CASE k + 1 = m
    <2>1. After(h, n) = t
      <3>1. \A z \in U : z = n
        BY <1>1, <1>6
      <3>2. \A z \in A \cup U : z <= n \/ t <= z
        BY <1>2, <3>1
      <3>3. n \in A \cup U /\ t \in A \cup U \cup {Words} /\ n < t
        BY <1>1, <1>2
      <3>4. Sound(h, A, U)
        BY <1>3
      <3> HIDE DEF A
      <3> QED BY <3>2, <3>3, <3>4, NextBlock
    <2>2. A \subseteq {0, After(h, n)}
      BY <2>1
    <2>3. EntriesFree(k + 1, m) = {0}
      <3>1. k + 1 # 0 /\ ~(k + 1 < m)
        BY <1>6
      <3> QED BY <3>1 DEF EntriesFree
    <2> HIDE DEF A
    <2>4. Released(h, FreeNode(h, n), {0}, U \ {n})
      BY <1>1, <1>3, <1>4, <2>2, FreeBetween
    <2> QED BY <1>1, <2>3, <2>4 DEF n, V
  <1> QED BY <1>5, <1>6

LEMMA FreeEntryKeeps ==
  ASSUME IInv, FreeEntry
  PROVE  IInv'
  <1> DEFINE k == freed
             m == Len(entries)
             n == Pos(k + 1)
             p == entries[k + 1]
             V == EntryBlocks(k + 2, m)
  <1>1. /\ pc = "freeing" /\ k < m /\ pc' = pc /\ logo' = logo /\ held' = held
        /\ entries' = entries /\ freed' = k + 1 /\ h' = FreeNode(h, HeaderOf(h, p))
    BY DEF FreeEntry
  <1>2. UseType /\ EntryInv /\ pc \in EntryPcs /\ k \in Nat /\ m \in Nat
    BY <1>1 DEF IInv, UseType, EntryPcs
  <1>3. Sound(h, EntriesFree(k, m), EntryBlocks(k + 1, m))
    BY <1>2 DEF EntryInv, EntryBlocks
  <1>4. HeaderOf(h, p) = n
    <2>1. Owns(h, n, p)
      <3>1. k + 1 \in freed + 1 .. Len(entries)
        BY <1>1, <1>2
      <3> QED BY <1>2, <3>1 DEF EntryInv
    <2>2. n \in EntryBlocks(k + 1, m)
      BY <1>1, <1>2, EntryBlocksAre
    <2>3. h \in HeapType /\ n \in Addr
      <3> HIDE DEF n
      <3> QED BY <1>3, <2>2, SoundFacts
    <2> HIDE DEF n, p
    <2> QED BY <2>1, <2>3, HeaderOfIs DEF Owns
  <1>5. Released(h, FreeNode(h, n), EntriesFree(k + 1, m), V)
    <2>1. CASE k = 0
      <3>1. k + 1 = 1 /\ k + 2 = 2
        BY <2>1
      <3>2. Sound(h, EntriesFree(0, m), EntryBlocks(1, m)) /\ 0 < m
        BY <1>1, <1>3, <2>1, <3>1
      <3>3. Released(h, FreeNode(h, Pos(1)), EntriesFree(1, m), EntryBlocks(2, m))
        BY <1>2, <3>2, FirstEntryFreed
      <3> QED BY <3>1, <3>3
    <2>2. CASE 0 < k
      BY <1>1, <1>2, <1>3, <2>2, LaterEntryFreed
    <2> QED BY <1>2, <2>1, <2>2
  <1> HIDE DEF n, V, p
  <1>6. Sound(h', EntriesFree(freed', m), V) /\ Keeps(h, h', V)
    BY <1>1, <1>4, <1>5 DEF Released
  <1>7. UseType'
    BY <1>1, <1>2 DEF UseType
  <1>8. LogoInv'
    BY <1>1 DEF LogoInv, LogoPcs
  <1>9. EntryInv'
    <2>1. /\ \A x \in Names : held'[x] = Null
          /\ Len(entries') <= MaxEntries /\ freed' <= Len(entries')
          /\ \A i \in 1 .. Len(entries') : entries'[i] = AlignedPtr(Pos(i), Align)
      BY <1>1, <1>2 DEF EntryInv
    <2>2. freed' + 1 = k + 2
      BY <1>1, <1>2
    <2>3. Sound(h', EntriesFree(freed', Len(entries')), {Pos(i) : i \in freed' + 1 .. Len(entries')})
      BY <1>1, <1>6, <2>2 DEF V, EntryBlocks
    <2>4. ASSUME NEW i \in freed' + 1 .. Len(entries')
          PROVE  Owns(h', Pos(i), entries'[i])
      <3>1. i \in k + 2 .. m /\ i \in freed + 1 .. Len(entries) /\ i \in 1 .. Len(entries)
        BY <1>1, <1>2, <2>2
      <3>2. Owns(h, Pos(i), entries[i])
        BY <1>2, <3>1 DEF EntryInv
      <3>3. Pos(i) \in V /\ entries[i] \in Nat
        BY <1>2, <3>1 DEF V, EntryBlocks, UseType
      <3> QED BY <1>1, <1>6, <3>2, <3>3 DEF Keeps
    <2>5. pc' \notin {"open", "file"}
      BY <1>1
    <2> QED BY <2>1, <2>3, <2>4, <2>5 DEF EntryInv
  <1> QED BY <1>7, <1>8, <1>9 DEF IInv

LEMMA AllFreedKeeps ==
  ASSUME IInv, AllFreed
  PROVE  IInv'
  <1> DEFINE m == Len(entries)
  <1>1. /\ pc = "freeing" /\ freed = m /\ pc' = "check" /\ entries' = <<>> /\ freed' = 0
        /\ h' = h /\ logo' = logo /\ held' = held
    BY DEF AllFreed
  <1>2. UseType /\ EntryInv /\ pc \in EntryPcs /\ m \in Nat
    BY <1>1 DEF IInv, UseType, EntryPcs
  <1>3. Sound(h, {0}, {})
    <2>1. Sound(h, EntriesFree(m, m), {Pos(i) : i \in m + 1 .. m})
      BY <1>1, <1>2 DEF EntryInv
    <2>2. {Pos(i) : i \in m + 1 .. m} = {}
      <3>1. \A i \in m + 1 .. m : FALSE
        BY <1>2
      <3> QED BY <3>1
    <2>3. EntriesFree(m, m) = {0}
      BY <1>2, NothingHeld DEF EntriesFree
    <2> QED BY <2>1, <2>2, <2>3
  <1>4. Len(entries') = 0 /\ freed' + 1 = 1
    BY <1>1
  <1>5. UseType'
    BY <1>1, <1>2 DEF UseType, EntryPcs
  <1>6. LogoInv'
    BY <1>1 DEF LogoInv, LogoPcs
  <1>7. EntryInv'
    <2>1. Sound(h', EntriesFree(freed', Len(entries')), {Pos(i) : i \in freed' + 1 .. Len(entries')})
      BY <1>1, <1>3, <1>4, NothingHeld
    <2>2. Len(entries') <= MaxEntries /\ freed' <= Len(entries') /\ \A x \in Names : held'[x] = Null
      BY <1>1, <1>2, <1>4, SizeAssumption DEF EntryInv
    <2>3. \A i \in 1 .. 0 : FALSE
      OBVIOUS
    <2> QED BY <1>1, <1>4, <2>1, <2>2, <2>3 DEF EntryInv
  <1> QED BY <1>5, <1>6, <1>7 DEF IInv

\* pmalloc_init and pmalloc_addblock.
LEMMA HeapInitSound == Sound(HeapInit, {0}, {})
  <1> DEFINE g == HeapInit
             N == [a \in Addr |-> IF a = 0 THEN Null ELSE Wild]
             Z == [a \in Addr |-> IF a = 0 THEN Words - Hdr ELSE 0]
  <1>1. 0 \in Addr /\ Words - Hdr \in Nat /\ Words \in Nat /\ Hdr \in Nat
    BY HeapAssumption, Addresses DEF Addr
  <1>2. /\ g.next = N /\ g.prev = N /\ g.size = Z /\ g.available = 0 /\ g.assigned = Null
        /\ g.wild = FALSE /\ g.totalnodes = 1 /\ g.freemem = Words - Hdr
    BY DEF HeapInit
  <1>3. N[0] = Null /\ Z[0] = Words - Hdr
    BY <1>1
  <1>4. g \in HeapType
    <2>1. N \in [Addr -> Addr \cup {Null, Wild}] /\ Z \in [Addr -> Nat]
      BY <1>1
    <2>2. g = [available |-> 0, assigned |-> Null, prev |-> N, next |-> N, size |-> Z,
               magic |-> {}, freemem |-> Words - Hdr, totalnodes |-> 1, wild |-> FALSE]
      BY DEF HeapInit
    <2> HIDE DEF N, Z, g
    <2> QED BY <1>1, <2>1, <2>2 DEF HeapType
  <1> HIDE DEF g, N, Z
  <1>5. TwoLists(g, {0}, {})
    <2>1. Listed(g.next, g.prev, g.available, {0})
      BY <1>1, <1>2, <1>3 DEF Listed, IsFirst, IsNext, IsPrev
    <2>2. Listed(g.next, g.prev, g.assigned, {})
      BY <1>2 DEF Listed, IsFirst
    <2> QED BY <1>2, <1>4, <2>1, <2>2 DEF TwoLists
  <1>6. After(g, 0) = Words
    BY <1>1, <1>2, <1>3 DEF After
  <1>7. Layout(g, {0}, {})
    <2>1. Words \notin {0}
      BY Addresses
    <2> QED BY <1>1, <1>6, <2>1 DEF Layout, Disjoint
  <1>8. Counted(g, {0})
    BY <1>2, <1>3 DEF Counted
  <1>9. g.totalnodes = Cardinality({0} \cup {})
    <2>1. {0} \cup {} = {0}
      OBVIOUS
    <2> QED BY <1>2, <2>1, FS_Singleton
  <1>10. Sound(g, {0}, {})
    BY <1>5, <1>7, <1>8, <1>9 DEF Sound
  <1> QED BY <1>10 DEF g

LEMMA InitHolds ==
  ASSUME Init
  PROVE  IInv
  <1>1. /\ h = HeapInit /\ pc = "open" /\ logo \in Logos /\ held = [n \in Names |-> Null]
        /\ entries = <<>> /\ freed = 0 /\ Len(entries) = 0
    BY DEF Init
  <1>2. UseType
    BY <1>1 DEF UseType, EntryPcs
  <1>3. LogoInv
    BY <1>1 DEF LogoInv, LogoPcs
  <1>4. EntryInv
    <2>1. freed + 1 = 1
      BY <1>1
    <2>2. Sound(h, EntriesFree(freed, Len(entries)), {Pos(i) : i \in freed + 1 .. Len(entries)})
      BY <1>1, <2>1, HeapInitSound, NothingHeld
    <2>3. \A i \in 1 .. 0 : FALSE
      OBVIOUS
    <2> QED BY <1>1, <2>1, <2>2, <2>3, SizeAssumption DEF EntryInv
  <1> QED BY <1>2, <1>3, <1>4 DEF IInv

-----------------------------------------------------------------------------
(* What the invariant says of the heap. *)

\* The logo's file and buffers are held.
LEMMA LogoHeld ==
  ASSUME NEW F, NEW t, NEW i \in Nat \cup {Null}, NEW c \in Nat \cup {Null},
         NEW f \in Nat \cup {Null}, NEW m \in Nat \cup {Null},
         LogoHeap(h, held, F, t, i, c, f, m),
         Owns(h, 0, held["file"]), entries = <<>>, freed = 0
  PROVE  HeapSound
  <1> DEFINE p == held["file"]
             U == LogoUsed(i, c, f, m)
             A == F \cup TailAt(t)
             B == {held[x] - Hdr : x \in {y \in Names \ {"file"} : held[y] # Null}}
  <1>1. Sound(h, A, U) /\ HeldIs(held, i, c, f, m)
    BY DEF LogoHeap, HeldIs
  <1>2. p \in Nat /\ p # Null /\ 0 + Hdr <= p /\ p < After(h, 0)
    <2>1. p \in Nat /\ 0 + Hdr <= p /\ p < After(h, 0)
      BY DEF Owns, Owner
    <2> QED BY <2>1, PtrIs
  <1>3. HeaderOf(h, p) = 0
    <2>1. h \in HeapType /\ 0 \in Addr
      <3>1. 0 \in U
        BY DEF LogoUsed
      <3> HIDE DEF A, U
      <3> QED BY <1>1, <3>1, SoundFacts
    <2>2. Owner(h, 0, p)
      BY DEF Owns
    <2> HIDE DEF p
    <2> QED BY <2>1, <2>2, HeaderOfIs
  <1>4. \A j \in freed + 1 .. Len(entries) : FALSE
    <2>1. Len(entries) = 0
      OBVIOUS
    <2> QED BY <2>1
  <1> HIDE DEF p, A
  <1>5. AlignedPtrs = {p} /\ OwnersFound
    <2>1. AlignedPtrs = {p}
      BY <1>2, <1>4 DEF AlignedPtrs, p
    <2> QED BY <1>2, <1>3, <2>1 DEF OwnersFound
  <1>6. \A x \in Nat \cup {Null} : /\ Ptr(x) = Null <=> x = Null
                                   /\ Ptr(x) # Null => Ptr(x) - Hdr = x /\ Block(x) = {x}
                                   /\ Ptr(x) = Null => Block(x) = {}
    BY PtrIs
  <1>7. B = Block(i) \cup Block(c) \cup Block(f) \cup Block(m)
    <2>1. B = UNION {IF held[x] = Null THEN {} ELSE {held[x] - Hdr} : x \in Names \ {"file"}}
      OBVIOUS
    <2>2. Names \ {"file"} = {"img", "compressed", "inflated", "image"}
      BY DEF Names
    <2>3. /\ (IF held["img"] = Null THEN {} ELSE {held["img"] - Hdr}) = Block(i)
          /\ (IF held["compressed"] = Null THEN {} ELSE {held["compressed"] - Hdr}) = Block(c)
          /\ (IF held["inflated"] = Null THEN {} ELSE {held["inflated"] - Hdr}) = Block(f)
          /\ (IF held["image"] = Null THEN {} ELSE {held["image"] - Hdr}) = Block(m)
      BY <1>1, <1>6 DEF HeldIs
    <2> HIDE DEF B
    <2> QED BY <2>1, <2>2, <2>3
  <1>8. U = HeldBlocks
    <2>1. {HeaderOf(h, x) : x \in {held["file"]} \ {Null}} = {0}
      BY <1>2, <1>3 DEF p
    <2>2. {HeaderOf(h, entries[j]) : j \in freed + 1 .. Len(entries)} = {}
      BY <1>4
    <2>3. HeldBlocks = B \cup {0} \cup {}
      BY <2>1, <2>2 DEF HeldBlocks
    <2> HIDE DEF B
    <2> QED BY <1>7, <2>3 DEF LogoUsed
  <1> HIDE DEF U
  <1> QED BY <1>1, <1>5, <1>8, HeapSoundIs

\* The entries not yet freed are held.
LEMMA EntriesHeld ==
  ASSUME UseType, EntryInv, pc \in EntryPcs
  PROVE  HeapSound
  <1> DEFINE m == Len(entries)
             J == freed + 1 .. m
             A == EntriesFree(freed, m)
             U == {Pos(i) : i \in J}
  <1>1. /\ Sound(h, A, U) /\ \A x \in Names : held[x] = Null
        /\ \A i \in J : Owns(h, Pos(i), entries[i])
    BY DEF EntryInv
  <1>2. \A i \in J : i \in 1 .. m /\ entries[i] \in Nat
    BY DEF UseType
  <1>3. \A i \in J : HeaderOf(h, entries[i]) = Pos(i)
    <2> SUFFICES ASSUME NEW i \in J
                 PROVE  HeaderOf(h, entries[i]) = Pos(i)
      OBVIOUS
    <2>1. Pos(i) \in U /\ Owner(h, Pos(i), entries[i])
      BY <1>1 DEF Owns
    <2> HIDE DEF U, A, J
    <2>2. h \in HeapType /\ Pos(i) \in Addr
      BY <1>1, <2>1, SoundFacts
    <2> QED BY <2>1, <2>2, HeaderOfIs
  <1>4. held["file"] = Null /\ {held["file"]} \ {Null} = {}
    BY <1>1 DEF Names
  <1>5. OwnersFound
    <2>1. AlignedPtrs = {entries[i] : i \in J}
      BY <1>4 DEF AlignedPtrs
    <2>2. \A i \in J : Pos(i) + Hdr <= entries[i] /\ entries[i] < After(h, Pos(i))
      BY <1>1 DEF Owns, Owner
    <2> HIDE DEF J
    <2> QED BY <1>3, <2>1, <2>2 DEF OwnersFound
  <1>6. U = HeldBlocks
    <2>1. {held[n] - Hdr : n \in {y \in Names \ {"file"} : held[y] # Null}} = {}
      BY <1>1
    <2>2. {HeaderOf(h, p) : p \in {held["file"]} \ {Null}} = {}
      BY <1>4
    <2>3. HeldBlocks = {HeaderOf(h, entries[i]) : i \in J}
      BY <2>1, <2>2 DEF HeldBlocks
    <2> HIDE DEF J
    <2> QED BY <1>3, <2>3
  <1> HIDE DEF A, U
  <1> QED BY <1>1, <1>5, <1>6, HeapSoundIs

LEMMA HeapSoundHolds ==
  ASSUME IInv
  PROVE  HeapSound
  <1>1. UseType /\ LogoInv /\ EntryInv
    BY DEF IInv
  <1>2. CASE pc \in EntryPcs
    BY <1>1, <1>2, EntriesHeld
  <1>3. CASE pc \in LogoPcs
    <2> DEFINE l == logo
               i == ImgAt(l)
               c == CompressedAt(l)
               f == InflatedAt(l)
               m == ImageAt(l)
               N == Nat \cup {Null}
    <2>1. i \in N /\ c \in N /\ f \in N /\ m \in N /\ Null \in N
      BY <1>1, PlacesApart DEF UseType
    <2>2. LogoState(l) /\ Owns(h, 0, held["file"]) /\ entries = <<>> /\ freed = 0
      BY <1>1, <1>3 DEF LogoInv, UseType, LogoPcs
    <2>3. \E F, t : \E x, y, z, w \in N : LogoHeap(h, held, F, t, x, y, z, w)
      BY <1>3, <2>1, <2>2 DEF LogoState, LogoPcs, Decoded
    <2> HIDE DEF i, c, f, m, l
    <2> QED BY <2>2, <2>3, LogoHeld
  <1> QED BY <1>1, <1>2, <1>3 DEF UseType

LEMMA EntryInPlaceHolds ==
  ASSUME IInv
  PROVE  EntryInPlace
  <1>1. UseType /\ LogoInv /\ EntryInv
    BY DEF IInv
  <1>2. pc # "crashed"
    BY <1>1 DEF UseType, LogoPcs, EntryPcs
  <1>3. \A i \in 1 .. Len(entries) : entries[i] = AlignedPtr(Pos(i), Align)
    <2>1. CASE pc \in EntryPcs
      BY <1>1, <2>1 DEF EntryInv
    <2>2. CASE pc \in LogoPcs
      <3>1. Len(entries) = 0
        BY <1>1, <2>2 DEF LogoInv
      <3> QED BY <3>1
    <2> QED BY <1>1, <2>1, <2>2 DEF UseType
  <1> QED BY <1>2, <1>3 DEF EntryInPlace, Pos

-----------------------------------------------------------------------------
(* The theorems. *)

\* The invariant that says, for every step of load_cube_logo, upng_decode and the
\* listings, which blocks are free and which are used: every allocation and every
\* release of pmalloc.c that the program makes keeps it.
THEOREM HeapInductive == NoSliver /\ Deflated => (Spec => []IInv)
  <1>1. Init => IInv
    BY InitHolds
  <1>2. ASSUME NoSliver, Deflated, IInv, Next
        PROVE  IInv'
    <2>1. CASE NoLogo \/ OpenLogo \/ StartThread
      BY <1>2, <2>1, NoLogoKeeps
    <2>2. CASE AllocFile
      BY <1>2, <2>2, AllocFileKeeps
    <2>3. CASE AllocImg
      BY <1>2, <2>3, AllocImgKeeps
    <2>4. CASE BadHeader
      BY <1>2, <2>4, BadHeaderKeeps
    <2>5. CASE AllocCompressed
      BY <1>2, <2>5, AllocCompressedKeeps
    <2>6. CASE AllocInflated
      BY <1>2, <2>6, AllocInflatedKeeps
    <2>7. CASE FreeCompressedNoMem
      BY <1>2, <2>7, FreeCompressedNoMemKeeps
    <2>8. CASE InflateFails \/ Inflated
      BY <1>2, <2>8, InflateKeeps
    <2>9. CASE AllocImage
      BY <1>2, <2>9, AllocImageKeeps
    <2>10. CASE FreeInflated
      BY <1>2, <2>10, FreeInflatedKeeps
    <2>11. CASE BadImage \/ FreeImage
      BY <1>2, <2>11, FreeImageKeeps
    <2>12. CASE FreeImg
      BY <1>2, <2>12, FreeImgKeeps
    <2>13. CASE FreeFile
      BY <1>2, <2>13, FreeFileKeeps
    <2>14. CASE AddEntry
      BY <1>2, <2>14, AddEntryKeeps
    <2>15. CASE FreeEntry
      BY <1>2, <2>15, FreeEntryKeeps
    <2>16. CASE AllFreed
      BY <1>2, <2>16, AllFreedKeeps
    <2> QED BY <1>2, <2>1, <2>2, <2>3, <2>4, <2>5, <2>6, <2>7, <2>8, <2>9, <2>10, <2>11,
               <2>12, <2>13, <2>14, <2>15, <2>16 DEF Next
  <1>3. ASSUME IInv, UNCHANGED vars
        PROVE  IInv'
    BY <1>3 DEF vars, IInv, UseType, LogoInv, LogoState, Decoded, EntryInv
  <1>4. ASSUME NoSliver, Deflated
        PROVE  IInv /\ [Next]_vars => IInv'
    BY <1>2, <1>3, <1>4
  <1>5. SUFFICES ASSUME NoSliver, Deflated
                 PROVE  Spec => []IInv
    OBVIOUS
  <1>6. IInv /\ [Next]_vars => IInv'
    BY <1>4, <1>5
  <1> QED BY <1>1, <1>6, PTL DEF Spec

\* Whatever the sizes of the buffers and of the listings: the two lists of pmalloc.c stay
\* ordered, linked both ways and merged, they tile the memory, the used blocks are those
\* the program holds, pmalloc_freealign finds them, and freemem and totalnodes are exact.
THEOREM HeapStaysSound == NoSliver /\ Deflated => (Spec => []HeapSound)
  <1> SUFFICES ASSUME NoSliver, Deflated
               PROVE  Spec => []HeapSound
    OBVIOUS
  <1>1. Spec => []IInv
    BY HeapInductive
  <1>2. IInv => HeapSound
    BY HeapSoundHolds
  <1> QED BY <1>1, <1>2, PTL

\* The allocations of gm_check_files never fail, and the i-th entry of every listing is
\* where the i-th entry of the one before it was.
THEOREM EntriesStayInPlace == NoSliver /\ Deflated => (Spec => []EntryInPlace)
  <1> SUFFICES ASSUME NoSliver, Deflated
               PROVE  Spec => []EntryInPlace
    OBVIOUS
  <1>1. Spec => []IInv
    BY HeapInductive
  <1>2. IInv => EntryInPlace
    BY EntryInPlaceHolds
  <1> QED BY <1>1, <1>2, PTL
=============================================================================
