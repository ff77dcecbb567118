---------------------------- MODULE AssetsProofs ----------------------------
(***************************************************************************)
(* The banners and their buffers, under a user who leaves alone the lines  *)
(* that are on their way to or from ARAM (Patient) while other transfers   *)
(* and the listing go on, for every number of games, lines and buffers.    *)
(***************************************************************************)
EXTENDS Assets, ArqProofs

-----------------------------------------------------------------------------
(* The queue: which requests are in flight. *)

CallSet == {"setup", "unload", "load", NoCall}

Fly(a) == Elements(LoOf(a))

\* Only low priority requests are posted.
QueueOk(a) == Represents(CallSet, a, <<>>, LoOf(a)) /\ Busy(a, <<>>, LoOf(a))

-----------------------------------------------------------------------------
(* The invariant. *)

TypeOK ==
  /\ pc \in {"starting", "decide", "pick", "take", "publish", "done"}
  /\ force \in BOOLEAN /\ leaving \in BOOLEAN
  /\ picked \in Buffers \cup {NoBuf}
  /\ count \in Nat /\ skipped \in Nat /\ count + skipped <= N
  /\ pc \in {"pick", "take", "publish"} => count + skipped < N
  /\ top \in Nat /\ lines \in Nat
  /\ todo \in Seq({"load", "free"} \X Banners)
  /\ state \in [Banners -> {"NONE", "SETUP", "UNLOADING", "UNLOADED", "LOADING", "LOADED"}]
  /\ buf \in [Banners -> Buffers \cup {NoBuf}]
  /\ used \in [Buffers -> BOOLEAN]
  /\ pixels \in [Buffers -> 0 .. N]

\* A callback finds its banner in the state it was posted in.
Matches(call, s) ==
  \/ call = "setup" /\ s = "SETUP"
  \/ call = "unload" /\ s = "UNLOADING"
  \/ call = "load" /\ s = "LOADING"

FlightInv ==
  /\ \A b \in Fly(arq) : b \in Banners /\ Matches(arq.callback[b], state[b])
  /\ \A b \in Banners : state[b] \in {"SETUP", "UNLOADING"} => b \in Fly(arq)

\* Banner b needs its buffer.
Held(b) == b \in Fly(arq) \/ state[b] = "LOADED"

\* The buffers of the pool that are used are those of banners, one each.  While the
\* entries of a listing are freed, one that was left in ARAM gives back the buffer it had
\* once, which can be the buffer of an entry that is still to be freed.
PoolInv ==
  /\ \A b \in Banners : Held(b) => buf[b] \in Buffers /\ (pc # "starting" => used[buf[b]])
  /\ \A k \in Buffers : used[k] => \E b \in Banners : Held(b) /\ buf[b] = k
  /\ \A b, c \in Banners : Held(b) /\ Held(c) /\ buf[b] = buf[c] => b = c
  /\ \A b \in Banners : state[b] \in {"SETUP", "LOADED"} => pixels[buf[b]] = b

\* The entry exists, for the enumeration thread.
Made(b) == b < count \/ (b = count /\ pc = "publish")

Due(op, b) == \E k \in 1 .. Len(todo) : todo[k] = <<op, b>>

\* gm_check_files had no room for banner b: it is on its way to ARAM, or is there and
\* still points to the buffer it has given back.
Cold(b) == state[b] = "UNLOADING" \/ (state[b] = "UNLOADED" /\ buf[b] # NoBuf)

\* The first line below those kept loaded around screen t.
Below(t) == t + Rows + Preload

\* The enumeration thread: the buffer it has looked up is free until it takes it, only
\* entries that it has made have a buffer, all of them are freed before it starts anew,
\* and what it leaves in ARAM is below the screen, wherever the user has moved.
EnumInv ==
  /\ pc = "take" => picked \in Buffers /\ ~used[picked] /\ todo = <<>>
  /\ \A b \in Banners : Held(b) \/ Cold(b) => IF pc = "starting" THEN Due("free", b) ELSE Made(b)
  /\ pc \in {"pick", "take"} /\ force => LineOf(count) >= Below(top)
  /\ pc \notin {"starting", "done"} /\ top # 0 => Below(top) * PerLine <= count

\* The menu: it acts on entries at rest, and on each once.
MenuInv ==
  /\ leaving => pc # "starting" /\ todo = <<>>
  /\ pc = "starting" => Fly(arq) = {} /\ \A k \in 1 .. Len(todo) : todo[k][1] = "free"
  /\ \A k \in 1 .. Len(todo) : todo[k][2] \notin Fly(arq) /\ todo[k][2] < count
  /\ \A j, k \in 1 .. Len(todo) : todo[j][2] = todo[k][2] => j = k

\* The grid has a line for every entry, and for those still to come.
GridInv ==
  /\ pc = "done" => count <= lines * PerLine
  /\ pc \notin {"starting", "done"} => N <= lines * PerLine

InWindow(b, t) == LineOf(b) + Preload >= t + 1 /\ LineOf(b) < Below(t)

\* gm_banner_free gives back the buffer that an UNLOADED banner points to, whoever holds
\* it by now: those that point to one are below the window, and no line of the window is
\* freed.  What is in the window is there or on its way.
WindowInv ==
  pc # "starting" =>
    \A b \in Banners :
      /\ Cold(b) => (LineOf(b) >= Below(top) \/ Due("load", b)) /\ ~Due("free", b)
      /\ Due("free", b) => ~InWindow(b, top)
      /\ Made(b) /\ InWindow(b, top) /\ state[b] \in {"UNLOADED", "UNLOADING"} => Due("load", b)

\* With a buffer for every banner, a load that was asked for has one.
ServedInv ==
  N <= BufferCount =>
    \A b \in Banners : state[b] = "LOADING" => b \in Fly(arq) \/ (b = count /\ pc = "take")

Inv == TypeOK /\ QueueOk(arq) /\ FlightInv /\ PoolInv /\ EnumInv /\ MenuInv /\ GridInv
       /\ WindowInv /\ ServedInv

-----------------------------------------------------------------------------
(* What happens to the requests in flight. *)

\* Who holds the queue's record reads its sequence off it.
LEMMA QueueIs ==
  ASSUME NEW a, NEW L, Represents(CallSet, a, <<>>, L), Busy(a, <<>>, L)
  PROVE  QueueOk(a) /\ Fly(a) = Elements(L)
  <1>1. LoOf(a) = L
    BY InOrderIs
  <1> QED BY <1>1 DEF QueueOk, Fly

LEMMA FlyTypes ==
  ASSUME NEW a, QueueOk(a)
  PROVE  /\ a \in ArqRecord(CallSet) /\ a.callback \in [Tasks -> CallSet]
         /\ LoOf(a) \in Seq(Tasks) /\ Len(LoOf(a)) \in Nat /\ Fly(a) \subseteq Tasks
         /\ \A b \in Fly(a) : a.callback[b] # NoCall
  <1>1. LoOf(a) \in Seq(Tasks) /\ \A k \in 1 .. Len(LoOf(a)) : a.callback[LoOf(a)[k]] # NoCall
    BY DEF QueueOk, Represents, QueueOf
  <1>2. \A k \in 1 .. Len(LoOf(a)) : LoOf(a)[k] \in Tasks
    BY <1>1
  <1>3. a \in ArqRecord(CallSet) /\ a.callback \in [Tasks -> CallSet]
    BY DEF QueueOk, Represents, ArqRecord
  <1> QED BY <1>1, <1>2, <1>3 DEF Fly, Elements

\* Nothing is in flight when the engine is idle.
LEMMA FlyIdle ==
  ASSUME NEW a, QueueOk(a), Idle(a)
  PROVE  Fly(a) = {}
  BY DEF QueueOk, Busy, Fly, Elements

LEMMA FlyInit ==
  QueueOk(ArqInit) /\ Fly(ArqInit) = {}
  <1>1. ArqInit \in ArqRecord(CallSet)
    BY DEF ArqInit, ArqRecord, CallSet
  <1>2. QueueOf(ArqInit.next, NoTask, NoTask, NoTask, <<>>)
    BY DEF QueueOf, Distinct, Under
  <1>3. Represents(CallSet, ArqInit, <<>>, <<>>)
    BY <1>1, <1>2 DEF Represents, ArqInit
  <1>4. Busy(ArqInit, <<>>, <<>>)
    BY DEF Busy
  <1>5. QueueOk(ArqInit) /\ Fly(ArqInit) = Elements(<<>>)
    BY <1>3, <1>4, QueueIs
  <1> QED BY <1>5 DEF Elements

LEMMA FlyAbsent ==
  ASSUME NEW a, NEW t, t \notin Fly(a)
  PROVE  Absent(t, <<>>) /\ Absent(t, LoOf(a))
  BY DEF Fly, Elements, Absent

LEMMA FlyPost ==
  ASSUME NEW a, QueueOk(a), NEW t \in Tasks, t \notin Fly(a),
         NEW call \in CallSet, call # NoCall
  PROVE  /\ QueueOk(PostRequest(a, t, "low", call))
         /\ Fly(PostRequest(a, t, "low", call)) = Fly(a) \cup {t}
         /\ PostRequest(a, t, "low", call).callback = [a.callback EXCEPT ![t] = call]
  <1> DEFINE b == PostRequest(a, t, "low", call)
             L == LoOf(a)
             T == Append(L, t)
  <1>1. Absent(t, <<>>) /\ Absent(t, L) /\ Represents(CallSet, a, <<>>, L)
    BY FlyAbsent DEF QueueOk
  <1>2. L \in Seq(Tasks) /\ Len(L) \in Nat /\ Fly(a) = Elements(L)
    BY FlyTypes DEF Fly
  <1> HIDE DEF L
  <1>3. /\ Represents(CallSet, b, <<>>, T) /\ Busy(b, <<>>, T)
        /\ b.callback = [a.callback EXCEPT ![t] = call]
    BY <1>1, PostsLo
  <1> HIDE DEF b
  <1>4. Elements(T) = Elements(L) \cup {t}
    <2>1. /\ Len(T) = Len(L) + 1 /\ T[Len(L) + 1] = t
          /\ \A k \in 1 .. Len(L) : T[k] = L[k]
      BY <1>2
    <2>2. Elements(T) \subseteq Elements(L) \cup {t}
      BY <1>2, <2>1 DEF Elements
    <2>3. Elements(L) \subseteq Elements(T)
      BY <1>2, <2>1 DEF Elements
    <2>4. t \in Elements(T)
      BY <1>2, <2>1 DEF Elements
    <2> QED BY <2>2, <2>3, <2>4
  <1> HIDE DEF T
  <1>5. QueueOk(b) /\ Fly(b) = Elements(T)
    BY <1>3, QueueIs
  <1> QED BY <1>2, <1>3, <1>4, <1>5 DEF b

\* The fields of a request that is not in flight are set.
LEMMA FlyReset ==
  ASSUME NEW a, QueueOk(a), NEW t \in Tasks, t \notin Fly(a)
  PROVE  /\ QueueOk(WithFields(a, t, 0, NoCall))
         /\ Fly(WithFields(a, t, 0, NoCall)) = Fly(a)
         /\ WithFields(a, t, 0, NoCall).callback = [a.callback EXCEPT ![t] = NoCall]
  <1> DEFINE n == 0
             call == NoCall
             b == WithFields(a, t, n, call)
             H == <<>>
             L == LoOf(a)
  <1>1. Absent(t, H) /\ Absent(t, L) /\ Represents(CallSet, a, H, L) /\ Busy(a, H, L)
    BY FlyAbsent DEF QueueOk
  <1>2. call \in CallSet /\ n \in Nat
    BY DEF CallSet
  <1> HIDE DEF H, L, n, call
  <1>3. /\ Represents(CallSet, WithFields(a, t, n, call), H, L)
        /\ WithFields(a, t, n, call).callback = [a.callback EXCEPT ![t] = call]
        /\ WithFields(a, t, n, call).pendingHi = a.pendingHi
        /\ WithFields(a, t, n, call).pendingLo = a.pendingLo
    BY <1>1, <1>2, FieldsSet
  <1> HIDE DEF b
  <1>4. Busy(b, H, L)
    BY <1>1, <1>3 DEF Busy, Idle, b
  <1>5. QueueOk(b) /\ Fly(b) = Elements(L)
    BY <1>3, <1>4, QueueIs DEF b, H
  <1> QED BY <1>3, <1>5 DEF b, L, Fly, n, call

LEMMA FlyInterrupt ==
  ASSUME NEW a, QueueOk(a)
  PROVE  /\ QueueOk(InterruptServiceRoutine(a))
         /\ InterruptServiceRoutine(a).callback = a.callback
         /\ \/ /\ Fired(a) = <<NoTask, NoCall>>
               /\ Fly(InterruptServiceRoutine(a)) = Fly(a)
            \/ \E t \in Fly(a) :
                 /\ Fired(a) = <<t, a.callback[t]>>
                 /\ Fly(InterruptServiceRoutine(a)) = Fly(a) \ {t}
  <1> DEFINE b == InterruptServiceRoutine(a)
             L == LoOf(a)
             H == <<>>
  <1>1. Represents(CallSet, a, H, L) /\ NoCall \in CallSet
    BY DEF QueueOk, CallSet
  <1>2. L \in Seq(Tasks) /\ Len(L) \in Nat /\ Fly(a) = Elements(L) /\ Distinct(L)
    BY FlyTypes DEF Fly, QueueOk, Represents, QueueOf
  <1>3. Len(H) = 0
    OBVIOUS
  <1> HIDE DEF L, H
  <1>4. /\ InterruptServiceRoutine(a).callback = a.callback
        /\ \/ /\ Len(H) > 0 /\ Fired(a) = <<H[1], a.callback[H[1]]>>
              /\ Represents(CallSet, InterruptServiceRoutine(a), Tail(H), L)
              /\ Busy(InterruptServiceRoutine(a), Tail(H), L)
           \/ /\ Len(L) > 0 /\ Fired(a) = <<L[1], a.callback[L[1]]>>
              /\ Represents(CallSet, InterruptServiceRoutine(a), H, Tail(L))
              /\ Busy(InterruptServiceRoutine(a), H, Tail(L))
           \/ /\ Fired(a) = <<NoTask, NoCall>>
              /\ Represents(CallSet, InterruptServiceRoutine(a), H, L)
              /\ Busy(InterruptServiceRoutine(a), H, L)
    BY <1>1, Interrupts
  <1>5. /\ b.callback = a.callback
        /\ \/ /\ Len(L) > 0 /\ Fired(a) = <<L[1], a.callback[L[1]]>>
              /\ Represents(CallSet, b, H, Tail(L)) /\ Busy(b, H, Tail(L))
           \/ /\ Fired(a) = <<NoTask, NoCall>>
              /\ Represents(CallSet, b, H, L) /\ Busy(b, H, L)
    BY <1>3, <1>4
  <1> HIDE DEF b
  <1>6. CASE /\ Len(L) > 0 /\ Fired(a) = <<L[1], a.callback[L[1]]>>
             /\ Represents(CallSet, b, H, Tail(L)) /\ Busy(b, H, Tail(L))
    <2> DEFINE T == Tail(L)
    <2>1. /\ 1 \in 1 .. Len(L) /\ Len(T) = Len(L) - 1
          /\ \A k \in 1 .. Len(T) : T[k] = L[k + 1] /\ k + 1 \in 1 .. Len(L) /\ k + 1 # 1
      BY <1>2, <1>6
    <2>2. Represents(CallSet, b, H, T) /\ Busy(b, H, T)
      BY <1>6
    <2> HIDE DEF T
    <2>3. QueueOk(b) /\ Fly(b) = Elements(T)
      BY <2>2, QueueIs DEF H
    <2>4. Elements(T) = Elements(L) \ {L[1]}
      <3>1. Elements(T) \subseteq Elements(L) \ {L[1]}
        BY <1>2, <2>1 DEF Elements, Distinct
      <3>2. ASSUME NEW k \in 1 .. Len(L), L[k] # L[1]
            PROVE  L[k] \in Elements(T)
        <4>1. k # 1
          BY <3>2
        <4>2. k - 1 \in 1 .. Len(T) /\ T[k - 1] = L[k]
          BY <1>2, <2>1, <4>1
        <4> QED BY <4>2 DEF Elements
      <3> QED BY <3>1, <3>2 DEF Elements
    <2>5. L[1] \in Fly(a)
      BY <1>2, <2>1 DEF Elements
    <2> QED BY <1>2, <1>5, <1>6, <2>3, <2>4, <2>5 DEF b
  <1>7. CASE /\ Fired(a) = <<NoTask, NoCall>>
             /\ Represents(CallSet, b, H, L) /\ Busy(b, H, L)
    <2>1. QueueOk(b) /\ Fly(b) = Elements(L)
      BY <1>7, QueueIs DEF H
    <2> QED BY <1>2, <1>5, <1>7, <2>1 DEF b
  <1> QED BY <1>5, <1>6, <1>7

-----------------------------------------------------------------------------
(* Lines. *)

LEMMA DivIs ==
  ASSUME NEW b \in Nat, NEW l \in Int
  PROVE  /\ LineOf(b) \in Nat
         /\ LineOf(b) = l <=> l * PerLine <= b /\ b < l * PerLine + PerLine
  <1>1. PerLine \in Nat \ {0}
    BY AssetsAssumption
  <1> DEFINE q == b \div PerLine
  <1>2. q \in Nat /\ q * PerLine <= b /\ b < q * PerLine + PerLine
    BY <1>1
  <1>3. ASSUME l * PerLine <= b, b < l * PerLine + PerLine
        PROVE  q = l
    <2>1. CASE l < q
      <3>1. l + 1 <= q
        BY <1>2, <2>1
      <3>2. (l + 1) * PerLine <= q * PerLine
        BY <1>1, <1>2, <3>1
      <3>3. (l + 1) * PerLine = l * PerLine + PerLine
        BY <1>1
      <3> QED BY <1>1, <1>2, <1>3, <3>2, <3>3
    <2>2. CASE q < l
      <3>1. q + 1 <= l
        BY <1>2, <2>2
      <3>2. (q + 1) * PerLine <= l * PerLine
        BY <1>1, <1>2, <3>1
      <3>3. (q + 1) * PerLine = q * PerLine + PerLine
        BY <1>1, <1>2
      <3> QED BY <1>1, <1>2, <1>3, <3>2, <3>3
    <2> QED BY <1>2, <2>1, <2>2
  <1> QED BY <1>2, <1>3 DEF LineOf

\* The entries of a line are consecutive.
LEMMA LineIs ==
  ASSUME count \in Nat, count <= N, NEW l \in Nat
  PROVE  /\ Cardinality(Line(l)) \in Nat
         /\ \A k \in 1 .. Cardinality(Line(l)) :
              /\ l * PerLine + k - 1 \in Banners /\ l * PerLine + k - 1 < count
              /\ LineOf(l * PerLine + k - 1) = l
         /\ \A b \in Banners : b < count /\ LineOf(b) = l =>
              /\ b - l * PerLine + 1 \in 1 .. Cardinality(Line(l))
              /\ l * PerLine + (b - l * PerLine + 1) - 1 = b
  <1> DEFINE s == l * PerLine
             e == IF count < s + PerLine THEN count - 1 ELSE s + PerLine - 1
  <1>1. PerLine \in Nat \ {0} /\ N \in Nat /\ s \in Nat /\ e \in Int
    BY AssetsAssumption
  <1>2. \A b \in Nat : LineOf(b) = l <=> s <= b /\ b < s + PerLine
    BY DivIs
  <1> HIDE DEF s
  <1>3. Line(l) = s .. e
    <2>1. \A b \in Line(l) : b \in s .. e
      BY <1>1, <1>2 DEF Line, Banners
    <2>2. \A b \in s .. e : b \in Line(l)
      BY <1>1, <1>2 DEF Line, Banners
    <2> QED BY <2>1, <2>2
  <1>4. Cardinality(Line(l)) = IF s > e THEN 0 ELSE e - s + 1
    BY <1>1, <1>3, FS_Interval
  <1>5. Cardinality(Line(l)) \in Nat
    BY <1>1, <1>4
  <1>6. \A k \in 1 .. Cardinality(Line(l)) : s + k - 1 \in s .. e
    BY <1>1, <1>4
  <1>7. \A b \in s .. e : b \in Banners /\ b < count /\ LineOf(b) = l
    BY <1>3 DEF Line
  <1>8. \A b \in Banners : b < count /\ LineOf(b) = l => b \in s .. e
    BY <1>3 DEF Line
  <1>9. \A b \in s .. e : b - s + 1 \in 1 .. Cardinality(Line(l)) /\ s + (b - s + 1) - 1 = b
    BY <1>1, <1>4
  <1> QED BY <1>5, <1>6, <1>7, <1>8, <1>9 DEF s

\* c calls op for the entries of line l if x, and does nothing otherwise.
IsCalls(c, op, l, x) ==
  /\ c \in Seq({"load", "free"} \X Banners)
  /\ \A k \in 1 .. Len(c) :
       /\ x /\ c[k] = <<op, c[k][2]>> /\ c[k][1] = op /\ c[k][2] = l * PerLine + k - 1
       /\ c[k][2] \in Banners /\ c[k][2] < count /\ LineOf(c[k][2]) = l
  /\ \A b \in Banners : x /\ b < count /\ LineOf(b) = l =>
       \E k \in 1 .. Len(c) : c[k] = <<op, b>>

LEMMA CallsAre ==
  ASSUME count \in Nat, count <= N, NEW op \in {"load", "free"}, NEW l \in Nat
  PROVE  IsCalls(Calls(op, l), op, l, TRUE)
  <1> DEFINE n == Cardinality(Line(l))
             c == [k \in 1 .. n |-> <<op, l * PerLine + k - 1>>]
  <1>1. /\ n \in Nat
        /\ \A k \in 1 .. n :
              /\ l * PerLine + k - 1 \in Banners /\ l * PerLine + k - 1 < count
              /\ LineOf(l * PerLine + k - 1) = l
        /\ \A b \in Banners : b < count /\ LineOf(b) = l =>
              /\ b - l * PerLine + 1 \in 1 .. n
              /\ l * PerLine + (b - l * PerLine + 1) - 1 = b
    BY LineIs
  <1>2. Calls(op, l) = c
    BY DEF Calls
  <1> HIDE DEF n
  <1>3. c \in Seq({"load", "free"} \X Banners) /\ Len(c) = n
    BY <1>1
  <1>4. \A k \in 1 .. n : c[k] = <<op, l * PerLine + k - 1>>
    OBVIOUS
  <1>5. \A k \in 1 .. n : c[k][1] = op /\ c[k][2] = l * PerLine + k - 1
    BY <1>4
  <1> HIDE DEF c
  <1>6. ASSUME NEW b \in Banners, b < count, LineOf(b) = l
        PROVE  \E k \in 1 .. n : c[k] = <<op, b>>
    BY <1>1, <1>4, <1>6
  <1>7. IsCalls(c, op, l, TRUE)
    BY <1>1, <1>3, <1>4, <1>5, <1>6 DEF IsCalls
  <1> QED BY <1>2, <1>7

\* t is u followed by v.
Joins(t, u, v, D) ==
  /\ t \in Seq(D) /\ Len(u) \in Nat /\ Len(v) \in Nat /\ Len(t) = Len(u) + Len(v)
  /\ \A k \in 1 .. Len(u) : t[k] = u[k] /\ k \in 1 .. Len(t)
  /\ \A k \in 1 .. Len(v) : t[Len(u) + k] = v[k] /\ Len(u) + k \in 1 .. Len(t)
  /\ \A k \in 1 .. Len(t) :
       k \notin 1 .. Len(u) => k - Len(u) \in 1 .. Len(v) /\ t[k] = v[k - Len(u)]

LEMMA Concats ==
  ASSUME NEW D, NEW u \in Seq(D), NEW v \in Seq(D)
  PROVE  Joins(u \o v, u, v, D)
  <1> DEFINE t == u \o v
  <1>1. /\ t \in Seq(D) /\ Len(t) = Len(u) + Len(v)
        /\ \A k \in 1 .. Len(u) + Len(v) : t[k] = IF k <= Len(u) THEN u[k] ELSE v[k - Len(u)]
    BY ConcatProperties
  <1>2. Len(u) \in Nat /\ Len(v) \in Nat
    BY LenProperties
  <1> HIDE DEF t
  <1>3. \A k \in 1 .. Len(u) : t[k] = u[k] /\ k \in 1 .. Len(t)
    BY <1>1, <1>2
  <1>4. ASSUME NEW k \in 1 .. Len(v)
        PROVE  t[Len(u) + k] = v[k] /\ Len(u) + k \in 1 .. Len(t)
    <2>1. Len(u) + k \in 1 .. Len(u) + Len(v) /\ ~(Len(u) + k <= Len(u)) /\ (Len(u) + k) - Len(u) = k
      BY <1>2
    <2> QED BY <1>1, <2>1
  <1>5. ASSUME NEW k \in 1 .. Len(t), k \notin 1 .. Len(u)
        PROVE  k - Len(u) \in 1 .. Len(v) /\ t[k] = v[k - Len(u)]
    <2>1. k \in 1 .. Len(u) + Len(v) /\ ~(k <= Len(u)) /\ k - Len(u) \in 1 .. Len(v)
      BY <1>1, <1>2, <1>5
    <2> QED BY <1>1, <2>1
  <1>6. Joins(t, u, v, D)
    BY <1>1, <1>2, <1>3, <1>4, <1>5 DEF Joins
  <1> QED BY <1>6 DEF t

\* gm_line_load or gm_line_free of line l, if x.
CallsIf(x, op, l) == IF x THEN Calls(op, l) ELSE <<>>

LEMMA CallsIfAre ==
  ASSUME count \in Nat, count <= N, NEW x \in BOOLEAN, NEW op \in {"load", "free"},
         NEW l \in Int, x => l \in Nat
  PROVE  IsCalls(CallsIf(x, op, l), op, l, x)
  <1>1. CASE x
    <2>1. l \in Nat
      BY <1>1
    <2>2. IsCalls(Calls(op, l), op, l, TRUE)
      BY <2>1, CallsAre
    <2>3. CallsIf(x, op, l) = Calls(op, l) /\ x = TRUE
      BY <1>1 DEF CallsIf
    <2> QED BY <2>2, <2>3
  <1>2. CASE ~x
    <2> DEFINE u == CallsIf(x, op, l)
    <2>1. u = <<>>
      BY <1>2 DEF CallsIf
    <2> HIDE DEF u
    <2>2. u \in Seq({"load", "free"} \X Banners) /\ Len(u) = 0
      BY <2>1
    <2>3. IsCalls(u, op, l, x)
      BY <1>2, <2>2 DEF IsCalls
    <2> QED BY <2>3 DEF u
  <1> QED BY <1>1, <1>2

\* What gm_line_changed asks for: line l loaded, if x, and then line f freed, if y.
Scrolls(t, x, l, y, f) ==
  /\ t \in Seq({"load", "free"} \X Banners)
  /\ \A k \in 1 .. Len(t) :
       /\ t[k] = <<t[k][1], t[k][2]>> /\ t[k][2] \in Banners /\ t[k][2] < count
       /\ \/ t[k][1] = "load" /\ x /\ LineOf(t[k][2]) = l
          \/ t[k][1] = "free" /\ y /\ LineOf(t[k][2]) = f
  /\ \A j, k \in 1 .. Len(t) : t[j][2] = t[k][2] => j = k
  /\ \A b \in Banners : x /\ b < count /\ LineOf(b) = l =>
       \E k \in 1 .. Len(t) : t[k] = <<"load", b>>
  /\ \A b \in Banners : y /\ b < count /\ LineOf(b) = f =>
       \E k \in 1 .. Len(t) : t[k] = <<"free", b>>

LEMMA ScrollCalls ==
  ASSUME count \in Nat, count <= N, NEW x \in BOOLEAN, NEW y \in BOOLEAN,
         NEW l \in Int, NEW f \in Int, x => l \in Nat, y => f \in Nat, l # f,
         NEW t, t = CallsIf(x, "load", l) \o CallsIf(y, "free", f)
  PROVE  Scrolls(t, x, l, y, f)
  <1> DEFINE D == {"load", "free"} \X Banners
             load == "load"
             free == "free"
             u == CallsIf(x, load, l)
             v == CallsIf(y, free, f)
             p == l * PerLine
             q == f * PerLine
  <1>0. load \in {"load", "free"} /\ free \in {"load", "free"} /\ PerLine \in Nat /\ p \in Int /\ q \in Int
    BY AssetsAssumption
  <1> HIDE DEF load, free
  <1>1. /\ u \in Seq(D)
        /\ \A k \in 1 .. Len(u) : /\ x /\ u[k] = <<load, u[k][2]>> /\ u[k][1] = load
                                  /\ u[k][2] = p + k - 1
                                  /\ u[k][2] \in Banners /\ u[k][2] < count
                                  /\ LineOf(u[k][2]) = l
        /\ \A b \in Banners : x /\ b < count /\ LineOf(b) = l =>
              \E k \in 1 .. Len(u) : u[k] = <<load, b>>
    <2>1. IsCalls(u, load, l, x)
      BY <1>0, CallsIfAre
    <2> HIDE DEF u
    <2> QED BY <2>1 DEF IsCalls
  <1>2. /\ v \in Seq(D)
        /\ \A k \in 1 .. Len(v) : /\ y /\ v[k] = <<free, v[k][2]>> /\ v[k][1] = free
                                  /\ v[k][2] = q + k - 1
                                  /\ v[k][2] \in Banners /\ v[k][2] < count
                                  /\ LineOf(v[k][2]) = f
        /\ \A b \in Banners : y /\ b < count /\ LineOf(b) = f =>
              \E k \in 1 .. Len(v) : v[k] = <<free, b>>
    <2>1. IsCalls(v, free, f, y)
      BY <1>0, CallsIfAre
    <2> HIDE DEF v
    <2> QED BY <2>1 DEF IsCalls
  <1>3. t = u \o v
    BY DEF load, free
  <1> HIDE DEF u, v, D, p, q
  <1>4. /\ t \in Seq(D) /\ Len(u) \in Nat /\ Len(v) \in Nat /\ Len(t) = Len(u) + Len(v)
        /\ \A k \in 1 .. Len(u) : t[k] = u[k] /\ k \in 1 .. Len(t)
        /\ \A k \in 1 .. Len(v) : t[Len(u) + k] = v[k] /\ Len(u) + k \in 1 .. Len(t)
        /\ \A k \in 1 .. Len(t) :
             k \notin 1 .. Len(u) => k - Len(u) \in 1 .. Len(v) /\ t[k] = v[k - Len(u)]
    <2>1. u \in Seq(D) /\ v \in Seq(D)
      BY <1>1, <1>2
    <2>2. Joins(u \o v, u, v, D)
      BY <2>1, Concats
    <2>3. Joins(t, u, v, D)
      BY <2>2, <1>3
    <2> QED BY <2>3 DEF Joins
  <1>5. ASSUME NEW k \in 1 .. Len(u)
        PROVE  /\ t[k] = <<load, t[k][2]>> /\ t[k][1] = load /\ x /\ t[k][2] = p + k - 1
               /\ t[k][2] \in Banners /\ t[k][2] < count /\ LineOf(t[k][2]) = l
    <2>1. t[k] = u[k]
      BY <1>4
    <2> QED BY <1>1, <2>1
  <1>6. ASSUME NEW k \in 1 .. Len(t), k \notin 1 .. Len(u)
        PROVE  /\ t[k] = <<free, t[k][2]>> /\ t[k][1] = free /\ y /\ t[k][2] = q + (k - Len(u)) - 1
               /\ t[k][2] \in Banners /\ t[k][2] < count /\ LineOf(t[k][2]) = f
    <2>1. t[k] = v[k - Len(u)] /\ k - Len(u) \in 1 .. Len(v)
      BY <1>4, <1>6
    <2> QED BY <1>2, <2>1
  <1>7. ASSUME NEW k \in 1 .. Len(t)
        PROVE  /\ t[k] = <<t[k][1], t[k][2]>>
               /\ t[k][2] \in Banners /\ t[k][2] < count
               /\ \/ t[k][1] = "load" /\ x /\ LineOf(t[k][2]) = l
                  \/ t[k][1] = "free" /\ y /\ LineOf(t[k][2]) = f
    <2>1. CASE k \in 1 .. Len(u)
      <3>1. t[k][1] = load
        BY <1>5, <2>1
      <3> QED BY <1>5, <2>1, <3>1 DEF load
    <2>2. CASE k \notin 1 .. Len(u)
      <3>1. /\ t[k] = <<free, t[k][2]>> /\ y /\ t[k][2] \in Banners /\ t[k][2] < count
            /\ LineOf(t[k][2]) = f /\ t[k][1] = free
        BY <1>6, <2>2
      <3>2. t[k] = <<t[k][1], t[k][2]>> /\ t[k][1] = "free"
        BY <3>1 DEF free
      <3> QED BY <3>1, <3>2
    <2> QED BY <2>1, <2>2
  <1>8. ASSUME NEW j \in 1 .. Len(t), NEW k \in 1 .. Len(t), t[j][2] = t[k][2]
        PROVE  j = k
    <2>1. CASE j \in 1 .. Len(u) /\ k \in 1 .. Len(u)
      <3>1. p + j - 1 = p + k - 1
        BY <1>5, <1>8, <2>1
      <3> QED BY <1>0, <3>1
    <2>2. CASE j \notin 1 .. Len(u) /\ k \notin 1 .. Len(u)
      <3>1. q + (j - Len(u)) - 1 = q + (k - Len(u)) - 1
        BY <1>6, <1>8, <2>2
      <3> QED BY <1>0, <1>4, <3>1
    <2>3. CASE j \in 1 .. Len(u) /\ k \notin 1 .. Len(u)
      <3>1. LineOf(t[j][2]) = l /\ LineOf(t[k][2]) = f
        BY <1>5, <1>6, <2>3
      <3> QED BY <1>8, <3>1
    <2>4. CASE j \notin 1 .. Len(u) /\ k \in 1 .. Len(u)
      <3>1. LineOf(t[j][2]) = f /\ LineOf(t[k][2]) = l
        BY <1>5, <1>6, <2>4
      <3> QED BY <1>8, <3>1
    <2> QED BY <2>1, <2>2, <2>3, <2>4
  <1>9. ASSUME NEW b \in Banners, x, b < count, LineOf(b) = l
        PROVE  \E k \in 1 .. Len(t) : t[k] = <<load, b>>
    <2>1. PICK k \in 1 .. Len(u) : u[k] = <<load, b>>
      BY <1>1, <1>9
    <2>2. t[k] = u[k] /\ k \in 1 .. Len(t)
      BY <1>4
    <2> QED BY <2>1, <2>2
  <1>10. ASSUME NEW b \in Banners, y, b < count, LineOf(b) = f
         PROVE  \E k \in 1 .. Len(t) : t[k] = <<free, b>>
    <2>1. PICK k \in 1 .. Len(v) : v[k] = <<free, b>>
      BY <1>2, <1>10
    <2>2. t[Len(u) + k] = v[k] /\ Len(u) + k \in 1 .. Len(t)
      BY <1>4
    <2> QED BY <2>1, <2>2
  <1>11. t \in Seq({"load", "free"} \X Banners)
    BY <1>4 DEF D
  <1>12. \A b \in Banners : x /\ b < count /\ LineOf(b) = l =>
           \E k \in 1 .. Len(t) : t[k] = <<"load", b>>
    BY <1>9 DEF load
  <1>13. \A b \in Banners : y /\ b < count /\ LineOf(b) = f =>
           \E k \in 1 .. Len(t) : t[k] = <<"free", b>>
    BY <1>10 DEF free
  <1>14. \A j, k \in 1 .. Len(t) : t[j][2] = t[k][2] => j = k
    BY <1>8
  <1> QED BY <1>7, <1>11, <1>12, <1>13, <1>14 DEF Scrolls

-----------------------------------------------------------------------------
(* Buffers. *)

LEMMA FirstFreeIs ==
  ASSUME used \in [Buffers -> BOOLEAN]
  PROVE  \/ FirstFree \in Buffers /\ ~used[FirstFree] /\ FirstFree # NoBuf
         \/ FirstFree = NoBuf /\ \A k \in Buffers : used[k]
  <1>1. NoBuf \notin Buffers /\ BufferCount \in Nat
    BY AssetsAssumption
  <1>2. CASE \E k \in Buffers : ~used[k]
    <2> DEFINE S == {k \in Buffers : ~used[k]}
    <2>1. S \subseteq Nat /\ S # {}
      BY <1>1, <1>2 DEF Buffers
    <2> HIDE DEF S
    <2>2. PICK m \in S : \A k \in S : m <= k
      BY <2>1, LeastNumber
    <2>3. m \in Buffers /\ ~used[m]
      BY DEF S
    <2>4. ASSUME NEW j \in 1 .. (m - 1)
          PROVE  used[j]
      <3>1. j \in Buffers /\ ~(m <= j)
        BY <1>1, <2>3 DEF Buffers
      <3> QED BY <2>2, <3>1 DEF S
    <2>5. \E k \in Buffers : ~used[k] /\ \A j \in 1 .. (k - 1) : used[j]
      BY <2>3, <2>4
    <2> DEFINE c == CHOOSE k \in Buffers : ~used[k] /\ \A j \in 1 .. (k - 1) : used[j]
    <2>6. c \in Buffers /\ ~used[c]
      BY <2>5
    <2>7. FirstFree = c
      BY <1>2 DEF FirstFree
    <2> QED BY <1>1, <2>6, <2>7
  <1>3. CASE ~ \E k \in Buffers : ~used[k]
    BY <1>3 DEF FirstFree
  <1> QED BY <1>2, <1>3

-----------------------------------------------------------------------------
(* Steps that leave the queue and the banners alone. *)

LEMMA Frozen ==
  ASSUME Inv, UNCHANGED <<arq, pool>>, pc # "starting" \/ pc' = "starting"
  PROVE  /\ QueueOk(arq)' /\ FlightInv' /\ PoolInv' /\ Fly(arq)' = Fly(arq)
         /\ \A b \in Banners : (Held(b)' <=> Held(b)) /\ (Cold(b)' <=> Cold(b))
  <1>1. /\ arq' = arq /\ state' = state /\ buf' = buf /\ used' = used /\ pixels' = pixels
    BY DEF pool
  <1>2. QueueOk(arq)' /\ Fly(arq)' = Fly(arq)
    BY <1>1 DEF Inv
  <1>3. \A b \in Banners : (Held(b)' <=> Held(b)) /\ (Cold(b)' <=> Cold(b))
    BY <1>1 DEF Held, Cold
  <1>4. FlightInv'
    BY <1>1 DEF Inv, FlightInv
  <1>5. PoolInv'
    BY <1>1 DEF Inv, PoolInv, Held
  <1> QED BY <1>2, <1>3, <1>4, <1>5

LEMMA LineBelow ==
  ASSUME NEW b \in Nat, NEW n \in Int
  PROVE  b < n * PerLine <=> LineOf(b) < n
  <1> DEFINE q == LineOf(b)
  <1>1. PerLine \in Nat \ {0}
    BY AssetsAssumption
  <1>2. q \in Nat
    BY DivIs
  <1>3. q * PerLine <= b /\ b < q * PerLine + PerLine
    BY <1>2, DivIs
  <1> HIDE DEF q
  <1>4. CASE q < n
    <2>1. (q + 1) * PerLine <= n * PerLine
      BY <1>1, <1>2, <1>4
    <2>2. (q + 1) * PerLine = q * PerLine + PerLine
      BY <1>1, <1>2
    <2> QED BY <1>1, <1>2, <1>3, <1>4, <2>1, <2>2 DEF q
  <1>5. CASE n <= q
    <2>1. n * PerLine <= q * PerLine
      BY <1>1, <1>2, <1>5
    <2> QED BY <1>1, <1>2, <1>3, <1>5, <2>1 DEF q
  <1> QED BY <1>2, <1>4, <1>5

\* Where the lines kept loaded around screen t are listed, what follows is below them.
LEMMA ListedBelow ==
  ASSUME NEW t \in Int, NEW b \in Nat, Below(t) * PerLine <= b
  PROVE  LineOf(b) >= Below(t)
  <1> DEFINE n == Below(t)
             p == n * PerLine
  <1>1. n \in Int /\ p \in Int /\ LineOf(b) \in Nat
    BY DivIs, AssetsAssumption DEF Below
  <1>2. b < n * PerLine <=> LineOf(b) < n
    BY <1>1, LineBelow
  <1> HIDE DEF n
  <1>3. ~(b < p)
    BY <1>1 DEF n
  <1> QED BY <1>1, <1>2, <1>3 DEF n

LEMMA BannerTypes ==
  ASSUME TypeOK
  PROVE  /\ top \in Nat /\ lines \in Nat /\ count \in Nat /\ skipped \in Nat /\ N \in Nat
         /\ count + skipped <= N /\ Rows \in Nat \ {0} /\ Preload \in Nat \ {0}
         /\ PerLine \in Nat \ {0} /\ Below(top) \in Nat
         /\ \A b \in Banners : b \in Nat /\ b < N /\ LineOf(b) \in Nat /\ b \in Tasks
  <1>1. /\ top \in Nat /\ lines \in Nat /\ count \in Nat /\ skipped \in Nat /\ N \in Nat
        /\ count + skipped <= N /\ Rows \in Nat \ {0} /\ Preload \in Nat \ {0}
        /\ PerLine \in Nat \ {0} /\ Tasks = Banners
    BY AssetsAssumption DEF TypeOK
  <1>2. \A b \in Banners : b \in Nat /\ b < N
    BY <1>1 DEF Banners
  <1>3. \A b \in Banners : LineOf(b) \in Nat
    BY <1>2, DivIs
  <1> QED BY <1>1, <1>2, <1>3 DEF Below

\* An entry has a line in the grid.
LEMMA EntryLine ==
  ASSUME Inv, pc # "starting", NEW b \in Banners, b < count
  PROVE  LineOf(b) < lines
  <1>1. b \in Nat /\ count <= N /\ lines \in Nat /\ count \in Nat /\ N \in Nat /\ PerLine \in Nat
    BY BannerTypes DEF Inv
  <1>2. count <= lines * PerLine
    <2>1. lines * PerLine \in Nat
      BY <1>1
    <2> QED BY <1>1, <2>1 DEF Inv, GridInv
  <1>3. b < lines * PerLine
    <2>1. lines * PerLine \in Nat
      BY <1>1
    <2> QED BY <1>1, <1>2, <2>1
  <1> QED BY <1>1, <1>3, LineBelow

\* No call is left when the menu acts.
LEMMA NothingDue ==
  ASSUME todo = <<>>, NEW op, NEW b
  PROVE  ~Due(op, b)
  BY DEF Due

LEMMA ScrollKeeps ==
  ASSUME Inv, MenuFree, pc # "take",
         NEW x, NEW y, NEW l \in Int, NEW f \in Int, Scrolls(todo', x, l, y, f),
         UNCHANGED <<arq, pool, count, lines, enumvars, leaving, restarts>>, top' \in Nat,
         \A b \in Banners : b < count /\ LineOf(b) \in {l, f} => b \notin Fly(arq),
         pc = "pick" /\ force => LineOf(count) >= Below(top'),
         pc # "done" /\ top' # 0 => Below(top') * PerLine <= count,
         \A b \in Banners : Cold(b) =>
           (LineOf(b) >= Below(top') \/ (x /\ b < count /\ LineOf(b) = l)) /\ LineOf(b) # f,
         \A b \in Banners : LineOf(b) = f => ~InWindow(b, top'),
         \A b \in Banners :
           Made(b) /\ InWindow(b, top') /\ state[b] \in {"UNLOADED", "UNLOADING"}
             => x /\ b < count /\ LineOf(b) = l
  PROVE  Inv'
  <1>1. /\ state' = state /\ buf' = buf /\ used' = used /\ pixels' = pixels /\ count' = count
        /\ lines' = lines /\ pc' = pc /\ force' = force /\ picked' = picked /\ skipped' = skipped
        /\ leaving' = leaving /\ arq' = arq
    BY DEF pool, enumvars
  <1>2. todo = <<>> /\ ~leaving /\ pc # "starting"
    BY DEF MenuFree
  <1>3. /\ QueueOk(arq)' /\ FlightInv' /\ PoolInv' /\ Fly(arq)' = Fly(arq)
        /\ \A b \in Banners : (Held(b)' <=> Held(b)) /\ (Cold(b)' <=> Cold(b))
    BY <1>2, Frozen
  <1>4. TypeOK'
    BY <1>1 DEF Inv, TypeOK, Scrolls
  <1>5. EnumInv'
    BY <1>1, <1>2, <1>3 DEF Inv, EnumInv, Made, Below, LineOf
  <1>6. \A op, b : Due(op, b)' => \E k \in 1 .. Len(todo') : /\ todo'[k][1] = op /\ todo'[k][2] = b
                                                          /\ todo'[k] = <<op, b>>
    BY DEF Due
  <1>7. \A b \in Banners : Due("free", b)' => LineOf(b) = f
    BY <1>6 DEF Scrolls
  <1>8. \A b \in Banners : x /\ b < count /\ LineOf(b) = l => Due("load", b)'
    BY DEF Scrolls, Due
  <1>9. MenuInv'
    <2>1. \A j, k \in 1 .. Len(todo') : todo'[j][2] = todo'[k][2] => j = k
      BY DEF Scrolls
    <2>2. \A k \in 1 .. Len(todo') : todo'[k][2] \notin Fly(arq) /\ todo'[k][2] < count
      BY DEF Scrolls
    <2> QED BY <1>1, <1>2, <1>3, <2>1, <2>2 DEF MenuInv
  <1>10. GridInv'
    BY <1>1 DEF Inv, GridInv
  <1>11. WindowInv'
    <2> SUFFICES ASSUME NEW b \in Banners
                 PROVE  /\ Cold(b) => (LineOf(b) >= Below(top') \/ Due("load", b)') /\ ~Due("free", b)'
                        /\ Due("free", b)' => ~InWindow(b, top')
                        /\ Made(b) /\ InWindow(b, top') /\ state[b] \in {"UNLOADED", "UNLOADING"}
                             => Due("load", b)'
      BY <1>1, <1>3 DEF WindowInv, Made, LineOf, InWindow, Below
    <2> QED BY <1>7, <1>8
  <1>12. ServedInv'
    BY <1>1, <1>3 DEF Inv, ServedInv
  <1> QED BY <1>3, <1>4, <1>5, <1>9, <1>10, <1>11, <1>12 DEF Inv

\* InFlight finds what is in flight.
LEMMA FlightIs ==
  ASSUME NEW a, QueueOk(a), NEW t \in Tasks
  PROVE  InFlight(a, t) <=> t \in Fly(a)
  <1> DEFINE H == <<>>
             L == LoOf(a)
  <1>1. Represents(CallSet, a, H, L)
    BY DEF QueueOk
  <1>2. Elements(H) = {}
    BY DEF Elements
  <1> HIDE DEF H, L
  <1>3. InFlight(a, t) <=> t \in Elements(H) \cup Elements(L)
    BY <1>1, InFlightIs
  <1> QED BY <1>2, <1>3 DEF Fly, L

\* What the user waits for.
LEMMA MoveIs ==
  ASSUME Patient, Inv, NEW l, NEW f, CanMove(l, f)
  PROVE  /\ pc # "take"
         /\ \A b \in Banners : b < count /\ LineOf(b) \in {l, f} => b \notin Fly(arq)
  <1>1. QueueOk(arq)
    BY DEF Inv
  <1>2. \A b \in Banners : InFlight(arq, b) <=> b \in Fly(arq)
    BY <1>1, FlightIs, AssetsAssumption
  <1> QED BY <1>2 DEF CanMove, Still, Line

\* What the two ways to scroll ask for.
DownAsks(t) ==
  Scrolls(t, top + 1 + Rows + Preload - 1 < lines, top + 1 + Rows + Preload - 1,
             top + 1 >= Preload, top + 1 - Preload)

UpAsks(t) ==
  Scrolls(t, top >= Preload, top - 1 - Preload + 1,
             top - 1 + Rows + Preload < lines, top - 1 + Rows + Preload)

LEMMA DownIs ==
  ASSUME TypeOK, ScrollDown
  PROVE  DownAsks(todo')
  <1> DEFINE l == top + 1 + Rows + Preload - 1
             f == top + 1 - Preload
             x == l < lines
             y == top + 1 >= Preload
  <1>1. /\ top \in Nat /\ Rows \in Nat \ {0} /\ Preload \in Nat \ {0} /\ N \in Nat
        /\ count \in Nat /\ skipped \in Nat /\ count + skipped <= N
    BY AssetsAssumption DEF TypeOK
  <1>2. /\ l \in Int /\ f \in Int /\ l \in Nat /\ (y => f \in Nat) /\ l # f /\ count <= N
        /\ x \in BOOLEAN /\ y \in BOOLEAN
    BY <1>1
  <1>3. todo' = CallsIf(x, "load", l) \o CallsIf(y, "free", f)
    BY DEF ScrollDown, CallsIf
  <1> HIDE DEF l, f, x, y
  <1>4. Scrolls(todo', x, l, y, f)
    BY <1>1, <1>2, <1>3, ScrollCalls
  <1> QED BY <1>4 DEF l, f, x, y, DownAsks

LEMMA UpIs ==
  ASSUME TypeOK, ScrollUp
  PROVE  UpAsks(todo')
  <1> DEFINE l == top - 1 - Preload + 1
             f == top - 1 + Rows + Preload
             x == top >= Preload
             y == f < lines
  <1>1. /\ top \in Nat /\ Rows \in Nat \ {0} /\ Preload \in Nat \ {0} /\ N \in Nat
        /\ count \in Nat /\ skipped \in Nat /\ count + skipped <= N
    BY AssetsAssumption DEF TypeOK
  <1>2. /\ l \in Int /\ f \in Int /\ (x => l \in Nat) /\ f \in Nat /\ l # f /\ count <= N
        /\ x \in BOOLEAN /\ y \in BOOLEAN
    BY <1>1
  <1>3. todo' = CallsIf(x, "load", l) \o CallsIf(y, "free", f)
    BY DEF ScrollUp, CallsIf
  <1> HIDE DEF l, f, x, y
  <1>4. Scrolls(todo', x, l, y, f)
    BY <1>1, <1>2, <1>3, ScrollCalls
  <1> QED BY <1>4 DEF l, f, x, y, UpAsks

LEMMA ScrollDownStep ==
  ASSUME Patient, Inv, ScrollDown
  PROVE  Inv'
  <1> DEFINE l == top + 1 + Rows + Preload - 1
             f == top + 1 - Preload
             x == l < lines
             y == top + 1 >= Preload
  <1>1. /\ top \in Nat /\ top' = top + 1 /\ Rows \in Nat \ {0} /\ Preload \in Nat \ {0}
        /\ lines \in Nat /\ count \in Nat /\ PerLine \in Nat
        /\ \A b \in Banners : b \in Nat /\ LineOf(b) \in Nat
    BY BannerTypes DEF Inv, ScrollDown
  <1>2. /\ Below(top) = top + Rows + Preload /\ Below(top') = top + 1 + Rows + Preload
        /\ l = top + Rows + Preload
    BY <1>1 DEF Below
  <1>3. MenuFree /\ todo = <<>> /\ pc # "starting"
    BY DEF ScrollDown, MenuFree
  <1>4. Scrolls(todo', x, l, y, f)
    BY DownIs DEF DownAsks, Inv
  <1>5. CanMove(l, f) /\ Listed(top')
    BY <1>1, <1>2 DEF ScrollDown
  <1>6. pc # "take" /\ \A b \in Banners : b < count /\ LineOf(b) \in {l, f} => b \notin Fly(arq)
    BY <1>5, MoveIs
  <1>7. pc # "done" => Below(top') * PerLine <= count /\ LineOf(count) >= Below(top')
    <2> SUFFICES ASSUME pc # "done"
                 PROVE  Below(top') * PerLine <= count /\ LineOf(count) >= Below(top')
      OBVIOUS
    <2>1. Below(top') * PerLine <= count
      BY <1>5 DEF Listed, Below
    <2>2. top' \in Int
      BY <1>1
    <2> QED BY <1>1, <2>1, <2>2, ListedBelow
  <1>8. ASSUME NEW b \in Banners, Made(b), LineOf(b) < Below(top')
        PROVE  b < count /\ (LineOf(b) = l => x)
    <2>1. b < count
      BY <1>1, <1>2, <1>7, <1>8 DEF Made
    <2> QED BY <1>3, <2>1, EntryLine
  <1>9. \A b \in Banners : Cold(b) =>
           (LineOf(b) >= Below(top') \/ (x /\ b < count /\ LineOf(b) = l)) /\ LineOf(b) # f
    <2> SUFFICES ASSUME NEW b \in Banners, Cold(b)
                 PROVE  (LineOf(b) >= Below(top') \/ (x /\ b < count /\ LineOf(b) = l)) /\ LineOf(b) # f
      OBVIOUS
    <2>1. LineOf(b) >= Below(top)
      BY <1>3, NothingDue DEF Inv, WindowInv
    <2>2. Made(b)
      BY <1>3 DEF Inv, EnumInv
    <2>3. LineOf(b) >= Below(top') \/ LineOf(b) = l
      BY <1>1, <1>2, <2>1
    <2>4. LineOf(b) = l => LineOf(b) < Below(top')
      BY <1>1, <1>2
    <2>5. LineOf(b) # f
      BY <1>1, <1>2, <2>1
    <2> QED BY <1>8, <2>2, <2>3, <2>4, <2>5
  <1>10. \A b \in Banners : LineOf(b) = f => ~InWindow(b, top')
    BY <1>1 DEF InWindow
  <1>11. \A b \in Banners :
           Made(b) /\ InWindow(b, top') /\ state[b] \in {"UNLOADED", "UNLOADING"}
             => x /\ b < count /\ LineOf(b) = l
    <2> SUFFICES ASSUME NEW b \in Banners, Made(b), InWindow(b, top'),
                        state[b] \in {"UNLOADED", "UNLOADING"}
                 PROVE  x /\ b < count /\ LineOf(b) = l
      OBVIOUS
    <2>1. ~InWindow(b, top)
      BY <1>3, NothingDue DEF Inv, WindowInv
    <2>2. LineOf(b) = l /\ LineOf(b) < Below(top')
      BY <1>1, <1>2, <2>1 DEF InWindow
    <2> QED BY <1>8, <2>2
  <1>12. UNCHANGED <<arq, pool, count, lines, enumvars, leaving, restarts>>
    BY DEF ScrollDown
  <1>13. l \in Int /\ f \in Int /\ top' \in Nat
    BY <1>1
  <1> HIDE DEF l, f, x, y
  <1> QED BY <1>3, <1>4, <1>6, <1>7, <1>9, <1>10, <1>11, <1>12, <1>13, ScrollKeeps

LEMMA ScrollUpStep ==
  ASSUME Patient, Inv, ScrollUp
  PROVE  Inv'
  <1> DEFINE l == top - 1 - Preload + 1
             f == top - 1 + Rows + Preload
             x == top >= Preload
             y == f < lines
  <1>1. /\ top \in Nat /\ top # 0 /\ top' = top - 1 /\ Rows \in Nat \ {0} /\ Preload \in Nat \ {0}
        /\ lines \in Nat /\ count \in Nat /\ PerLine \in Nat
        /\ \A b \in Banners : b \in Nat /\ LineOf(b) \in Nat
    BY BannerTypes DEF Inv, ScrollUp
  <1>2. /\ Below(top) = top + Rows + Preload /\ Below(top') = top - 1 + Rows + Preload
        /\ l = top - Preload
    BY <1>1 DEF Below
  <1>3. MenuFree /\ todo = <<>> /\ pc # "starting"
    BY DEF ScrollUp, MenuFree
  <1>4. Scrolls(todo', x, l, y, f)
    BY UpIs DEF UpAsks, Inv
  <1>5. CanMove(l, f)
    BY <1>2 DEF ScrollUp
  <1>6. pc # "take" /\ \A b \in Banners : b < count /\ LineOf(b) \in {l, f} => b \notin Fly(arq)
    BY <1>5, MoveIs
  <1>7. pc # "done" => Below(top) * PerLine <= count /\ LineOf(count) >= Below(top)
    <2> SUFFICES ASSUME pc # "done"
                 PROVE  Below(top) * PerLine <= count /\ LineOf(count) >= Below(top)
      OBVIOUS
    <2>1. Below(top) * PerLine <= count
      BY <1>1, <1>3 DEF Inv, EnumInv
    <2> QED BY <1>1, <2>1, ListedBelow
  <1>8. pc # "done" => Below(top') * PerLine <= count /\ LineOf(count) >= Below(top')
    <2>1. Below(top') * PerLine <= Below(top) * PerLine
      BY <1>1, <1>2
    <2>2. Below(top') * PerLine \in Int /\ Below(top) * PerLine \in Int
      BY <1>1, <1>2
    <2>3. LineOf(count) \in Nat
      BY <1>1, DivIs
    <2> QED BY <1>1, <1>2, <1>7, <2>1, <2>2, <2>3
  <1>9. \A b \in Banners : Cold(b) =>
           (LineOf(b) >= Below(top') \/ (x /\ b < count /\ LineOf(b) = l)) /\ LineOf(b) # f
    <2> SUFFICES ASSUME NEW b \in Banners, Cold(b)
                 PROVE  LineOf(b) >= Below(top') /\ LineOf(b) # f
      OBVIOUS
    <2>1. LineOf(b) >= Below(top)
      BY <1>3, NothingDue DEF Inv, WindowInv
    <2> QED BY <1>1, <1>2, <2>1
  <1>10. \A b \in Banners : LineOf(b) = f => ~InWindow(b, top')
    BY <1>1, <1>2 DEF InWindow
  <1>11. \A b \in Banners :
           Made(b) /\ InWindow(b, top') /\ state[b] \in {"UNLOADED", "UNLOADING"}
             => x /\ b < count /\ LineOf(b) = l
    <2> SUFFICES ASSUME NEW b \in Banners, Made(b), InWindow(b, top'),
                        state[b] \in {"UNLOADED", "UNLOADING"}
                 PROVE  x /\ b < count /\ LineOf(b) = l
      OBVIOUS
    <2>1. ~InWindow(b, top)
      BY <1>3, NothingDue DEF Inv, WindowInv
    <2>2. LineOf(b) = l /\ x /\ LineOf(b) < Below(top)
      BY <1>1, <1>2, <2>1 DEF InWindow
    <2>3. b < count
      BY <1>1, <1>2, <1>7, <2>2 DEF Made
    <2> QED BY <2>2, <2>3
  <1>12. UNCHANGED <<arq, pool, count, lines, enumvars, leaving, restarts>>
    BY DEF ScrollUp
  <1>13. l \in Int /\ f \in Int /\ top' \in Nat
    BY <1>1
  <1> HIDE DEF l, f, x, y
  <1> QED BY <1>3, <1>4, <1>6, <1>8, <1>9, <1>10, <1>11, <1>12, <1>13, ScrollKeeps

LEMMA LeaveStep ==
  ASSUME Inv, LeaveDirectory
  PROVE  Inv'
  <1>1. todo = <<>> /\ pc # "starting"
    BY DEF LeaveDirectory, MenuFree
  <1>2. /\ QueueOk(arq)' /\ FlightInv' /\ PoolInv' /\ Fly(arq)' = Fly(arq)
        /\ \A b \in Banners : (Held(b)' <=> Held(b)) /\ (Cold(b)' <=> Cold(b))
    BY <1>1, Frozen DEF LeaveDirectory
  <1>3. /\ state' = state /\ buf' = buf /\ used' = used /\ pixels' = pixels /\ count' = count
        /\ lines' = lines /\ pc' = pc /\ force' = force /\ picked' = picked /\ skipped' = skipped
        /\ leaving' = TRUE /\ arq' = arq /\ todo' = todo /\ top' = top
    BY DEF LeaveDirectory, pool, enumvars
  <1>4. \A op, b : Due(op, b)' <=> Due(op, b)
    BY <1>3 DEF Due
  <1>5. TypeOK'
    BY <1>3 DEF Inv, TypeOK
  <1>6. EnumInv'
    BY <1>2, <1>3, <1>4 DEF Inv, EnumInv, Made, Below, LineOf
  <1>7. MenuInv'
    BY <1>1, <1>2, <1>3 DEF Inv, MenuInv
  <1>8. WindowInv'
    BY <1>2, <1>3, <1>4 DEF Inv, WindowInv, InWindow, Made, Below, LineOf
  <1>9. GridInv' /\ ServedInv'
    BY <1>2, <1>3 DEF Inv, GridInv, ServedInv
  <1> QED BY <1>2, <1>5, <1>6, <1>7, <1>8, <1>9 DEF Inv

LEMMA RestartStep ==
  ASSUME Patient, Inv, Restart
  PROVE  Inv'
  <1>1. leaving /\ pc = "done" /\ todo = <<>> /\ Fly(arq) = {}
    <2>1. Idle(arq) /\ QueueOk(arq)
      BY DEF Restart, MayStart, Inv
    <2> QED BY <2>1, FlyIdle DEF Restart, Inv, MenuInv
  <1>2. /\ QueueOk(arq)' /\ FlightInv' /\ PoolInv' /\ Fly(arq)' = Fly(arq)
        /\ \A b \in Banners : (Held(b)' <=> Held(b)) /\ (Cold(b)' <=> Cold(b))
    BY <1>1, Frozen DEF Restart
  <1>3. /\ state' = state /\ buf' = buf /\ used' = used /\ pixels' = pixels /\ count' = count
        /\ lines' = lines /\ pc' = "starting" /\ force' = force /\ picked' = picked
        /\ skipped' = skipped /\ leaving' = FALSE /\ arq' = arq /\ top' = top
    BY DEF Restart, pool, enumvars
  <1> DEFINE t == [i \in 1 .. count |-> <<"free", i - 1>>]
  <1>4. todo' = t
    BY DEF Restart
  <1>5. count \in Nat /\ N \in Nat /\ skipped \in Nat /\ count + skipped <= N
    BY AssetsAssumption DEF Inv, TypeOK
  <1>6. \A k \in 1 .. count : k - 1 \in Banners
    BY <1>5 DEF Banners
  <1>7. t \in Seq({"load", "free"} \X Banners) /\ Len(t) = count
    BY <1>5, <1>6
  <1>8. \A k \in 1 .. count : t[k] = <<"free", k - 1>> /\ t[k][1] = "free" /\ t[k][2] = k - 1
    OBVIOUS
  <1> HIDE DEF t
  <1>9. TypeOK'
    BY <1>3, <1>4, <1>7 DEF Inv, TypeOK
  <1>10. \A b \in Banners : b < count => Due("free", b)'
    <2> SUFFICES ASSUME NEW b \in Banners, b < count
                 PROVE  Due("free", b)'
      OBVIOUS
    <2>1. b + 1 \in 1 .. count /\ (b + 1) - 1 = b
      BY <1>5 DEF Banners
    <2>2. t[b + 1] = <<"free", b>>
      BY <1>8, <2>1
    <2> QED BY <1>4, <1>7, <2>1, <2>2 DEF Due
  <1>11. EnumInv'
    <2>1. \A b \in Banners : Held(b) \/ Cold(b) => b < count
      BY <1>1 DEF Inv, EnumInv, Made
    <2> QED BY <1>2, <1>3, <1>10, <2>1 DEF EnumInv
  <1>12. MenuInv'
    <2>1. \A k \in 1 .. Len(todo') : todo'[k][1] = "free" /\ todo'[k][2] = k - 1
      BY <1>4, <1>7, <1>8
    <2>2. \A j, k \in 1 .. Len(todo') : todo'[j][2] = todo'[k][2] => j = k
      BY <1>4, <1>5, <1>7, <2>1
    <2>3. \A k \in 1 .. Len(todo') : todo'[k][2] < count
      BY <1>4, <1>5, <1>7, <2>1
    <2> QED BY <1>1, <1>2, <1>3, <2>1, <2>2, <2>3 DEF MenuInv
  <1>13. WindowInv' /\ GridInv' /\ ServedInv'
    BY <1>1, <1>2, <1>3 DEF Inv, WindowInv, GridInv, ServedInv
  <1> QED BY <1>2, <1>9, <1>11, <1>12, <1>13 DEF Inv

LEMMA GridHolds ==
  ASSUME NEW n \in Nat
  PROVE  GridLines(n) \in Nat /\ n <= GridLines(n) * PerLine
  <1> DEFINE l == (n + PerLine - 1) \div PerLine
  <1>1. PerLine \in Nat \ {0} /\ Rows \in Nat
    BY AssetsAssumption
  <1>2. l \in Nat /\ n + PerLine - 1 < l * PerLine + PerLine
    BY <1>1
  <1>3. GridLines(n) = IF l < Rows THEN Rows ELSE l
    BY DEF GridLines
  <1> HIDE DEF l
  <1>4. GridLines(n) \in Nat /\ l <= GridLines(n)
    BY <1>1, <1>2, <1>3
  <1>5. l * PerLine <= GridLines(n) * PerLine
    BY <1>1, <1>2, <1>4
  <1> DEFINE p == l * PerLine
             q == GridLines(n) * PerLine
  <1>6. p \in Nat /\ q \in Nat /\ p <= q /\ n + PerLine - 1 < p + PerLine
    BY <1>1, <1>2, <1>4, <1>5
  <1> HIDE DEF p, q
  <1>7. n <= q
    BY <1>1, <1>6
  <1> QED BY <1>4, <1>7 DEF q

LEMMA EnumStartStep ==
  ASSUME Inv, EnumStart
  PROVE  Inv'
  <1>1. pc = "starting" /\ todo = <<>> /\ ~leaving /\ Fly(arq) = {}
    BY DEF EnumStart, EnumRuns, Inv, MenuInv
  <1>2. /\ state' = state /\ buf' = buf /\ used' = used /\ pixels' = pixels /\ count' = 0
        /\ lines' = GridLines(N) /\ pc' = "decide" /\ force' = force /\ picked' = picked
        /\ skipped' = 0 /\ leaving' = leaving /\ arq' = arq /\ top' = 0 /\ todo' = todo
    BY DEF EnumStart, pool, menuvars
  <1>3. QueueOk(arq)' /\ Fly(arq)' = Fly(arq) /\ FlightInv'
    BY <1>2 DEF Inv, FlightInv
  <1>4. \A b \in Banners : ~Held(b) /\ ~Cold(b)
    BY <1>1, NothingDue DEF Inv, EnumInv
  <1>5. \A b \in Banners : ~Held(b)' /\ ~Cold(b)'
    BY <1>2, <1>3, <1>4 DEF Held, Cold
  <1>6. PoolInv'
    <2>1. \A k \in Buffers : ~used[k]
      BY <1>4 DEF Inv, PoolInv
    <2>2. \A b \in Banners : state[b] \in {"SETUP", "LOADED"} => pixels[buf[b]] = b
      BY DEF Inv, PoolInv
    <2> QED BY <1>2, <1>5, <2>1, <2>2 DEF PoolInv
  <1>7. N \in Nat /\ GridLines(N) \in Nat /\ N <= GridLines(N) * PerLine
    BY GridHolds, AssetsAssumption
  <1>8. TypeOK'
    BY <1>2, <1>7 DEF Inv, TypeOK
  <1>9. EnumInv'
    BY <1>2, <1>5 DEF EnumInv
  <1>10. \A op, b : ~Due(op, b)'
    BY <1>1, <1>2 DEF Due
  <1>11. WindowInv'
    <2> SUFFICES ASSUME NEW b \in Banners
                 PROVE  ~Cold(b)' /\ ~Due("free", b)' /\ ~Made(b)'
      BY DEF WindowInv
    <2>1. ~(b < 0)
      BY <1>7 DEF Banners
    <2> QED BY <1>2, <1>5, <1>10, <2>1 DEF Made
  <1>12. GridInv' /\ MenuInv'
    BY <1>1, <1>2, <1>7 DEF GridInv, MenuInv
  <1>13. ServedInv'
    BY <1>1, <1>2, <1>3 DEF Inv, ServedInv
  <1> QED BY <1>3, <1>6, <1>8, <1>9, <1>11, <1>12, <1>13 DEF Inv

LEMMA EnumDecideStep ==
  ASSUME Inv, EnumDecide
  PROVE  Inv'
  <1>1. pc = "decide" /\ todo = <<>>
    BY DEF EnumDecide, EnumRuns
  <1>2. /\ QueueOk(arq)' /\ FlightInv' /\ PoolInv' /\ Fly(arq)' = Fly(arq)
        /\ \A b \in Banners : (Held(b)' <=> Held(b)) /\ (Cold(b)' <=> Cold(b))
    BY <1>1, Frozen DEF EnumDecide
  <1>3. /\ state' = state /\ buf' = buf /\ used' = used /\ pixels' = pixels /\ count' = count
        /\ picked' = picked /\ skipped' = skipped
        /\ leaving' = leaving /\ arq' = arq /\ top' = top /\ todo' = todo
        /\ pc' \in {"done", "pick"}
    BY DEF EnumDecide, pool, menuvars
  <1>4. /\ count \in Nat /\ N \in Nat /\ skipped \in Nat /\ count + skipped <= N /\ top \in Nat
        /\ PerLine \in Nat /\ Rows \in Nat /\ Preload \in Nat /\ lines \in Nat
        /\ Below(top) = top + Rows + Preload /\ Below(top) \in Nat
    BY BannerTypes DEF Inv, Below
  <1>5. \A b \in Banners : Held(b) \/ Cold(b) => b < count
    BY <1>1 DEF Inv, EnumInv, Made
  <1>6. \A op, b : ~Due(op, b) /\ ~Due(op, b)'
    BY <1>1, <1>3 DEF Due
  <1>7. \A b \in Banners : (Made(b)' <=> b < count) /\ (Made(b) <=> b < count)
    BY <1>1, <1>3 DEF Made
  <1>8. WindowInv'
    BY <1>1, <1>2, <1>3, <1>6, <1>7 DEF Inv, WindowInv, InWindow, Below, LineOf
  <1>9. MenuInv'
    BY <1>1, <1>2, <1>3 DEF Inv, MenuInv
  <1>10. ServedInv'
    BY <1>1, <1>2, <1>3 DEF Inv, ServedInv
  <1>11. CASE pc' = "done" /\ lines' = GridLines(count) /\ UNCHANGED force
    <2>1. lines' \in Nat /\ count <= lines' * PerLine
      BY <1>4, <1>11, GridHolds
    <2>2. TypeOK'
      BY <1>3, <1>11, <2>1 DEF Inv, TypeOK
    <2>3. EnumInv'
      BY <1>2, <1>3, <1>5, <1>11 DEF EnumInv, Made
    <2>4. GridInv'
      BY <1>3, <1>11, <2>1 DEF GridInv
    <2> QED BY <1>2, <1>8, <1>9, <1>10, <2>2, <2>3, <2>4 DEF Inv
  <1>12. CASE count + skipped # N /\ pc' = "pick" /\ force' = ForceUnload /\ UNCHANGED lines
    <2>1. count + skipped < N
      BY <1>4, <1>12
    <2>2. TypeOK'
      BY <1>3, <1>12, <2>1 DEF Inv, TypeOK, ForceUnload
    <2>3. ForceUnload => LineOf(count) >= Below(top)
      <3> SUFFICES ASSUME ForceUnload
                   PROVE  LineOf(count) >= Below(top)
        OBVIOUS
      <3> DEFINE p == top * PerLine
                 q == Below(top) * PerLine
      <3>1. /\ p \in Nat /\ q \in Nat /\ InitialCount \in Nat /\ q = p + InitialCount
            /\ (top = 0 => p = 0)
        BY <1>4 DEF InitialCount
      <3>2. top # 0 => q <= count
        BY <1>1 DEF Inv, EnumInv
      <3>3. count < p \/ count - p > InitialCount
        BY DEF ForceUnload
      <3> HIDE DEF p, q
      <3>4. q <= count
        BY <1>4, <3>1, <3>2, <3>3
      <3>5. Below(top) * PerLine <= count
        BY <3>4 DEF q
      <3> QED BY <1>4, <3>5, ListedBelow
    <2>4. force' => LineOf(count) >= Below(top)
      BY <1>12, <2>3
    <2>5. EnumInv'
      BY <1>1, <1>2, <1>3, <1>5, <1>12, <2>4 DEF Inv, EnumInv, Made, Below, LineOf
    <2>6. GridInv'
      BY <1>1, <1>12 DEF Inv, GridInv
    <2> QED BY <1>2, <1>8, <1>9, <1>10, <2>2, <2>5, <2>6 DEF Inv
  <1> QED BY <1>11, <1>12 DEF EnumDecide

LEMMA EnumSkipStep ==
  ASSUME Inv, EnumSkip
  PROVE  Inv'
  <1>1. pc = "pick" /\ todo = <<>>
    BY DEF EnumSkip, EnumRuns
  <1>2. /\ QueueOk(arq)' /\ FlightInv' /\ PoolInv' /\ Fly(arq)' = Fly(arq)
        /\ \A b \in Banners : (Held(b)' <=> Held(b)) /\ (Cold(b)' <=> Cold(b))
    BY <1>1, Frozen DEF EnumSkip
  <1>3. /\ state' = state /\ buf' = buf /\ used' = used /\ pixels' = pixels /\ count' = count
        /\ picked' = picked /\ skipped' = skipped + 1 /\ pc' = "decide" /\ force' = force
        /\ leaving' = leaving /\ arq' = arq /\ top' = top /\ todo' = todo /\ lines' = lines
    BY DEF EnumSkip, pool, menuvars
  <1>4. TypeOK'
    BY <1>1, <1>3, AssetsAssumption DEF Inv, TypeOK
  <1>5. EnumInv'
    BY <1>1, <1>2, <1>3 DEF Inv, EnumInv, Made, Below
  <1>6. MenuInv' /\ GridInv'
    BY <1>1, <1>2, <1>3 DEF Inv, MenuInv, GridInv
  <1>7. \A op, b : Due(op, b)' <=> Due(op, b)
    BY <1>3 DEF Due
  <1>8. WindowInv'
    BY <1>1, <1>2, <1>3, <1>7 DEF Inv, WindowInv, InWindow, Below, Made, LineOf
  <1>9. ServedInv'
    BY <1>1, <1>2, <1>3 DEF Inv, ServedInv
  <1> QED BY <1>2, <1>4, <1>5, <1>6, <1>8, <1>9 DEF Inv

LEMMA EnumPublishStep ==
  ASSUME Inv, EnumPublish
  PROVE  Inv'
  <1>1. pc = "publish" /\ todo = <<>>
    BY DEF EnumPublish, EnumRuns
  <1>2. /\ QueueOk(arq)' /\ FlightInv' /\ PoolInv' /\ Fly(arq)' = Fly(arq)
        /\ \A b \in Banners : (Held(b)' <=> Held(b)) /\ (Cold(b)' <=> Cold(b))
    BY <1>1, Frozen DEF EnumPublish
  <1>3. /\ state' = state /\ buf' = buf /\ used' = used /\ pixels' = pixels /\ count' = count + 1
        /\ picked' = picked /\ skipped' = skipped /\ pc' = "decide" /\ force' = force
        /\ leaving' = leaving /\ arq' = arq /\ top' = top /\ todo' = todo /\ lines' = lines
    BY DEF EnumPublish, pool, menuvars
  <1>4. /\ N \in Nat /\ count \in Nat /\ Below(top) \in Nat /\ PerLine \in Nat
        /\ \A b \in Banners : b \in Nat
    BY BannerTypes DEF Inv
  <1>5. TypeOK'
    BY <1>1, <1>3, <1>4 DEF Inv, TypeOK
  <1>6. \A b \in Banners : Made(b)' <=> Made(b)
    BY <1>1, <1>3, <1>4 DEF Made
  <1>7. EnumInv'
    <2>1. top # 0 => Below(top) * PerLine <= count + 1
      <3>1. Below(top) * PerLine \in Nat
        BY <1>4
      <3>2. top # 0 => Below(top) * PerLine <= count
        BY <1>1 DEF Inv, EnumInv
      <3> QED BY <1>4, <3>1, <3>2
    <2> QED BY <1>1, <1>2, <1>3, <1>6, <2>1 DEF Inv, EnumInv, Below
  <1>8. MenuInv' /\ GridInv'
    BY <1>1, <1>2, <1>3 DEF Inv, MenuInv, GridInv
  <1>9. \A op, b : Due(op, b)' <=> Due(op, b)
    BY <1>3 DEF Due
  <1>10. WindowInv'
    BY <1>1, <1>2, <1>3, <1>6, <1>9 DEF Inv, WindowInv, InWindow, Below, LineOf
  <1>11. ServedInv'
    BY <1>1, <1>2, <1>3 DEF Inv, ServedInv
  <1> QED BY <1>2, <1>5, <1>7, <1>8, <1>10, <1>11 DEF Inv

-----------------------------------------------------------------------------
(* The enumeration thread makes an entry. *)

\* The entry being made is not in flight, and has no buffer.
LEMMA Fresh ==
  ASSUME Inv, pc \in {"pick", "take"}
  PROVE  /\ count \in Banners /\ count \in Tasks /\ ~Held(count) /\ ~Cold(count)
         /\ count \notin Fly(arq) /\ count \in Nat
         /\ \A b \in Banners : Held(b) \/ Cold(b) => b < count
  <1>1. count \in Banners /\ count \in Nat
    BY AssetsAssumption DEF Inv, TypeOK, Banners
  <1>2. \A b \in Banners : Held(b) \/ Cold(b) => b < count
    BY DEF Inv, EnumInv, Made
  <1>3. ~Held(count) /\ ~Cold(count)
    BY <1>1, <1>2
  <1> QED BY <1>1, <1>2, <1>3, AssetsAssumption DEF Held

\* Where all buffers are used, as many banners other than b hold them.
LEMMA Room ==
  ASSUME TypeOK, PoolInv, N <= BufferCount, NEW b \in Banners, ~Held(b)
  PROVE  FirstFree # NoBuf
  <1> SUFFICES ASSUME FirstFree = NoBuf
               PROVE  FALSE
    OBVIOUS
  <1>1. \A k \in Buffers : used[k]
    BY FirstFreeIs DEF TypeOK
  <1>2. \A k \in Buffers : \E c \in Banners : Held(c) /\ buf[c] = k
    BY <1>1 DEF PoolInv
  <1> DEFINE T == Banners \ {b}
             f == [k \in Buffers |-> CHOOSE c \in Banners : Held(c) /\ buf[c] = k]
  <1>3. \A k \in Buffers : f[k] \in Banners /\ Held(f[k]) /\ buf[f[k]] = k
    BY <1>2
  <1>4. f \in [Buffers -> T]
    <2>1. \A k \in Buffers : f[k] \in T
      BY <1>3
    <2> QED BY <2>1
  <1> HIDE DEF f
  <1>5. BufferCount \in Nat /\ N \in Nat /\ N > 0
    BY AssetsAssumption DEF Banners
  <1>6. IsFiniteSet(Buffers) /\ Cardinality(Buffers) = BufferCount
    <2>1. /\ IsFiniteSet(1 .. BufferCount)
          /\ Cardinality(1 .. BufferCount) = IF 1 > BufferCount THEN 0 ELSE BufferCount - 1 + 1
      BY <1>5, FS_Interval
    <2> QED BY <1>5, <2>1 DEF Buffers
  <1>7. IsFiniteSet(Banners) /\ Cardinality(Banners) = N
    <2>1. /\ IsFiniteSet(0 .. (N - 1))
          /\ Cardinality(0 .. (N - 1)) = IF 0 > N - 1 THEN 0 ELSE (N - 1) - 0 + 1
      BY <1>5, FS_Interval
    <2> QED BY <1>5, <2>1 DEF Banners
  <1>8. IsFiniteSet(T) /\ Cardinality(T) = Cardinality(Banners) - 1
    BY <1>7, FS_RemoveElement
  <1> HIDE DEF T
  <1>9. Cardinality(T) < Cardinality(Buffers)
    BY <1>5, <1>6, <1>7, <1>8
  <1>10. PICK j, k \in Buffers : j # k /\ f[j] = f[k]
    BY <1>4, <1>6, <1>8, <1>9, FS_PigeonHole
  <1> QED BY <1>3, <1>10

LEMMA EnumPickStep ==
  ASSUME Inv, EnumPick
  PROVE  Inv'
  <1>1. /\ pc = "pick" /\ count \in Banners /\ count \in Tasks /\ ~Held(count) /\ ~Cold(count)
        /\ count \notin Fly(arq) /\ todo = <<>> /\ count \in Nat
        /\ \A b \in Banners : Held(b) \/ Cold(b) => b < count
    BY Fresh DEF EnumPick, EnumRuns
  <1>2. /\ buf' = [buf EXCEPT ![count] = NoBuf] /\ used' = used /\ pixels' = pixels
        /\ count' = count /\ skipped' = skipped /\ force' = force
        /\ leaving' = leaving /\ top' = top /\ todo' = todo /\ lines' = lines
        /\ arq' = WithFields(arq, count, 0, NoCall)
    BY DEF EnumPick, pool, menuvars, WithFields
  <1>3. \/ /\ state' = [state EXCEPT ![count] = "LOADING"]
           /\ picked' = FirstFree /\ pc' = IF FirstFree = NoBuf THEN "publish" ELSE "take"
        \/ state' = [state EXCEPT ![count] = "NONE"] /\ pc' = "publish" /\ picked' = picked
    BY DEF EnumPick
  <1>4. /\ QueueOk(arq') /\ Fly(arq') = Fly(arq)
        /\ arq'.callback = [arq.callback EXCEPT ![count] = NoCall]
    <2>1. QueueOk(arq)
      BY DEF Inv
    <2>2. /\ QueueOk(WithFields(arq, count, 0, NoCall))
          /\ Fly(WithFields(arq, count, 0, NoCall)) = Fly(arq)
          /\ WithFields(arq, count, 0, NoCall).callback = [arq.callback EXCEPT ![count] = NoCall]
      BY <1>1, <2>1, FlyReset
    <2> QED BY <1>2, <2>2
  <1>5. /\ arq.callback \in [Banners -> CallSet] /\ state \in [Banners -> {"NONE", "SETUP", "UNLOADING", "UNLOADED", "LOADING", "LOADED"}]
        /\ buf \in [Banners -> Buffers \cup {NoBuf}]
    BY FlyTypes, AssetsAssumption DEF Inv, TypeOK
  <1>6. /\ \A b \in Banners : b # count =>
             state'[b] = state[b] /\ buf'[b] = buf[b] /\ arq'.callback[b] = arq.callback[b]
        /\ state'[count] \in {"LOADING", "NONE"} /\ buf'[count] = NoBuf
    BY <1>1, <1>2, <1>3, <1>4, <1>5
  <1>7. \A b \in Banners : (Held(b)' <=> Held(b)) /\ (Cold(b)' <=> Cold(b))
    BY <1>1, <1>4, <1>6 DEF Held, Cold
  <1>8. \/ FirstFree \in Buffers /\ ~used[FirstFree] /\ FirstFree # NoBuf
        \/ FirstFree = NoBuf /\ \A k \in Buffers : used[k]
    BY FirstFreeIs DEF Inv, TypeOK
  <1>9. pc' \in {"publish", "take"}
    BY <1>3
  <1>10. TypeOK'
    <2>1. state' \in [Banners -> {"NONE", "SETUP", "UNLOADING", "UNLOADED", "LOADING", "LOADED"}]
      BY <1>3, <1>5
    <2>2. buf' \in [Banners -> Buffers \cup {NoBuf}]
      BY <1>2, <1>5
    <2>3. picked' \in Buffers \cup {NoBuf}
      BY <1>3, <1>8 DEF Inv, TypeOK
    <2> QED BY <1>1, <1>2, <1>9, <2>1, <2>2, <2>3 DEF Inv, TypeOK
  <1>11. FlightInv'
    <2>1. \A b \in Fly(arq) : b # count
      BY <1>1
    <2> QED BY <1>4, <1>6, <2>1 DEF Inv, FlightInv
  <1>12. PoolInv'
    <2>1. \A b \in Banners : Held(b) => b # count
      BY <1>1
    <2>2. \A b \in Banners : state'[b] \in {"SETUP", "LOADED"} => b # count
      BY <1>6
    <2> QED BY <1>1, <1>2, <1>6, <1>7, <2>1, <2>2 DEF Inv, PoolInv
  <1>13. EnumInv'
    <2>1. pc' = "take" => picked' \in Buffers /\ ~used'[picked']
      BY <1>2, <1>3, <1>8
    <2> QED BY <1>1, <1>2, <1>7, <1>9, <2>1 DEF Inv, EnumInv, Made, Below, LineOf
  <1>14. MenuInv' /\ GridInv'
    BY <1>1, <1>2, <1>4, <1>9 DEF Inv, MenuInv, GridInv
  <1>15. WindowInv'
    <2>1. \A op, b : ~Due(op, b) /\ ~Due(op, b)'
      BY <1>1, <1>2 DEF Due
    <2> SUFFICES ASSUME NEW b \in Banners
                 PROVE  /\ Cold(b)' => LineOf(b) >= Below(top)
                        /\ ~(Made(b)' /\ InWindow(b, top) /\ state'[b] \in {"UNLOADED", "UNLOADING"})
      BY <1>2, <2>1 DEF WindowInv, InWindow, Below, LineOf
    <2>2. Cold(b)' => LineOf(b) >= Below(top)
      BY <1>1, <1>7, <2>1 DEF Inv, WindowInv
    <2>3. CASE b = count
      BY <1>6, <2>2, <2>3
    <2>4. CASE b # count
      <3>1. Made(b)' => Made(b)
        BY <1>2, <2>4 DEF Made
      <3>2. state'[b] = state[b]
        BY <1>6, <2>4
      <3> QED BY <1>1, <2>1, <2>2, <3>1, <3>2 DEF Inv, WindowInv
    <2> QED BY <2>3, <2>4
  <1>16. ServedInv'
    <2> SUFFICES ASSUME N <= BufferCount, NEW b \in Banners, state'[b] = "LOADING"
                 PROVE  b \in Fly(arq) \/ (b = count /\ pc' = "take")
      BY <1>2, <1>4 DEF ServedInv
    <2>1. FirstFree # NoBuf
      BY <1>1, Room DEF Inv
    <2>2. CASE b = count
      <3>1. state' # [state EXCEPT ![count] = "NONE"]
        BY <1>1, <1>5, <2>2
      <3> QED BY <1>3, <2>1, <2>2, <3>1
    <2>3. CASE b # count
      BY <1>1, <1>6, <2>3 DEF Inv, ServedInv
    <2> QED BY <2>2, <2>3
  <1> QED BY <1>4, <1>10, <1>11, <1>12, <1>13, <1>14, <1>15, <1>16 DEF Inv

LEMMA EnumTakeStep ==
  ASSUME Inv, EnumTake
  PROVE  Inv'
  <1> DEFINE call == IF force THEN "unload" ELSE "setup"
             s == IF force THEN "UNLOADING" ELSE "SETUP"
  <1>1. /\ pc = "take" /\ count \in Banners /\ count \in Tasks /\ ~Held(count) /\ ~Cold(count)
        /\ count \notin Fly(arq) /\ todo = <<>> /\ count \in Nat
        /\ \A b \in Banners : Held(b) \/ Cold(b) => b < count
    BY Fresh DEF EnumTake, EnumRuns
  <1>2. /\ buf' = [buf EXCEPT ![count] = picked] /\ used' = [used EXCEPT ![picked] = TRUE]
        /\ pixels' = [pixels EXCEPT ![picked] = count] /\ state' = [state EXCEPT ![count] = s]
        /\ count' = count /\ skipped' = skipped /\ force' = force /\ pc' = "publish"
        /\ leaving' = leaving /\ top' = top /\ todo' = todo /\ lines' = lines /\ picked' = picked
        /\ arq' = PostRequest(arq, count, "low", call)
    BY DEF EnumTake, pool, menuvars
  <1>3. picked \in Buffers /\ ~used[picked] /\ (force => LineOf(count) >= Below(top))
    BY <1>1 DEF Inv, EnumInv
  <1>4. /\ call \in CallSet /\ call # NoCall /\ Matches(call, s)
        /\ s \in {"UNLOADING", "SETUP"} /\ (s = "UNLOADING" <=> force) /\ force \in BOOLEAN
    BY AssetsAssumption DEF CallSet, Matches, Inv, TypeOK
  <1> HIDE DEF call, s
  <1>5. /\ QueueOk(arq') /\ Fly(arq') = Fly(arq) \cup {count}
        /\ arq'.callback = [arq.callback EXCEPT ![count] = call]
    <2>1. QueueOk(arq)
      BY DEF Inv
    <2>2. /\ QueueOk(PostRequest(arq, count, "low", call))
          /\ Fly(PostRequest(arq, count, "low", call)) = Fly(arq) \cup {count}
          /\ PostRequest(arq, count, "low", call).callback = [arq.callback EXCEPT ![count] = call]
      BY <1>1, <1>4, <2>1, FlyPost
    <2> QED BY <1>2, <2>2
  <1>6. /\ arq.callback \in [Banners -> CallSet] /\ state \in [Banners -> {"NONE", "SETUP", "UNLOADING", "UNLOADED", "LOADING", "LOADED"}]
        /\ buf \in [Banners -> Buffers \cup {NoBuf}] /\ used \in [Buffers -> BOOLEAN]
        /\ pixels \in [Buffers -> 0 .. N] /\ count \in 0 .. N
    BY <1>1, FlyTypes, AssetsAssumption DEF Inv, TypeOK, Banners
  <1>7. /\ \A b \in Banners : b # count =>
             state'[b] = state[b] /\ buf'[b] = buf[b] /\ arq'.callback[b] = arq.callback[b]
        /\ state'[count] = s /\ buf'[count] = picked /\ arq'.callback[count] = call
        /\ \A k \in Buffers : k # picked => used'[k] = used[k] /\ pixels'[k] = pixels[k]
        /\ used'[picked] = TRUE /\ pixels'[picked] = count
    BY <1>1, <1>2, <1>3, <1>5, <1>6
  <1>8. \A b \in Banners : /\ Held(b)' <=> Held(b) \/ b = count
                           /\ Cold(b)' <=> Cold(b) \/ (b = count /\ force)
    <2>1. \A b \in Banners : b # count => (Held(b)' <=> Held(b)) /\ (Cold(b)' <=> Cold(b))
      BY <1>5, <1>7 DEF Held, Cold
    <2>2. ASSUME NEW b \in Banners, b = count
          PROVE  Held(b)' /\ (Cold(b)' <=> force) /\ ~Cold(b)
      BY <1>1, <1>4, <1>5, <1>7, <2>2 DEF Held, Cold
    <2> QED BY <1>1, <2>1, <2>2
  <1>9. TypeOK'
    <2>1. state' \in [Banners -> {"NONE", "SETUP", "UNLOADING", "UNLOADED", "LOADING", "LOADED"}]
      BY <1>2, <1>4, <1>6
    <2>2. buf' \in [Banners -> Buffers \cup {NoBuf}] /\ used' \in [Buffers -> BOOLEAN]
      BY <1>2, <1>3, <1>6
    <2>3. pixels' \in [Buffers -> 0 .. N]
      <3> DEFINE S == 0 .. N
      <3>1. count \in S /\ pixels \in [Buffers -> S]
        BY <1>6
      <3>2. pixels' = [pixels EXCEPT ![picked] = count]
        BY <1>2
      <3> HIDE DEF S
      <3>3. pixels' \in [Buffers -> S]
        BY <3>1, <3>2
      <3> QED BY <3>3 DEF S
    <2> QED BY <1>1, <1>2, <2>1, <2>2, <2>3 DEF Inv, TypeOK
  <1>10. FlightInv'
    <2>1. \A b \in Fly(arq) : b # count
      BY <1>1
    <2>2. \A b \in Fly(arq) \cup {count} : b \in Banners /\ Matches(arq'.callback[b], state'[b])
      BY <1>1, <1>4, <1>7, <2>1 DEF Inv, FlightInv
    <2> QED BY <1>5, <1>7, <2>2 DEF Inv, FlightInv
  <1>11. PoolInv'
    <2>1. \A b \in Banners : Held(b) => b # count /\ buf[b] # picked /\ buf[b] \in Buffers
      <3>1. pc # "starting"
        BY <1>1
      <3>2. \A b \in Banners : Held(b) => buf[b] \in Buffers /\ used[buf[b]]
        BY <3>1 DEF Inv, PoolInv
      <3> QED BY <1>1, <1>3, <3>2
    <2>2. \A b \in Banners : state[b] \in {"SETUP", "LOADED"} => Held(b)
      BY DEF Inv, FlightInv, Held
    <2>3. \A b \in Banners : Held(b)' => buf'[b] \in Buffers /\ used'[buf'[b]]
      BY <1>1, <1>3, <1>7, <1>8, <2>1 DEF Inv, PoolInv
    <2>4. ASSUME NEW k \in Buffers, used'[k]
          PROVE  \E b \in Banners : Held(b)' /\ buf'[b] = k
      <3>1. CASE k = picked
        BY <1>1, <1>7, <1>8, <3>1
      <3>2. CASE k # picked
        <4>1. PICK b \in Banners : Held(b) /\ buf[b] = k
          BY <1>7, <2>4, <3>2 DEF Inv, PoolInv
        <4> QED BY <1>7, <1>8, <2>1, <4>1
      <3> QED BY <3>1, <3>2
    <2>5. \A b, c \in Banners : Held(b)' /\ Held(c)' /\ buf'[b] = buf'[c] => b = c
      BY <1>7, <1>8, <2>1 DEF Inv, PoolInv
    <2>6. \A b \in Banners : state'[b] \in {"SETUP", "LOADED"} => pixels'[buf'[b]] = b
      BY <1>7, <2>1, <2>2 DEF Inv, PoolInv
    <2> QED BY <2>3, <2>4, <2>5, <2>6 DEF PoolInv
  <1>12. EnumInv'
    BY <1>1, <1>2, <1>8 DEF Inv, EnumInv, Made, Below
  <1>13. MenuInv' /\ GridInv'
    BY <1>1, <1>2 DEF Inv, MenuInv, GridInv
  <1>14. WindowInv'
    <2>1. \A op, b : ~Due(op, b) /\ ~Due(op, b)'
      BY <1>1, <1>2 DEF Due
    <2> SUFFICES ASSUME NEW b \in Banners
                 PROVE  /\ Cold(b)' => LineOf(b) >= Below(top)
                        /\ ~(Made(b)' /\ InWindow(b, top) /\ state'[b] \in {"UNLOADED", "UNLOADING"})
      BY <1>2, <2>1 DEF WindowInv, InWindow, Below, LineOf
    <2>2. CASE b = count
      <3>1. Cold(b)' <=> force
        BY <1>1, <1>8, <2>2
      <3>2. state'[b] \in {"UNLOADED", "UNLOADING"} <=> force
        BY <1>4, <1>7, <2>2
      <3>3. LineOf(b) >= Below(top) => ~InWindow(b, top)
        BY BannerTypes DEF Inv, InWindow
      <3> QED BY <1>3, <2>2, <3>1, <3>2, <3>3
    <2>3. CASE b # count
      <3>1. (Made(b)' => Made(b)) /\ state'[b] = state[b] /\ (Cold(b)' <=> Cold(b))
        BY <1>2, <1>7, <1>8, <2>3 DEF Made
      <3> QED BY <1>1, <2>1, <3>1 DEF Inv, WindowInv
    <2> QED BY <2>2, <2>3
  <1>15. ServedInv'
    <2> SUFFICES ASSUME N <= BufferCount, NEW b \in Banners, state'[b] = "LOADING"
                 PROVE  b \in Fly(arq) \cup {count}
      BY <1>5 DEF ServedInv
    <2> QED BY <1>7 DEF Inv, ServedInv
  <1> QED BY <1>5, <1>9, <1>10, <1>11, <1>12, <1>13, <1>14, <1>15 DEF Inv

-----------------------------------------------------------------------------
(* The ARAM interrupt. *)

LEMMA InterruptNothing ==
  ASSUME Inv, Interrupt, Fired(arq) = <<NoTask, NoCall>>
  PROVE  UNCHANGED pool
  <1>1. NoCall \notin {"setup", "unload", "load"} /\ Fired(arq)[2] = NoCall
    BY AssetsAssumption
  <1> QED BY <1>1 DEF Interrupt, pool

\* What the callback does to the banner whose transfer ends.
LEMMA InterruptEnds ==
  ASSUME Inv, Interrupt, NEW t \in Fly(arq), Fired(arq) = <<t, arq.callback[t]>>
  PROVE  /\ t \in Banners /\ buf' = buf
         /\ \/ /\ state[t] = "SETUP" /\ state' = [state EXCEPT ![t] = "LOADED"]
               /\ used' = used /\ pixels' = pixels
            \/ /\ state[t] = "UNLOADING" /\ state' = [state EXCEPT ![t] = "UNLOADED"]
               /\ used' = Released(buf[t]) /\ pixels' = pixels
            \/ /\ state[t] = "LOADING" /\ state' = [state EXCEPT ![t] = "LOADED"]
               /\ used' = used /\ pixels' = [pixels EXCEPT ![buf[t]] = t]
  <1> DEFINE call == arq.callback[t]
  <1>1. t \in Banners /\ Matches(call, state[t])
    BY DEF Inv, FlightInv
  <1>2. NoCall \notin {"setup", "unload", "load"}
    BY AssetsAssumption
  <1>3. Fired(arq)[1] = t /\ Fired(arq)[2] = call
    OBVIOUS
  <1>4. /\ buf' = buf
        /\ state' = IF call = NoCall THEN state
                    ELSE [state EXCEPT ![t] = IF call = "unload" THEN "UNLOADED" ELSE "LOADED"]
        /\ used' = IF call = "unload" THEN Released(buf[t]) ELSE used
        /\ pixels' = IF call = "load" THEN [pixels EXCEPT ![buf[t]] = t] ELSE pixels
    BY <1>3 DEF Interrupt
  <1> HIDE DEF call
  <1>5. CASE call = "setup"
    BY <1>1, <1>2, <1>4, <1>5 DEF Matches
  <1>6. CASE call = "unload"
    BY <1>1, <1>2, <1>4, <1>6 DEF Matches
  <1>7. CASE call = "load"
    BY <1>1, <1>2, <1>4, <1>7 DEF Matches
  <1> QED BY <1>1, <1>5, <1>6, <1>7 DEF Matches

LEMMA InterruptStep ==
  ASSUME Inv, Interrupt
  PROVE  Inv'
  <1>1. /\ count' = count /\ skipped' = skipped /\ force' = force /\ pc' = pc /\ picked' = picked
        /\ leaving' = leaving /\ top' = top /\ todo' = todo /\ lines' = lines /\ buf' = buf
        /\ arq' = InterruptServiceRoutine(arq)
    BY DEF Interrupt, enumvars, menuvars
  <1>2. /\ QueueOk(arq') /\ arq'.callback = arq.callback
        /\ \/ Fired(arq) = <<NoTask, NoCall>> /\ Fly(arq') = Fly(arq)
           \/ \E t \in Fly(arq) : Fired(arq) = <<t, arq.callback[t]>> /\ Fly(arq') = Fly(arq) \ {t}
    <2>1. QueueOk(arq)
      BY DEF Inv
    <2>2. /\ QueueOk(InterruptServiceRoutine(arq))
          /\ InterruptServiceRoutine(arq).callback = arq.callback
          /\ \/ /\ Fired(arq) = <<NoTask, NoCall>>
                /\ Fly(InterruptServiceRoutine(arq)) = Fly(arq)
             \/ \E t \in Fly(arq) :
                  /\ Fired(arq) = <<t, arq.callback[t]>>
                  /\ Fly(InterruptServiceRoutine(arq)) = Fly(arq) \ {t}
      BY <2>1, FlyInterrupt
    <2> QED BY <1>1, <2>2
  <1>3. \A op, b : Due(op, b)' <=> Due(op, b)
    BY <1>1 DEF Due
  <1>4. CASE Fired(arq) = <<NoTask, NoCall>> /\ Fly(arq') = Fly(arq)
    <2>1. state' = state /\ used' = used /\ pixels' = pixels
      BY <1>4, InterruptNothing DEF pool
    <2>2. \A b \in Banners : (Held(b)' <=> Held(b)) /\ (Cold(b)' <=> Cold(b))
      BY <1>1, <1>4, <2>1 DEF Held, Cold
    <2>3. TypeOK'
      BY <1>1, <2>1 DEF Inv, TypeOK
    <2>4. FlightInv'
      BY <1>2, <1>4, <2>1 DEF Inv, FlightInv
    <2>5. PoolInv'
      BY <1>1, <2>1, <2>2 DEF Inv, PoolInv
    <2>6. EnumInv'
      BY <1>1, <1>3, <2>1, <2>2 DEF Inv, EnumInv, Made, Below, LineOf
    <2>7. MenuInv' /\ GridInv'
      BY <1>1, <1>3, <1>4 DEF Inv, MenuInv, GridInv
    <2>8. WindowInv'
      BY <1>1, <1>3, <2>1, <2>2 DEF Inv, WindowInv, Made, InWindow, Below, LineOf
    <2>9. ServedInv'
      BY <1>1, <1>4, <2>1 DEF Inv, ServedInv
    <2> QED BY <1>2, <2>3, <2>4, <2>5, <2>6, <2>7, <2>8, <2>9 DEF Inv
  <1>5. ASSUME NEW t \in Fly(arq), Fired(arq) = <<t, arq.callback[t]>>, Fly(arq') = Fly(arq) \ {t}
        PROVE  Inv'
    <2>0. pc # "starting"
      BY <1>5 DEF Inv, MenuInv
    <2>1. /\ t \in Banners
          /\ \/ /\ state[t] = "SETUP" /\ state' = [state EXCEPT ![t] = "LOADED"]
                /\ used' = used /\ pixels' = pixels
             \/ /\ state[t] = "UNLOADING" /\ state' = [state EXCEPT ![t] = "UNLOADED"]
                /\ used' = Released(buf[t]) /\ pixels' = pixels
             \/ /\ state[t] = "LOADING" /\ state' = [state EXCEPT ![t] = "LOADED"]
                /\ used' = used /\ pixels' = [pixels EXCEPT ![buf[t]] = t]
      BY <1>5, InterruptEnds
    <2>2. /\ state \in [Banners -> {"NONE", "SETUP", "UNLOADING", "UNLOADED", "LOADING", "LOADED"}]
          /\ buf \in [Banners -> Buffers \cup {NoBuf}] /\ used \in [Buffers -> BOOLEAN]
          /\ pixels \in [Buffers -> 0 .. N] /\ N \in Nat /\ t \in 0 .. N
      BY <2>1, AssetsAssumption DEF Inv, TypeOK, Banners
    <2>3. /\ Held(t) /\ buf[t] \in Buffers /\ buf[t] # NoBuf /\ used[buf[t]]
          /\ \A b \in Banners : Held(b) /\ b # t => buf[b] # buf[t]
      <3>1. Held(t) /\ NoBuf \notin Buffers
        BY AssetsAssumption DEF Held
      <3> QED BY <2>0, <2>1, <3>1 DEF Inv, PoolInv
    <2>4. /\ \A b \in Banners : b # t => state'[b] = state[b]
          /\ \/ state[t] \in {"SETUP", "LOADING"} /\ state'[t] = "LOADED"
             \/ state[t] = "UNLOADING" /\ state'[t] = "UNLOADED"
      BY <2>1, <2>2
    <2>5. \A b \in Banners : /\ Held(b)' <=> Held(b) /\ ~(b = t /\ state[t] = "UNLOADING")
                             /\ Cold(b)' <=> Cold(b)
      <3>1. \A b \in Banners : b # t => (Held(b)' <=> Held(b)) /\ (Cold(b)' <=> Cold(b))
        BY <1>1, <1>5, <2>4 DEF Held, Cold
      <3>2. (Held(t)' <=> state[t] # "UNLOADING") /\ (Cold(t)' <=> Cold(t))
        BY <1>1, <1>5, <2>1, <2>3, <2>4 DEF Held, Cold
      <3> QED BY <2>3, <3>1, <3>2
    <2>6. /\ used' \in [Buffers -> BOOLEAN] /\ \A k \in Buffers : used'[k] => used[k]
          /\ \A k \in Buffers : k # buf[t] => used'[k] = used[k]
          /\ state[t] # "UNLOADING" => used' = used
          /\ state[t] = "UNLOADING" => ~used'[buf[t]]
      BY <2>1, <2>2, <2>3 DEF Released
    <2>7. /\ pixels' \in [Buffers -> 0 .. N]
          /\ \A k \in Buffers : k # buf[t] => pixels'[k] = pixels[k]
          /\ state'[t] = "LOADED" => pixels'[buf[t]] = t
      <3>1. state[t] = "SETUP" => pixels[buf[t]] = t
        BY <2>1 DEF Inv, PoolInv
      <3> QED BY <2>1, <2>2, <2>3, <2>4, <3>1
    <2>8. TypeOK'
      <3>1. state' \in [Banners -> {"NONE", "SETUP", "UNLOADING", "UNLOADED", "LOADING", "LOADED"}]
        BY <2>1, <2>2
      <3> QED BY <1>1, <2>6, <2>7, <3>1 DEF Inv, TypeOK
    <2>9. FlightInv'
      BY <1>2, <1>5, <2>4 DEF Inv, FlightInv
    <2>10. PoolInv'
      <3>1. \A b \in Banners : Held(b)' => buf'[b] \in Buffers /\ used'[buf'[b]]
        <4>1. \A b \in Banners : Held(b) => buf[b] \in Buffers /\ used[buf[b]]
          BY <2>0 DEF Inv, PoolInv
        <4> QED BY <1>1, <2>3, <2>5, <2>6, <4>1
      <3>2. ASSUME NEW k \in Buffers, used'[k]
            PROVE  \E b \in Banners : Held(b)' /\ buf'[b] = k
        <4>1. PICK b \in Banners : Held(b) /\ buf[b] = k
          BY <2>6, <3>2 DEF Inv, PoolInv
        <4> QED BY <1>1, <2>5, <2>6, <3>2, <4>1
      <3>3. \A b, c \in Banners : Held(b)' /\ Held(c)' /\ buf'[b] = buf'[c] => b = c
        BY <1>1, <2>5 DEF Inv, PoolInv
      <3>4. ASSUME NEW b \in Banners, state'[b] \in {"SETUP", "LOADED"}
            PROVE  pixels'[buf'[b]] = b
        <4>1. CASE b = t
          BY <1>1, <2>4, <2>7, <3>4, <4>1
        <4>2. CASE b # t
          <5>1. state[b] \in {"SETUP", "LOADED"}
            BY <2>4, <3>4, <4>2
          <5>2. Held(b) /\ pixels[buf[b]] = b
            BY <5>1 DEF Inv, FlightInv, PoolInv, Held
          <5>3. buf[b] \in Buffers /\ buf[b] # buf[t]
            BY <2>3, <4>2, <5>2 DEF Inv, PoolInv
          <5> QED BY <1>1, <2>7, <5>2, <5>3
        <4> QED BY <4>1, <4>2
      <3> QED BY <3>1, <3>2, <3>3, <3>4 DEF PoolInv
    <2>11. EnumInv'
      <3>1. \A b \in Banners : Made(b)' <=> Made(b)
        BY <1>1 DEF Made
      <3>2. pc = "take" => picked \in Buffers /\ ~used'[picked] /\ todo = <<>>
        BY <2>6 DEF Inv, EnumInv
      <3> QED BY <1>1, <1>3, <2>0, <2>5, <3>1, <3>2 DEF Inv, EnumInv, Below, LineOf
    <2>12. MenuInv' /\ GridInv'
      BY <1>1, <1>3, <1>5 DEF Inv, MenuInv, GridInv
    <2>13. WindowInv'
      <3>1. \A b \in Banners :
              state'[b] \in {"UNLOADED", "UNLOADING"} => state[b] \in {"UNLOADED", "UNLOADING"}
        BY <2>4
      <3> QED BY <1>1, <1>3, <2>0, <2>5, <3>1 DEF Inv, WindowInv, Made, InWindow, Below, LineOf
    <2>14. ServedInv'
      <3>1. \A b \in Banners : state'[b] = "LOADING" => state[b] = "LOADING" /\ b # t
        BY <2>4
      <3> QED BY <1>1, <1>5, <3>1 DEF Inv, ServedInv
    <2> QED BY <1>2, <2>8, <2>9, <2>10, <2>11, <2>12, <2>13, <2>14 DEF Inv
  <1> QED BY <1>2, <1>4, <1>5

-----------------------------------------------------------------------------
(* The menu makes the next call. *)

\* What is left to do afterwards.
LEMMA TailDue ==
  ASSUME TypeOK, MenuInv, todo # <<>>, todo' = Tail(todo)
  PROVE  /\ todo[1] = <<todo[1][1], todo[1][2]>> /\ todo[1][1] \in {"load", "free"}
         /\ todo[1][2] \in Banners /\ todo[1][2] < count /\ todo[1][2] \notin Fly(arq)
         /\ Due(todo[1][1], todo[1][2])
         /\ todo' \in Seq({"load", "free"} \X Banners)
         /\ \A k \in 1 .. Len(todo') : /\ k + 1 \in 1 .. Len(todo) /\ todo'[k] = todo[k + 1]
                                       /\ todo'[k][2] # todo[1][2]
         /\ \A op, c : Due(op, c)' => Due(op, c) /\ c # todo[1][2]
         /\ \A op, c : Due(op, c) /\ c # todo[1][2] => Due(op, c)'
  <1>1. todo \in Seq({"load", "free"} \X Banners) /\ Len(todo) \in Nat /\ Len(todo) > 0
    BY DEF TypeOK
  <1>2. 1 \in 1 .. Len(todo) /\ todo[1] \in {"load", "free"} \X Banners
    BY <1>1
  <1>3. todo[1] = <<todo[1][1], todo[1][2]>> /\ todo[1][1] \in {"load", "free"} /\ todo[1][2] \in Banners
    BY <1>2
  <1>4. /\ todo' \in Seq({"load", "free"} \X Banners) /\ Len(todo') = Len(todo) - 1
        /\ \A k \in 1 .. Len(todo') : k + 1 \in 1 .. Len(todo) /\ todo'[k] = todo[k + 1]
    BY <1>1
  <1>5. \A k \in 1 .. Len(todo') : todo'[k][2] # todo[1][2]
    <2> SUFFICES ASSUME NEW k \in 1 .. Len(todo'), todo'[k][2] = todo[1][2]
                 PROVE  FALSE
      OBVIOUS
    <2>1. k + 1 \in 1 .. Len(todo) /\ todo[k + 1][2] = todo[1][2]
      BY <1>4
    <2>2. k + 1 = 1
      BY <1>2, <2>1 DEF MenuInv
    <2> QED BY <2>2
  <1>6. todo[1][2] < count /\ todo[1][2] \notin Fly(arq)
    BY <1>2 DEF MenuInv
  <1>7. ASSUME NEW op, NEW c, Due(op, c)'
        PROVE  Due(op, c) /\ c # todo[1][2]
    <2>1. PICK k \in 1 .. Len(todo') : todo'[k] = <<op, c>>
      BY <1>7 DEF Due
    <2>2. todo'[k][2] = c
      BY <2>1
    <2>3. k + 1 \in 1 .. Len(todo) /\ todo[k + 1] = <<op, c>>
      BY <1>4, <2>1
    <2> QED BY <1>5, <2>2, <2>3 DEF Due
  <1>8. ASSUME NEW op, NEW c, Due(op, c), c # todo[1][2]
        PROVE  Due(op, c)'
    <2>1. PICK k \in 1 .. Len(todo) : todo[k] = <<op, c>>
      BY <1>8 DEF Due
    <2>2. k # 1
      BY <1>8, <2>1
    <2>3. k - 1 \in 1 .. Len(todo') /\ (k - 1) + 1 = k
      BY <1>1, <1>4, <2>2
    <2>4. todo'[k - 1] = <<op, c>>
      BY <1>4, <2>1, <2>3
    <2> QED BY <2>3, <2>4 DEF Due
  <1>9. Due(todo[1][1], todo[1][2])
    BY <1>2, <1>3 DEF Due
  <1> QED BY <1>3, <1>4, <1>5, <1>6, <1>7, <1>8, <1>9

\* A call of op for b is the next one.
Calling(op, b) ==
  /\ b \in Banners /\ b < count /\ b \notin Fly(arq) /\ Due(op, b)
  /\ todo # <<>> /\ todo[1] = <<op, b>> /\ todo[1][1] = op /\ todo[1][2] = b
  /\ todo' \in Seq({"load", "free"} \X Banners)
  /\ \A k \in 1 .. Len(todo') : /\ k + 1 \in 1 .. Len(todo) /\ todo'[k] = todo[k + 1]
                                /\ todo'[k][2] # b
  /\ \A o, c : Due(o, c)' => Due(o, c) /\ c # b
  /\ \A o, c : Due(o, c) /\ c # b => Due(o, c)'
  /\ count' = count /\ top' = top /\ lines' = lines /\ pc' = pc /\ force' = force
  /\ picked' = picked /\ skipped' = skipped /\ leaving' = leaving

LEMMA MenuCalls ==
  ASSUME Inv, MenuStep
  PROVE  \E b \in Banners : \/ Calling("load", b) /\ BannerLoad(b) /\ pc # "starting"
                            \/ Calling("free", b) /\ BannerFree(b)
  <1>1. /\ todo # <<>> /\ todo' = Tail(todo) /\ count' = count /\ top' = top /\ lines' = lines
        /\ pc' = pc /\ force' = force /\ picked' = picked /\ skipped' = skipped /\ leaving' = leaving
        /\ IF todo[1][1] = "load" THEN BannerLoad(todo[1][2]) ELSE BannerFree(todo[1][2])
    BY DEF MenuStep, enumvars
  <1>2. /\ todo[1] = <<todo[1][1], todo[1][2]>> /\ todo[1][1] \in {"load", "free"}
        /\ todo[1][2] \in Banners /\ todo[1][2] < count /\ todo[1][2] \notin Fly(arq)
        /\ Due(todo[1][1], todo[1][2])
        /\ todo' \in Seq({"load", "free"} \X Banners)
        /\ \A k \in 1 .. Len(todo') : /\ k + 1 \in 1 .. Len(todo) /\ todo'[k] = todo[k + 1]
                                      /\ todo'[k][2] # todo[1][2]
        /\ \A op, c : Due(op, c)' => Due(op, c) /\ c # todo[1][2]
        /\ \A op, c : Due(op, c) /\ c # todo[1][2] => Due(op, c)'
    BY <1>1, TailDue DEF Inv
  <1> DEFINE op == todo[1][1]
             b == todo[1][2]
  <1>3. Calling(op, b)
    BY <1>1, <1>2 DEF Calling
  <1>4. CASE op = "load"
    <2>1. 1 \in 1 .. Len(todo)
      BY <1>1 DEF Inv, TypeOK
    <2>2. pc # "starting"
      BY <1>1, <1>4, <2>1 DEF Inv, MenuInv
    <2> QED BY <1>1, <1>2, <1>3, <1>4, <2>2
  <1>5. CASE op = "free"
    BY <1>1, <1>2, <1>3, <1>5
  <1> QED BY <1>2, <1>4, <1>5

LEMMA CallMenu ==
  ASSUME Inv, NEW op, NEW b, Calling(op, b),
         Fly(arq)' \subseteq Fly(arq) \cup {b}, pc = "starting" => Fly(arq)' = Fly(arq)
  PROVE  MenuInv' /\ GridInv' /\ pc # "take"
  <1>1. ~leaving /\ pc # "take"
    BY DEF Inv, MenuInv, EnumInv, Calling
  <1>2. \A k \in 1 .. Len(todo') : todo'[k][2] \notin Fly(arq)' /\ todo'[k][2] < count
    BY DEF Inv, MenuInv, Calling
  <1>3. pc = "starting" => \A k \in 1 .. Len(todo') : todo'[k][1] = "free"
    BY DEF Inv, MenuInv, Calling
  <1>4. \A k \in 1 .. Len(todo') : k \in Int /\ k + 1 \in 1 .. Len(todo) /\ todo'[k] = todo[k + 1]
    BY DEF Calling
  <1>5. ASSUME NEW j \in 1 .. Len(todo'), NEW k \in 1 .. Len(todo'), todo'[j][2] = todo'[k][2]
        PROVE  j = k
    <2>1. \A p, q \in 1 .. Len(todo) : todo[p][2] = todo[q][2] => p = q
      BY DEF Inv, MenuInv
    <2>2. /\ j + 1 \in 1 .. Len(todo) /\ todo'[j] = todo[j + 1] /\ j \in Int
          /\ k + 1 \in 1 .. Len(todo) /\ todo'[k] = todo[k + 1] /\ k \in Int
      BY <1>4
    <2>3. j + 1 = k + 1
      BY <1>5, <2>1, <2>2
    <2> QED BY <2>2, <2>3
  <1>6. count' = count /\ lines' = lines /\ pc' = pc /\ leaving' = leaving
    BY DEF Calling
  <1>7. pc = "starting" => Fly(arq)' = {}
    BY DEF Inv, MenuInv
  <1>8. MenuInv'
    BY <1>1, <1>2, <1>3, <1>5, <1>6, <1>7 DEF MenuInv
  <1>9. GridInv'
    BY <1>6 DEF Inv, GridInv
  <1> QED BY <1>1, <1>8, <1>9

\* The call finds nothing to do.
LEMMA CallIdle ==
  ASSUME Inv, NEW op, NEW b, Calling(op, b), Held(b) => pc # "starting",
         state'[b] \notin {"UNLOADED", "UNLOADING"}, N <= BufferCount => state' = state,
         arq' = arq, buf' = buf, used' = used, pixels' = pixels,
         \/ state' = state
         \/ state[b] \in {"LOADING", "UNLOADED"} /\ state' = [state EXCEPT ![b] = "LOADING"]
  PROVE  Inv'
  <1>1. /\ b \in Banners /\ count' = count /\ top' = top /\ lines' = lines /\ pc' = pc
        /\ force' = force /\ picked' = picked /\ skipped' = skipped /\ leaving' = leaving
        /\ \A o, c : Due(o, c)' => Due(o, c) /\ c # b
        /\ \A o, c : Due(o, c) /\ c # b => Due(o, c)'
    BY DEF Calling
  <1>2. state \in [Banners -> {"NONE", "SETUP", "UNLOADING", "UNLOADED", "LOADING", "LOADED"}]
    BY DEF Inv, TypeOK
  <1>3. /\ \A c \in Banners : c # b => state'[c] = state[c]
        /\ state'[b] = state[b] \/ (state[b] \in {"LOADING", "UNLOADED"} /\ state'[b] = "LOADING")
        /\ state' \in [Banners -> {"NONE", "SETUP", "UNLOADING", "UNLOADED", "LOADING", "LOADED"}]
    BY <1>1, <1>2
  <1>4. \A c \in Banners : /\ Held(c)' <=> Held(c)
                           /\ Cold(c)' => Cold(c) /\ c # b
    <2>1. \A c \in Banners : c # b => (Held(c)' <=> Held(c)) /\ (Cold(c)' <=> Cold(c))
      BY <1>3 DEF Held, Cold
    <2>2. ~Cold(b)'
      BY <1>3 DEF Cold
    <2>3. b \notin Fly(arq)
      BY DEF Calling
    <2>4. Held(b)' <=> Held(b)
      BY <1>3, <2>3 DEF Held
    <2> QED BY <1>1, <2>1, <2>2, <2>4
  <1>5. TypeOK'
    BY <1>1, <1>3 DEF Inv, TypeOK, Calling
  <1>6. FlightInv'
    <2>1. b \notin Fly(arq)
      BY DEF Calling
    <2> QED BY <1>3, <2>1 DEF Inv, FlightInv
  <1>7. PoolInv'
    <2>1. \A c \in Banners : state'[c] \in {"SETUP", "LOADED"} => state[c] \in {"SETUP", "LOADED"}
      BY <1>3
    <2>2. pc' = pc
      BY <1>1
    <2> QED BY <1>4, <2>1, <2>2 DEF Inv, PoolInv
  <1>8. MenuInv' /\ GridInv' /\ pc # "take"
    BY CallMenu
  <1>9. EnumInv'
    <2>1. \A c \in Banners : Made(c)' <=> Made(c)
      BY <1>1 DEF Made
    <2>2. \A c \in Banners : Held(c)' \/ Cold(c)' => Held(c) \/ Cold(c)
      BY <1>4
    <2>3. pc = "starting" => \A c \in Banners : Held(c)' \/ Cold(c)' => c # b
      BY <1>4
    <2> QED BY <1>1, <1>8, <2>1, <2>2, <2>3 DEF Inv, EnumInv, Below, LineOf
  <1>10. WindowInv'
    <2> SUFFICES ASSUME pc # "starting", NEW c \in Banners
                 PROVE  /\ Cold(c)' => (LineOf(c) >= Below(top) \/ Due("load", c)') /\ ~Due("free", c)'
                        /\ Due("free", c)' => ~InWindow(c, top)
                        /\ Made(c) /\ InWindow(c, top) /\ state'[c] \in {"UNLOADED", "UNLOADING"}
                             => Due("load", c)'
      BY <1>1 DEF WindowInv, Made, InWindow, Below, LineOf
    <2>1. CASE c = b
      BY <1>1, <1>4, <2>1
    <2>2. CASE c # b
      BY <1>1, <1>3, <1>4, <2>2 DEF Inv, WindowInv
    <2> QED BY <2>1, <2>2
  <1>11. ServedInv'
    BY <1>1 DEF Inv, ServedInv
  <1> QED BY <1>5, <1>6, <1>7, <1>8, <1>9, <1>10, <1>11 DEF Inv

\* gm_banner_load finds a buffer and posts the transfer.
LEMMA LoadPosts ==
  ASSUME Inv, NEW b, Calling("load", b), pc # "starting",
         state[b] \in {"UNLOADED", "LOADING"}, FirstFree # NoBuf,
         state' = [state EXCEPT ![b] = "LOADING"], used' = [used EXCEPT ![FirstFree] = TRUE],
         buf' = [buf EXCEPT ![b] = FirstFree], arq' = PostRequest(arq, b, "low", "load"),
         pixels' = pixels
  PROVE  Inv'
  <1> DEFINE call == "load"
             f == FirstFree
  <1>1. /\ b \in Banners /\ b \in Tasks /\ b < count /\ b \notin Fly(arq)
        /\ count' = count /\ top' = top /\ lines' = lines /\ pc' = pc
        /\ force' = force /\ picked' = picked /\ skipped' = skipped /\ leaving' = leaving
        /\ \A o, c : Due(o, c)' => Due(o, c) /\ c # b
        /\ \A o, c : Due(o, c) /\ c # b => Due(o, c)'
    BY AssetsAssumption DEF Calling
  <1>2. call \in CallSet /\ call # NoCall /\ Matches(call, "LOADING")
    BY AssetsAssumption DEF CallSet, Matches
  <1>3. f \in Buffers /\ ~used[f]
    BY FirstFreeIs DEF Inv, TypeOK
  <1> HIDE DEF call, f
  <1>4. /\ QueueOk(arq') /\ Fly(arq') = Fly(arq) \cup {b}
        /\ arq'.callback = [arq.callback EXCEPT ![b] = call]
    <2>1. QueueOk(arq)
      BY DEF Inv
    <2>2. /\ QueueOk(PostRequest(arq, b, "low", call))
          /\ Fly(PostRequest(arq, b, "low", call)) = Fly(arq) \cup {b}
          /\ PostRequest(arq, b, "low", call).callback = [arq.callback EXCEPT ![b] = call]
      BY <1>1, <1>2, <2>1, FlyPost
    <2>3. arq' = PostRequest(arq, b, "low", call)
      BY DEF call
    <2> QED BY <2>2, <2>3
  <1>5. /\ arq.callback \in [Banners -> CallSet] /\ state \in [Banners -> {"NONE", "SETUP", "UNLOADING", "UNLOADED", "LOADING", "LOADED"}]
        /\ buf \in [Banners -> Buffers \cup {NoBuf}] /\ used \in [Buffers -> BOOLEAN]
    BY FlyTypes, AssetsAssumption DEF Inv, TypeOK
  <1>6. /\ \A c \in Banners : c # b =>
             state'[c] = state[c] /\ buf'[c] = buf[c] /\ arq'.callback[c] = arq.callback[c]
        /\ state'[b] = "LOADING" /\ buf'[b] = f /\ arq'.callback[b] = call
        /\ \A k \in Buffers : k # f => used'[k] = used[k]
        /\ used'[f] = TRUE
    BY <1>1, <1>3, <1>4, <1>5 DEF f
  <1>7. ~Held(b)
    BY <1>1 DEF Held
  <1>8. \A c \in Banners : /\ Held(c)' <=> Held(c) \/ c = b
                           /\ Cold(c)' <=> Cold(c) /\ c # b
    <2>1. \A c \in Banners : c # b => (Held(c)' <=> Held(c)) /\ (Cold(c)' <=> Cold(c))
      BY <1>4, <1>6 DEF Held, Cold
    <2>2. Held(b)' /\ ~Cold(b)'
      BY <1>4, <1>6 DEF Held, Cold
    <2> QED BY <2>1, <2>2
  <1>9. TypeOK'
    <2>1. state' \in [Banners -> {"NONE", "SETUP", "UNLOADING", "UNLOADED", "LOADING", "LOADED"}]
      BY <1>5
    <2>2. buf' \in [Banners -> Buffers \cup {NoBuf}] /\ used' \in [Buffers -> BOOLEAN]
      BY <1>3, <1>5 DEF f
    <2> QED BY <1>1, <2>1, <2>2 DEF Inv, TypeOK, Calling
  <1>10. FlightInv'
    <2>1. \A c \in Fly(arq) : c # b
      BY <1>1
    <2>2. \A c \in Fly(arq) \cup {b} : c \in Banners /\ Matches(arq'.callback[c], state'[c])
      BY <1>1, <1>2, <1>6, <2>1 DEF Inv, FlightInv
    <2> QED BY <1>4, <1>6, <2>2 DEF Inv, FlightInv
  <1>11. PoolInv'
    <2>1. \A c \in Banners : Held(c) => c # b /\ buf[c] # f /\ buf[c] \in Buffers
      <3>1. \A c \in Banners : Held(c) => buf[c] \in Buffers /\ used[buf[c]]
        BY DEF Inv, PoolInv
      <3> QED BY <1>3, <1>7, <3>1
    <2>2. \A c \in Banners : Held(c)' => buf'[c] \in Buffers /\ used'[buf'[c]]
      <3>1. \A c \in Banners : Held(c) => used[buf[c]]
        BY DEF Inv, PoolInv
      <3> QED BY <1>3, <1>6, <1>8, <2>1, <3>1
    <2>3. ASSUME NEW k \in Buffers, used'[k]
          PROVE  \E c \in Banners : Held(c)' /\ buf'[c] = k
      <3>1. CASE k = f
        BY <1>1, <1>6, <1>8, <3>1
      <3>2. CASE k # f
        <4>1. PICK c \in Banners : Held(c) /\ buf[c] = k
          BY <1>6, <2>3, <3>2 DEF Inv, PoolInv
        <4> QED BY <1>6, <1>8, <2>1, <4>1
      <3> QED BY <3>1, <3>2
    <2>4. \A c, d \in Banners : Held(c)' /\ Held(d)' /\ buf'[c] = buf'[d] => c = d
      BY <1>6, <1>8, <2>1 DEF Inv, PoolInv
    <2>5. \A c \in Banners : state'[c] \in {"SETUP", "LOADED"} => pixels'[buf'[c]] = c
      BY <1>6 DEF Inv, PoolInv
    <2> QED BY <2>2, <2>3, <2>4, <2>5 DEF PoolInv
  <1>12. MenuInv' /\ GridInv' /\ pc # "take"
    BY <1>4, CallMenu
  <1>13. EnumInv'
    <2>1. \A c \in Banners : Held(c) \/ Cold(c) => Made(c)
      BY DEF Inv, EnumInv
    <2>2. \A c \in Banners : Held(c)' \/ Cold(c)' => Made(c)'
      BY <1>1, <1>8, <2>1 DEF Made
    <2> QED BY <1>1, <1>12, <2>2 DEF Inv, EnumInv, Below, LineOf
  <1>14. WindowInv'
    <2> SUFFICES ASSUME NEW c \in Banners
                 PROVE  /\ Cold(c)' => (LineOf(c) >= Below(top) \/ Due("load", c)') /\ ~Due("free", c)'
                        /\ Due("free", c)' => ~InWindow(c, top)
                        /\ Made(c) /\ InWindow(c, top) /\ state'[c] \in {"UNLOADED", "UNLOADING"}
                             => Due("load", c)'
      BY <1>1 DEF WindowInv, Made, InWindow, Below, LineOf
    <2>1. CASE c = b
      BY <1>1, <1>6, <1>8, <2>1
    <2>2. CASE c # b
      BY <1>1, <1>6, <1>8, <2>2 DEF Inv, WindowInv
    <2> QED BY <2>1, <2>2
  <1>15. ServedInv'
    BY <1>1, <1>4, <1>6 DEF Inv, ServedInv
  <1> QED BY <1>4, <1>9, <1>10, <1>11, <1>12, <1>13, <1>14, <1>15 DEF Inv

\* The buffer that gm_banner_free gives back is nobody else's.
LEMMA FreesItsOwn ==
  ASSUME Inv, NEW b, Calling("free", b), pc # "starting", state[b] \in {"LOADED", "UNLOADED"},
         NEW c \in Banners, Held(c), c # b
  PROVE  buf[c] # buf[b]
  <1>1. b \in Banners /\ Due("free", b)
    BY DEF Calling
  <1>2. buf[c] \in Buffers /\ NoBuf \notin Buffers
    BY AssetsAssumption DEF Inv, PoolInv
  <1>3. ~Cold(b)
    BY <1>1 DEF Inv, WindowInv
  <1>4. CASE Held(b)
    BY <1>1, <1>4 DEF Inv, PoolInv
  <1>5. CASE ~Held(b)
    <2>1. buf[b] = NoBuf
      BY <1>3, <1>5 DEF Held, Cold
    <2> QED BY <1>2, <2>1
  <1> QED BY <1>4, <1>5

\* gm_banner_free gives the buffer back.
LEMMA FreeReleases ==
  ASSUME Inv, NEW b, Calling("free", b), state[b] \in {"LOADED", "UNLOADED"},
         used' = Released(buf[b]), buf' = [buf EXCEPT ![b] = NoBuf],
         state' = [state EXCEPT ![b] = "UNLOADED"], arq' = arq, pixels' = pixels
  PROVE  Inv'
  <1>1. /\ b \in Banners /\ b \notin Fly(arq)
        /\ count' = count /\ top' = top /\ lines' = lines /\ pc' = pc
        /\ force' = force /\ picked' = picked /\ skipped' = skipped /\ leaving' = leaving
        /\ \A o, c : Due(o, c)' => Due(o, c) /\ c # b
        /\ \A o, c : Due(o, c) /\ c # b => Due(o, c)'
    BY DEF Calling
  <1>2. /\ state \in [Banners -> {"NONE", "SETUP", "UNLOADING", "UNLOADED", "LOADING", "LOADED"}]
        /\ buf \in [Banners -> Buffers \cup {NoBuf}] /\ used \in [Buffers -> BOOLEAN]
    BY DEF Inv, TypeOK
  <1>3. /\ \A c \in Banners : c # b => state'[c] = state[c] /\ buf'[c] = buf[c]
        /\ state'[b] = "UNLOADED" /\ buf'[b] = NoBuf
        /\ \A k \in Buffers : used'[k] <=> used[k] /\ k # buf[b]
    BY <1>1, <1>2 DEF Released
  <1>4. \A c \in Banners : /\ Held(c)' <=> Held(c) /\ c # b
                           /\ Cold(c)' <=> Cold(c) /\ c # b
    <2>1. \A c \in Banners : c # b => (Held(c)' <=> Held(c)) /\ (Cold(c)' <=> Cold(c))
      BY <1>3 DEF Held, Cold
    <2>2. ~Held(b)' /\ ~Cold(b)'
      BY <1>1, <1>3 DEF Held, Cold
    <2> QED BY <2>1, <2>2
  <1>5. TypeOK'
    <2>1. state' \in [Banners -> {"NONE", "SETUP", "UNLOADING", "UNLOADED", "LOADING", "LOADED"}]
      BY <1>2
    <2>2. buf' \in [Banners -> Buffers \cup {NoBuf}] /\ used' \in [Buffers -> BOOLEAN]
      BY <1>2 DEF Released
    <2> QED BY <1>1, <2>1, <2>2 DEF Inv, TypeOK, Calling
  <1>6. FlightInv'
    <2>1. \A c \in Fly(arq) : c # b
      BY <1>1
    <2> QED BY <1>3, <2>1 DEF Inv, FlightInv
  <1>7. PoolInv'
    <2>1. pc # "starting" => \A c \in Banners : Held(c) /\ c # b => buf[c] # buf[b]
      BY FreesItsOwn
    <2>2. \A c \in Banners : Held(c)' => buf'[c] \in Buffers /\ (pc # "starting" => used'[buf'[c]])
      BY <1>3, <1>4, <2>1 DEF Inv, PoolInv
    <2>3. ASSUME NEW k \in Buffers, used'[k]
          PROVE  \E c \in Banners : Held(c)' /\ buf'[c] = k
      <3>1. PICK c \in Banners : Held(c) /\ buf[c] = k
        BY <1>3, <2>3 DEF Inv, PoolInv
      <3>2. c # b
        BY <1>3, <2>3, <3>1
      <3> QED BY <1>3, <1>4, <3>1, <3>2
    <2>4. \A c, d \in Banners : Held(c)' /\ Held(d)' /\ buf'[c] = buf'[d] => c = d
      BY <1>3, <1>4 DEF Inv, PoolInv
    <2>5. \A c \in Banners : state'[c] \in {"SETUP", "LOADED"} => pixels'[buf'[c]] = c
      BY <1>3 DEF Inv, PoolInv
    <2> QED BY <1>1, <2>2, <2>3, <2>4, <2>5 DEF PoolInv
  <1>8. MenuInv' /\ GridInv' /\ pc # "take"
    BY CallMenu
  <1>9. EnumInv'
    <2>1. \A c \in Banners : Made(c)' <=> Made(c)
      BY <1>1 DEF Made
    <2> QED BY <1>1, <1>4, <1>8, <2>1 DEF Inv, EnumInv, Below, LineOf
  <1>10. WindowInv'
    <2> SUFFICES ASSUME pc # "starting", NEW c \in Banners
                 PROVE  /\ Cold(c)' => (LineOf(c) >= Below(top) \/ Due("load", c)') /\ ~Due("free", c)'
                        /\ Due("free", c)' => ~InWindow(c, top)
                        /\ Made(c) /\ InWindow(c, top) /\ state'[c] \in {"UNLOADED", "UNLOADING"}
                             => Due("load", c)'
      BY <1>1 DEF WindowInv, Made, InWindow, Below, LineOf
    <2>1. CASE c = b
      <3>1. Due("free", b)
        BY DEF Calling
      <3>2. ~InWindow(b, top)
        BY <1>1, <3>1 DEF Inv, WindowInv
      <3> QED BY <1>1, <1>4, <2>1, <3>2
    <2>2. CASE c # b
      BY <1>1, <1>3, <1>4, <2>2 DEF Inv, WindowInv
    <2> QED BY <2>1, <2>2
  <1>11. ServedInv'
    BY <1>1, <1>3 DEF Inv, ServedInv
  <1>12. QueueOk(arq)'
    BY DEF Inv
  <1> QED BY <1>5, <1>6, <1>7, <1>8, <1>9, <1>10, <1>11, <1>12 DEF Inv

LEMMA MenuStepStep ==
  ASSUME Inv, MenuStep
  PROVE  Inv'
  <1>1. PICK b \in Banners : \/ Calling("load", b) /\ BannerLoad(b) /\ pc # "starting"
                             \/ Calling("free", b) /\ BannerFree(b)
    BY MenuCalls
  <1>2. b \notin Fly(arq) /\ state[b] \in {"NONE", "UNLOADED", "LOADING", "LOADED"}
    BY <1>1 DEF Calling, Inv, FlightInv, TypeOK
  <1>3. Held(b) => state[b] = "LOADED"
    BY <1>2 DEF Held
  <1>5. CASE Calling("load", b) /\ BannerLoad(b) /\ pc # "starting"
    <2> DEFINE op == "load"
    <2>1. Calling(op, b) /\ op = "load"
      BY <1>5
    <2>2. CASE state[b] \in {"NONE", "LOADED"}
      <3>1. arq' = arq /\ state' = state /\ buf' = buf /\ used' = used /\ pixels' = pixels
        BY <1>5, <2>2 DEF BannerLoad, pool
      <3>2. state'[b] \notin {"UNLOADED", "UNLOADING"}
        BY <2>2, <3>1
      <3> HIDE DEF op
      <3> QED BY <1>5, <2>1, <3>1, <3>2, CallIdle
    <2>3. CASE state[b] \in {"UNLOADED", "LOADING"} /\ FirstFree = NoBuf
      <3>1. /\ arq' = arq /\ buf' = buf /\ used' = used /\ pixels' = pixels
            /\ state' = [state EXCEPT ![b] = "LOADING"]
        BY <1>5, <2>3 DEF BannerLoad
      <3>2. ~Held(b)
        BY <1>3, <2>3
      <3>3. state'[b] = "LOADING"
        BY <3>1 DEF Inv, TypeOK
      <3>4. ~(N <= BufferCount)
        BY <2>3, <3>2, Room DEF Inv
      <3> HIDE DEF op
      <3> QED BY <2>1, <2>3, <3>1, <3>2, <3>3, <3>4, CallIdle
    <2>4. CASE state[b] \in {"UNLOADED", "LOADING"} /\ FirstFree # NoBuf
      <3>1. /\ state' = [state EXCEPT ![b] = "LOADING"] /\ used' = [used EXCEPT ![FirstFree] = TRUE]
            /\ buf' = [buf EXCEPT ![b] = FirstFree] /\ arq' = PostRequest(arq, b, "low", "load")
            /\ pixels' = pixels
        BY <1>5, <2>4 DEF BannerLoad
      <3> QED BY <1>5, <2>4, <3>1, LoadPosts
    <2> QED BY <1>2, <2>2, <2>3, <2>4
  <1>6. CASE Calling("free", b) /\ BannerFree(b)
    <2> DEFINE op == "free"
    <2>1. Calling(op, b)
      BY <1>6
    <2>2. CASE state[b] \in {"NONE", "LOADING"}
      <3>1. arq' = arq /\ state' = state /\ buf' = buf /\ used' = used /\ pixels' = pixels
        BY <1>6, <2>2 DEF BannerFree, pool
      <3>2. state'[b] \notin {"UNLOADED", "UNLOADING"} /\ ~Held(b)
        BY <1>3, <2>2, <3>1
      <3> HIDE DEF op
      <3> QED BY <2>1, <3>1, <3>2, CallIdle
    <2>3. CASE state[b] \in {"LOADED", "UNLOADED"}
      <3>1. /\ used' = Released(buf[b]) /\ buf' = [buf EXCEPT ![b] = NoBuf]
            /\ state' = [state EXCEPT ![b] = "UNLOADED"] /\ arq' = arq /\ pixels' = pixels
        BY <1>6, <2>3 DEF BannerFree
      <3> QED BY <1>6, <2>3, <3>1, FreeReleases
    <2> QED BY <1>2, <2>2, <2>3
  <1> QED BY <1>1, <1>5, <1>6

-----------------------------------------------------------------------------
(* The theorems. *)

LEMMA InvInit ==
  ASSUME Init
  PROVE  Inv
  <1>1. QueueOk(arq) /\ Fly(arq) = {}
    BY FlyInit DEF Init
  <1>2. /\ state = [b \in Banners |-> "NONE"] /\ buf = [b \in Banners |-> NoBuf]
        /\ used = [k \in Buffers |-> FALSE] /\ pixels = [k \in Buffers |-> N]
        /\ count = 0 /\ top = 0 /\ lines = 0 /\ pc = "starting" /\ force = FALSE /\ picked = NoBuf
        /\ skipped = 0 /\ todo = <<>> /\ leaving = FALSE
    BY DEF Init
  <1>3. N \in Nat
    BY AssetsAssumption
  <1>4. TypeOK
    <2>1. todo \in Seq({"load", "free"} \X Banners)
      BY <1>2
    <2>2. state \in [Banners -> {"NONE", "SETUP", "UNLOADING", "UNLOADED", "LOADING", "LOADED"}]
      BY <1>2
    <2>3. /\ buf \in [Banners -> Buffers \cup {NoBuf}] /\ used \in [Buffers -> BOOLEAN]
          /\ pixels \in [Buffers -> 0 .. N]
      BY <1>2, <1>3
    <2>4. /\ force \in BOOLEAN /\ leaving \in BOOLEAN /\ picked \in Buffers \cup {NoBuf}
          /\ pc \in {"starting", "decide", "pick", "take", "publish", "done"}
          /\ pc \notin {"pick", "take", "publish"}
      BY <1>2
    <2>5. /\ count \in Nat /\ skipped \in Nat /\ count + skipped <= N /\ top \in Nat /\ lines \in Nat
      BY <1>2, <1>3
    <2> QED BY <2>1, <2>2, <2>3, <2>4, <2>5 DEF TypeOK
  <1>5. \A b \in Banners : ~Held(b) /\ ~Cold(b)
    BY <1>1, <1>2 DEF Held, Cold
  <1>6. FlightInv /\ PoolInv
    BY <1>1, <1>2, <1>5 DEF FlightInv, PoolInv
  <1>7. EnumInv
    BY <1>2, <1>5 DEF EnumInv
  <1>8. MenuInv /\ GridInv
    BY <1>1, <1>2 DEF MenuInv, GridInv
  <1>9. WindowInv /\ ServedInv
    BY <1>2 DEF WindowInv, ServedInv
  <1> QED BY <1>1, <1>4, <1>6, <1>7, <1>8, <1>9 DEF Inv

LEMMA InvStutter ==
  ASSUME Inv, UNCHANGED vars
  PROVE  Inv'
  <1>1. /\ UNCHANGED <<arq, pool>> /\ state' = state /\ buf' = buf /\ used' = used
        /\ pixels' = pixels /\ count' = count /\ lines' = lines /\ pc' = pc /\ force' = force
        /\ picked' = picked /\ skipped' = skipped /\ leaving' = leaving /\ todo' = todo /\ top' = top
    BY DEF vars, pool, enumvars, menuvars
  <1>2. /\ QueueOk(arq)' /\ FlightInv' /\ PoolInv' /\ Fly(arq)' = Fly(arq)
        /\ \A b \in Banners : (Held(b)' <=> Held(b)) /\ (Cold(b)' <=> Cold(b))
    <2>1. pc # "starting" \/ pc' = "starting"
      BY <1>1
    <2> QED BY <1>1, <2>1, Frozen
  <1>3. \A op, b : Due(op, b)' <=> Due(op, b)
    BY <1>1 DEF Due
  <1>4. TypeOK'
    BY <1>1 DEF Inv, TypeOK
  <1>5. EnumInv'
    BY <1>1, <1>2, <1>3 DEF Inv, EnumInv, Made, Below, LineOf
  <1>6. MenuInv' /\ GridInv'
    BY <1>1, <1>2 DEF Inv, MenuInv, GridInv
  <1>7. WindowInv'
    BY <1>1, <1>2, <1>3 DEF Inv, WindowInv, Made, InWindow, Below, LineOf
  <1>8. ServedInv'
    BY <1>1, <1>2 DEF Inv, ServedInv
  <1> QED BY <1>2, <1>4, <1>5, <1>6, <1>7, <1>8 DEF Inv

LEMMA InvStep ==
  ASSUME Patient, Inv, [Next]_vars
  PROVE  Inv'
  <1>1. CASE ScrollDown
    BY <1>1, ScrollDownStep
  <1>2. CASE ScrollUp
    BY <1>2, ScrollUpStep
  <1>3. CASE MenuStep
    BY <1>3, MenuStepStep
  <1>4. CASE LeaveDirectory
    BY <1>4, LeaveStep
  <1>5. CASE Restart
    BY <1>5, RestartStep
  <1>6. CASE EnumStart
    BY <1>6, EnumStartStep
  <1>7. CASE EnumDecide
    BY <1>7, EnumDecideStep
  <1>8. CASE EnumSkip
    BY <1>8, EnumSkipStep
  <1>9. CASE EnumPick
    BY <1>9, EnumPickStep
  <1>10. CASE EnumTake
    BY <1>10, EnumTakeStep
  <1>11. CASE EnumPublish
    BY <1>11, EnumPublishStep
  <1>12. CASE Interrupt
    BY <1>12, InterruptStep
  <1>13. CASE UNCHANGED vars
    BY <1>13, InvStutter
  <1> QED BY <1>1, <1>2, <1>3, <1>4, <1>5, <1>6, <1>7, <1>8, <1>9, <1>10, <1>11, <1>12, <1>13
           DEF Next, EnumNext

\* For a user who leaves alone the lines that are on their way (gm_can_move could tell, and
\* says yes), the banners, their requests and the pool of buffers agree while the listing and
\* the transfers go on, whatever the sizes of list, grid and pool.
THEOREM Invariant ==
  ASSUME Patient
  PROVE  Spec => []Inv
  <1>1. Init => Inv
    BY InvInit
  <1>2. Inv /\ [Next]_vars => Inv'
    BY InvStep
  <1> QED BY <1>1, <1>2, PTL DEF Spec

\* A banner that the menu draws (GM_LOAD_STATE_LOADED) has a buffer that is allocated
\* and holds its own pixels, while others are listed, loaded and unloaded.
THEOREM LoadedBannersAreValid ==
  ASSUME Patient
  PROVE  Spec => []LoadedIsValid
  <1>1. Inv => LoadedIsValid
    BY AssetsAssumption DEF Inv, LoadedIsValid, PoolInv, Held
  <1> QED BY <1>1, Invariant, PTL

\* gm_get_banner_buf and gm_free_banner_buf keep the pool: a buffer that is in use belongs
\* to one banner, in flight or loaded, and one that is not in use to none.
THEOREM PoolStaysExact ==
  ASSUME Patient
  PROVE  Spec => []PoolExact
  <1>1. ASSUME Inv
        PROVE  PoolExact
    <2> SUFFICES ASSUME pc # "starting", NEW k \in Buffers
                 PROVE  IF used[k] THEN Cardinality(Holders(k)) = 1 ELSE Holders(k) = {}
      BY DEF PoolExact
    <2>1. QueueOk(arq) /\ Tasks = Banners
      BY <1>1, AssetsAssumption DEF Inv
    <2>2. Holders(k) = {b \in Banners : Held(b) /\ buf[b] = k}
      BY <2>1, FlightIs DEF Holders, Held
    <2>3. CASE used[k]
      <3>1. PICK b \in Banners : Held(b) /\ buf[b] = k
        BY <1>1, <2>3 DEF Inv, PoolInv
      <3>2. Holders(k) = {b}
        BY <1>1, <2>2, <3>1 DEF Inv, PoolInv
      <3>3. Cardinality(Holders(k)) = 1
        BY <3>2, FS_Singleton
      <3> QED BY <2>3, <3>3
    <2>4. CASE ~used[k]
      <3>1. Holders(k) = {}
        BY <1>1, <2>2, <2>4 DEF Inv, PoolInv
      <3> QED BY <2>4, <3>1
    <2> QED BY <2>3, <2>4
  <1> QED BY <1>1, Invariant, PTL

\* gm_line_changed has loaded each line before it comes into view: at rest, with a buffer
\* for every banner, what is around the screen is loaded; with fewer buffers, what is not
\* has found none.
THEOREM WindowIsLoaded ==
  ASSUME Patient
  PROVE  Spec => []WindowLoaded
  <1>1. ASSUME Inv
        PROVE  WindowLoaded
    <2> SUFFICES ASSUME AtRest, NEW b \in Window
                 PROVE  \/ state[b] \in {"LOADED", "NONE"}
                        \/ BufferCount < N /\ state[b] = "LOADING"
      BY DEF WindowLoaded
    <2>1. /\ pc = "done" /\ todo = <<>> /\ Fly(arq) = {}
          /\ \A op, c : ~Due(op, c)
      BY <1>1, FlyIdle DEF AtRest, Inv, Due
    <2>2. b \in Banners /\ Made(b) /\ InWindow(b, top)
      BY DEF Window, Made, InWindow, Below
    <2>3. state[b] \in {"NONE", "SETUP", "UNLOADING", "UNLOADED", "LOADING", "LOADED"}
      BY <1>1, <2>2 DEF Inv, TypeOK
    <2>4. state[b] \notin {"SETUP", "UNLOADING"}
      BY <1>1, <2>1, <2>2 DEF Inv, FlightInv
    <2>5. state[b] # "UNLOADED"
      BY <1>1, <2>1, <2>2 DEF Inv, WindowInv
    <2>6. CASE state[b] = "LOADING"
      <3>1. ~(N <= BufferCount)
        BY <1>1, <2>1, <2>2, <2>6 DEF Inv, ServedInv
      <3>2. N \in Nat /\ BufferCount \in Nat
        BY AssetsAssumption
      <3> QED BY <2>6, <3>1, <3>2
    <2> QED BY <2>3, <2>4, <2>5, <2>6
  <1> QED BY <1>1, Invariant, PTL

=============================================================================
