--------------------------- MODULE BnrCacheProofs ---------------------------
(***************************************************************************)
(* The ARAM queue under its users is two FIFO queues, and a game is shown  *)
(* with its own banner, whatever the number of games, slots and cells.     *)
(***************************************************************************)
EXTENDS BnrCache, ArqProofs

-----------------------------------------------------------------------------
(* The requests outstanding. *)

CallSet == CallNames \cup {NoCall}

\* A low priority request t that is to make call: somebody waits for it, the worker (at p)
\* or a banner (of states s).
Owed(t, call, p, s) ==
  \/ t = Store /\ call = "bnr_cache_store_cb" /\ p = "storing"
  \/ t = Load /\ call = "bnr_cache_load_cb" /\ p = "loading"
  \/ t \in Files /\ call = "arq_banner_callback_setup" /\ s[t] = "SETUP"
  \/ t \in Files /\ call = "arq_banner_callback_load" /\ s[t] = "LOADING"

Holds(a, H, L, p, s) ==
  /\ Represents(CallSet, a, H, L)
  /\ \A k \in 1 .. Len(H) : H[k] = Hi /\ a.callback[H[k]] = "other"
  /\ \A k \in 1 .. Len(L) : Owed(L[k], a.callback[L[k]], p, s)

-----------------------------------------------------------------------------
(* The invariant of the queue's users. *)

QueueTypes ==
  /\ pc \in {"idle", "get", "read", "put", "storing", "loading", "deliver"}
  /\ warm \in BOOLEAN
  /\ i \in Nat \ {0}
  /\ state \in [Files -> {"NONE", "SETUP", "LOADED", "LOADING"}]

\* The entries a walk for display has not come to yet are not set up.
WalkInv ==
  pc # "idle" =>
    /\ listing \in Dirs /\ i \in 1 .. Len(listing)
    /\ ~warm => \A j \in i .. Len(listing) : state[listing[j]] = "NONE"

QueueInv == QueueTypes /\ WalkInv /\ Holds(arq, HiOf(arq), LoOf(arq), pc, state)

-----------------------------------------------------------------------------
(* The invariant of the banners, where the list and the cache do not meet. *)

\* Directories so large that their list reaches the cache are not opened.
Apart == \A d \in Dirs : ListBase + Len(d) * ListCells <= Top - Slots * CacheCells

DataTypes ==
  /\ aram \in [Cells -> Files \cup {Nobody}]
  /\ pixels \in [Files -> Files \cup {Nobody}]
  /\ base \in [Files -> Int \cup {Nobody}]
  /\ nextIndex \in 0 .. Slots - 1
  /\ slots \in [0 .. Slots - 1 ->
                  [key : {Key(f) : f \in Files} \cup {Nobody}, off : Int, valid : BOOLEAN]]

\* The n cells of memory m from a hold the banner of f.
Filled(m, a, n, f) == \A c \in a .. a + n - 1 : m[c] = f

\* A valid slot is in its place and holds the banner of its key.
SlotInv ==
  \A s \in 0 .. Slots - 1 : slots[s].valid =>
    /\ slots[s].off = SlotOffset(s)
    /\ \E f \in Files : slots[s].key = Key(f) /\ Filled(aram, SlotOffset(s), CacheCells, f)

\* What banner_buffer holds, and the slot that is being filled.
BufferInv ==
  /\ pc \in {"put", "storing", "deliver"} => buffer = File
  /\ pc = "loading" => Found(File) # {}
  /\ pc = "storing" => /\ slots[nextIndex].key = Key(File)
                       /\ slots[nextIndex].off = SlotOffset(nextIndex)

ListPlace(j) == ListBase + (j - 1) * ListCells

\* Every entry set up has a place of its own below the cache, before the place of the
\* next entry of a walk for display.
PlaceInv ==
  /\ \A f \in Files : state[f] # "NONE" =>
       \E j \in Nat \ {0} :
         /\ base[f] = ListPlace(j) /\ ListPlace(j) + ListCells <= Top - Slots * CacheCells
         /\ pc # "idle" /\ ~warm => j < i
  /\ \A f, g \in Files : state[f] # "NONE" /\ state[g] # "NONE" /\ base[f] = base[g] => f = g

\* The buffer, the place in ARAM, or both, hold the banner.
ListInv ==
  \A f \in Files :
    /\ state[f] \in {"SETUP", "LOADED"} => pixels[f] = f
    /\ state[f] \in {"LOADED", "LOADING"} => Filled(aram, base[f], ListCells, f)

BannerInv == DataTypes /\ SlotInv /\ BufferInv /\ PlaceInv /\ ListInv

-----------------------------------------------------------------------------
(* What posting and the interrupt do to the queues. *)

\* Nothing is queued at first.
LEMMA HoldsInit ==
  ASSUME NEW p, NEW s
  PROVE  Holds(ArqInit, <<>>, <<>>, p, s)
  <1>1. ArqInit \in ArqRecord(CallSet)
    BY DEF ArqInit, ArqRecord, CallSet
  <1>2. QueueOf(ArqInit.next, NoTask, NoTask, NoTask, <<>>)
    BY DEF QueueOf, Distinct, Under
  <1> QED BY <1>1, <1>2 DEF Holds, Represents, ArqInit

\* The sequences that hold are the ones the invariant reads off the queue.
LEMMA HoldsRead ==
  ASSUME NEW a, NEW H, NEW L, NEW p, NEW s, Holds(a, H, L, p, s)
  PROVE  HiOf(a) = H /\ LoOf(a) = L /\ Holds(a, HiOf(a), LoOf(a), p, s)
  <1>1. Represents(CallSet, a, H, L)
    BY DEF Holds
  <1>2. HiOf(a) = H /\ LoOf(a) = L
    BY <1>1, InOrderIs
  <1> QED BY <1>2

\* Requests are requests.
LEMMA HoldsTasks ==
  ASSUME NEW a, NEW H, NEW L, NEW p, NEW s, Holds(a, H, L, p, s)
  PROVE  /\ H \in Seq(Tasks) /\ Len(H) \in Nat /\ L \in Seq(Tasks) /\ Len(L) \in Nat
         /\ \A k \in 1 .. Len(H) : H[k] \in Tasks
         /\ \A k \in 1 .. Len(L) : L[k] \in Tasks
         /\ a \in ArqRecord(CallSet) /\ a.callback \in [Tasks -> CallSet]
  BY DEF Holds, Represents, QueueOf, ArqRecord

\* A low priority request for which nobody waits is not outstanding.
LEMMA NotOwed ==
  ASSUME NEW a, NEW H, NEW L, NEW p, NEW s, Holds(a, H, L, p, s), NEW t, t # Hi,
         \A call : ~Owed(t, call, p, s)
  PROVE  Absent(t, H) /\ Absent(t, L)
  BY DEF Holds, Absent

\* The high priority request is in no other queue.
LEMMA HiApart ==
  ASSUME NEW a, NEW H, NEW L, NEW p, NEW s, Holds(a, H, L, p, s)
  PROVE  Absent(Hi, L)
  <1>1. \A call : ~Owed(Hi, call, p, s)
    BY BnrAssumption DEF Owed
  <1> QED BY <1>1 DEF Holds, Absent

\* A request is posted by somebody who waits for it, and nobody else stops waiting.
LEMMA HoldsPost ==
  ASSUME NEW a, NEW H, NEW L, NEW p, NEW s, Holds(a, H, L, p, s),
         NEW t \in Tasks, Absent(t, H), Absent(t, L), NEW call \in CallNames,
         NEW p1, NEW s1, Owed(t, call, p1, s1),
         \A u, c : u # t /\ Owed(u, c, p, s) => Owed(u, c, p1, s1)
  PROVE  /\ Holds(PostRequest(a, t, "low", call), H, Append(L, t), p1, s1)
         /\ PostRequest(a, t, "low", call).callback = [a.callback EXCEPT ![t] = call]
  <1> DEFINE b == PostRequest(a, t, "low", call)
             T == Append(L, t)
  <1>1. call \in CallSet /\ call # NoCall /\ Represents(CallSet, a, H, L)
    BY BnrAssumption DEF CallSet, Holds
  <1>2. /\ Represents(CallSet, b, H, T)
        /\ b.callback = [a.callback EXCEPT ![t] = call]
    BY <1>1, PostsLo
  <1> HIDE DEF b
  <1>3. a.callback \in [Tasks -> CallSet] /\ L \in Seq(Tasks) /\ Len(L) \in Nat
        /\ (\A k \in 1 .. Len(H) : H[k] \in Tasks) /\ (\A k \in 1 .. Len(L) : L[k] \in Tasks)
    BY HoldsTasks
  <1>4. \A k \in 1 .. Len(H) : H[k] = Hi /\ b.callback[H[k]] = "other"
    BY <1>2, <1>3 DEF Holds, Absent
  <1>5. ASSUME NEW k \in 1 .. Len(T)
        PROVE  Owed(T[k], b.callback[T[k]], p1, s1)
    <2>1. CASE k \in 1 .. Len(L)
      <3>1. T[k] = L[k] /\ L[k] # t /\ L[k] \in Tasks
        BY <1>3, <2>1 DEF Absent
      <3>2. Owed(L[k], a.callback[L[k]], p, s)
        BY <2>1 DEF Holds
      <3>3. b.callback[L[k]] = a.callback[L[k]]
        BY <1>2, <1>3, <3>1
      <3>4. Owed(L[k], a.callback[L[k]], p1, s1)
        BY <3>1, <3>2
      <3> QED BY <3>1, <3>3, <3>4
    <2>2. CASE k \notin 1 .. Len(L)
      <3>1. T[k] = t
        BY <1>3, <2>2
      <3>2. b.callback[t] = call
        BY <1>2, <1>3
      <3> QED BY <3>1, <3>2
    <2> QED BY <2>1, <2>2
  <1>6. Holds(b, H, T, p1, s1)
    BY <1>2, <1>4, <1>5 DEF Holds
  <1> QED BY <1>2, <1>6 DEF b

\* The IPL posts its request.
LEMMA HoldsPostHi ==
  ASSUME NEW a, NEW H, NEW L, NEW p, NEW s, Holds(a, H, L, p, s), Absent(Hi, H)
  PROVE  /\ Holds(PostRequest(a, Hi, "high", "other"), Append(H, Hi), L, p, s)
         /\ PostRequest(a, Hi, "high", "other").callback = [a.callback EXCEPT ![Hi] = "other"]
  <1> DEFINE b == PostRequest(a, Hi, "high", "other")
             T == Append(H, Hi)
             call == "other"
  <1>1. /\ call \in CallSet /\ call # NoCall /\ Represents(CallSet, a, H, L)
        /\ Hi \in Tasks /\ Absent(Hi, L)
    <2>1. "other" \in CallNames
      BY DEF CallNames
    <2>2. Represents(CallSet, a, H, L) /\ Hi \in Tasks
      BY BnrAssumption DEF Holds
    <2> QED BY <2>1, <2>2, BnrAssumption, HiApart DEF CallSet
  <1>2. /\ Represents(CallSet, b, T, L)
        /\ b.callback = [a.callback EXCEPT ![Hi] = call]
    BY <1>1, PostsHi
  <1> HIDE DEF b
  <1>3. a.callback \in [Tasks -> CallSet] /\ H \in Seq(Tasks) /\ Len(H) \in Nat
        /\ (\A k \in 1 .. Len(H) : H[k] \in Tasks) /\ (\A k \in 1 .. Len(L) : L[k] \in Tasks)
    BY HoldsTasks
  <1>4. \A k \in 1 .. Len(L) : Owed(L[k], b.callback[L[k]], p, s)
    <2>1. \A k \in 1 .. Len(L) : b.callback[L[k]] = a.callback[L[k]]
      BY <1>1, <1>2, <1>3 DEF Absent
    <2> QED BY <2>1 DEF Holds
  <1>5. \A k \in 1 .. Len(T) : T[k] = Hi
    BY <1>3 DEF Holds
  <1>6. b.callback[Hi] = "other"
    BY <1>1, <1>2, <1>3
  <1>7. Holds(b, T, L, p, s)
    BY <1>2, <1>4, <1>5, <1>6 DEF Holds
  <1> QED BY <1>2, <1>7 DEF b

\* What the interrupt finds and leaves.
LEMMA HoldsInterrupt ==
  ASSUME NEW a, NEW H, NEW L, NEW p, NEW s, Holds(a, H, L, p, s)
  PROVE  /\ InterruptServiceRoutine(a).callback = a.callback
         /\ \/ /\ Len(H) > 0 /\ Fired(a) = <<H[1], a.callback[H[1]]>>
               /\ H[1] = Hi /\ a.callback[H[1]] = "other"
               /\ Holds(InterruptServiceRoutine(a), Tail(H), L, p, s)
            \/ /\ Len(L) > 0 /\ Fired(a) = <<L[1], a.callback[L[1]]>>
               /\ Owed(L[1], a.callback[L[1]], p, s)
               /\ Absent(L[1], Tail(L))
               /\ Holds(InterruptServiceRoutine(a), H, Tail(L), p, s)
            \/ /\ Fired(a) = <<NoTask, NoCall>>
               /\ Holds(InterruptServiceRoutine(a), H, L, p, s)
  <1> DEFINE b == InterruptServiceRoutine(a)
  <1>1. Represents(CallSet, a, H, L) /\ NoCall \in CallSet
    BY DEF Holds, CallSet
  <1>2. /\ b.callback = a.callback
        /\ \/ /\ Len(H) > 0 /\ Fired(a) = <<H[1], a.callback[H[1]]>>
              /\ Represents(CallSet, b, Tail(H), L)
           \/ /\ Len(L) > 0 /\ Fired(a) = <<L[1], a.callback[L[1]]>>
              /\ Represents(CallSet, b, H, Tail(L))
           \/ /\ Fired(a) = <<NoTask, NoCall>>
              /\ Represents(CallSet, b, H, L)
    <2>1. /\ InterruptServiceRoutine(a).callback = a.callback
          /\ \/ /\ Len(H) > 0 /\ Fired(a) = <<H[1], a.callback[H[1]]>>
                /\ Represents(CallSet, InterruptServiceRoutine(a), Tail(H), L)
                /\ Busy(InterruptServiceRoutine(a), Tail(H), L)
             \/ /\ Len(L) > 0 /\ Fired(a) = <<L[1], a.callback[L[1]]>>
                /\ Represents(CallSet, InterruptServiceRoutine(a), H, Tail(L))
                /\ Busy(InterruptServiceRoutine(a), H, Tail(L))
             \/ /\ Fired(a) = <<NoTask, NoCall>>
                /\ Represents(CallSet, InterruptServiceRoutine(a), H, L)
                /\ Busy(InterruptServiceRoutine(a), H, L)
      BY <1>1, Interrupts
    <2> QED BY <2>1
  <1> HIDE DEF b
  <1>3. /\ H \in Seq(Tasks) /\ Len(H) \in Nat /\ L \in Seq(Tasks) /\ Len(L) \in Nat
        /\ \A k \in 1 .. Len(H) : H[k] = Hi /\ a.callback[H[k]] = "other"
        /\ \A k \in 1 .. Len(L) : Owed(L[k], a.callback[L[k]], p, s)
    BY HoldsTasks DEF Holds
  <1>4. CASE /\ Len(H) > 0 /\ Fired(a) = <<H[1], a.callback[H[1]]>>
             /\ Represents(CallSet, b, Tail(H), L)
    <2>1. 1 \in 1 .. Len(H) /\ \A k \in 1 .. Len(Tail(H)) : Tail(H)[k] = H[k + 1] /\ k + 1 \in 1 .. Len(H)
      BY <1>3, <1>4
    <2>2. \A k \in 1 .. Len(Tail(H)) : Tail(H)[k] = Hi /\ b.callback[Tail(H)[k]] = "other"
      BY <1>2, <1>3, <2>1
    <2>3. Holds(b, Tail(H), L, p, s)
      BY <1>2, <1>3, <1>4, <2>2 DEF Holds
    <2> QED BY <1>2, <1>3, <1>4, <2>1, <2>3 DEF b
  <1>5. CASE /\ Len(L) > 0 /\ Fired(a) = <<L[1], a.callback[L[1]]>>
             /\ Represents(CallSet, b, H, Tail(L))
    <2>1. 1 \in 1 .. Len(L) /\ \A k \in 1 .. Len(Tail(L)) : Tail(L)[k] = L[k + 1] /\ k + 1 \in 1 .. Len(L) /\ k + 1 # 1
      BY <1>3, <1>5
    <2>2. \A k \in 1 .. Len(Tail(L)) : Owed(Tail(L)[k], b.callback[Tail(L)[k]], p, s)
      BY <1>2, <1>3, <2>1
    <2>3. Holds(b, H, Tail(L), p, s)
      BY <1>2, <1>3, <1>5, <2>2 DEF Holds
    <2>4. Absent(L[1], Tail(L))
      <3>1. Distinct(L)
        BY <1>1 DEF Represents, QueueOf
      <3> QED BY <2>1, <3>1 DEF Distinct, Absent
    <2> QED BY <1>2, <1>3, <1>5, <2>1, <2>3, <2>4 DEF b
  <1>6. CASE Fired(a) = <<NoTask, NoCall>> /\ Represents(CallSet, b, H, L)
    <2>1. Holds(b, H, L, p, s)
      BY <1>2, <1>3, <1>6 DEF Holds
    <2> QED BY <1>2, <1>6, <2>1 DEF b
  <1> QED BY <1>2, <1>4, <1>5, <1>6

\* Once the callback is made, nobody waits for that request.
LEMMA HoldsKept ==
  ASSUME NEW a, NEW H, NEW L, NEW p, NEW s, Holds(a, H, L, p, s), NEW t, Absent(t, L),
         NEW p1, NEW s1, \A u, c : u # t /\ Owed(u, c, p, s) => Owed(u, c, p1, s1)
  PROVE  Holds(a, H, L, p1, s1)
  BY DEF Holds, Absent

-----------------------------------------------------------------------------
(* Every step of the system is a step of the queues. *)

Quiet ==
  /\ HiOf(arq') = HiOf(arq) /\ LoOf(arq') = LoOf(arq) /\ arq'.callback = arq.callback
  /\ fired' = Nothing

PostedLo(t, call) ==
  /\ t \in Tasks /\ call \in CallNames /\ Absent(t, HiOf(arq)) /\ Absent(t, LoOf(arq))
  /\ HiOf(arq') = HiOf(arq) /\ LoOf(arq') = Append(LoOf(arq), t)
  /\ arq'.callback = [arq.callback EXCEPT ![t] = call]
  /\ fired' = Nothing

PostedHi(t, call) ==
  /\ t \in Tasks /\ call \in CallNames /\ Absent(t, HiOf(arq)) /\ Absent(t, LoOf(arq))
  /\ HiOf(arq') = Append(HiOf(arq), t) /\ LoOf(arq') = LoOf(arq)
  /\ arq'.callback = [arq.callback EXCEPT ![t] = call]
  /\ fired' = Nothing

AnsweredHi ==
  /\ Len(HiOf(arq)) > 0 /\ fired' = <<HiOf(arq)[1], arq.callback[HiOf(arq)[1]]>>
  /\ HiOf(arq') = Tail(HiOf(arq)) /\ LoOf(arq') = LoOf(arq)
  /\ arq'.callback = arq.callback

AnsweredLo ==
  /\ Len(LoOf(arq)) > 0 /\ fired' = <<LoOf(arq)[1], arq.callback[LoOf(arq)[1]]>>
  /\ HiOf(arq') = HiOf(arq) /\ LoOf(arq') = Tail(LoOf(arq))
  /\ arq'.callback = arq.callback

QueueStep ==
  \/ Quiet
  \/ \E t, call : PostedLo(t, call) \/ PostedHi(t, call)
  \/ AnsweredHi
  \/ AnsweredLo

\* A low priority request is posted.
LEMMA PostsStep ==
  ASSUME QueueInv, NEW t \in Tasks, t # Hi, \A c : ~Owed(t, c, pc, state),
         NEW call \in CallNames, Post(t, "low", call), Owed(t, call, pc', state'),
         \A u, c : u # t /\ Owed(u, c, pc, state) => Owed(u, c, pc', state')
  PROVE  Holds(arq, HiOf(arq), LoOf(arq), pc, state)' /\ QueueStep
  <1> DEFINE H == HiOf(arq)
             L == LoOf(arq)
             b == PostRequest(arq, t, "low", call)
             p1 == pc'
             s1 == state'
  <1>1. Holds(arq, H, L, pc, state)
    BY DEF QueueInv
  <1>2. arq' = b /\ fired' = Nothing
    BY DEF Post
  <1>2a. Owed(t, call, p1, s1) /\ \A u, c : u # t /\ Owed(u, c, pc, state) => Owed(u, c, p1, s1)
    OBVIOUS
  <1> HIDE DEF H, L, p1, s1
  <1>3. Absent(t, H) /\ Absent(t, L)
    BY <1>1, NotOwed
  <1>4. /\ Holds(b, H, Append(L, t), p1, s1)
        /\ b.callback = [arq.callback EXCEPT ![t] = call]
    BY <1>1, <1>2a, <1>3, HoldsPost
  <1> HIDE DEF b
  <1>5. HiOf(b) = H /\ LoOf(b) = Append(L, t) /\ Holds(b, HiOf(b), LoOf(b), p1, s1)
    BY <1>4, HoldsRead
  <1>6. Holds(arq, HiOf(arq), LoOf(arq), pc, state)'
    BY <1>2, <1>5 DEF p1, s1
  <1>7. PostedLo(t, call)
    BY <1>2, <1>3, <1>4, <1>5 DEF PostedLo, H, L
  <1> QED BY <1>6, <1>7 DEF QueueStep

\* The queue is left alone.
LEMMA LeavesStep ==
  ASSUME QueueInv, UNCHANGED arq, fired' = Nothing,
         \A u, c : (\E k \in 1 .. Len(LoOf(arq)) : LoOf(arq)[k] = u) /\ Owed(u, c, pc, state)
            => Owed(u, c, pc', state')
  PROVE  Holds(arq, HiOf(arq), LoOf(arq), pc, state)' /\ QueueStep
  <1> DEFINE H == HiOf(arq)
             L == LoOf(arq)
             p1 == pc'
             s1 == state'
  <1>1. Holds(arq, H, L, pc, state)
    BY DEF QueueInv
  <1>2. \A u, c : (\E k \in 1 .. Len(L) : L[k] = u) /\ Owed(u, c, pc, state) => Owed(u, c, p1, s1)
    OBVIOUS
  <1> HIDE DEF H, L, p1, s1
  <1>3. Holds(arq, H, L, p1, s1)
    BY <1>1, <1>2 DEF Holds
  <1>4. Holds(arq, HiOf(arq), LoOf(arq), pc, state)'
    BY <1>3 DEF H, L, p1, s1
  <1> QED BY <1>4 DEF QueueStep, Quiet

-----------------------------------------------------------------------------
(* The actions. *)

LEMMA WalkStep ==
  ASSUME QueueInv, NEW d \in Dirs, NEW w \in BOOLEAN, Walk(d, w)
  PROVE  QueueInv' /\ QueueStep
  <1>1. /\ pc = "idle" /\ pc' = "get" /\ listing' = d /\ warm' = w /\ i' = 1
        /\ UNCHANGED arq /\ fired' = Nothing
    BY DEF Walk
  <1>2. d \in Seq(Files) /\ Len(d) \in Nat /\ 1 \in 1 .. Len(d)
        /\ \A j \in 1 .. Len(d) : d[j] \in Files
    BY BnrAssumption
  <1>3. CASE w
    <2>1. UNCHANGED state
      BY <1>3 DEF Walk, listvars
    <2>2. QueueTypes' /\ WalkInv'
      BY <1>1, <1>2, <1>3, <2>1 DEF QueueInv, QueueTypes, WalkInv
    <2>3. \A u, c : Owed(u, c, pc, state) => Owed(u, c, pc', state')
      BY <1>1, <2>1 DEF Owed
    <2>4. Holds(arq, HiOf(arq), LoOf(arq), pc, state)' /\ QueueStep
      BY <1>1, <2>3, LeavesStep
    <2> QED BY <2>2, <2>4 DEF QueueInv
  <1>4. CASE ~w
    <2>1. state' = [f \in Files |-> "NONE"] /\ \A f \in Files : ~InFlight(arq, f)
      BY <1>4 DEF Walk
    <2>2. QueueTypes' /\ WalkInv'
      BY <1>1, <1>2, <2>1 DEF QueueTypes, WalkInv
    <2>3. \A f \in Files : Absent(f, LoOf(arq))
      <3>1. Represents(CallSet, arq, HiOf(arq), LoOf(arq))
        BY DEF QueueInv, Holds
      <3>2. ASSUME NEW f \in Files
            PROVE  Absent(f, LoOf(arq))
        <4>1. f \in Tasks
          BY BnrAssumption
        <4>2. ~InFlight(arq, f) <=> Absent(f, HiOf(arq)) /\ Absent(f, LoOf(arq))
          BY <3>1, <4>1, InFlightIs
        <4> QED BY <2>1, <4>2
      <3> QED BY <3>2
    <2>4. \A u, c : (\E k \in 1 .. Len(LoOf(arq)) : LoOf(arq)[k] = u) /\ Owed(u, c, pc, state)
             => Owed(u, c, pc', state')
      BY <1>1, <2>3 DEF Owed, Absent
    <2>5. Holds(arq, HiOf(arq), LoOf(arq), pc, state)' /\ QueueStep
      BY <1>1, <2>4, LeavesStep
    <2> QED BY <2>2, <2>5 DEF QueueInv
  <1> QED BY <1>3, <1>4

LEMMA GetStep ==
  ASSUME QueueInv, Get
  PROVE  QueueInv' /\ QueueStep
  <1>1. /\ pc = "get" /\ pc' \in {"read", "loading"}
        /\ UNCHANGED <<listing, warm, i, state>>
    BY DEF Get, walkvars, listvars
  <1>2. QueueTypes' /\ WalkInv'
    BY <1>1 DEF QueueInv, QueueTypes, WalkInv
  <1>3. CASE Found(File) = {}
    <2>1. UNCHANGED arq /\ fired' = Nothing
      BY <1>3 DEF Get
    <2>2. \A u, c : Owed(u, c, pc, state) => Owed(u, c, pc', state')
      BY <1>1 DEF Owed
    <2>3. Holds(arq, HiOf(arq), LoOf(arq), pc, state)' /\ QueueStep
      BY <2>1, <2>2, LeavesStep
    <2> QED BY <1>2, <2>3 DEF QueueInv
  <1>4. CASE Found(File) # {}
    <2> DEFINE call == "bnr_cache_load_cb"
    <2>1. pc' = "loading" /\ Post(Load, "low", call)
      BY <1>4 DEF Get
    <2>2. /\ Load \in Tasks /\ Load # Hi /\ call \in CallNames
          /\ \A c : ~Owed(Load, c, pc, state)
      BY <1>1, BnrAssumption DEF Owed, CallNames
    <2>3. /\ Owed(Load, call, pc', state')
          /\ \A u, c : u # Load /\ Owed(u, c, pc, state) => Owed(u, c, pc', state')
      BY <1>1, <2>1 DEF Owed
    <2>4. Holds(arq, HiOf(arq), LoOf(arq), pc, state)' /\ QueueStep
      <3> HIDE DEF call
      <3> QED BY <2>1, <2>2, <2>3, PostsStep
    <2> QED BY <1>2, <2>4 DEF QueueInv
  <1> QED BY <1>3, <1>4

LEMMA ReadStep ==
  ASSUME QueueInv, ReadBanner
  PROVE  QueueInv' /\ QueueStep
  <1>1. /\ pc = "read" /\ pc' = "put" /\ fired' = Nothing
        /\ UNCHANGED <<arq, listing, warm, i, state>>
    BY DEF ReadBanner, walkvars, listvars
  <1>2. QueueTypes' /\ WalkInv'
    BY <1>1 DEF QueueInv, QueueTypes, WalkInv
  <1>3. \A u, c : Owed(u, c, pc, state) => Owed(u, c, pc', state')
    BY <1>1 DEF Owed
  <1>4. Holds(arq, HiOf(arq), LoOf(arq), pc, state)' /\ QueueStep
    BY <1>1, <1>3, LeavesStep
  <1> QED BY <1>2, <1>4 DEF QueueInv

LEMMA PutStep ==
  ASSUME QueueInv, Put
  PROVE  QueueInv' /\ QueueStep
  <1>1. /\ pc = "put" /\ pc' \in {"deliver", "storing"}
        /\ UNCHANGED <<listing, warm, i, state>>
    BY DEF Put, walkvars, listvars
  <1>2. QueueTypes' /\ WalkInv'
    BY <1>1 DEF QueueInv, QueueTypes, WalkInv
  <1>3. CASE Found(File) # {}
    <2>1. UNCHANGED arq /\ fired' = Nothing
      BY <1>3 DEF Put
    <2>2. \A u, c : Owed(u, c, pc, state) => Owed(u, c, pc', state')
      BY <1>1 DEF Owed
    <2>3. Holds(arq, HiOf(arq), LoOf(arq), pc, state)' /\ QueueStep
      BY <2>1, <2>2, LeavesStep
    <2> QED BY <1>2, <2>3 DEF QueueInv
  <1>4. CASE Found(File) = {}
    <2> DEFINE call == "bnr_cache_store_cb"
    <2>1. pc' = "storing" /\ Post(Store, "low", call)
      BY <1>4 DEF Put
    <2>2. /\ Store \in Tasks /\ Store # Hi /\ call \in CallNames
          /\ \A c : ~Owed(Store, c, pc, state)
      BY <1>1, BnrAssumption DEF Owed, CallNames
    <2>3. /\ Owed(Store, call, pc', state')
          /\ \A u, c : u # Store /\ Owed(u, c, pc, state) => Owed(u, c, pc', state')
      BY <1>1, <2>1 DEF Owed
    <2>4. Holds(arq, HiOf(arq), LoOf(arq), pc, state)' /\ QueueStep
      <3> HIDE DEF call
      <3> QED BY <2>1, <2>2, <2>3, PostsStep
    <2> QED BY <1>2, <2>4 DEF QueueInv
  <1> QED BY <1>3, <1>4

\* The file that a walk has come to.
LEMMA FileIs ==
  ASSUME QueueInv, pc # "idle"
  PROVE  /\ listing \in Dirs /\ listing \in Seq(Files) /\ Len(listing) \in Nat
         /\ i \in 1 .. Len(listing) /\ File \in Files
         /\ \A j \in 1 .. Len(listing) : listing[j] \in Files
         /\ \A j, k \in 1 .. Len(listing) : listing[j] = listing[k] => j = k
         /\ ~warm => \A j \in i .. Len(listing) : state[listing[j]] = "NONE"
  <1>1. /\ listing \in Dirs /\ i \in 1 .. Len(listing)
        /\ ~warm => \A j \in i .. Len(listing) : state[listing[j]] = "NONE"
    BY DEF QueueInv, WalkInv
  <1>2. /\ listing \in Seq(Files) /\ Len(listing) \in Nat
        /\ \A j, k \in 1 .. Len(listing) : listing[j] = listing[k] => j = k
    BY <1>1, BnrAssumption
  <1>3. \A j \in 1 .. Len(listing) : listing[j] \in Files
    BY <1>2
  <1> QED BY <1>1, <1>2, <1>3 DEF File

LEMMA DeliverStep ==
  ASSUME QueueInv, Deliver
  PROVE  QueueInv' /\ QueueStep
  <1>1. /\ pc = "deliver" /\ i' = i + 1 /\ UNCHANGED <<listing, warm>>
        /\ pc' = IF i = Len(listing) THEN "idle" ELSE "get"
    BY DEF Deliver
  <1>2. /\ listing \in Dirs /\ listing \in Seq(Files) /\ Len(listing) \in Nat
        /\ i \in 1 .. Len(listing) /\ File \in Files
        /\ \A j \in 1 .. Len(listing) : listing[j] \in Files
        /\ \A j, k \in 1 .. Len(listing) : listing[j] = listing[k] => j = k
        /\ ~warm => \A j \in i .. Len(listing) : state[listing[j]] = "NONE"
    BY <1>1, FileIs
  <1>3. state \in [Files -> {"NONE", "SETUP", "LOADED", "LOADING"}] /\ warm \in BOOLEAN
    BY DEF QueueInv, QueueTypes
  <1>4. CASE warm
    <2>1. UNCHANGED <<arq, state>> /\ fired' = Nothing
      BY <1>4 DEF Deliver, listvars
    <2>2. QueueTypes' /\ WalkInv'
      BY <1>1, <1>2, <1>3, <1>4, <2>1 DEF QueueTypes, WalkInv
    <2>3. \A u, c : Owed(u, c, pc, state) => Owed(u, c, pc', state')
      BY <1>1, <2>1 DEF Owed
    <2>4. Holds(arq, HiOf(arq), LoOf(arq), pc, state)' /\ QueueStep
      BY <2>1, <2>3, LeavesStep
    <2> QED BY <2>2, <2>4 DEF QueueInv
  <1>5. CASE ~warm
    <2> DEFINE call == "arq_banner_callback_setup"
    <2>1. state' = [state EXCEPT ![File] = "SETUP"] /\ Post(File, "low", call)
      BY <1>5 DEF Deliver
    <2>2. QueueTypes'
      BY <1>1, <1>2, <1>3, <2>1 DEF QueueTypes
    <2>3. WalkInv'
      <3>1. ASSUME pc' # "idle", NEW j \in i + 1 .. Len(listing)
            PROVE  state'[listing[j]] = "NONE"
        <4>1. j \in 1 .. Len(listing) /\ j \in i .. Len(listing) /\ j # i
          BY <1>2
        <4>2. listing[j] # File /\ listing[j] \in Files /\ state[listing[j]] = "NONE"
          BY <1>2, <1>5, <4>1 DEF File
        <4> QED BY <1>2, <1>3, <2>1, <4>2
      <3>2. pc' # "idle" => i + 1 \in 1 .. Len(listing)
        BY <1>1, <1>2
      <3> QED BY <1>1, <1>2, <3>1, <3>2 DEF WalkInv
    <2>4. /\ File \in Tasks /\ File # Hi /\ call \in CallNames
          /\ \A c : ~Owed(File, c, pc, state)
      <3>1. File \in Tasks /\ File # Hi /\ File # Store /\ File # Load
        BY <1>2, BnrAssumption
      <3>2. state[File] = "NONE"
        BY <1>2, <1>5 DEF File
      <3> QED BY <3>1, <3>2 DEF Owed, CallNames
    <2>5. /\ Owed(File, call, pc', state')
          /\ \A u, c : u # File /\ Owed(u, c, pc, state) => Owed(u, c, pc', state')
      BY <1>1, <1>2, <1>3, <2>1 DEF Owed
    <2>6. Holds(arq, HiOf(arq), LoOf(arq), pc, state)' /\ QueueStep
      <3> DEFINE t == File
      <3>1. t \in Tasks /\ t # Hi /\ (\A c : ~Owed(t, c, pc, state)) /\ Post(t, "low", call)
            /\ Owed(t, call, pc', state')
            /\ \A u, c : u # t /\ Owed(u, c, pc, state) => Owed(u, c, pc', state')
        BY <2>1, <2>4, <2>5
      <3> HIDE DEF call, t
      <3> QED BY <2>4, <3>1, PostsStep
    <2> QED BY <2>2, <2>3, <2>6 DEF QueueInv
  <1> QED BY <1>3, <1>4, <1>5

LEMMA ReloadStep ==
  ASSUME QueueInv, NEW f \in Files, Reload(f)
  PROVE  QueueInv' /\ QueueStep
  <1> DEFINE call == "arq_banner_callback_load"
  <1>1. /\ state[f] = "LOADED" /\ state' = [state EXCEPT ![f] = "LOADING"]
        /\ Post(f, "low", call) /\ UNCHANGED <<pc, listing, warm, i>>
    BY DEF Reload, walkvars
  <1>2. state \in [Files -> {"NONE", "SETUP", "LOADED", "LOADING"}]
    BY DEF QueueInv, QueueTypes
  <1>3. QueueTypes'
    BY <1>1, <1>2 DEF QueueInv, QueueTypes
  <1>4. WalkInv'
    <2>1. ASSUME pc # "idle", ~warm, NEW j \in i .. Len(listing)
          PROVE  state'[listing[j]] = "NONE"
      <3>1. /\ i \in 1 .. Len(listing) /\ Len(listing) \in Nat
            /\ \A k \in 1 .. Len(listing) : listing[k] \in Files
            /\ ~warm => \A k \in i .. Len(listing) : state[listing[k]] = "NONE"
        BY <2>1, FileIs
      <3>2. state[listing[j]] = "NONE" /\ j \in 1 .. Len(listing)
        BY <2>1, <3>1
      <3>3. listing[j] \in Files /\ listing[j] # f
        BY <1>1, <3>1, <3>2
      <3> QED BY <1>1, <1>2, <3>2, <3>3
    <2> QED BY <1>1, <2>1 DEF QueueInv, WalkInv
  <1>5. f \in Tasks /\ f # Hi /\ f # Store /\ f # Load
    BY BnrAssumption
  <1>6. call \in CallNames /\ \A c : ~Owed(f, c, pc, state)
    BY <1>1, <1>5 DEF Owed, CallNames
  <1>7. /\ Owed(f, call, pc', state')
        /\ \A u, c : u # f /\ Owed(u, c, pc, state) => Owed(u, c, pc', state')
    BY <1>1, <1>2 DEF Owed
  <1>8. Holds(arq, HiOf(arq), LoOf(arq), pc, state)' /\ QueueStep
    <2> HIDE DEF call
    <2> QED BY <1>1, <1>5, <1>6, <1>7, PostsStep
  <1> QED BY <1>3, <1>4, <1>8 DEF QueueInv

LEMMA PostHiStep ==
  ASSUME QueueInv, PostHi
  PROVE  QueueInv' /\ QueueStep
  <1> DEFINE H == HiOf(arq)
             L == LoOf(arq)
             b == PostRequest(arq, Hi, "high", "other")
  <1>1. /\ ~InFlight(arq, Hi) /\ arq' = b /\ fired' = Nothing
        /\ UNCHANGED <<pc, state, listing, warm, i>>
    BY DEF PostHi, Post, listvars, walkvars
  <1>2. QueueTypes' /\ WalkInv'
    BY <1>1 DEF QueueInv, QueueTypes, WalkInv
  <1>3. Holds(arq, H, L, pc, state)
    BY DEF QueueInv
  <1>4. Absent(Hi, H) /\ Absent(Hi, L)
    <2>1. Represents(CallSet, arq, HiOf(arq), LoOf(arq))
      BY DEF QueueInv, Holds
    <2>2. Hi \in Tasks
      BY BnrAssumption
    <2>3. ~InFlight(arq, Hi) <=> Absent(Hi, HiOf(arq)) /\ Absent(Hi, LoOf(arq))
      BY <2>1, <2>2, InFlightIs
    <2> QED BY <1>1, <2>3
  <1> HIDE DEF H, L
  <1>5. /\ Holds(b, Append(H, Hi), L, pc, state)
        /\ b.callback = [arq.callback EXCEPT ![Hi] = "other"]
    BY <1>3, <1>4, HoldsPostHi
  <1> HIDE DEF b
  <1>6. HiOf(b) = Append(H, Hi) /\ LoOf(b) = L /\ Holds(b, HiOf(b), LoOf(b), pc, state)
    BY <1>5, HoldsRead
  <1>7. Holds(arq, HiOf(arq), LoOf(arq), pc, state)'
    BY <1>1, <1>6
  <1>8. Hi \in Tasks /\ "other" \in CallNames
    BY BnrAssumption DEF CallNames
  <1>9. PostedHi(Hi, "other")
    BY <1>1, <1>4, <1>5, <1>6, <1>8 DEF PostedHi, H, L
  <1> QED BY <1>2, <1>7, <1>9 DEF QueueInv, QueueStep

\* What a low priority request that is owed finds when it is answered.
LEMMA OwedIs ==
  ASSUME NEW t, NEW call, Owed(t, call, pc, state)
  PROVE  /\ t \in Tasks
         /\ call = "bnr_cache_store_cb" => t = Store /\ pc = "storing"
         /\ call = "bnr_cache_load_cb" => t = Load /\ pc = "loading"
         /\ call = "arq_banner_callback_setup" => t \in Files /\ state[t] = "SETUP"
         /\ call = "arq_banner_callback_load" => t \in Files /\ state[t] = "LOADING"
         /\ call \in {"bnr_cache_store_cb", "bnr_cache_load_cb",
                      "arq_banner_callback_setup", "arq_banner_callback_load"}
  <1>1. t \in Tasks
    BY BnrAssumption DEF Owed
  <1> QED BY <1>1 DEF Owed

\* The interrupt makes one callback, the one that its request was posted with.
LEMMA InterruptCases ==
  ASSUME QueueInv, Interrupt
  PROVE  \/ \E t, call : /\ Owed(t, call, pc, state) /\ t # NoTask
                         /\ \/ call = "bnr_cache_store_cb" /\ StoreDone
                            \/ call = "bnr_cache_load_cb" /\ LoadDone
                            \/ call = "arq_banner_callback_setup" /\ SetupDone(t)
                            \/ call = "arq_banner_callback_load" /\ ReloadDone(t)
                         /\ AnsweredLo
                         /\ Holds(arq', HiOf(arq'), LoOf(arq'), pc, state)
                         /\ Absent(t, LoOf(arq'))
         \/ /\ UNCHANGED <<aram, cachevars, pc, buffer, state, pixels>>
            /\ Holds(arq', HiOf(arq'), LoOf(arq'), pc, state)
            /\ AnsweredHi \/ Quiet
  <1> DEFINE H == HiOf(arq)
             L == LoOf(arq)
             b == InterruptServiceRoutine(arq)
             t == Fired(arq)[1]
             call == Fired(arq)[2]
             Call(x, c) ==
               \/ c = "bnr_cache_store_cb" /\ StoreDone
               \/ c = "bnr_cache_load_cb" /\ LoadDone
               \/ c = "arq_banner_callback_setup" /\ SetupDone(x)
               \/ c = "arq_banner_callback_load" /\ ReloadDone(x)
             Rest(c) == /\ c \in {"other", NoCall}
                        /\ UNCHANGED <<aram, cachevars, pc, buffer, state, pixels>>
  <1>1. arq' = b /\ fired' = Fired(arq)
    BY DEF Interrupt
  <1>1a. Call(t, call) \/ Rest(call)
    BY DEF Interrupt
  <1>2. Holds(arq, H, L, pc, state)
    BY DEF QueueInv
  <1> HIDE DEF H, L, t, call, Call, Rest
  <1>3. /\ b.callback = arq.callback
        /\ \/ /\ Len(H) > 0 /\ Fired(arq) = <<H[1], arq.callback[H[1]]>>
              /\ H[1] = Hi /\ arq.callback[H[1]] = "other"
              /\ Holds(b, Tail(H), L, pc, state)
           \/ /\ Len(L) > 0 /\ Fired(arq) = <<L[1], arq.callback[L[1]]>>
              /\ Owed(L[1], arq.callback[L[1]], pc, state)
              /\ Absent(L[1], Tail(L))
              /\ Holds(b, H, Tail(L), pc, state)
           \/ /\ Fired(arq) = <<NoTask, NoCall>>
              /\ Holds(b, H, L, pc, state)
    BY <1>2, HoldsInterrupt
  <1> HIDE DEF b
  <1>4. CASE /\ Len(H) > 0 /\ Fired(arq) = <<H[1], arq.callback[H[1]]>>
             /\ H[1] = Hi /\ arq.callback[H[1]] = "other"
             /\ Holds(b, Tail(H), L, pc, state)
    <2>1. HiOf(b) = Tail(H) /\ LoOf(b) = L /\ Holds(b, HiOf(b), LoOf(b), pc, state)
      BY <1>4, HoldsRead
    <2>2. AnsweredHi
      BY <1>1, <1>3, <1>4, <2>1 DEF AnsweredHi, H, L
    <2>3. call = "other"
      BY <1>4 DEF call
    <2>4. UNCHANGED <<aram, cachevars, pc, buffer, state, pixels>>
      BY <1>1a, <2>3 DEF Call, Rest
    <2> QED BY <1>1, <2>1, <2>2, <2>4
  <1>5. CASE /\ Len(L) > 0 /\ Fired(arq) = <<L[1], arq.callback[L[1]]>>
             /\ Owed(L[1], arq.callback[L[1]], pc, state)
             /\ Absent(L[1], Tail(L))
             /\ Holds(b, H, Tail(L), pc, state)
    <2>1. HiOf(b) = H /\ LoOf(b) = Tail(L) /\ Holds(b, HiOf(b), LoOf(b), pc, state)
      BY <1>5, HoldsRead
    <2>2. AnsweredLo
      BY <1>1, <1>3, <1>5, <2>1 DEF AnsweredLo, H, L
    <2>3. t = L[1] /\ Owed(t, call, pc, state)
      BY <1>5 DEF t, call
    <2>4. t \in Tasks /\ call \in {"bnr_cache_store_cb", "bnr_cache_load_cb",
                      "arq_banner_callback_setup", "arq_banner_callback_load"}
      BY <2>3, OwedIs
    <2>5. t # NoTask
      BY <2>4, ArqAssumption
    <2>6. Call(t, call)
      <3>1. call \in CallNames /\ call # "other"
        BY <2>4 DEF CallNames
      <3>2. ~Rest(call)
        BY <3>1, BnrAssumption DEF Rest
      <3> QED BY <1>1a, <3>2
    <2>7. Absent(t, LoOf(b))
      BY <1>5, <2>1, <2>3
    <2> QED BY <1>1, <2>1, <2>2, <2>3, <2>5, <2>6, <2>7 DEF Call
  <1>6. CASE Fired(arq) = <<NoTask, NoCall>> /\ Holds(b, H, L, pc, state)
    <2>1. HiOf(b) = H /\ LoOf(b) = L /\ Holds(b, HiOf(b), LoOf(b), pc, state)
      BY <1>6, HoldsRead
    <2>2. Quiet
      BY <1>1, <1>3, <1>6, <2>1 DEF Quiet, H, L, Nothing
    <2>3. call = NoCall
      BY <1>6 DEF call
    <2>4. ~Call(t, call)
      BY <2>3, BnrAssumption DEF Call, CallNames
    <2>5. UNCHANGED <<aram, cachevars, pc, buffer, state, pixels>>
      BY <1>1a, <2>4 DEF Rest
    <2> QED BY <1>1, <2>1, <2>2, <2>5
  <1> QED BY <1>3, <1>4, <1>5, <1>6

LEMMA InterruptStep ==
  ASSUME QueueInv, Interrupt
  PROVE  QueueInv' /\ QueueStep
  <1>1. UNCHANGED <<listing, warm, i>>
    BY DEF Interrupt, walkvars
  <1>2. state \in [Files -> {"NONE", "SETUP", "LOADED", "LOADING"}]
    BY DEF QueueInv, QueueTypes
  <1>3. CASE \E t, call : /\ Owed(t, call, pc, state) /\ t # NoTask
                          /\ \/ call = "bnr_cache_store_cb" /\ StoreDone
                             \/ call = "bnr_cache_load_cb" /\ LoadDone
                             \/ call = "arq_banner_callback_setup" /\ SetupDone(t)
                             \/ call = "arq_banner_callback_load" /\ ReloadDone(t)
                          /\ AnsweredLo
                          /\ Holds(arq', HiOf(arq'), LoOf(arq'), pc, state)
                          /\ Absent(t, LoOf(arq'))
    <2>1. PICK t, call : /\ Owed(t, call, pc, state) /\ t # NoTask
                         /\ \/ call = "bnr_cache_store_cb" /\ StoreDone
                            \/ call = "bnr_cache_load_cb" /\ LoadDone
                            \/ call = "arq_banner_callback_setup" /\ SetupDone(t)
                            \/ call = "arq_banner_callback_load" /\ ReloadDone(t)
                         /\ AnsweredLo
                         /\ Holds(arq', HiOf(arq'), LoOf(arq'), pc, state)
                         /\ Absent(t, LoOf(arq'))
      BY <1>3
    <2>2. /\ call = "bnr_cache_store_cb" => t = Store /\ pc = "storing"
          /\ call = "bnr_cache_load_cb" => t = Load /\ pc = "loading"
          /\ call = "arq_banner_callback_setup" => t \in Files /\ state[t] = "SETUP"
          /\ call = "arq_banner_callback_load" => t \in Files /\ state[t] = "LOADING"
      BY <2>1, OwedIs
    <2>3. ASSUME t \in {Store, Load}, pc \in {"storing", "loading"},
                 t = Store <=> pc = "storing", pc' = "deliver", UNCHANGED state
          PROVE  /\ QueueTypes' /\ WalkInv'
                 /\ \A u, c : u # t /\ Owed(u, c, pc, state) => Owed(u, c, pc', state')
      <3>1. \A u, c : u # t /\ Owed(u, c, pc, state) => Owed(u, c, pc', state')
        BY <2>3 DEF Owed
      <3>2. QueueTypes' /\ WalkInv'
        BY <1>1, <2>3 DEF QueueInv, QueueTypes, WalkInv
      <3> QED BY <3>1, <3>2
    <2>4. ASSUME t \in Files, state[t] \in {"SETUP", "LOADING"}, UNCHANGED pc,
                 state' = [state EXCEPT ![t] = "LOADED"]
          PROVE  /\ QueueTypes' /\ WalkInv'
                 /\ \A u, c : u # t /\ Owed(u, c, pc, state) => Owed(u, c, pc', state')
      <3>1. \A u, c : u # t /\ Owed(u, c, pc, state) => Owed(u, c, pc', state')
        BY <1>2, <2>4 DEF Owed
      <3>2. QueueTypes'
        BY <1>1, <1>2, <2>4 DEF QueueInv, QueueTypes
      <3>3. WalkInv'
        <4>1. ASSUME pc # "idle", ~warm, NEW j \in i .. Len(listing)
              PROVE  state'[listing[j]] = "NONE"
          <5>1. /\ i \in 1 .. Len(listing) /\ Len(listing) \in Nat
                /\ \A k \in 1 .. Len(listing) : listing[k] \in Files
                /\ ~warm => \A k \in i .. Len(listing) : state[listing[k]] = "NONE"
            BY <4>1, FileIs
          <5>2. state[listing[j]] = "NONE" /\ j \in 1 .. Len(listing)
            BY <4>1, <5>1
          <5>3. listing[j] \in Files /\ listing[j] # t
            BY <2>4, <5>1, <5>2
          <5> QED BY <1>2, <2>4, <5>2, <5>3
        <4> QED BY <1>1, <2>4, <4>1 DEF QueueInv, WalkInv
      <3> QED BY <3>1, <3>2, <3>3
    <2>5. /\ QueueTypes' /\ WalkInv'
          /\ \A u, c : u # t /\ Owed(u, c, pc, state) => Owed(u, c, pc', state')
      <3>1. Store # Load
        BY BnrAssumption
      <3>2. CASE call = "bnr_cache_store_cb" /\ StoreDone
        BY <2>2, <2>3, <3>1, <3>2 DEF StoreDone
      <3>3. CASE call = "bnr_cache_load_cb" /\ LoadDone
        BY <2>2, <2>3, <3>1, <3>3 DEF LoadDone
      <3>4. CASE call = "arq_banner_callback_setup" /\ SetupDone(t)
        BY <2>2, <2>4, <3>4 DEF SetupDone
      <3>5. CASE call = "arq_banner_callback_load" /\ ReloadDone(t)
        BY <2>2, <2>4, <3>5 DEF ReloadDone
      <3> QED BY <2>1, <3>2, <3>3, <3>4, <3>5
    <2>6. Holds(arq', HiOf(arq'), LoOf(arq'), pc', state')
      <3> DEFINE a == arq'
                 H == HiOf(arq')
                 L == LoOf(arq')
                 p1 == pc'
                 s1 == state'
      <3>1. /\ Holds(a, H, L, pc, state) /\ Absent(t, L)
            /\ \A u, c : u # t /\ Owed(u, c, pc, state) => Owed(u, c, p1, s1)
        BY <2>1, <2>5
      <3> HIDE DEF a, H, L, p1, s1
      <3>2. Holds(a, H, L, p1, s1)
        BY <3>1, HoldsKept
      <3> QED BY <3>2 DEF a, H, L, p1, s1
    <2> QED BY <2>1, <2>5, <2>6 DEF QueueInv, QueueStep
  <1>4. CASE /\ UNCHANGED <<aram, cachevars, pc, buffer, state, pixels>>
             /\ Holds(arq', HiOf(arq'), LoOf(arq'), pc, state)
             /\ AnsweredHi \/ Quiet
    <2>1. QueueTypes' /\ WalkInv'
      BY <1>1, <1>4 DEF QueueInv, QueueTypes, WalkInv
    <2> QED BY <1>4, <2>1 DEF QueueInv, QueueStep
  <1> QED BY <1>3, <1>4, InterruptCases

LEMMA QueueNext ==
  ASSUME QueueInv, Next
  PROVE  QueueInv' /\ QueueStep
  <1>1. CASE \E d \in Dirs, w \in BOOLEAN : Walk(d, w)
    BY <1>1, WalkStep
  <1>2. CASE Worker
    BY <1>2, GetStep, ReadStep, PutStep, DeliverStep DEF Worker
  <1>3. CASE \E f \in Files : Reload(f)
    BY <1>3, ReloadStep
  <1>4. CASE PostHi
    BY <1>4, PostHiStep
  <1>5. CASE Interrupt
    BY <1>5, InterruptStep
  <1> QED BY <1>1, <1>2, <1>3, <1>4, <1>5 DEF Next

LEMMA QueueStutter ==
  ASSUME QueueInv, UNCHANGED vars
  PROVE  QueueInv'
  BY DEF QueueInv, vars, walkvars, listvars, QueueTypes, WalkInv

LEMMA QueueInit ==
  ASSUME Init
  PROVE  QueueInv
  <1>1. arq = ArqInit
    BY DEF Init
  <1>2. QueueTypes /\ WalkInv
    <2>1. pc = "idle" /\ warm = FALSE /\ i = 1 /\ state = [f \in Files |-> "NONE"]
      BY DEF Init
    <2>2. state \in [Files -> {"NONE", "SETUP", "LOADED", "LOADING"}]
      BY <2>1
    <2>3. i \in Nat \ {0}
      BY <2>1
    <2>4. warm \in BOOLEAN
      BY <2>1
    <2>5. QueueTypes
      BY <2>1, <2>2, <2>3, <2>4 DEF QueueTypes
    <2>6. WalkInv
      BY <2>1 DEF WalkInv
    <2> QED BY <2>5, <2>6
  <1>3. Holds(ArqInit, <<>>, <<>>, pc, state)
    BY HoldsInit
  <1>4. Holds(ArqInit, HiOf(ArqInit), LoOf(ArqInit), pc, state)
    BY <1>3, HoldsRead
  <1> QED BY <1>1, <1>2, <1>4 DEF QueueInv

-----------------------------------------------------------------------------
(* The refinement. *)

\* Outstanding requests with their callbacks, as ArqFifo has them.
Pairs(S, call) == [n \in 1 .. Len(S) |-> <<S[n], call[S[n]]>>]

LEMMA OutstandingIs ==
  /\ Outstanding(arq.pendingHi, arq.queueHi) = Pairs(HiOf(arq), arq.callback)
  /\ Outstanding(arq.pendingLo, arq.queueLo) = Pairs(LoOf(arq), arq.callback)
  /\ Outstanding(arq.pendingHi, arq.queueHi)' = Pairs(HiOf(arq'), arq'.callback)
  /\ Outstanding(arq.pendingLo, arq.queueLo)' = Pairs(LoOf(arq'), arq'.callback)
  BY DEF Outstanding, Pairs, HiOf, LoOf, InOrder

LEMMA PairsSeq ==
  ASSUME NEW S \in Seq(Tasks), NEW call
  PROVE  /\ Pairs(S, call) \in Seq(Tasks \X {call[t] : t \in Tasks})
         /\ Len(Pairs(S, call)) = Len(S) /\ Len(S) \in Nat
         /\ \A n \in 1 .. Len(S) : Pairs(S, call)[n] = <<S[n], call[S[n]]>>
  BY DEF Pairs

\* A request that is not there does not matter.
LEMMA PairsSame ==
  ASSUME NEW S \in Seq(Tasks), NEW call \in [Tasks -> CallSet], NEW t \in Tasks,
         Absent(t, S), NEW c \in CallSet
  PROVE  Pairs(S, [call EXCEPT ![t] = c]) = Pairs(S, call)
  <1> DEFINE d == [call EXCEPT ![t] = c]
  <1>1. \A n \in 1 .. Len(S) : S[n] \in Tasks /\ S[n] # t
    BY DEF Absent
  <1>2. \A n \in 1 .. Len(S) : d[S[n]] = call[S[n]]
    BY <1>1
  <1> HIDE DEF d
  <1>3. Pairs(S, d) = Pairs(S, call)
    BY <1>2 DEF Pairs
  <1> QED BY <1>3 DEF d

LEMMA PairsAppend ==
  ASSUME NEW S \in Seq(Tasks), NEW call \in [Tasks -> CallSet], NEW t \in Tasks,
         Absent(t, S), NEW c \in CallSet
  PROVE  Pairs(Append(S, t), [call EXCEPT ![t] = c]) = Append(Pairs(S, call), <<t, c>>)
  <1> DEFINE d == [call EXCEPT ![t] = c]
             A == Append(S, t)
             P == Pairs(S, call)
             Q == Append(P, <<t, c>>)
  <1>1. /\ \A n \in 1 .. Len(S) : S[n] \in Tasks /\ d[S[n]] = call[S[n]]
        /\ d[t] = c /\ d \in [Tasks -> CallSet]
    BY DEF Absent
  <1>2. /\ A \in Seq(Tasks) /\ Len(S) \in Nat /\ Len(A) = Len(S) + 1
        /\ \A n \in 1 .. Len(A) : A[n] = IF n \in 1 .. Len(S) THEN S[n] ELSE t
    OBVIOUS
  <1> HIDE DEF d, A
  <1>3. /\ P \in Seq(Tasks \X CallSet) /\ Len(P) = Len(S)
        /\ \A n \in 1 .. Len(S) : P[n] = <<S[n], call[S[n]]>>
    BY DEF Pairs
  <1>4. /\ Pairs(A, d) \in Seq(Tasks \X CallSet) /\ Len(Pairs(A, d)) = Len(S) + 1
        /\ \A n \in 1 .. Len(A) : Pairs(A, d)[n] = <<A[n], d[A[n]]>>
    BY <1>1, <1>2 DEF Pairs
  <1> HIDE DEF P
  <1>5. /\ Q \in Seq(Tasks \X CallSet) /\ Len(Q) = Len(S) + 1
        /\ \A n \in 1 .. Len(S) + 1 : Q[n] = IF n \in 1 .. Len(S) THEN P[n] ELSE <<t, c>>
    BY <1>2, <1>3
  <1> HIDE DEF Q
  <1>6. \A n \in 1 .. Len(S) + 1 : Pairs(A, d)[n] = Q[n]
    <2> SUFFICES ASSUME NEW n \in 1 .. Len(S) + 1
                 PROVE  Pairs(A, d)[n] = Q[n]
      OBVIOUS
    <2>1. CASE n \in 1 .. Len(S)
      <3>1. A[n] = S[n] /\ d[S[n]] = call[S[n]] /\ P[n] = <<S[n], call[S[n]]>> /\ Q[n] = P[n]
        BY <1>1, <1>2, <1>3, <1>5, <2>1
      <3>2. Pairs(A, d)[n] = <<A[n], d[A[n]]>>
        BY <1>2, <1>4
      <3> QED BY <3>1, <3>2
    <2>2. CASE n \notin 1 .. Len(S)
      <3>1. A[n] = t /\ d[t] = c /\ Q[n] = <<t, c>>
        BY <1>1, <1>2, <1>5, <2>2
      <3>2. Pairs(A, d)[n] = <<A[n], d[A[n]]>>
        BY <1>2, <1>4
      <3> QED BY <3>1, <3>2
    <2> QED BY <2>1, <2>2
  <1>7. Pairs(A, d) = Q
    BY <1>4, <1>5, <1>6, SeqEqual
  <1> QED BY <1>7 DEF A, d, Q, P

LEMMA PairsTail ==
  ASSUME NEW S \in Seq(Tasks), NEW call \in [Tasks -> CallSet], Len(S) > 0
  PROVE  /\ Pairs(Tail(S), call) = Tail(Pairs(S, call))
         /\ Pairs(S, call) # <<>> /\ Head(Pairs(S, call)) = <<S[1], call[S[1]]>>
  <1> DEFINE T == Tail(S)
             P == Pairs(S, call)
             Q == Tail(P)
  <1>1. /\ T \in Seq(Tasks) /\ Len(S) \in Nat /\ Len(T) = Len(S) - 1
        /\ \A n \in 1 .. Len(T) : T[n] = S[n + 1]
    OBVIOUS
  <1> HIDE DEF T
  <1>2. /\ P \in Seq(Tasks \X CallSet) /\ Len(P) = Len(S)
        /\ \A n \in 1 .. Len(S) : P[n] = <<S[n], call[S[n]]>>
    BY DEF Pairs
  <1>3. /\ Pairs(T, call) \in Seq(Tasks \X CallSet) /\ Len(Pairs(T, call)) = Len(T)
        /\ \A n \in 1 .. Len(T) : Pairs(T, call)[n] = <<T[n], call[T[n]]>>
    BY <1>1 DEF Pairs
  <1> HIDE DEF P
  <1>4. /\ Q \in Seq(Tasks \X CallSet) /\ Len(Q) = Len(S) - 1
        /\ \A n \in 1 .. Len(S) - 1 : Q[n] = P[n + 1]
    BY <1>1, <1>2
  <1> HIDE DEF Q
  <1>5. \A n \in 1 .. Len(T) : Pairs(T, call)[n] = Q[n]
    <2> SUFFICES ASSUME NEW n \in 1 .. Len(T)
                 PROVE  Pairs(T, call)[n] = Q[n]
      OBVIOUS
    <2>1. T[n] = S[n + 1] /\ Q[n] = P[n + 1] /\ n + 1 \in 1 .. Len(S)
      BY <1>1, <1>4
    <2>2. P[n + 1] = <<S[n + 1], call[S[n + 1]]>>
      BY <1>2, <2>1
    <2>3. Pairs(T, call)[n] = <<T[n], call[T[n]]>>
      BY <1>3
    <2> QED BY <2>1, <2>2, <2>3
  <1>6. Pairs(T, call) = Q
    BY <1>1, <1>3, <1>4, <1>5, SeqEqual
  <1>7. P # <<>> /\ Head(P) = <<S[1], call[S[1]]>>
    BY <1>1, <1>2
  <1> QED BY <1>6, <1>7 DEF T, Q, P

\* What ArqFifo calls hi and lo.
hiFifo == Outstanding(arq.pendingHi, arq.queueHi)
loFifo == Outstanding(arq.pendingLo, arq.queueLo)

\* A request that is not outstanding may be posted.
LEMMA MayPost ==
  ASSUME NEW S \in Seq(Tasks), NEW call, NEW t, Absent(t, S)
  PROVE  \A n \in 1 .. Len(Pairs(S, call)) : Pairs(S, call)[n][1] # t
  <1>1. /\ Len(Pairs(S, call)) = Len(S)
        /\ \A n \in 1 .. Len(S) : Pairs(S, call)[n] = <<S[n], call[S[n]]>>
    BY PairsSeq
  <1> QED BY <1>1 DEF Absent

\* Appending adds one at the end.
LEMMA AppendIs ==
  ASSUME NEW S, NEW P \in Seq(S), NEW r \in S
  PROVE  Len(Append(P, r)) = Len(P) + 1 /\ Append(P, r)[Len(P) + 1] = r /\ Len(P) \in Nat
  OBVIOUS

LEMMA StepIsFifo ==
  ASSUME QueueInv, QueueStep
  PROVE  Fifo!Next
  <1> DEFINE H == HiOf(arq)
             L == LoOf(arq)
             cb == arq.callback
             H1 == HiOf(arq')
             L1 == LoOf(arq')
             cb1 == arq'.callback
  <1>1. /\ hiFifo = Pairs(H, cb) /\ loFifo = Pairs(L, cb)
        /\ hiFifo' = Pairs(H1, cb1) /\ loFifo' = Pairs(L1, cb1)
    BY OutstandingIs DEF hiFifo, loFifo
  <1>2. H \in Seq(Tasks) /\ L \in Seq(Tasks) /\ cb \in [Tasks -> CallSet]
    <2>1. Holds(arq, HiOf(arq), LoOf(arq), pc, state)
      BY DEF QueueInv
    <2> QED BY <2>1, HoldsTasks
  <1>3. Pairs(H, cb) \in Seq(Tasks \X CallSet) /\ Pairs(L, cb) \in Seq(Tasks \X CallSet)
    BY <1>2 DEF Pairs
  <1>4. CASE Quiet
    <2>1. hiFifo' = hiFifo /\ loFifo' = loFifo /\ fired' = Nothing
      BY <1>1, <1>4 DEF Quiet
    <2> QED BY <2>1 DEF Fifo!Next, Fifo!Progress, hiFifo, loFifo
  <1>5. CASE \E t, call : PostedLo(t, call)
    <2>1. PICK t, call : PostedLo(t, call)
      BY <1>5
    <2>2. /\ t \in Tasks /\ call \in CallNames /\ call \in CallSet /\ Absent(t, H) /\ Absent(t, L)
          /\ H1 = H /\ L1 = Append(L, t) /\ cb1 = [cb EXCEPT ![t] = call] /\ fired' = Nothing
      BY <2>1 DEF PostedLo, CallSet
    <2> HIDE DEF H, L, cb, H1, L1, cb1
    <2>3. Pairs(H, [cb EXCEPT ![t] = call]) = Pairs(H, cb)
      BY <1>2, <2>2, PairsSame
    <2>4. Pairs(Append(L, t), [cb EXCEPT ![t] = call]) = Append(Pairs(L, cb), <<t, call>>)
      BY <1>2, <2>2, PairsAppend
    <2>5. hiFifo' = hiFifo /\ loFifo' = Append(loFifo, <<t, call>>)
      BY <1>1, <2>2, <2>3, <2>4
    <2>6. /\ <<t, call>> \in Tasks \X CallNames
          /\ \A n \in 1 .. Len(hiFifo) : hiFifo[n][1] # t
          /\ \A n \in 1 .. Len(loFifo) : loFifo[n][1] # t
      BY <1>1, <1>2, <2>2, MayPost
    <2>7. /\ Len(loFifo') = Len(loFifo) + 1 /\ loFifo'[Len(loFifo')] = <<t, call>>
      <3>1. loFifo \in Seq(Tasks \X CallSet) /\ <<t, call>> \in Tasks \X CallSet
        BY <1>1, <1>3, <2>2
      <3> QED BY <2>5, <3>1, AppendIs
    <2>8. Fifo!New(<<t, call>>)
      BY <2>6 DEF Fifo!New, hiFifo, loFifo
    <2>9. Fifo!PostLo
      BY <2>2, <2>5, <2>7, <2>8 DEF Fifo!PostLo, hiFifo, loFifo
    <2> QED BY <2>9 DEF Fifo!Next
  <1>6. CASE \E t, call : PostedHi(t, call)
    <2>1. PICK t, call : PostedHi(t, call)
      BY <1>6
    <2>2. /\ t \in Tasks /\ call \in CallNames /\ call \in CallSet /\ Absent(t, H) /\ Absent(t, L)
          /\ L1 = L /\ H1 = Append(H, t) /\ cb1 = [cb EXCEPT ![t] = call] /\ fired' = Nothing
      BY <2>1 DEF PostedHi, CallSet
    <2> HIDE DEF H, L, cb, H1, L1, cb1
    <2>3. Pairs(L, [cb EXCEPT ![t] = call]) = Pairs(L, cb)
      BY <1>2, <2>2, PairsSame
    <2>4. Pairs(Append(H, t), [cb EXCEPT ![t] = call]) = Append(Pairs(H, cb), <<t, call>>)
      BY <1>2, <2>2, PairsAppend
    <2>5. loFifo' = loFifo /\ hiFifo' = Append(hiFifo, <<t, call>>)
      BY <1>1, <2>2, <2>3, <2>4
    <2>6. /\ <<t, call>> \in Tasks \X CallNames
          /\ \A n \in 1 .. Len(hiFifo) : hiFifo[n][1] # t
          /\ \A n \in 1 .. Len(loFifo) : loFifo[n][1] # t
      BY <1>1, <1>2, <2>2, MayPost
    <2>7. /\ Len(hiFifo') = Len(hiFifo) + 1 /\ hiFifo'[Len(hiFifo')] = <<t, call>>
      <3>1. hiFifo \in Seq(Tasks \X CallSet) /\ <<t, call>> \in Tasks \X CallSet
        BY <1>1, <1>3, <2>2
      <3> QED BY <2>5, <3>1, AppendIs
    <2>8. Fifo!New(<<t, call>>)
      BY <2>6 DEF Fifo!New, hiFifo, loFifo
    <2>9. Fifo!PostHi
      BY <2>2, <2>5, <2>7, <2>8 DEF Fifo!PostHi, hiFifo, loFifo
    <2> QED BY <2>9 DEF Fifo!Next
  <1>7. CASE AnsweredHi
    <2>1. /\ Len(H) > 0 /\ fired' = <<H[1], cb[H[1]]>>
          /\ H1 = Tail(H) /\ L1 = L /\ cb1 = cb
      BY <1>7 DEF AnsweredHi
    <2> HIDE DEF H, L, cb, H1, L1, cb1
    <2>2. /\ Pairs(Tail(H), cb) = Tail(Pairs(H, cb))
          /\ Pairs(H, cb) # <<>> /\ Head(Pairs(H, cb)) = <<H[1], cb[H[1]]>>
      BY <1>2, <2>1, PairsTail
    <2>3. hiFifo # <<>> /\ fired' = Head(hiFifo) /\ hiFifo' = Tail(hiFifo) /\ loFifo' = loFifo
      BY <1>1, <2>1, <2>2
    <2>4. Fifo!AnswerHi
      BY <2>3 DEF Fifo!AnswerHi, hiFifo, loFifo
    <2> QED BY <2>4 DEF Fifo!Next
  <1>8. CASE AnsweredLo
    <2>1. /\ Len(L) > 0 /\ fired' = <<L[1], cb[L[1]]>>
          /\ L1 = Tail(L) /\ H1 = H /\ cb1 = cb
      BY <1>8 DEF AnsweredLo
    <2> HIDE DEF H, L, cb, H1, L1, cb1
    <2>2. /\ Pairs(Tail(L), cb) = Tail(Pairs(L, cb))
          /\ Pairs(L, cb) # <<>> /\ Head(Pairs(L, cb)) = <<L[1], cb[L[1]]>>
      BY <1>2, <2>1, PairsTail
    <2>3. loFifo # <<>> /\ fired' = Head(loFifo) /\ loFifo' = Tail(loFifo) /\ hiFifo' = hiFifo
      BY <1>1, <2>1, <2>2
    <2>4. Fifo!AnswerLo
      BY <2>3 DEF Fifo!AnswerLo, hiFifo, loFifo
    <2> QED BY <2>4 DEF Fifo!Next
  <1> QED BY <1>4, <1>5, <1>6, <1>7, <1>8 DEF QueueStep

\* Posting, with requests linked through their callers' structures, and the interrupt, with
\* transfers cut into chunks, behave as two FIFO queues: every request is answered once, in
\* the order of its priority, by its own callback.
THEOREM QueueIsFifo == Spec => ImplementsFifo
  <1>1. Init => QueueInv
    BY QueueInit
  <1>2. QueueInv /\ [Next]_vars => QueueInv'
    BY QueueNext, QueueStutter
  <1>3. Init => Fifo!Init
    <2> SUFFICES ASSUME Init PROVE Fifo!Init
      OBVIOUS
    <2>1. arq = ArqInit /\ fired = Nothing
      BY DEF Init
    <2>2. Holds(ArqInit, <<>>, <<>>, pc, state)
      BY HoldsInit
    <2>3. HiOf(ArqInit) = <<>> /\ LoOf(ArqInit) = <<>>
      BY <2>2, HoldsRead
    <2>4. Pairs(<<>>, arq.callback) = <<>>
      BY DEF Pairs
    <2>5. hiFifo = <<>> /\ loFifo = <<>>
      BY <2>1, <2>3, <2>4, OutstandingIs DEF hiFifo, loFifo
    <2> QED BY <2>1, <2>5 DEF Fifo!Init, hiFifo, loFifo
  <1>4. QueueInv /\ [Next]_vars => [Fifo!Next]_(Fifo!fifovars)
    <2>1. ASSUME QueueInv, Next
          PROVE  Fifo!Next
      BY <2>1, QueueNext, StepIsFifo
    <2>2. ASSUME UNCHANGED vars
          PROVE  UNCHANGED Fifo!fifovars
      <3>1. arq' = arq /\ fired' = fired
        BY <2>2 DEF vars
      <3>2. hiFifo' = hiFifo /\ loFifo' = loFifo
        BY <3>1, OutstandingIs DEF hiFifo, loFifo
      <3> QED BY <3>1, <3>2 DEF Fifo!fifovars, hiFifo, loFifo
    <2> QED BY <2>1, <2>2
  <1> QED BY <1>1, <1>2, <1>3, <1>4, PTL DEF Spec, ImplementsFifo, Fifo!Spec

-----------------------------------------------------------------------------
(* Where things are in ARAM. *)

LEMMA Products ==
  ASSUME NEW a \in Nat, NEW b \in Nat, NEW c \in Nat, a <= b
  PROVE  a * c \in Nat /\ b * c \in Nat /\ a * c <= b * c /\ (a + 1) * c = a * c + c
  OBVIOUS

LEMMA SlotPlace ==
  ASSUME NEW s \in 0 .. Slots - 1
  PROVE  /\ SlotOffset(s) \in Nat /\ Top - Slots * CacheCells <= SlotOffset(s)
         /\ SlotOffset(s) + CacheCells <= Top
         /\ SlotOffset(s) = Top - (s + 1) * CacheCells
         /\ SlotOffset(s) + CacheCells = Top - s * CacheCells
  <1>1. Slots \in Nat /\ CacheCells \in Nat /\ Top \in Nat /\ Slots * CacheCells <= Top
        /\ s \in Nat /\ s + 1 \in Nat /\ s + 1 <= Slots
    BY BnrAssumption
  <1>2. (s + 1) * CacheCells \in Nat /\ Slots * CacheCells \in Nat
        /\ (s + 1) * CacheCells <= Slots * CacheCells
    BY <1>1, Products
  <1>3. s * CacheCells \in Nat /\ (s + 1) * CacheCells = s * CacheCells + CacheCells
    BY <1>1, Products
  <1>4. CacheCells * (s + 1) = (s + 1) * CacheCells
    BY <1>1
  <1> QED BY <1>1, <1>2, <1>3, <1>4 DEF SlotOffset

\* Slots do not overlap.
LEMMA SlotsApart ==
  ASSUME NEW s \in 0 .. Slots - 1, NEW t \in 0 .. Slots - 1, s # t
  PROVE  SlotOffset(s) + CacheCells <= SlotOffset(t) \/ SlotOffset(t) + CacheCells <= SlotOffset(s)
  <1>1. CacheCells \in Nat /\ Top \in Nat /\ s \in Nat /\ t \in Nat
    BY BnrAssumption
  <1>2. ASSUME NEW x \in 0 .. Slots - 1, NEW y \in 0 .. Slots - 1, x < y
        PROVE  SlotOffset(y) + CacheCells <= SlotOffset(x)
    <2>1. x + 1 \in Nat /\ y \in Nat /\ x + 1 <= y
      BY <1>2, BnrAssumption
    <2>2. (x + 1) * CacheCells \in Nat /\ y * CacheCells \in Nat
          /\ (x + 1) * CacheCells <= y * CacheCells
      BY <1>1, <2>1, Products
    <2>3. SlotOffset(x) = Top - (x + 1) * CacheCells
          /\ SlotOffset(y) + CacheCells = Top - y * CacheCells
      BY SlotPlace
    <2> QED BY <1>1, <2>2, <2>3
  <1>3. s < t \/ t < s
    BY <1>1
  <1> QED BY <1>2, <1>3

\* Nor do the places of the list.
LEMMA PlacesApart ==
  ASSUME NEW j \in Nat \ {0}, NEW k \in Nat \ {0}, j # k
  PROVE  ListPlace(j) + ListCells <= ListPlace(k) \/ ListPlace(k) + ListCells <= ListPlace(j)
  <1>1. ListCells \in Nat /\ ListBase \in Nat
    BY BnrAssumption
  <1>2. ASSUME NEW x \in Nat \ {0}, NEW y \in Nat \ {0}, x < y
        PROVE  ListPlace(x) + ListCells <= ListPlace(y)
    <2>1. x - 1 \in Nat /\ y - 1 \in Nat /\ x \in Nat /\ x <= y - 1 /\ (x - 1) + 1 = x
      BY <1>2
    <2>2. x * ListCells \in Nat /\ (y - 1) * ListCells \in Nat
          /\ x * ListCells <= (y - 1) * ListCells
      BY <1>1, <2>1, Products
    <2>3. (x - 1) * ListCells \in Nat /\ x * ListCells = (x - 1) * ListCells + ListCells
      BY <1>1, <2>1
    <2> QED BY <1>1, <2>2, <2>3 DEF ListPlace
  <1>3. j < k \/ k < j
    OBVIOUS
  <1> QED BY <1>2, <1>3

LEMMA PlaceType ==
  ASSUME NEW j \in Nat \ {0}
  PROVE  ListPlace(j) \in Nat /\ ListPlace(j) + ListCells = ListBase + j * ListCells
  <1>1. ListCells \in Nat /\ ListBase \in Nat /\ j - 1 \in Nat /\ j \in Nat
    BY BnrAssumption
  <1>2. (j - 1) * ListCells \in Nat /\ j * ListCells = (j - 1) * ListCells + ListCells
    BY <1>1
  <1> QED BY <1>1, <1>2 DEF ListPlace

\* The place of every entry of a directory is below the cache.
LEMMA PlaceFits ==
  ASSUME Apart, NEW d \in Dirs, NEW j \in 1 .. Len(d)
  PROVE  ListPlace(j) + ListCells <= Top - Slots * CacheCells
  <1>1. /\ Len(d) \in Nat /\ j \in Nat \ {0} /\ j \in Nat /\ j <= Len(d)
        /\ ListCells \in Nat /\ ListBase \in Nat
    BY BnrAssumption
  <1>2. j * ListCells \in Nat /\ Len(d) * ListCells \in Nat /\ j * ListCells <= Len(d) * ListCells
    BY <1>1, Products
  <1>3. ListBase + Len(d) * ListCells <= Top - Slots * CacheCells
    BY DEF Apart
  <1>4. ListPlace(j) + ListCells = ListBase + j * ListCells
    BY <1>1, PlaceType
  <1>5. Slots * CacheCells \in Nat /\ Top \in Nat
    BY BnrAssumption
  <1> QED BY <1>1, <1>2, <1>3, <1>4, <1>5

\* What is transferred to cells is then there,
LEMMA FillFills ==
  ASSUME NEW a \in Nat, NEW n \in Nat, a + n <= Top, NEW f
  PROVE  Filled(Fill(a, n, f), a, n, f)
  <1>1. \A c \in a .. a + n - 1 : c \in Cells
    BY BnrAssumption DEF Cells
  <1> QED BY <1>1 DEF Filled, Fill

\* and nothing else changes.
LEMMA FillKeeps ==
  ASSUME NEW a \in Nat, NEW n \in Nat, NEW v, NEW b \in Nat, NEW m \in Nat, b + m <= Top,
         a + n <= b \/ b + m <= a, NEW f, Filled(aram, b, m, f)
  PROVE  Filled(Fill(a, n, v), b, m, f)
  <1>1. \A c \in b .. b + m - 1 : c \in Cells /\ c \notin a .. a + n - 1
    BY BnrAssumption DEF Cells
  <1> QED BY <1>1 DEF Filled, Fill

\* A transfer from cells delivers what is there.
LEMMA FetchFilled ==
  ASSUME NEW a \in Nat, NEW n \in Nat \ {0}, NEW f \in Files, Filled(aram, a, n, f)
  PROVE  Fetch(a, n) = f
  <1>1. a \in a .. a + n - 1
    OBVIOUS
  <1>2. aram[a] = f
    BY <1>1 DEF Filled
  <1>3. \E g \in Files : \A c \in a .. a + n - 1 : aram[c] = g
    BY DEF Filled
  <1> QED BY <1>2, <1>3 DEF Fetch

\* The search of bnr_cache_get finds a slot.
LEMMA FirstFoundIs ==
  ASSUME NEW f, Found(f) # {}
  PROVE  /\ FirstFound(f) \in 0 .. Slots - 1
         /\ slots[FirstFound(f)].valid /\ slots[FirstFound(f)].key = Key(f)
  <1>1. Found(f) \subseteq Nat
    BY BnrAssumption DEF Found
  <1>2. \E s \in Found(f) : \A t \in Found(f) : s <= t
    BY <1>1, LeastNumber
  <1>3. FirstFound(f) \in Found(f)
    BY <1>2 DEF FirstFound
  <1> QED BY <1>3 DEF Found

-----------------------------------------------------------------------------
(* The banners, action by action. *)

LEMMA BannerInit ==
  ASSUME Init
  PROVE  BannerInv
  <1>1. /\ aram = [c \in Cells |-> Nobody] /\ nextIndex = 0 /\ pc = "idle"
        /\ slots = [s \in 0 .. Slots - 1 |-> [key |-> Nobody, off |-> 0, valid |-> FALSE]]
        /\ base = [f \in Files |-> Nobody] /\ state = [f \in Files |-> "NONE"]
        /\ pixels = [f \in Files |-> Nobody]
    BY DEF Init
  <1>2. \A s \in 0 .. Slots - 1 : slots[s] = [key |-> Nobody, off |-> 0, valid |-> FALSE]
    BY <1>1
  <1>3. DataTypes
    <2>1. nextIndex \in 0 .. Slots - 1
      BY <1>1, BnrAssumption
    <2>2. slots \in [0 .. Slots - 1 ->
                  [key : {Key(f) : f \in Files} \cup {Nobody}, off : Int, valid : BOOLEAN]]
      BY <1>1
    <2> QED BY <1>1, <2>1, <2>2 DEF DataTypes
  <1>4. SlotInv
    BY <1>2 DEF SlotInv
  <1>5. BufferInv
    BY <1>1 DEF BufferInv
  <1>6. \A f \in Files : state[f] = "NONE"
    BY <1>1
  <1>7. PlaceInv /\ ListInv
    BY <1>6 DEF PlaceInv, ListInv
  <1> QED BY <1>3, <1>4, <1>5, <1>7 DEF BannerInv

LEMMA BannerStutter ==
  ASSUME BannerInv, UNCHANGED vars
  PROVE  BannerInv'
  <1>1. UNCHANGED <<aram, pixels, base, nextIndex, slots, state, pc, listing, i, warm, buffer>>
    BY DEF vars, cachevars, listvars, walkvars
  <1>2. DataTypes' /\ SlotInv' /\ PlaceInv' /\ ListInv'
    BY <1>1 DEF BannerInv, DataTypes, SlotInv, PlaceInv, ListInv
  <1>3. BufferInv'
    BY <1>1 DEF BannerInv, BufferInv, File, Found
  <1> QED BY <1>2, <1>3 DEF BannerInv

LEMMA WalkBanner ==
  ASSUME BannerInv, NEW d \in Dirs, NEW w \in BOOLEAN, Walk(d, w)
  PROVE  BannerInv'
  <1>1. /\ pc = "idle" /\ pc' = "get" /\ listing' = d /\ warm' = w /\ i' = 1
        /\ UNCHANGED <<aram, slots, nextIndex>>
    BY DEF Walk, cachevars
  <1>2. SlotInv' /\ BufferInv'
    BY <1>1 DEF BannerInv, SlotInv, BufferInv
  <1>3. CASE w
    <2>1. UNCHANGED <<base, state, pixels>>
      BY <1>3 DEF Walk, listvars
    <2>2. DataTypes' /\ ListInv'
      BY <1>1, <2>1 DEF BannerInv, DataTypes, ListInv
    <2>3. PlaceInv'
      BY <1>1, <1>3, <2>1 DEF BannerInv, PlaceInv
    <2> QED BY <1>2, <2>2, <2>3 DEF BannerInv
  <1>4. CASE ~w
    <2>1. /\ base' = [f \in Files |-> Nobody] /\ state' = [f \in Files |-> "NONE"]
          /\ pixels' = [f \in Files |-> Nobody]
      BY <1>4 DEF Walk
    <2>2. DataTypes'
      BY <1>1, <2>1 DEF BannerInv, DataTypes
    <2>3. \A f \in Files : state'[f] = "NONE"
      BY <2>1
    <2>4. PlaceInv' /\ ListInv'
      BY <2>3 DEF PlaceInv, ListInv
    <2> QED BY <1>2, <2>2, <2>4 DEF BannerInv
  <1> QED BY <1>3, <1>4

\* The worker goes on without touching the banners.
LEMMA WorkerMoves ==
  ASSUME BannerInv, pc # "idle", pc' # "idle",
         UNCHANGED <<aram, slots, nextIndex, base, state, pixels, listing, warm, i>>
  PROVE  DataTypes' /\ SlotInv' /\ PlaceInv' /\ ListInv'
  BY DEF BannerInv, DataTypes, SlotInv, PlaceInv, ListInv

LEMMA GetBanner ==
  ASSUME BannerInv, Get
  PROVE  BannerInv'
  <1>1. /\ pc = "get" /\ pc' \in {"read", "loading"} /\ (pc' = "loading" => Found(File) # {})
        /\ UNCHANGED <<aram, slots, nextIndex, base, state, pixels, listing, warm, i, buffer>>
    BY DEF Get, cachevars, listvars, walkvars
  <1>2. DataTypes' /\ SlotInv' /\ PlaceInv' /\ ListInv'
    BY <1>1, WorkerMoves
  <1>3. BufferInv'
    BY <1>1 DEF BufferInv, File, Found
  <1> QED BY <1>2, <1>3 DEF BannerInv

LEMMA FileRead ==
  ASSUME BannerInv, ReadBanner, ~ReadErrors
  PROVE  BannerInv'
  <1>1. /\ pc = "read" /\ pc' = "put" /\ buffer' = File
        /\ UNCHANGED <<aram, slots, nextIndex, base, state, pixels, listing, warm, i>>
    BY DEF ReadBanner, cachevars, listvars, walkvars
  <1>2. DataTypes' /\ SlotInv' /\ PlaceInv' /\ ListInv'
    BY <1>1, WorkerMoves
  <1>3. BufferInv'
    BY <1>1 DEF BufferInv, File
  <1> QED BY <1>2, <1>3 DEF BannerInv

LEMMA PutBanner ==
  ASSUME QueueInv, BannerInv, Put
  PROVE  BannerInv'
  <1>1. /\ pc = "put" /\ buffer = File
        /\ UNCHANGED <<aram, nextIndex, base, state, pixels, listing, warm, i, buffer>>
    BY DEF Put, listvars, walkvars, BannerInv, BufferInv
  <1>2. CASE Found(File) # {}
    <2>1. pc' = "deliver" /\ UNCHANGED slots
      BY <1>2 DEF Put
    <2>2. DataTypes' /\ SlotInv' /\ PlaceInv' /\ ListInv'
      BY <1>1, <2>1, WorkerMoves
    <2>3. BufferInv'
      BY <1>1, <2>1 DEF BufferInv, File
    <2> QED BY <2>2, <2>3 DEF BannerInv
  <1>3. CASE Found(File) = {}
    <2> DEFINE r == [key |-> Key(File), off |-> SlotOffset(nextIndex), valid |-> FALSE]
    <2>1. pc' = "storing" /\ slots' = [slots EXCEPT ![nextIndex] = r]
      BY <1>3 DEF Put
    <2>2. File \in Files
      BY <1>1, FileIs
    <2>3. DataTypes
      BY DEF BannerInv
    <2>4. r \in [key : {Key(f) : f \in Files} \cup {Nobody}, off : Int, valid : BOOLEAN]
      <3>1. SlotOffset(nextIndex) \in Int
        BY <2>3, SlotPlace DEF DataTypes
      <3> QED BY <2>2, <3>1
    <2>5. DataTypes'
      <3> HIDE DEF r
      <3> QED BY <1>1, <2>1, <2>3, <2>4 DEF DataTypes
    <2>6. slots'[nextIndex] = r /\ \A s \in 0 .. Slots - 1 : s # nextIndex => slots'[s] = slots[s]
      BY <2>1, <2>3 DEF DataTypes
    <2>7. SlotInv'
      <3>1. ASSUME NEW s \in 0 .. Slots - 1, slots'[s].valid
            PROVE  slots'[s] = slots[s]
        BY <2>6, <3>1
      <3> QED BY <1>1, <3>1 DEF BannerInv, SlotInv, SlotOffset
    <2>8. PlaceInv' /\ ListInv'
      BY <1>1, <2>1 DEF BannerInv, PlaceInv, ListInv
    <2>9. BufferInv'
      BY <1>1, <2>1, <2>6 DEF BufferInv, File, SlotOffset
    <2> QED BY <2>5, <2>7, <2>8, <2>9 DEF BannerInv
  <1> QED BY <1>2, <1>3

LEMMA DeliverBanner ==
  ASSUME QueueInv, BannerInv, Apart, Deliver
  PROVE  BannerInv'
  <1>1. /\ pc = "deliver" /\ buffer = File /\ i' = i + 1 /\ UNCHANGED <<listing, warm>>
        /\ pc' \in {"idle", "get"} /\ UNCHANGED <<aram, slots, nextIndex, buffer>>
    BY DEF Deliver, BannerInv, BufferInv, cachevars
  <1>2. /\ listing \in Dirs /\ i \in 1 .. Len(listing) /\ Len(listing) \in Nat /\ File \in Files
        /\ ~warm => \A j \in i .. Len(listing) : state[listing[j]] = "NONE"
    BY <1>1, FileIs
  <1>3. /\ DataTypes /\ PlaceInv /\ ListInv /\ warm \in BOOLEAN
        /\ state \in [Files -> {"NONE", "SETUP", "LOADED", "LOADING"}]
    BY DEF BannerInv, QueueInv, QueueTypes
  <1>4. SlotInv' /\ BufferInv'
    BY <1>1 DEF BannerInv, SlotInv, BufferInv
  <1>5. CASE warm
    <2>1. UNCHANGED <<base, state, pixels>>
      BY <1>5 DEF Deliver, listvars
    <2>2. DataTypes' /\ ListInv'
      BY <1>1, <1>3, <2>1 DEF DataTypes, ListInv
    <2>3. PlaceInv'
      BY <1>1, <1>3, <1>5, <2>1 DEF PlaceInv
    <2> QED BY <1>4, <2>2, <2>3 DEF BannerInv
  <1>6. CASE ~warm
    <2> DEFINE f0 == File
    <2>1. /\ base' = [base EXCEPT ![f0] = ListPlace(i)]
          /\ state' = [state EXCEPT ![f0] = "SETUP"]
          /\ pixels' = [pixels EXCEPT ![f0] = f0]
      BY <1>1, <1>6 DEF Deliver, ListPlace
    <2>2. f0 \in Files
      BY <1>2
    <2> HIDE DEF f0
    <2>3. i \in Nat \ {0}
      BY <1>2
    <2>4. ListPlace(i) \in Nat /\ ListPlace(i) + ListCells <= Top - Slots * CacheCells
      BY <1>2, <2>3, PlaceType, PlaceFits
    <2>5. DataTypes'
      BY <1>1, <1>3, <2>1, <2>2, <2>4 DEF DataTypes
    <2>6. /\ base'[f0] = ListPlace(i) /\ state'[f0] = "SETUP" /\ pixels'[f0] = f0
          /\ \A g \in Files : g # f0 =>
               base'[g] = base[g] /\ state'[g] = state[g] /\ pixels'[g] = pixels[g]
      BY <1>3, <2>1, <2>2 DEF DataTypes
    <2>7. ListInv'
      <3>1. ASSUME NEW g \in Files
            PROVE  /\ state'[g] \in {"SETUP", "LOADED"} => pixels'[g] = g
                   /\ state'[g] \in {"LOADED", "LOADING"} => Filled(aram', base'[g], ListCells, g)
        <4>1. CASE g = f0
          BY <2>6, <4>1
        <4>2. CASE g # f0
          BY <1>1, <1>3, <2>6, <4>2 DEF ListInv
        <4> QED BY <4>1, <4>2
      <3> QED BY <3>1 DEF ListInv
    <2>8. PlaceInv'
      <3>1. ASSUME NEW g \in Files, g # f0, state[g] # "NONE"
            PROVE  \E j \in Nat \ {0} :
                     /\ base[g] = ListPlace(j) /\ ListPlace(j) + ListCells <= Top - Slots * CacheCells
                     /\ j < i
        BY <1>1, <1>3, <1>6, <3>1 DEF PlaceInv
      <3>2. ASSUME NEW g \in Files, state'[g] # "NONE"
            PROVE  \E j \in Nat \ {0} :
                     /\ base'[g] = ListPlace(j) /\ ListPlace(j) + ListCells <= Top - Slots * CacheCells
                     /\ j < i + 1
        <4>1. CASE g = f0
          BY <2>3, <2>4, <2>6, <4>1
        <4>2. CASE g # f0
          <5>1. state[g] # "NONE" /\ base'[g] = base[g]
            BY <2>6, <3>2, <4>2
          <5>2. PICK j \in Nat \ {0} :
                     /\ base[g] = ListPlace(j) /\ ListPlace(j) + ListCells <= Top - Slots * CacheCells
                     /\ j < i
            BY <3>1, <4>2, <5>1
          <5>3. j < i + 1
            BY <2>3, <5>2
          <5> QED BY <5>1, <5>2, <5>3
        <4> QED BY <4>1, <4>2
      <3>3. ASSUME NEW g \in Files, g # f0, state[g] # "NONE"
            PROVE  base[g] # ListPlace(i)
        <4>1. PICK j \in Nat \ {0} : base[g] = ListPlace(j) /\ j < i
          BY <3>1, <3>3
        <4>2. j # i
          BY <2>3, <4>1
        <4>3. ListPlace(j) + ListCells <= ListPlace(i) \/ ListPlace(i) + ListCells <= ListPlace(j)
          BY <2>3, <4>2, PlacesApart
        <4>4. ListPlace(j) \in Nat /\ ListCells \in Nat \ {0}
          BY PlaceType, BnrAssumption
        <4> QED BY <2>4, <4>1, <4>3, <4>4
      <3>4. ASSUME NEW g \in Files, NEW h \in Files, state'[g] # "NONE", state'[h] # "NONE",
                   base'[g] = base'[h]
            PROVE  g = h
        <4>1. CASE g = f0 /\ h # f0
          BY <2>6, <3>3, <3>4, <4>1
        <4>2. CASE g # f0 /\ h = f0
          BY <2>6, <3>3, <3>4, <4>2
        <4>3. CASE g # f0 /\ h # f0
          BY <1>3, <2>6, <3>4, <4>3 DEF PlaceInv
        <4> QED BY <4>1, <4>2, <4>3
      <3> QED BY <1>1, <3>2, <3>4 DEF PlaceInv
    <2> QED BY <1>4, <2>5, <2>7, <2>8 DEF BannerInv
  <1> QED BY <1>3, <1>5, <1>6

LEMMA ReloadBanner ==
  ASSUME QueueInv, BannerInv, NEW f \in Files, Reload(f)
  PROVE  BannerInv'
  <1>1. /\ state[f] = "LOADED" /\ state' = [state EXCEPT ![f] = "LOADING"]
        /\ pixels' = [pixels EXCEPT ![f] = Nobody]
        /\ UNCHANGED <<aram, slots, nextIndex, base, pc, listing, warm, i, buffer>>
    BY DEF Reload, cachevars, walkvars
  <1>2. DataTypes /\ state \in [Files -> {"NONE", "SETUP", "LOADED", "LOADING"}]
    BY DEF BannerInv, QueueInv, QueueTypes
  <1>3. /\ state'[f] = "LOADING"
        /\ \A g \in Files : g # f => state'[g] = state[g] /\ pixels'[g] = pixels[g]
    BY <1>1, <1>2 DEF DataTypes
  <1>4. DataTypes'
    BY <1>1, <1>2 DEF DataTypes
  <1>5. SlotInv' /\ BufferInv'
    BY <1>1 DEF BannerInv, SlotInv, BufferInv, File, Found, SlotOffset
  <1>6. \A g \in Files : state'[g] # "NONE" <=> state[g] # "NONE"
    BY <1>1, <1>3
  <1>7. PlaceInv'
    BY <1>1, <1>6 DEF BannerInv, PlaceInv
  <1>8. ListInv'
    BY <1>1, <1>3 DEF BannerInv, ListInv
  <1> QED BY <1>4, <1>5, <1>7, <1>8 DEF BannerInv

LEMMA PostHiBanner ==
  ASSUME BannerInv, PostHi
  PROVE  BannerInv'
  <1>1. UNCHANGED <<aram, pixels, base, nextIndex, slots, state, pc, listing, i, warm, buffer>>
    BY DEF PostHi, cachevars, listvars, walkvars
  <1>2. DataTypes' /\ SlotInv' /\ PlaceInv' /\ ListInv'
    BY <1>1 DEF BannerInv, DataTypes, SlotInv, PlaceInv, ListInv
  <1>3. BufferInv'
    BY <1>1 DEF BannerInv, BufferInv, File, Found
  <1> QED BY <1>2, <1>3 DEF BannerInv

\* A store fills the slot whose turn it is and reaches no other slot and no place.
LEMMA StoreBanner ==
  ASSUME QueueInv, BannerInv, pc = "storing", StoreDone, UNCHANGED <<base, listing, warm, i>>
  PROVE  BannerInv'
  <1>1. /\ DataTypes /\ SlotInv /\ PlaceInv /\ ListInv
        /\ buffer = File /\ slots[nextIndex].key = Key(File)
        /\ slots[nextIndex].off = SlotOffset(nextIndex)
    BY DEF BannerInv, BufferInv
  <1> DEFINE n == nextIndex
             f0 == File
             o == SlotOffset(nextIndex)
  <1>2. /\ aram' = Fill(o, CacheCells, f0) /\ nextIndex' = (n + 1) % Slots
        /\ slots' = [slots EXCEPT ![n].valid = TRUE]
        /\ pc' = "deliver" /\ UNCHANGED <<buffer, state, pixels>>
    BY <1>1 DEF StoreDone
  <1>3. n \in 0 .. Slots - 1 /\ f0 \in Files
    BY <1>1, FileIs DEF DataTypes
  <1>4. /\ o \in Nat /\ Top - Slots * CacheCells <= o /\ o + CacheCells <= Top
        /\ CacheCells \in Nat \ {0} /\ CacheCells \in Nat
    BY <1>3, SlotPlace, BnrAssumption
  <1>5. /\ slots'[n].valid /\ slots'[n].key = Key(f0) /\ slots'[n].off = o
        /\ \A s \in 0 .. Slots - 1 : s # n => slots'[s] = slots[s]
        /\ slots' \in [0 .. Slots - 1 ->
                  [key : {Key(f) : f \in Files} \cup {Nobody}, off : Int, valid : BOOLEAN]]
    BY <1>1, <1>2, <1>3 DEF DataTypes
  <1> HIDE DEF n, f0, o
  <1>6. DataTypes'
    <2>1. (n + 1) % Slots \in 0 .. Slots - 1
      BY <1>3, BnrAssumption
    <2>2. aram' \in [Cells -> Files \cup {Nobody}]
      BY <1>1, <1>2, <1>3 DEF DataTypes, Fill
    <2> QED BY <1>1, <1>2, <1>5, <2>1, <2>2 DEF DataTypes
  <1>7. SlotInv'
    <2>1. ASSUME NEW s \in 0 .. Slots - 1, slots'[s].valid
          PROVE  /\ slots'[s].off = SlotOffset(s)
                 /\ \E f \in Files : slots'[s].key = Key(f)
                                     /\ Filled(aram', SlotOffset(s), CacheCells, f)
      <3>1. CASE s = n
        <4>1. Filled(Fill(o, CacheCells, f0), o, CacheCells, f0)
          BY <1>4, FillFills
        <4>2. SlotOffset(s) = o
          BY <3>1 DEF n, o
        <4> QED BY <1>2, <1>3, <1>5, <3>1, <4>1, <4>2
      <3>2. CASE s # n
        <4>1. slots'[s] = slots[s] /\ slots[s].valid
          BY <1>5, <2>1, <3>2
        <4>2. slots[s].off = SlotOffset(s)
          BY <1>1, <4>1 DEF SlotInv
        <4>3. PICK f \in Files : slots[s].key = Key(f)
                                 /\ Filled(aram, SlotOffset(s), CacheCells, f)
          BY <1>1, <4>1 DEF SlotInv
        <4>4. SlotOffset(s) \in Nat /\ SlotOffset(s) + CacheCells <= Top
          BY SlotPlace
        <4>5. o + CacheCells <= SlotOffset(s) \/ SlotOffset(s) + CacheCells <= o
          BY <1>3, <3>2, SlotsApart DEF n, o
        <4>6. Filled(Fill(o, CacheCells, f0), SlotOffset(s), CacheCells, f)
          BY <1>4, <4>3, <4>4, <4>5, FillKeeps
        <4> QED BY <1>2, <4>1, <4>2, <4>3, <4>6
      <3> QED BY <3>1, <3>2
    <2> QED BY <2>1 DEF SlotInv, SlotOffset
  <1>8. BufferInv'
    BY <1>1, <1>2 DEF BufferInv, File
  <1>9. PlaceInv'
    BY <1>1, <1>2 DEF PlaceInv
  <1>10. ListInv'
    <2>1. ASSUME NEW f \in Files, state[f] \in {"LOADED", "LOADING"}
          PROVE  Filled(aram', base[f], ListCells, f)
      <3>1. PICK j \in Nat \ {0} :
              base[f] = ListPlace(j) /\ ListPlace(j) + ListCells <= Top - Slots * CacheCells
        BY <1>1, <2>1 DEF PlaceInv
      <3>2. ListPlace(j) \in Nat /\ ListCells \in Nat /\ Top \in Nat /\ Slots * CacheCells \in Nat
        BY PlaceType, BnrAssumption
      <3>3. Filled(aram, ListPlace(j), ListCells, f)
        BY <1>1, <2>1, <3>1 DEF ListInv
      <3>4. ListPlace(j) + ListCells <= Top /\ ListPlace(j) + ListCells <= o
        BY <1>4, <3>1, <3>2
      <3>5. Filled(Fill(o, CacheCells, f0), ListPlace(j), ListCells, f)
        BY <1>4, <3>2, <3>3, <3>4, FillKeeps
      <3> QED BY <1>2, <3>1, <3>5
    <2> QED BY <1>1, <1>2, <2>1 DEF ListInv
  <1> QED BY <1>6, <1>7, <1>8, <1>9, <1>10 DEF BannerInv

LEMMA LoadBanner ==
  ASSUME QueueInv, BannerInv, pc = "loading", LoadDone, UNCHANGED <<base, listing, warm, i>>
  PROVE  BannerInv'
  <1> DEFINE s == FirstFound(File)
  <1>1. /\ buffer' = Fetch(slots[s].off, CacheCells) /\ pc' = "deliver"
        /\ UNCHANGED <<aram, slots, nextIndex, state, pixels>>
    BY DEF LoadDone, cachevars
  <1>2. DataTypes' /\ SlotInv' /\ PlaceInv' /\ ListInv'
    BY <1>1, WorkerMoves
  <1>3. Found(File) # {} /\ SlotInv /\ File \in Files
    BY FileIs DEF BannerInv, BufferInv
  <1>4. s \in 0 .. Slots - 1 /\ slots[s].valid /\ slots[s].key = Key(File)
    BY <1>3, FirstFoundIs
  <1> HIDE DEF s
  <1>5. slots[s].off = SlotOffset(s)
    BY <1>3, <1>4 DEF SlotInv
  <1>6. PICK f \in Files : slots[s].key = Key(f) /\ Filled(aram, SlotOffset(s), CacheCells, f)
    BY <1>3, <1>4 DEF SlotInv
  <1>7. f = File
    BY <1>3, <1>4, <1>6, BnrAssumption
  <1>8. SlotOffset(s) \in Nat /\ CacheCells \in Nat \ {0}
    BY <1>4, SlotPlace, BnrAssumption
  <1>9. Fetch(SlotOffset(s), CacheCells) = f
    BY <1>6, <1>8, FetchFilled
  <1>10. BufferInv'
    BY <1>1, <1>5, <1>7, <1>9 DEF BufferInv, File
  <1> QED BY <1>2, <1>10 DEF BannerInv

\* An entry's place.
LEMMA PlaceOf ==
  ASSUME BannerInv, NEW f \in Files, state[f] # "NONE"
  PROVE  /\ base[f] \in Nat /\ base[f] + ListCells <= Top
         /\ \A s \in 0 .. Slots - 1 : base[f] + ListCells <= SlotOffset(s)
         /\ \A g \in Files : state[g] # "NONE" /\ g # f =>
              base[f] + ListCells <= base[g] \/ base[g] + ListCells <= base[f]
  <1>1. PlaceInv
    BY DEF BannerInv
  <1>2. PICK j \in Nat \ {0} :
          base[f] = ListPlace(j) /\ ListPlace(j) + ListCells <= Top - Slots * CacheCells
    BY <1>1 DEF PlaceInv
  <1>3. ListPlace(j) \in Nat /\ ListCells \in Nat /\ Top \in Nat /\ Slots * CacheCells \in Nat
    BY PlaceType, BnrAssumption
  <1>4. ASSUME NEW s \in 0 .. Slots - 1
        PROVE  ListPlace(j) + ListCells <= SlotOffset(s)
    <2>1. SlotOffset(s) \in Nat /\ Top - Slots * CacheCells <= SlotOffset(s)
      BY SlotPlace
    <2> QED BY <1>2, <1>3, <2>1
  <1>5. ASSUME NEW g \in Files, state[g] # "NONE", g # f
        PROVE  base[f] + ListCells <= base[g] \/ base[g] + ListCells <= base[f]
    <2>1. PICK k \in Nat \ {0} : base[g] = ListPlace(k)
      BY <1>1, <1>5 DEF PlaceInv
    <2>2. base[g] # base[f]
      BY <1>1, <1>5 DEF PlaceInv
    <2>3. j # k
      BY <1>2, <2>1, <2>2
    <2> QED BY <1>2, <2>1, <2>3, PlacesApart
  <1>6. ListPlace(j) + ListCells <= Top
    BY <1>2, <1>3
  <1> QED BY <1>2, <1>3, <1>4, <1>5, <1>6

LEMMA SetupBanner ==
  ASSUME QueueInv, BannerInv, NEW f \in Files, state[f] = "SETUP", SetupDone(f),
         UNCHANGED <<base, listing, warm, i>>
  PROVE  BannerInv'
  <1>1. /\ DataTypes /\ SlotInv /\ PlaceInv /\ ListInv /\ pixels[f] = f
        /\ state \in [Files -> {"NONE", "SETUP", "LOADED", "LOADING"}]
    BY DEF BannerInv, ListInv, QueueInv, QueueTypes
  <1> DEFINE o == base[f]
  <1>2. /\ aram' = Fill(o, ListCells, f) /\ state' = [state EXCEPT ![f] = "LOADED"]
        /\ UNCHANGED <<slots, nextIndex, pc, buffer, pixels>>
    BY <1>1 DEF SetupDone, cachevars
  <1>3. /\ o \in Nat /\ o + ListCells <= Top
        /\ \A s \in 0 .. Slots - 1 : o + ListCells <= SlotOffset(s)
        /\ \A g \in Files : state[g] # "NONE" /\ g # f =>
             o + ListCells <= base[g] \/ base[g] + ListCells <= o
    BY PlaceOf
  <1>4. ListCells \in Nat /\ CacheCells \in Nat /\ ListCells \in Nat \ {0}
    BY BnrAssumption
  <1> HIDE DEF o
  <1>5. state'[f] = "LOADED" /\ \A g \in Files : g # f => state'[g] = state[g]
    BY <1>1, <1>2
  <1>6. DataTypes'
    <2>1. aram' \in [Cells -> Files \cup {Nobody}]
      BY <1>1, <1>2 DEF DataTypes, Fill
    <2> QED BY <1>1, <1>2, <2>1 DEF DataTypes
  <1>7. SlotInv'
    <2>1. ASSUME NEW s \in 0 .. Slots - 1, slots[s].valid
          PROVE  /\ slots[s].off = SlotOffset(s)
                 /\ \E g \in Files : slots[s].key = Key(g)
                                     /\ Filled(aram', SlotOffset(s), CacheCells, g)
      <3>1. slots[s].off = SlotOffset(s)
        BY <1>1, <2>1 DEF SlotInv
      <3>2. PICK g \in Files : slots[s].key = Key(g)
                               /\ Filled(aram, SlotOffset(s), CacheCells, g)
        BY <1>1, <2>1 DEF SlotInv
      <3>3. SlotOffset(s) \in Nat /\ SlotOffset(s) + CacheCells <= Top
            /\ o + ListCells <= SlotOffset(s)
        BY <1>3, SlotPlace
      <3>4. Filled(Fill(o, ListCells, f), SlotOffset(s), CacheCells, g)
        BY <1>3, <1>4, <3>2, <3>3, FillKeeps
      <3> QED BY <1>2, <3>1, <3>2, <3>4
    <2> QED BY <1>2, <2>1 DEF SlotInv, SlotOffset
  <1>8. BufferInv'
    BY <1>2 DEF BannerInv, BufferInv, File, Found, SlotOffset
  <1>9. PlaceInv'
    <2>1. \A g \in Files : state'[g] # "NONE" <=> state[g] # "NONE"
      BY <1>5
    <2> QED BY <1>1, <1>2, <2>1 DEF PlaceInv
  <1>10. ListInv'
    <2>1. ASSUME NEW g \in Files
          PROVE  /\ state'[g] \in {"SETUP", "LOADED"} => pixels[g] = g
                 /\ state'[g] \in {"LOADED", "LOADING"} => Filled(aram', base[g], ListCells, g)
      <3>1. CASE g = f
        <4>1. Filled(Fill(o, ListCells, f), o, ListCells, f)
          BY <1>3, <1>4, FillFills
        <4> QED BY <1>1, <1>2, <3>1, <4>1 DEF o
      <3>2. CASE g # f
        <4>1. state'[g] = state[g] /\ (state[g] \in {"SETUP", "LOADED"} => pixels[g] = g)
          BY <1>1, <1>5, <3>2 DEF ListInv
        <4>2. ASSUME state[g] \in {"LOADED", "LOADING"}
              PROVE  Filled(aram', base[g], ListCells, g)
          <5>1. Filled(aram, base[g], ListCells, g) /\ state[g] # "NONE"
            BY <1>1, <4>2 DEF ListInv
          <5>2. base[g] \in Nat /\ base[g] + ListCells <= Top
            BY <5>1, PlaceOf
          <5>3. o + ListCells <= base[g] \/ base[g] + ListCells <= o
            BY <1>3, <3>2, <5>1
          <5>4. Filled(Fill(o, ListCells, f), base[g], ListCells, g)
            BY <1>3, <1>4, <5>1, <5>2, <5>3, FillKeeps
          <5> QED BY <1>2, <5>4
        <4> QED BY <4>1, <4>2
      <3> QED BY <3>1, <3>2
    <2> QED BY <1>2, <2>1 DEF ListInv
  <1> QED BY <1>6, <1>7, <1>8, <1>9, <1>10 DEF BannerInv

LEMMA ReloadedBanner ==
  ASSUME QueueInv, BannerInv, NEW f \in Files, state[f] = "LOADING", ReloadDone(f),
         UNCHANGED <<base, listing, warm, i>>
  PROVE  BannerInv'
  <1>1. /\ DataTypes /\ PlaceInv /\ ListInv
        /\ state \in [Files -> {"NONE", "SETUP", "LOADED", "LOADING"}]
    BY DEF BannerInv, QueueInv, QueueTypes
  <1>2. Filled(aram, base[f], ListCells, f)
    BY <1>1 DEF ListInv
  <1>3. base[f] \in Nat /\ ListCells \in Nat \ {0}
    BY PlaceOf, BnrAssumption
  <1>4. Fetch(base[f], ListCells) = f
    BY <1>2, <1>3, FetchFilled
  <1>5. /\ pixels' = [pixels EXCEPT ![f] = f] /\ state' = [state EXCEPT ![f] = "LOADED"]
        /\ UNCHANGED <<aram, slots, nextIndex, pc, buffer>>
    BY <1>4 DEF ReloadDone, cachevars
  <1>6. /\ state'[f] = "LOADED" /\ pixels'[f] = f
        /\ \A g \in Files : g # f => state'[g] = state[g] /\ pixels'[g] = pixels[g]
    BY <1>1, <1>5 DEF DataTypes
  <1>7. DataTypes'
    BY <1>1, <1>5 DEF DataTypes
  <1>8. SlotInv' /\ BufferInv'
    BY <1>5 DEF BannerInv, SlotInv, BufferInv, File, Found, SlotOffset
  <1>9. PlaceInv'
    <2>1. \A g \in Files : state'[g] # "NONE" <=> state[g] # "NONE"
      BY <1>6
    <2> QED BY <1>1, <1>5, <2>1 DEF PlaceInv
  <1>10. ListInv'
    BY <1>1, <1>2, <1>5, <1>6 DEF ListInv
  <1> QED BY <1>7, <1>8, <1>9, <1>10 DEF BannerInv

LEMMA InterruptBanner ==
  ASSUME QueueInv, BannerInv, Interrupt
  PROVE  BannerInv'
  <1>1. UNCHANGED <<base, listing, warm, i>>
    BY DEF Interrupt, walkvars
  <1>2. ASSUME NEW t, NEW call, Owed(t, call, pc, state),
               \/ call = "bnr_cache_store_cb" /\ StoreDone
               \/ call = "bnr_cache_load_cb" /\ LoadDone
               \/ call = "arq_banner_callback_setup" /\ SetupDone(t)
               \/ call = "arq_banner_callback_load" /\ ReloadDone(t)
        PROVE  BannerInv'
    <2>1. /\ call = "bnr_cache_store_cb" => t = Store /\ pc = "storing"
          /\ call = "bnr_cache_load_cb" => t = Load /\ pc = "loading"
          /\ call = "arq_banner_callback_setup" => t \in Files /\ state[t] = "SETUP"
          /\ call = "arq_banner_callback_load" => t \in Files /\ state[t] = "LOADING"
      BY <1>2, OwedIs
    <2>2. CASE call = "bnr_cache_store_cb" /\ StoreDone
      BY <1>1, <2>1, <2>2, StoreBanner
    <2>3. CASE call = "bnr_cache_load_cb" /\ LoadDone
      BY <1>1, <2>1, <2>3, LoadBanner
    <2>4. CASE call = "arq_banner_callback_setup" /\ SetupDone(t)
      BY <1>1, <2>1, <2>4, SetupBanner
    <2>5. CASE call = "arq_banner_callback_load" /\ ReloadDone(t)
      BY <1>1, <2>1, <2>5, ReloadedBanner
    <2> QED BY <1>2, <2>2, <2>3, <2>4, <2>5
  <1>3. CASE UNCHANGED <<aram, cachevars, pc, buffer, state, pixels>>
    <2>1. UNCHANGED <<aram, pixels, base, nextIndex, slots, state, pc, listing, i, warm, buffer>>
      BY <1>1, <1>3 DEF cachevars
    <2>2. DataTypes' /\ SlotInv' /\ PlaceInv' /\ ListInv'
      BY <2>1 DEF BannerInv, DataTypes, SlotInv, PlaceInv, ListInv
    <2>3. BufferInv'
      BY <2>1 DEF BannerInv, BufferInv, File, Found
    <2> QED BY <2>2, <2>3 DEF BannerInv
  <1> QED BY <1>2, <1>3, InterruptCases

LEMMA BannerNext ==
  ASSUME QueueInv, BannerInv, Apart, ~ReadErrors, Next
  PROVE  BannerInv'
  <1>1. CASE \E d \in Dirs, w \in BOOLEAN : Walk(d, w)
    BY <1>1, WalkBanner
  <1>2. CASE Worker
    BY <1>2, GetBanner, FileRead, PutBanner, DeliverBanner DEF Worker
  <1>3. CASE \E f \in Files : Reload(f)
    BY <1>3, ReloadBanner
  <1>4. CASE PostHi
    BY <1>4, PostHiBanner
  <1>5. CASE Interrupt
    BY <1>5, InterruptBanner
  <1> QED BY <1>1, <1>2, <1>3, <1>4, <1>5 DEF Next

-----------------------------------------------------------------------------
(* The theorems about the banners. *)

\* Where no directory's list reaches the cache and reads do not fail, the invariants hold
\* throughout.
THEOREM Invariant == ASSUME Apart, ~ReadErrors PROVE Spec => [](QueueInv /\ BannerInv)
  <1>1. Init => QueueInv /\ BannerInv
    BY QueueInit, BannerInit
  <1>2. QueueInv /\ BannerInv /\ [Next]_vars => QueueInv' /\ BannerInv'
    BY QueueNext, QueueStutter, BannerNext, BannerStutter
  <1> QED BY <1>1, <1>2, PTL DEF Spec

\* What gm_load_banner copies, and what is displayed after it was staged in ARAM and loaded
\* back, is the game's own banner; bnr_cache_get and the reuse of slots change nothing.
THEOREM ShownIsOwn == ASSUME Apart, ~ReadErrors PROVE Spec => []OwnBanner
  <1>1. BannerInv => OwnBanner
    BY DEF BannerInv, BufferInv, ListInv, OwnBanner
  <1> QED BY <1>1, Invariant, PTL

\* A slot bnr_cache_get may find holds the banner of the game with its key.
THEOREM SlotsAreTheirs == ASSUME Apart, ~ReadErrors PROVE Spec => []SlotsHoldTheirs
  <1>1. ASSUME BannerInv
        PROVE  SlotsHoldTheirs
    <2>1. ASSUME NEW s \in 0 .. Slots - 1, slots[s].valid
          PROVE  \E f \in Files : Key(f) = slots[s].key /\ Fetch(slots[s].off, CacheCells) = f
      <3>1. slots[s].off = SlotOffset(s)
        BY <1>1, <2>1 DEF BannerInv, SlotInv
      <3>2. PICK f \in Files : slots[s].key = Key(f)
                               /\ Filled(aram, SlotOffset(s), CacheCells, f)
        BY <1>1, <2>1 DEF BannerInv, SlotInv
      <3>3. SlotOffset(s) \in Nat /\ CacheCells \in Nat \ {0}
        BY SlotPlace, BnrAssumption
      <3>4. Fetch(SlotOffset(s), CacheCells) = f
        BY <3>2, <3>3, FetchFilled
      <3> QED BY <3>1, <3>2, <3>4
    <2> QED BY <2>1 DEF SlotsHoldTheirs
  <1> QED BY <1>1, Invariant, PTL
=============================================================================
