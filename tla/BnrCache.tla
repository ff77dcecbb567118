------------------------------ MODULE BnrCache ------------------------------
(***************************************************************************)
(* The banner cache of emu/tweaks.c on the ARAM queue.  The enumeration    *)
(* thread looks every game up (bnr_cache_get), reads the banner from the   *)
(* file if need be, caches it (bnr_cache_put) and, for the directory on    *)
(* display, stages it in ARAM for the list; the menu loads staged banners  *)
(* back.  ARAM is an array of cells: the list grows up from its base and   *)
(* the cache down from the top.                                            *)
(***************************************************************************)
EXTENDS Arq

CONSTANTS
  Files,       \* games with a banner, named by their path
  Key(_),      \* gm_bnr_cache_key
  Dirs,        \* directories, as sequences of files
  Slots,       \* BNR_CACHE_SIZE
  Top,         \* cells of ARAM
  CacheCells,  \* sizeof(BNR)
  ListBase, ListCells,  \* where the list starts; what it reserves per game
  ReadErrors,  \* may dvd_threaded_read fail?
  MaxHi, MaxWalks, MaxReloads,  \* bounds: requests of the IPL, walks, reloads
  Store, Load, Hi,      \* the static requests, and one of the IPL
  Nobody       \* content that is no banner

\* The callbacks.
CallNames == {"bnr_cache_store_cb", "bnr_cache_load_cb", "arq_banner_callback_setup",
              "arq_banner_callback_load", "other"}

\* A directory has at least one game, and none twice; keys tell the games apart; the
\* requests are different structures.
ASSUME BnrAssumption ==
  /\ Slots \in Nat \ {0} /\ CacheCells \in Nat \ {0} /\ ListCells \in Nat \ {0}
  /\ Top \in Nat /\ ListBase \in Nat /\ Slots * CacheCells <= Top
  /\ Tasks = Files \cup {Store, Load, Hi}
  /\ Store \notin Files /\ Load \notin Files /\ Hi \notin Files
  /\ Store # Load /\ Load # Hi /\ Hi # Store
  /\ Nobody \notin Files /\ NoCall \notin CallNames /\ ReadErrors \in BOOLEAN
  /\ \A d \in Dirs : /\ d \in Seq(Files) /\ d # <<>>
                     /\ \A j, k \in 1 .. Len(d) : d[j] = d[k] => j = k
  /\ \A f, g \in Files : Key(f) = Key(g) => f = g

VARIABLES arq, fired,
          hiPosts, walks, reloads,   \* how often so far
          aram,      \* content of every cell
          slots, nextIndex,   \* bnr_cache, bnr_cache_next_index
          listing, warm, i,   \* the directory walked, by which pass, and where
          pc,        \* the worker
          buffer,    \* banner_buffer
          base,      \* the list's place in ARAM of every entry, or Nobody
          state,     \* of the banner of every entry
          pixels     \* the buffer of every entry

cachevars == <<slots, nextIndex>>
listvars == <<base, state, pixels>>
walkvars == <<listing, warm, i>>
boundvars == <<hiPosts, walks, reloads>>
vars == <<arq, fired, boundvars, aram, cachevars, listvars, walkvars, pc, buffer>>

Nothing == <<NoTask, NoCall>>
Cells == 0 .. Top - 1
File == listing[i]

\* What a transfer of n cells from a delivers: a banner, if they are all of one.
Fetch(a, n) ==
  IF \E f \in Files : \A c \in a .. a + n - 1 : aram[c] = f THEN aram[a] ELSE Nobody

\* Seeded fault: one banner too far down.
SlotOffsetLow(s) == Top - CacheCells * (s + 2)

\* entry->aram_offset for slot s.
SlotOffset(s) == Top - CacheCells * (s + 1)

Found(f) == {s \in 0 .. Slots - 1 : slots[s].valid /\ slots[s].key = Key(f)}
FirstFound(f) == CHOOSE s \in Found(f) : \A t \in Found(f) : s <= t

Post(t, prio, call) == arq' = PostRequest(arq, t, prio, call) /\ fired' = Nothing

-----------------------------------------------------------------------------
(* The enumeration thread. *)

\* A directory is walked: for display, which replaces the entries, or to warm
\* the cache.  The user is taken to wait for the requests of the old entries.
Walk(d, w) ==
  /\ pc = "idle" /\ walks < MaxWalks
  /\ w \/ \A f \in Files : ~InFlight(arq, f)
  /\ walks' = walks + 1
  /\ listing' = d /\ warm' = w /\ i' = 1 /\ pc' = "get"
  /\ IF w THEN UNCHANGED listvars
     ELSE /\ base' = [f \in Files |-> Nobody]
          /\ state' = [f \in Files |-> "NONE"]
          /\ pixels' = [f \in Files |-> Nobody]
  /\ fired' = Nothing
  /\ UNCHANGED <<arq, hiPosts, reloads, aram, cachevars, buffer>>

\* bnr_cache_get: search; on a hit post the load and wait.
Get ==
  /\ pc = "get"
  /\ IF Found(File) = {}
     THEN pc' = "read" /\ fired' = Nothing /\ UNCHANGED arq
     ELSE pc' = "loading" /\ Post(Load, "low", "bnr_cache_load_cb")
  /\ UNCHANGED <<boundvars, aram, cachevars, listvars, walkvars, buffer>>

\* dvd_threaded_read into banner_buffer.  Its result is not looked at: after an
\* error the buffer has what was there, or part of the new banner.
ReadBanner ==
  /\ pc = "read"
  /\ pc' = "put"
  /\ \/ buffer' = File
     \/ ReadErrors /\ buffer' \in {buffer, Nobody}
  /\ fired' = Nothing
  /\ UNCHANGED <<arq, boundvars, aram, cachevars, listvars, walkvars>>

\* Seeded fault: a slot that is taken over keeps its old key.
PutKeepsKey ==
  /\ pc = "put"
  /\ IF Found(File) # {}
     THEN pc' = "deliver" /\ fired' = Nothing /\ UNCHANGED <<arq, slots>>
     ELSE /\ slots' = [slots EXCEPT ![nextIndex] =
                         [key |-> IF @.valid THEN @.key ELSE Key(File),
                          off |-> SlotOffset(nextIndex), valid |-> FALSE]]
          /\ Post(Store, "low", "bnr_cache_store_cb")
          /\ pc' = "storing"
  /\ UNCHANGED <<boundvars, aram, nextIndex, listvars, walkvars, buffer>>

\* bnr_cache_put up to the wait of bnr_cache_store.
Put ==
  /\ pc = "put"
  /\ IF Found(File) # {}
     THEN pc' = "deliver" /\ fired' = Nothing /\ UNCHANGED <<arq, slots>>
     ELSE /\ slots' = [slots EXCEPT ![nextIndex] =
                         [key |-> Key(File), off |-> SlotOffset(nextIndex), valid |-> FALSE]]
          /\ Post(Store, "low", "bnr_cache_store_cb")
          /\ pc' = "storing"
  /\ UNCHANGED <<boundvars, aram, nextIndex, listvars, walkvars, buffer>>

\* gm_load_banner after the cache: copy the pixels to a buffer, stage them.  The
\* warm-up stops before this.
Deliver ==
  /\ pc = "deliver"
  /\ IF warm THEN fired' = Nothing /\ UNCHANGED <<arq, listvars>>
     ELSE /\ base' = [base EXCEPT ![File] = ListBase + (i - 1) * ListCells]
          /\ state' = [state EXCEPT ![File] = "SETUP"]
          /\ pixels' = [pixels EXCEPT ![File] = buffer]
          /\ Post(File, "low", "arq_banner_callback_setup")
  /\ i' = i + 1
  /\ pc' = IF i = Len(listing) THEN "idle" ELSE "get"
  /\ UNCHANGED <<boundvars, aram, cachevars, listing, warm, buffer>>

-----------------------------------------------------------------------------
(* The menu, the IPL, and the interrupt. *)

\* A banner scrolls away and comes back: gm_banner_free, gm_banner_load.
Reload(f) ==
  /\ state[f] = "LOADED" /\ reloads < MaxReloads
  /\ reloads' = reloads + 1
  /\ state' = [state EXCEPT ![f] = "LOADING"]
  /\ pixels' = [pixels EXCEPT ![f] = Nobody]
  /\ Post(f, "low", "arq_banner_callback_load")
  /\ UNCHANGED <<hiPosts, walks, aram, cachevars, base, walkvars, pc, buffer>>

\* Another user of the queue.
PostHi ==
  /\ hiPosts < MaxHi /\ ~InFlight(arq, Hi)
  /\ hiPosts' = hiPosts + 1
  /\ Post(Hi, "high", "other")
  /\ UNCHANGED <<walks, reloads, aram, cachevars, listvars, walkvars, pc, buffer>>

Fill(a, n, v) == [c \in Cells |-> IF c \in a .. a + n - 1 THEN v ELSE aram[c]]

\* What the request that is answered has transferred, and its callback: the two of
\* the cache end the wait of the worker, which goes on behind it.
StoreDone ==
  /\ aram' = Fill(slots[nextIndex].off, CacheCells, buffer)
  /\ slots' = [slots EXCEPT ![nextIndex].valid = TRUE]
  /\ nextIndex' = (nextIndex + 1) % Slots
  /\ pc' = "deliver"
  /\ UNCHANGED <<buffer, state, pixels>>

LoadDone ==
  /\ buffer' = Fetch(slots[FirstFound(File)].off, CacheCells)
  /\ pc' = "deliver"
  /\ UNCHANGED <<aram, cachevars, state, pixels>>

SetupDone(f) ==
  /\ aram' = Fill(base[f], ListCells, pixels[f])
  /\ state' = [state EXCEPT ![f] = "LOADED"]
  /\ UNCHANGED <<cachevars, pc, buffer, pixels>>

ReloadDone(f) ==
  /\ pixels' = [pixels EXCEPT ![f] = Fetch(base[f], ListCells)]
  /\ state' = [state EXCEPT ![f] = "LOADED"]
  /\ UNCHANGED <<aram, cachevars, pc, buffer>>

\* The DMA engine finished and raises its interrupt.
Interrupt ==
  /\ ~Idle(arq)
  /\ fired' = Fired(arq)
  /\ arq' = InterruptServiceRoutine(arq)
  /\ LET t == Fired(arq)[1]
         call == Fired(arq)[2]
     IN  \/ call = "bnr_cache_store_cb" /\ StoreDone
         \/ call = "bnr_cache_load_cb" /\ LoadDone
         \/ call = "arq_banner_callback_setup" /\ SetupDone(t)
         \/ call = "arq_banner_callback_load" /\ ReloadDone(t)
         \/ call \in {"other", NoCall} /\ UNCHANGED <<aram, cachevars, pc, buffer, state, pixels>>
  /\ UNCHANGED <<boundvars, base, walkvars>>

Init ==
  /\ arq = ArqInit /\ fired = Nothing /\ hiPosts = 0 /\ walks = 0 /\ reloads = 0
  /\ aram = [c \in Cells |-> Nobody]
  /\ slots = [s \in 0 .. Slots - 1 |-> [key |-> Nobody, off |-> 0, valid |-> FALSE]]
  /\ nextIndex = 0
  /\ listing = <<>> /\ warm = FALSE /\ i = 1
  /\ pc = "idle" /\ buffer = Nobody
  /\ base = [f \in Files |-> Nobody]
  /\ state = [f \in Files |-> "NONE"]
  /\ pixels = [f \in Files |-> Nobody]

Worker == Get \/ ReadBanner \/ Put \/ Deliver

Next ==
  \/ \E d \in Dirs, w \in BOOLEAN : Walk(d, w)
  \/ Worker
  \/ \E f \in Files : Reload(f)
  \/ PostHi
  \/ Interrupt

\* The worker runs, and a transfer that was started ends.
Spec == Init /\ [][Next]_vars /\ WF_vars(Worker) /\ WF_vars(Interrupt)

-----------------------------------------------------------------------------
(* Properties. *)

\* The art a game is shown with is its own: what gm_load_banner copies, from the
\* file or from the cache, and what is on display after any number of reloads.
OwnBanner ==
  /\ pc = "deliver" => buffer = File
  /\ \A f \in Files : state[f] = "LOADED" => pixels[f] = f

\* A valid slot holds the banner of the file whose key it has, also after the
\* cache has wrapped around and the list has been staged below it.
SlotsHoldTheirs ==
  \A s \in 0 .. Slots - 1 : slots[s].valid =>
    \E f \in Files : Key(f) = slots[s].key /\ Fetch(slots[s].off, CacheCells) = f

Outstanding(pending, queue) ==
  LET c == Chain(arq, queue, Cardinality(Tasks))
      s == IF pending = NoTask THEN c ELSE <<pending>> \o c
  IN  [n \in 1 .. Len(s) |-> <<s[n], arq.callback[s[n]]>>]

Fifo == INSTANCE ArqFifo WITH
          Calls <- CallNames,
          hi <- Outstanding(arq.pendingHi, arq.queueHi),
          lo <- Outstanding(arq.pendingLo, arq.queueLo)

\* The linked lists with their pending slots are two FIFO queues: requests are
\* answered once, in order, with the callback they were posted with, also when
\* high priority requests arrive between two chunks.
ImplementsFifo == Fifo!Spec

\* Every request is answered, so that the busy-waits of bnr_cache_store and
\* bnr_cache_load end, and with them every walk.
EveryRequestAnswered ==
  /\ \A t \in Tasks : InFlight(arq, t) ~> ~InFlight(arq, t)
  /\ pc # "idle" ~> pc = "idle"
=============================================================================
