------------------------------- MODULE Assets -------------------------------
(***************************************************************************)
(* The banners of the game list (games.c): their load states, the pool of  *)
(* main memory buffers they share, and the transfers between those buffers *)
(* and ARAM.  Three actors: the enumeration thread adds entries, the menu  *)
(* (a higher priority thread, so the other never runs while it works)      *)
(* loads and frees lines as the user scrolls, and the ARAM interrupt runs  *)
(* the callbacks.  Each banner embeds its own ARQ request, so a banner is  *)
(* also the name of its request.                                           *)
(*                                                                         *)
(* gm_banner_load and gm_banner_free report a banner whose transfer is     *)
(* under way as an error and go on; gm_can_move, which the grid asks "so   *)
(* grid can check if load/unload is possible", always says yes.  Patient   *)
(* states what a user has to do for it, and is FALSE for the code alone.   *)
(*                                                                         *)
(* Icons are left out: gm_load_icon is compiled out, so that every icon    *)
(* stays in GM_LOAD_STATE_NONE, where gm_icon_load and gm_icon_free return *)
(* at once.  So is schedule_free, which is set and only ever counted.      *)
(***************************************************************************)
EXTENDS Arq

CONSTANTS N,            \* files listed in the directory
          PerLine,      \* ASSETS_PER_LINE
          Rows,         \* DRAW_TOTAL_ROWS
          Preload,      \* PRELOAD_LINE_COUNT
          BufferCount,  \* ASSET_BUFFER_COUNT
          NoBuf,        \* NULL
          Patient,      \* TRUE: the user waits for what is to be loaded or freed
          MaxRestarts   \* bound on gm_start_thread calls

Banners == 0 .. (N - 1)
Buffers == 1 .. BufferCount
InitialCount == PerLine * Rows + Preload * PerLine

\* A banner is the name of its request.
ASSUME AssetsAssumption ==
  /\ N \in Nat /\ PerLine \in Nat \ {0} /\ Rows \in Nat \ {0} /\ Preload \in Nat \ {0}
  /\ BufferCount \in Nat /\ MaxRestarts \in Nat /\ Patient \in BOOLEAN
  /\ NoBuf \notin Buffers /\ Tasks = Banners
  /\ NoCall \notin {"setup", "unload", "load"}

VARIABLES
  arq,       \* the ARAM queue
  state,     \* banner.state
  buf,       \* banner.buf
  used,      \* gm_banner_pool[k].used
  pixels,    \* which banner's pixels buffer k holds
  count,     \* gm_entry_count
  top,       \* top_line_num
  lines,     \* number_of_lines
  pc, force, picked,   \* the enumeration thread, force_unload and banner_ptr
  skipped,   \* listed files that turned out to be no valid game
  todo,      \* calls left of the menu's gm_line_changed or gm_start_thread
  leaving,   \* the menu holds game_enum_mutex and waits for the thread to end
  restarts

pool == <<state, buf, used, pixels>>
enumvars == <<pc, force, picked, skipped>>
menuvars == <<todo, leaving, restarts>>
vars == <<arq, pool, count, top, lines, enumvars, menuvars>>

LineOf(b) == b \div PerLine
Line(l) == {b \in Banners : b < count /\ LineOf(b) = l}

\* Seeded fault: the flag is not tested.
FirstFreeAlways == 1

\* gm_get_banner_buf: the first unused buffer.
FirstFree ==
  IF \E k \in Buffers : ~used[k]
  THEN CHOOSE k \in Buffers : ~used[k] /\ \A j \in 1 .. (k - 1) : used[j]
  ELSE NoBuf

\* gm_free_banner_buf
Released(k) == [j \in Buffers |-> used[j] /\ j # k]

-----------------------------------------------------------------------------
(* The menu. *)

\* gm_banner_load: SETUP, UNLOADING and LOADING are reported and not refused.
BannerLoad(b) ==
  IF state[b] \in {"NONE", "LOADED"} THEN UNCHANGED <<arq, pool>>
  ELSE /\ state' = [state EXCEPT ![b] = "LOADING"]
       /\ IF FirstFree = NoBuf THEN UNCHANGED <<arq, buf, used>>
          ELSE /\ used' = [used EXCEPT ![FirstFree] = TRUE]
               /\ buf' = [buf EXCEPT ![b] = FirstFree]
               /\ arq' = PostRequest(arq, b, "low", "load")
       /\ UNCHANGED pixels

\* Seeded fault: the buffer is not given back.
BannerFreeLeaks(b) ==
  IF state[b] # "LOADED" THEN UNCHANGED <<arq, pool>>
  ELSE /\ buf' = [buf EXCEPT ![b] = NoBuf]
       /\ state' = [state EXCEPT ![b] = "UNLOADED"]
       /\ UNCHANGED <<arq, used, pixels>>

\* gm_banner_free
BannerFree(b) ==
  IF state[b] \in {"NONE", "UNLOADING"} THEN UNCHANGED <<arq, pool>>
  ELSE IF state[b] \in {"LOADING", "SETUP"}
  THEN UNCHANGED <<arq, pool>>
  ELSE /\ used' = Released(buf[b])
       /\ buf' = [buf EXCEPT ![b] = NoBuf]
       /\ state' = [state EXCEPT ![b] = "UNLOADED"]
       /\ UNCHANGED <<arq, pixels>>

\* Between gm_start_thread and the new listing there are no entries to act on.
MenuFree == todo = <<>> /\ ~leaving /\ pc # "starting"

\* What gm_can_move is there to test: no banner of these two lines is on its way to or
\* from ARAM, nor does the listing hold a buffer it has looked up and not yet taken.
Still(l) == \A b \in Line(l) : ~InFlight(arq, b)
CanMove(load, free) == Patient => Still(load) /\ Still(free) /\ pc # "take"

\* The listing, which decides what to leave in ARAM by where the screen was, has got
\* past the lines kept loaded around screen t.
Listed(t) == Patient => pc = "done" \/ (t + Rows + Preload) * PerLine <= count

\* gm_start_thread frees the entries while no callback can come back for one.
MayStart == Patient => Idle(arq)

\* gm_line_load / gm_line_free of line l, as one call per entry.
Calls(op, l) ==
  LET n == Cardinality(Line(l))
  IN  [i \in 1 .. n |-> <<op, l * PerLine + i - 1>>]

\* Seeded fault: the line loaded is one too far down.
ScrollDownOffByOne ==
  /\ MenuFree
  /\ lines - top # Rows
  /\ CanMove(top + Rows + Preload, top + 1 - Preload) /\ Listed(top + 1)
  /\ LET load == top + 1 + Rows + Preload
         free == top + 1 - Preload
     IN  todo' = (IF load < lines THEN Calls("load", load) ELSE <<>>)
                 \o (IF top + 1 >= Preload THEN Calls("free", free) ELSE <<>>)
  /\ top' = top + 1
  /\ UNCHANGED <<arq, pool, count, lines, enumvars, leaving, restarts>>

\* gm_line_changed(1), when the grid can move down.
ScrollDown ==
  /\ MenuFree
  /\ lines - top # Rows
  /\ CanMove(top + Rows + Preload, top + 1 - Preload) /\ Listed(top + 1)
  /\ LET load == top + 1 + Rows + Preload - 1
         free == top + 1 - Preload
     IN  todo' = (IF load < lines THEN Calls("load", load) ELSE <<>>)
                 \o (IF top + 1 >= Preload THEN Calls("free", free) ELSE <<>>)
  /\ top' = top + 1
  /\ UNCHANGED <<arq, pool, count, lines, enumvars, leaving, restarts>>

\* gm_line_changed(-1)
ScrollUp ==
  /\ MenuFree
  /\ top # 0
  /\ CanMove(top - Preload, top - 1 + Rows + Preload)
  /\ LET load == top - 1 - Preload + 1
         free == top - 1 + Rows + Preload
     IN  todo' = (IF top >= Preload THEN Calls("load", load) ELSE <<>>)
                 \o (IF free < lines THEN Calls("free", free) ELSE <<>>)
  /\ top' = top - 1
  /\ UNCHANGED <<arq, pool, count, lines, enumvars, leaving, restarts>>

MenuStep ==
  /\ todo # <<>>
  /\ IF todo[1][1] = "load" THEN BannerLoad(todo[1][2]) ELSE BannerFree(todo[1][2])
  /\ todo' = Tail(todo)
  /\ UNCHANGED <<count, top, lines, enumvars, leaving, restarts>>

\* The user enters another directory: gm_deinit_thread stops the thread.
LeaveDirectory ==
  /\ MenuFree
  /\ restarts < MaxRestarts
  /\ restarts' = restarts + 1
  /\ leaving' = TRUE
  /\ UNCHANGED <<arq, pool, count, top, lines, enumvars, todo>>

\* gm_start_thread, the old thread being gone: free every entry, then start anew.
Restart ==
  /\ leaving /\ pc = "done" /\ MayStart
  /\ leaving' = FALSE
  /\ todo' = [i \in 1 .. count |-> <<"free", i - 1>>]
  /\ pc' = "starting"
  /\ UNCHANGED <<arq, pool, count, top, lines, force, picked, skipped, restarts>>

-----------------------------------------------------------------------------
(* The enumeration thread. *)

EnumRuns == todo = <<>>

\* gm_setup_grid
GridLines(n) ==
  LET l == (n + PerLine - 1) \div PerLine IN IF l < Rows THEN Rows ELSE l

\* The entries are gone; gm_setup_grid sizes the grid for the new listing and
\* resets the selection.
EnumStart ==
  /\ EnumRuns /\ pc = "starting"
  /\ count' = 0
  /\ lines' = GridLines(N)
  /\ top' = 0
  /\ skipped' = 0
  /\ pc' = "decide"
  /\ UNCHANGED <<arq, pool, force, picked, menuvars>>

\* The unsigned difference gm_entry_count - top_line_num * ASSETS_PER_LINE.
ForceUnload == count < top * PerLine \/ count - top * PerLine > InitialCount

\* gm_check_files, top of the loop: stop at the end or when the mutex is held.
EnumDecide ==
  /\ EnumRuns /\ pc = "decide"
  /\ IF count + skipped = N \/ leaving
     THEN pc' = "done" /\ lines' = GridLines(count) /\ UNCHANGED force
     ELSE pc' = "pick" /\ force' = ForceUnload /\ UNCHANGED lines
  /\ UNCHANGED <<arq, pool, count, top, picked, skipped, menuvars>>

\* get_game_info says this is not a game: no entry for it.
EnumSkip ==
  /\ EnumRuns /\ pc = "pick"
  /\ skipped' = skipped + 1
  /\ pc' = "decide"
  /\ UNCHANGED <<arq, pool, count, top, lines, force, picked, menuvars>>

\* A new, zeroed entry; gm_load_banner up to the test of used in
\* gm_get_banner_buf.  A game without a banner stops before that.
EnumPick ==
  /\ EnumRuns /\ pc = "pick"
  /\ buf' = [buf EXCEPT ![count] = NoBuf]
  /\ arq' = [arq EXCEPT !.next[count] = NoTask, !.length[count] = 0,
                        !.callback[count] = NoCall]
  /\ \/ /\ state' = [state EXCEPT ![count] = "LOADING"]
        /\ picked' = FirstFree
        /\ pc' = IF FirstFree = NoBuf THEN "publish" ELSE "take"
     \/ /\ state' = [state EXCEPT ![count] = "NONE"]
        /\ pc' = "publish"
        /\ UNCHANGED picked
  /\ UNCHANGED <<used, pixels, count, top, lines, force, skipped, menuvars>>

\* The rest of gm_load_banner: take the buffer, copy the pixels into it and post
\* gm_banner_setup or gm_banner_setup_unload.
EnumTake ==
  /\ EnumRuns /\ pc = "take"
  /\ used' = [used EXCEPT ![picked] = TRUE]
  /\ pixels' = [pixels EXCEPT ![picked] = count]
  /\ buf' = [buf EXCEPT ![count] = picked]
  /\ state' = [state EXCEPT ![count] = IF force THEN "UNLOADING" ELSE "SETUP"]
  /\ arq' = PostRequest(arq, count, "low", IF force THEN "unload" ELSE "setup")
  /\ pc' = "publish"
  /\ UNCHANGED <<count, top, lines, force, picked, skipped, menuvars>>

\* gm_entry_count++: the menu sees the entry from here on.
EnumPublish ==
  /\ EnumRuns /\ pc = "publish"
  /\ count' = count + 1
  /\ pc' = "decide"
  /\ UNCHANGED <<arq, pool, top, lines, force, picked, skipped, menuvars>>

-----------------------------------------------------------------------------
\* The ARAM interrupt, with arq_banner_callback_setup, _unload and _load.
Interrupt ==
  /\ ~Idle(arq)
  /\ arq' = InterruptServiceRoutine(arq)
  /\ LET b == Fired(arq)[1]
         call == Fired(arq)[2]
     IN  /\ state' = IF call = NoCall THEN state
                     ELSE [state EXCEPT ![b] = IF call = "unload" THEN "UNLOADED"
                                               ELSE "LOADED"]
         /\ used' = IF call = "unload" THEN Released(buf[b]) ELSE used
         /\ pixels' = IF call = "load" THEN [pixels EXCEPT ![buf[b]] = b] ELSE pixels
  /\ UNCHANGED <<buf, count, top, lines, enumvars, menuvars>>

-----------------------------------------------------------------------------
Init ==
  /\ arq = ArqInit
  /\ state = [b \in Banners |-> "NONE"]
  /\ buf = [b \in Banners |-> NoBuf]
  /\ used = [k \in Buffers |-> FALSE]
  /\ pixels = [k \in Buffers |-> N]
  /\ count = 0 /\ top = 0 /\ lines = 0
  /\ pc = "starting" /\ force = FALSE /\ picked = NoBuf
  /\ skipped = 0 /\ todo = <<>> /\ leaving = FALSE /\ restarts = 0

EnumNext == EnumStart \/ EnumDecide \/ EnumSkip \/ EnumPick \/ EnumTake \/ EnumPublish

Next == ScrollDown \/ ScrollUp \/ MenuStep \/ LeaveDirectory \/ Restart \/ EnumNext \/ Interrupt

\* The user may stop at any time; the threads and the DMA engine go on.
Spec == Init /\ [][Next]_vars /\ WF_vars(MenuStep \/ Restart) /\ WF_vars(EnumNext) /\ WF_vars(Interrupt)

-----------------------------------------------------------------------------
(* Properties. *)

\* The menu draws a banner that is LOADED ("valid for use") from its buffer:
\* that buffer is then allocated and holds this banner's pixels, not another's.
LoadedIsValid ==
  pc # "starting" =>
    \A b \in Banners :
      b < count /\ state[b] = "LOADED"
        => buf[b] # NoBuf /\ used[buf[b]] /\ pixels[buf[b]] = b

\* A buffer is in use exactly while one banner holds it: none is leaked, and none
\* is given back while a transfer still reads or writes it.  (While the entries of a
\* listing are freed, one left in ARAM gives back the buffer it once had.)
Holders(k) == {b \in Banners : buf[b] = k /\ (InFlight(arq, b) \/ state[b] = "LOADED")}
PoolExact ==
  pc # "starting" =>
    \A k \in Buffers : IF used[k] THEN Cardinality(Holders(k)) = 1 ELSE Holders(k) = {}

\* When everything is at rest, every banner in the window around the screen is on
\* display: scrolling has loaded each line before it came into view.  With fewer buffers
\* than banners the load may have found none, which leaves the banner in LOADING.
Window == {b \in Banners : b < count /\ LineOf(b) + Preload >= top + 1
                           /\ LineOf(b) < top + Rows + Preload}
AtRest == pc = "done" /\ todo = <<>> /\ Idle(arq)
WindowLoaded ==
  AtRest => \A b \in Window :
    state[b] \in {"LOADED", "NONE"} \/ (BufferCount < N /\ state[b] = "LOADING")

\* No request is posted again while it is in flight, which would cut the queue
\* or make it circular: the requests of the chain are all different.
QueueIntact ==
  LET c == Chain(arq, arq.queueLo, N)
  IN  /\ \A i, j \in 1 .. Len(c) : c[i] = c[j] => i = j
      /\ \A i \in 1 .. Len(c) : c[i] # arq.pendingLo

\* A transfer that is under way ends in a state the menu can act on.
TransfersEnd ==
  \A b \in Banners : InFlight(arq, b) ~> state[b] \in {"LOADED", "UNLOADED", "NONE"}

=============================================================================
