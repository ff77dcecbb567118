----------------------------- MODULE GameThread -----------------------------
(***************************************************************************)
(* The life of the enumeration thread of games.c: started for a directory  *)
(* (gm_start_thread), stopped through a mutex it polls (gm_deinit_thread), *)
(* listing the directory the user looks at and then warming the banner     *)
(* cache for the whole card (gm_thread_worker).  The menu thread has the   *)
(* higher priority: it may preempt the worker between any two steps, and   *)
(* its own code between two waits is one step.                             *)
(***************************************************************************)
EXTENDS Card

CONSTANTS Broken,      \* listed games get_game_info rejects
          Unreadable,  \* directories gm_list_files cannot open
          MaxVisits,   \* bound on the directory changes
          NoDir

VARIABLES
  menu,      \* "browsing", "locking", "joining" (in gm_deinit_thread), "handover"
  goal,      \* where it goes after gm_deinit_thread: a directory, "boot" or "disc"
  mutex,     \* game_enum_mutex: "free", "menu" or "worker"
  running,   \* game_enum_running
  path,      \* game_enum_path
  pc, after, \* the worker, and where it goes on after it unlocked the mutex
  cur, i,    \* the directory in the path list, and the index into it
  entries,   \* gm_entry_backing[0 .. gm_entry_count - 1]
  lines,     \* the number number_of_lines was last computed from
  stack,     \* path_stack of gm_warm_card
  warmPending, cached,   \* warm_pending; the games whose banner bnr_cache holds
  visits

menuvars == <<menu, goal, path, visits>>
warmvars == <<stack, warmPending, cached>>
vars == <<menuvars, mutex, running, pc, after, cur, i, entries, lines, warmvars>>

\* No path reads "boot".
ASSUME PathAssumption == "boot" \notin Dirs

Subdirs(d) == SelectSeq(Listing[d], LAMBDA x : x \in Dirs)
ParentOf(d) == CHOOSE q \in Dirs : d \in ItemsOf(q)
Games == UNION {ItemsOf(d) : d \in Dirs \ Unreadable} \ (Dirs \cup Broken)

-----------------------------------------------------------------------------
(* The menu thread. *)

\* Seeded fault: the entries of the old directory stay.
StartThreadKeeps(d) ==
  /\ menu' = "browsing" /\ goal' = NoDir
  /\ path' = d /\ running' = TRUE /\ lines' = 0 /\ pc' = "list"
  /\ UNCHANGED entries

\* gm_start_thread
StartThread(d) ==
  /\ menu' = "browsing"
  /\ goal' = NoDir
  /\ IF running THEN UNCHANGED <<path, running, entries, lines, pc>>
     ELSE /\ path' = d
          /\ running' = TRUE
          /\ entries' = <<>>
          /\ lines' = 0
          /\ pc' = "list"

\* What follows gm_deinit_thread: gm_start_thread, or bs2start goes on.
Proceed(g) ==
  IF g = "boot"
  THEN menu' = "handover" /\ goal' = g /\ UNCHANGED <<path, running, entries, lines, pc>>
  ELSE StartThread(g)

\* gm_deinit_thread up to its first wait.
Deinit(g) ==
  IF ~running THEN Proceed(g) /\ UNCHANGED mutex
  ELSE /\ goal' = g
       /\ IF mutex = "free" THEN mutex' = "menu" /\ menu' = "joining"
                            ELSE menu' = "locking" /\ UNCHANGED mutex
       /\ UNCHANGED <<path, running, entries, lines, pc>>

\* A on a directory that is listed, or B below the root.
Navigate(d) ==
  /\ menu = "browsing" /\ visits < MaxVisits
  /\ \/ \E k \in 1 .. Len(entries) : entries[k] = d
     \/ path # Root /\ d = ParentOf(path)
  /\ visits' = visits + 1
  /\ Deinit(d)
  /\ UNCHANGED <<after, cur, i, warmvars>>

\* START on a game: bs2start stops the thread first.
Boot ==
  /\ menu = "browsing"
  /\ \E k \in 1 .. Len(entries) : entries[k] \notin Dirs
  /\ Deinit("boot")
  /\ UNCHANGED <<visits, after, cur, i, warmvars>>

\* Z: bs2start boots the disc in the drive and does not stop the thread.
Passthrough ==
  /\ menu = "browsing"
  /\ menu' = "handover" /\ goal' = "disc"
  /\ UNCHANGED <<path, visits, mutex, running, pc, after, cur, i, entries, lines, warmvars>>

\* Seeded fault: OSJoinThread does not wait.
JoinedAnyway ==
  /\ menu = "joining"
  /\ mutex' = "free"
  /\ Proceed(goal)
  /\ UNCHANGED <<visits, after, cur, i, warmvars>>

\* OSJoinThread returns; unlock, and on to what the menu wanted.
Joined ==
  /\ menu = "joining" /\ pc = "dead"
  /\ mutex' = "free"
  /\ Proceed(goal)
  /\ UNCHANGED <<visits, after, cur, i, warmvars>>

-----------------------------------------------------------------------------
(* The worker.  Interrupts are off once the menu thread has handed over. *)

At(l) == pc = l /\ menu # "handover"

\* Seeded fault: the mutex is not unlocked again.
PollHolds(next, stop) ==
  IF mutex = "menu" THEN pc' = stop /\ UNCHANGED <<mutex, after>>
                    ELSE mutex' = "worker" /\ pc' = next /\ UNCHANGED after

\* OSTryLockMutex: go on to next, after unlocking, or to stop.
Poll(next, stop) ==
  IF mutex = "free" THEN mutex' = "worker" /\ pc' = "unlock" /\ after' = next
                    ELSE pc' = stop /\ UNCHANGED <<mutex, after>>

\* OSUnlockMutex: the menu, if it waits, has the mutex at once.
Unlock ==
  /\ At("unlock")
  /\ pc' = after
  /\ IF menu = "locking" THEN mutex' = "menu" /\ menu' = "joining"
                         ELSE mutex' = "free" /\ UNCHANGED menu
  /\ UNCHANGED <<goal, path, visits, running, after, cur, i, entries, lines, warmvars>>

\* gm_list_files and the first gm_setup_grid.  A directory that cannot be read
\* ends in while(1).
List ==
  /\ At("list")
  /\ IF path \in Unreadable
     THEN pc' = "panic" /\ UNCHANGED <<cur, i, lines>>
     ELSE /\ cur' = path /\ i' = 1
          /\ lines' = Len(Listing[path])
          /\ pc' = "check"
  /\ UNCHANGED <<menuvars, mutex, running, after, entries, warmvars>>

\* gm_check_files, the head of the loop.
Check ==
  /\ At("check")
  /\ IF i > Len(Listing[cur]) THEN pc' = "regrid" /\ UNCHANGED <<mutex, after>>
     ELSE Poll("file", "regrid")
  /\ UNCHANGED <<menuvars, running, cur, i, entries, lines, warmvars>>

\* The body: an entry for a directory or a valid game, whose banner is cached.
File ==
  /\ At("file")
  /\ LET x == Listing[cur][i] IN
       /\ entries' = IF x \in Broken THEN entries ELSE Append(entries, x)
       /\ cached' = IF x \in Games THEN cached \cup {x} ELSE cached
  /\ i' = i + 1
  /\ pc' = "check"
  /\ UNCHANGED <<menuvars, mutex, running, after, cur, lines, stack, warmPending>>

\* Seeded fault: warm_pending is cleared up front.
RegridClears ==
  /\ At("regrid")
  /\ lines' = Len(entries)
  /\ pc' = IF warmPending THEN "warm" ELSE "clear"
  /\ stack' = <<Root>>
  /\ warmPending' = FALSE
  /\ UNCHANGED <<menuvars, mutex, running, after, cur, i, entries, cached>>

\* The second gm_setup_grid; then the warm-up, if it is still due.
Regrid ==
  /\ At("regrid")
  /\ lines' = Len(entries)
  /\ pc' = IF warmPending THEN "warm" ELSE "clear"
  /\ stack' = <<Root>>
  /\ UNCHANGED <<menuvars, mutex, running, after, cur, i, entries, warmPending, cached>>

\* gm_warm_card, the head of the loop.  Stopped, it is still pending.
Warm ==
  /\ At("warm")
  /\ IF stack = <<>> THEN warmPending' = FALSE /\ pc' = "clear" /\ UNCHANGED <<mutex, after>>
     ELSE Poll("warmList", "clear") /\ UNCHANGED warmPending
  /\ UNCHANGED <<menuvars, running, cur, i, entries, lines, stack, cached>>

\* The next directory, listed; the one on display needs no second pass, and one
\* that cannot be read is skipped.
WarmList ==
  /\ At("warmList")
  /\ LET d == stack[Len(stack)] IN
       /\ cur' = d /\ i' = 1
       /\ stack' = SubSeq(stack, 1, Len(stack) - 1)
       /\ pc' = IF d \in Unreadable THEN "warm"
                ELSE IF d = path THEN "push" ELSE "warmFiles"
  /\ UNCHANGED <<menuvars, mutex, running, after, entries, lines, warmPending, cached>>

\* gm_warm_files, the head of the loop.
WarmFiles ==
  /\ At("warmFiles")
  /\ IF i > Len(Listing[cur]) THEN pc' = "push" /\ UNCHANGED <<mutex, after, i>>
     ELSE IF Listing[cur][i] \in Dirs THEN i' = i + 1 /\ UNCHANGED <<pc, mutex, after>>
     ELSE Poll("warmFile", "clear") /\ UNCHANGED i
  /\ UNCHANGED <<menuvars, running, cur, entries, lines, warmvars>>

WarmFile ==
  /\ At("warmFile")
  /\ cached' = cached \cup ({Listing[cur][i]} \cap Games)
  /\ i' = i + 1
  /\ pc' = "warmFiles"
  /\ UNCHANGED <<menuvars, mutex, running, after, cur, entries, lines, stack, warmPending>>

\* Push the subdirectories of the directory in the path list.
Push ==
  /\ At("push")
  /\ stack' = stack \o Subdirs(cur)
  /\ pc' = "warm"
  /\ UNCHANGED <<menuvars, mutex, running, after, cur, i, entries, lines, warmPending, cached>>

\* Seeded fault: game_enum_running stays set.
ClearNot ==
  /\ At("clear")
  /\ pc' = "exit"
  /\ UNCHANGED <<menuvars, mutex, running, after, cur, i, entries, lines, warmvars>>

\* game_enum_running = false, and only then the thread returns.
Clear ==
  /\ At("clear")
  /\ running' = FALSE
  /\ pc' = "exit"
  /\ UNCHANGED <<menuvars, mutex, after, cur, i, entries, lines, warmvars>>

Exit ==
  /\ At("exit")
  /\ pc' = "dead"
  /\ UNCHANGED <<menuvars, mutex, running, after, cur, i, entries, lines, warmvars>>

-----------------------------------------------------------------------------
\* pre_menu_init has started the thread for the root.
Init ==
  /\ menu = "browsing" /\ goal = NoDir /\ visits = 0
  /\ mutex = "free" /\ running = TRUE /\ path = Root
  /\ pc = "list" /\ after = "list" /\ cur = Root /\ i = 1
  /\ entries = <<>> /\ lines = 0
  /\ stack = <<>> /\ warmPending = TRUE /\ cached = {}

Worker ==
  Unlock \/ List \/ Check \/ File \/ Regrid \/ Warm \/ WarmList \/ WarmFiles
  \/ WarmFile \/ Push \/ Clear \/ Exit

Next == (\E d \in Dirs : Navigate(d)) \/ Boot \/ Passthrough \/ Joined \/ Worker

\* The worker is scheduled whenever the menu thread waits, which it does every
\* frame; the menu goes on when what it waits for has happened.
Spec == Init /\ [][Next]_vars /\ WF_vars(Worker) /\ WF_vars(Joined)

-----------------------------------------------------------------------------
(* Properties. *)

\* es is what remains of the first n items of directory d, in their order, without
\* the files that are no games.
FirstShown(es, d, n) ==
  \E pos \in [1 .. Len(es) -> 1 .. n] :
    /\ \A a, b \in 1 .. Len(es) : a < b => pos[a] < pos[b]
    /\ \A k \in 1 .. Len(es) : es[k] = Listing[d][pos[k]]
    /\ \A q \in 1 .. n : Listing[d][q] \notin Broken <=> \E k \in 1 .. Len(es) : pos[k] = q

\* The menu shows a prefix of what the current directory holds, in order: nothing
\* of the directory it came from, nothing twice, no file that is no game.
EntriesOfPath == \E n \in 0 .. Len(Listing[path]) : FirstShown(entries, path, n)

\* gm_start_thread never finds the flag of a thread that was joined still set,
\* which would refuse every directory from then on.
NeverRefused == menu = "joining" /\ pc = "dead" => ~running

\* The worker does not touch the storage or the lists any more.
Quiet == pc \in {"exit", "dead"}

\* bs2start boots a game only when the worker is done: FatFs and the emu layer's
\* single open file are not shared with it.
BootAlone == menu = "handover" /\ goal = "boot" => Quiet

\* bs2start's own comment: "no IPL code should be running after this point",
\* whichever way it came there.
HandoverAlone == menu = "handover" => Quiet

\* gm_start_thread creates a thread in thread_obj only when the one before it is
\* gone ("game enum thread is already running" otherwise).
CreateAfterExit == [][pc' = "list" /\ pc # "list" => pc = "dead"]_vars

\* gm_deinit_thread returns: the worker sees the mutex taken at its next poll and
\* nobody waits for anybody else.  A directory that cannot be read stops it for good.
StopEnds ==
  menu \in {"locking", "joining"} ~> menu \in {"browsing", "handover"} \/ pc = "panic"

\* A warm-up cut short is taken up again: unless something is booted, every
\* banner of every readable directory ends up in bnr_cache.
CardWarmed == <>(cached = Games \/ menu = "handover" \/ pc = "panic")
=============================================================================
