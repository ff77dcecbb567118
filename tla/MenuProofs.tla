----------------------------- MODULE MenuProofs -----------------------------
(***************************************************************************)
(* Proofs about the menu: GameThread and Boot, the two threads' ways from  *)
(* a button to the hand-over, and Browse, the game list on the screen.     *)
(* They hold for every card (any directories, listings, unreadable or      *)
(* broken items), any number of directory changes, every set of machines   *)
(* and every fade step; for every number of slots per line, rows and       *)
(* lines, and every speed of the animation.                                *)
(***************************************************************************)
EXTENDS GameThread, Boot, Browse, TLAPS

-----------------------------------------------------------------------------
(* The enumeration thread: the inductive invariant. *)

Labels == {"list", "check", "file", "unlock", "regrid", "warm", "warmList", "warmFiles",
           "warmFile", "push", "clear", "exit", "dead", "panic"}

ThreadTypes ==
  /\ menu \in {"browsing", "locking", "joining", "handover"}
  /\ mutex \in {"free", "menu", "worker"}
  /\ running \in BOOLEAN
  /\ path \in Dirs
  /\ pc \in Labels
  /\ entries \in Seq(Items)
  /\ menu \in {"locking", "joining"} => goal \in Dirs \cup {"boot"}
  /\ pc = "unlock" => after \in {"file", "warmList", "warmFile"}

\* game_enum_running says whether the worker may still touch anything.
FlagTrue == running <=> ~Quiet

\* game_enum_mutex is held by the worker exactly between its trylock and its unlock,
\* and by the menu exactly while it joins; it waits for the worker only.
MutexInv ==
  /\ mutex = "worker" <=> pc = "unlock"
  /\ mutex = "menu" <=> menu = "joining"
  /\ menu = "locking" => mutex = "worker"

\* In gm_check_files: the path list is that of the directory on display, and the
\* items before the index have been looked at.
Enumerating == pc \in {"check", "file"} \/ (pc = "unlock" /\ after = "file")

EnumInv ==
  /\ pc = "list" => entries = <<>>
  /\ Enumerating =>
       /\ cur = path
       /\ i \in 1 .. (Len(Listing[path]) + 1)
       /\ FirstShown(entries, path, i - 1)
       /\ pc # "check" => i <= Len(Listing[path])

ThreadInvariant == ThreadTypes /\ FlagTrue /\ MutexInv /\ EnumInv /\ EntriesOfPath /\ BootAlone

-----------------------------------------------------------------------------
(* What is on display. *)

\* A listing is a sequence of items.
LEMMA ListingSeq ==
  ASSUME NEW d \in Dirs
  PROVE  /\ Listing[d] \in Seq(Items)
         /\ Len(Listing[d]) \in Nat
         /\ \A k \in 1 .. Len(Listing[d]) : Listing[d][k] \in Items
  BY CardAssumption

\* gm_start_thread: of the first zero items, nothing is shown.
LEMMA NothingShown ==
  ASSUME NEW d
  PROVE  FirstShown(<<>>, d, 0)
  <1> DEFINE pos == [k \in 1 .. 0 |-> k]
  <1>1. pos \in [1 .. Len(<<>>) -> 1 .. 0] /\ 1 .. 0 = {} /\ Len(<<>>) = 0
    OBVIOUS
  <1> HIDE DEF pos
  <1> QED BY <1>1 DEF FirstShown

\* The body of gm_check_files: with one item more looked at, it is shown behind the
\* others, or not at all when it is broken.
LEMMA OneMoreShown ==
  ASSUME NEW es \in Seq(Items), NEW d \in Dirs, NEW n \in Nat,
         n + 1 <= Len(Listing[d]), FirstShown(es, d, n)
  PROVE  FirstShown(IF Listing[d][n + 1] \in Broken THEN es ELSE Append(es, Listing[d][n + 1]),
                    d, n + 1)
  <1> DEFINE x == Listing[d][n + 1]
  <1>1. PICK pos \in [1 .. Len(es) -> 1 .. n] :
          /\ \A a, b \in 1 .. Len(es) : a < b => pos[a] < pos[b]
          /\ \A k \in 1 .. Len(es) : es[k] = Listing[d][pos[k]]
          /\ \A q \in 1 .. n : Listing[d][q] \notin Broken <=> \E k \in 1 .. Len(es) : pos[k] = q
    BY DEF FirstShown
  <1>2. Len(es) \in Nat /\ x \in Items
    BY ListingSeq
  <1>3. CASE x \in Broken
    <2>1. pos \in [1 .. Len(es) -> 1 .. (n + 1)]
      BY <1>1
    <2>2. ASSUME NEW q \in 1 .. (n + 1)
          PROVE  Listing[d][q] \notin Broken <=> \E k \in 1 .. Len(es) : pos[k] = q
      <3>1. q \in 1 .. n \/ q = n + 1
        OBVIOUS
      <3>2. \A k \in 1 .. Len(es) : pos[k] # n + 1
        BY <1>1
      <3> QED BY <1>1, <1>3, <3>1, <3>2
    <2>3. FirstShown(es, d, n + 1)
      BY <1>1, <2>1, <2>2 DEF FirstShown
    <2> QED BY <1>3, <2>3
  <1>4. CASE x \notin Broken
    <2> DEFINE es2 == Append(es, x)
               pos2 == [k \in 1 .. (Len(es) + 1) |-> IF k = Len(es) + 1 THEN n + 1 ELSE pos[k]]
    <2>1. /\ Len(es2) = Len(es) + 1
          /\ \A k \in 1 .. Len(es) : es2[k] = es[k]
          /\ es2[Len(es) + 1] = x
      BY <1>2
    <2>2. pos2 \in [1 .. Len(es2) -> 1 .. (n + 1)]
      BY <1>1, <1>2, <2>1
    <2>3. /\ \A k \in 1 .. Len(es) : pos2[k] = pos[k] /\ pos2[k] \in 1 .. n
          /\ pos2[Len(es) + 1] = n + 1
      BY <1>1, <1>2
    <2> HIDE DEF es2, pos2
    <2>4. ASSUME NEW a \in 1 .. Len(es2), NEW b \in 1 .. Len(es2), a < b
          PROVE  pos2[a] < pos2[b]
      <3>1. a \in 1 .. Len(es) /\ pos2[a] = pos[a] /\ pos[a] \in 1 .. n
        BY <1>2, <2>1, <2>3, <2>4
      <3>2. CASE b \in 1 .. Len(es)
        BY <1>1, <2>3, <2>4, <3>1, <3>2
      <3>3. CASE b = Len(es) + 1
        BY <2>3, <3>1, <3>3
      <3> QED BY <1>2, <2>1, <3>2, <3>3
    <2>5. \A k \in 1 .. Len(es2) : es2[k] = Listing[d][pos2[k]]
      <3> SUFFICES ASSUME NEW k \in 1 .. Len(es2)
                   PROVE  es2[k] = Listing[d][pos2[k]]
        OBVIOUS
      <3>1. k \in 1 .. Len(es) \/ k = Len(es) + 1
        BY <1>2, <2>1
      <3> QED BY <1>1, <2>1, <2>3, <3>1
    <2>6. ASSUME NEW q \in 1 .. (n + 1)
          PROVE  Listing[d][q] \notin Broken <=> \E k \in 1 .. Len(es2) : pos2[k] = q
      <3>1. CASE q = n + 1
        <4>1. Len(es) + 1 \in 1 .. Len(es2) /\ pos2[Len(es) + 1] = q
          BY <1>2, <2>1, <2>3, <3>1
        <4> QED BY <1>4, <3>1, <4>1
      <3>2. CASE q \in 1 .. n
        <4>1. \A k \in 1 .. Len(es2) :
                pos2[k] = q <=> k \in 1 .. Len(es) /\ pos[k] = q
          BY <1>2, <2>1, <2>3, <3>2
        <4>2. \A k \in 1 .. Len(es) : k \in 1 .. Len(es2)
          BY <1>2, <2>1
        <4> QED BY <1>1, <3>2, <4>1, <4>2
      <3> QED BY <3>1, <3>2
    <2>7. FirstShown(es2, d, n + 1)
      BY <2>2, <2>4, <2>5, <2>6 DEF FirstShown
    <2> QED BY <1>4, <2>7 DEF es2
  <1> QED BY <1>3, <1>4

-----------------------------------------------------------------------------
(* The menu thread. *)

\* What follows gm_deinit_thread keeps the invariant: the worker is quiet then.
LEMMA ProceedInv ==
  ASSUME ThreadInvariant, NEW g \in Dirs \cup {"boot"}, Proceed(g),
         ~running, mutex' = "free", menu \in {"browsing", "joining"},
         UNCHANGED <<after, cur, i>>
  PROVE  ThreadInvariant'
  <1> USE DEF ThreadInvariant, ThreadTypes
  <1>1. pc \in {"exit", "dead"}
    BY DEF FlagTrue, Quiet
  <1>2. CASE g = "boot"
    <2>1. menu' = "handover" /\ goal' = g /\ UNCHANGED <<path, running, entries, lines, pc>>
      BY <1>2 DEF Proceed
    <2>2. ThreadTypes'
      BY <2>1, <1>1
    <2>3. FlagTrue' /\ MutexInv' /\ BootAlone'
      BY <2>1, <1>1 DEF FlagTrue, MutexInv, BootAlone, Quiet
    <2>4. EnumInv' /\ EntriesOfPath'
      BY <2>1, <1>1 DEF EnumInv, EntriesOfPath, Enumerating
    <2> QED BY <2>2, <2>3, <2>4
  <1>3. CASE g # "boot"
    <2>1. /\ menu' = "browsing" /\ goal' = NoDir /\ path' = g /\ running' = TRUE
          /\ entries' = <<>> /\ pc' = "list" /\ g \in Dirs
      BY <1>3 DEF Proceed, StartThread
    <2>2. ThreadTypes'
      BY <2>1 DEF Labels
    <2>3. FlagTrue' /\ MutexInv' /\ BootAlone'
      BY <2>1 DEF FlagTrue, MutexInv, BootAlone, Quiet
    <2>4. EnumInv'
      BY <2>1 DEF EnumInv, Enumerating
    <2>5. EntriesOfPath'
      BY <2>1, NothingShown, ListingSeq DEF EntriesOfPath
    <2> QED BY <2>2, <2>3, <2>4, <2>5
  <1> QED BY <1>2, <1>3

\* So does gm_deinit_thread up to its first wait.
LEMMA DeinitInv ==
  ASSUME ThreadInvariant, NEW g \in Dirs \cup {"boot"}, menu = "browsing", Deinit(g),
         UNCHANGED <<after, cur, i>>
  PROVE  ThreadInvariant'
  <1>1. CASE ~running
    <2>1. mutex = "free"
      BY <1>1 DEF ThreadInvariant, ThreadTypes, FlagTrue, Quiet, MutexInv
    <2> QED BY <1>1, <2>1, ProceedInv DEF Deinit
  <1>2. CASE running
    <2> USE DEF ThreadInvariant, ThreadTypes
    <2>1. /\ goal' = g /\ UNCHANGED <<path, running, entries, lines, pc>>
          /\ \/ mutex = "free" /\ mutex' = "menu" /\ menu' = "joining"
             \/ mutex # "free" /\ menu' = "locking" /\ UNCHANGED mutex
      BY <1>2 DEF Deinit
    <2>2. ThreadTypes'
      BY <2>1
    <2>3. FlagTrue' /\ MutexInv' /\ BootAlone'
      BY <2>1 DEF FlagTrue, MutexInv, BootAlone, Quiet
    <2>4. EnumInv' /\ EntriesOfPath'
      BY <2>1 DEF EnumInv, EntriesOfPath, Enumerating
    <2> QED BY <2>2, <2>3, <2>4
  <1>3. running \in BOOLEAN
    BY DEF ThreadInvariant, ThreadTypes
  <1> QED BY <1>1, <1>2, <1>3

\* A or B: another directory.
LEMMA NavigateInv ==
  ASSUME ThreadInvariant, NEW d \in Dirs, Navigate(d)
  PROVE  ThreadInvariant'
  BY DeinitInv DEF Navigate

\* START on a game.
LEMMA BootInv == ThreadInvariant /\ Boot => ThreadInvariant'
  BY DeinitInv DEF Boot

\* Z: the worker is left as it is.
LEMMA PassthroughInv == ThreadInvariant /\ Passthrough => ThreadInvariant'
  <1> SUFFICES ASSUME ThreadInvariant, Passthrough
               PROVE  ThreadInvariant'
    OBVIOUS
  <1> USE DEF ThreadInvariant, ThreadTypes, Passthrough
  <1>1. ThreadTypes'
    OBVIOUS
  <1>2. FlagTrue' /\ MutexInv' /\ BootAlone'
    BY DEF FlagTrue, MutexInv, BootAlone, Quiet
  <1>3. EnumInv' /\ EntriesOfPath'
    BY DEF EnumInv, EntriesOfPath, Enumerating
  <1> QED BY <1>1, <1>2, <1>3

\* OSJoinThread has returned: the flag is down.
LEMMA JoinedInv == ThreadInvariant /\ Joined => ThreadInvariant'
  <1> SUFFICES ASSUME ThreadInvariant, Joined
               PROVE  ThreadInvariant'
    OBVIOUS
  <1>1. goal \in Dirs \cup {"boot"} /\ ~running
    BY DEF ThreadInvariant, ThreadTypes, Joined, FlagTrue, Quiet
  <1> QED BY <1>1, ProceedInv DEF Joined

-----------------------------------------------------------------------------
(* The worker. *)

\* OSUnlockMutex hands the mutex to the menu, if it waits.
LEMMA UnlockInv == ThreadInvariant /\ Unlock => ThreadInvariant'
  <1> SUFFICES ASSUME ThreadInvariant, Unlock
               PROVE  ThreadInvariant'
    OBVIOUS
  <1> USE DEF ThreadInvariant, ThreadTypes, Unlock, At
  <1>1. ThreadTypes'
    BY DEF Labels
  <1>2. FlagTrue' /\ MutexInv' /\ BootAlone'
    BY DEF FlagTrue, MutexInv, BootAlone, Quiet
  <1>3. EnumInv' /\ EntriesOfPath'
    BY DEF EnumInv, EntriesOfPath, Enumerating
  <1> QED BY <1>1, <1>2, <1>3

\* gm_list_files: the entries are still empty.
LEMMA ListInv == ThreadInvariant /\ List => ThreadInvariant'
  <1> SUFFICES ASSUME ThreadInvariant, List
               PROVE  ThreadInvariant'
    OBVIOUS
  <1> USE DEF ThreadInvariant, ThreadTypes, List, At, menuvars, warmvars
  <1>1. ThreadTypes'
    BY DEF Labels
  <1>2. FlagTrue' /\ MutexInv' /\ BootAlone'
    BY DEF FlagTrue, MutexInv, BootAlone, Quiet
  <1>3. EntriesOfPath'
    BY DEF EntriesOfPath
  <1>4. EnumInv'
    <2>1. entries' = <<>> /\ path' = path /\ path \in Dirs
      BY DEF EnumInv
    <2>2. CASE pc' = "check" /\ cur' = path /\ i' = 1
      BY <2>1, <2>2, NothingShown, ListingSeq DEF EnumInv, Enumerating
    <2>3. CASE pc' = "panic"
      BY <2>3 DEF EnumInv, Enumerating
    <2> QED BY <2>2, <2>3
  <1> QED BY <1>1, <1>2, <1>3, <1>4

\* A trylock in a loop of the worker keeps the locks in order.
LEMMA PollInv ==
  ASSUME ThreadInvariant, NEW next \in {"file", "warmList", "warmFile"}, NEW stop \in {"regrid", "clear"},
         pc \in {"check", "warm", "warmFiles"}, menu # "handover", Poll(next, stop),
         UNCHANGED <<menuvars, running, entries>>
  PROVE  ThreadTypes' /\ FlagTrue' /\ MutexInv' /\ BootAlone' /\ EntriesOfPath'
  <1> USE DEF ThreadInvariant, ThreadTypes, Poll, menuvars
  <1>1. ThreadTypes'
    BY DEF Labels
  <1>2. FlagTrue' /\ MutexInv' /\ BootAlone'
    BY DEF FlagTrue, MutexInv, BootAlone, Quiet
  <1>3. EntriesOfPath'
    BY DEF EntriesOfPath
  <1> QED BY <1>1, <1>2, <1>3

\* The head of the loop of gm_check_files.
LEMMA CheckInv == ThreadInvariant /\ Check => ThreadInvariant'
  <1> SUFFICES ASSUME ThreadInvariant, Check
               PROVE  ThreadInvariant'
    OBVIOUS
  <1>1. /\ pc = "check" /\ menu # "handover" /\ cur = path /\ path \in Dirs
        /\ UNCHANGED <<menuvars, running, entries, cur, i>>
    BY DEF Check, At, ThreadInvariant, ThreadTypes, EnumInv, Enumerating
  <1>2. CASE i > Len(Listing[cur])
    <2> USE DEF ThreadInvariant, ThreadTypes, Check, menuvars
    <2>1. ThreadTypes'
      BY <1>1, <1>2 DEF Labels
    <2>2. FlagTrue' /\ MutexInv' /\ BootAlone'
      BY <1>1, <1>2 DEF FlagTrue, MutexInv, BootAlone, Quiet
    <2>3. EnumInv' /\ EntriesOfPath'
      BY <1>1, <1>2 DEF EnumInv, EntriesOfPath, Enumerating
    <2> QED BY <2>1, <2>2, <2>3
  <1>3. CASE ~(i > Len(Listing[cur]))
    <2>1. Poll("file", "regrid")
      BY <1>3 DEF Check
    <2>2. ThreadTypes' /\ FlagTrue' /\ MutexInv' /\ BootAlone' /\ EntriesOfPath'
      BY <1>1, <2>1, PollInv
    <2>3. i <= Len(Listing[path])
      <3>1. i \in Nat
        BY <1>1, ListingSeq DEF ThreadInvariant, EnumInv, Enumerating
      <3> QED BY <1>1, <1>3, <3>1, ListingSeq
    <2>4. EnumInv'
      BY <1>1, <2>1, <2>3 DEF ThreadInvariant, EnumInv, Enumerating, Poll, menuvars
    <2> QED BY <2>2, <2>4 DEF ThreadInvariant
  <1> QED BY <1>2, <1>3

\* Its body: one item more has been looked at.
LEMMA FileInv == ThreadInvariant /\ File => ThreadInvariant'
  <1> SUFFICES ASSUME ThreadInvariant, File
               PROVE  ThreadInvariant'
    OBVIOUS
  <1> DEFINE x == Listing[path][i]
  <1>1. /\ pc = "file" /\ pc' = "check" /\ cur = path /\ path \in Dirs
        /\ i \in 1 .. Len(Listing[path]) /\ i' = i + 1
        /\ FirstShown(entries, path, i - 1)
        /\ entries' = IF x \in Broken THEN entries ELSE Append(entries, x)
        /\ UNCHANGED <<menu, goal, path, mutex, running, after, cur>>
    <2>1. pc = "file" /\ pc' = "check" /\ cur = path /\ path \in Dirs /\ i' = i + 1
      BY DEF File, At, ThreadInvariant, ThreadTypes, EnumInv, Enumerating
    <2>2. i \in 1 .. Len(Listing[path]) /\ FirstShown(entries, path, i - 1)
      BY <2>1, ListingSeq DEF ThreadInvariant, EnumInv, Enumerating
    <2> QED BY <2>1, <2>2 DEF File, menuvars
  <1>2. x \in Items /\ Len(Listing[path]) \in Nat
    BY <1>1, ListingSeq
  <1>3. FirstShown(entries', path, i)
    <2>1. i - 1 \in Nat /\ (i - 1) + 1 = i /\ entries \in Seq(Items)
      BY <1>1, <1>2 DEF ThreadInvariant, ThreadTypes
    <2> QED BY <1>1, <2>1, <1>2, OneMoreShown
  <1>4. ThreadTypes'
    BY <1>1, <1>2 DEF ThreadInvariant, ThreadTypes, Labels
  <1>5. FlagTrue' /\ MutexInv' /\ BootAlone'
    BY <1>1 DEF ThreadInvariant, FlagTrue, MutexInv, BootAlone, Quiet
  <1>6. EnumInv'
    BY <1>1, <1>2, <1>3 DEF EnumInv, Enumerating
  <1>7. EntriesOfPath'
    BY <1>1, <1>2, <1>3 DEF EntriesOfPath
  <1> QED BY <1>4, <1>5, <1>6, <1>7 DEF ThreadInvariant

\* From here on the entries of the directory stand: a step of the warm-up or of the
\* end of the worker that does not poll.
LEMMA StandingInv ==
  ASSUME ThreadInvariant, menu # "handover",
         pc \in {"regrid", "warm", "warmList", "warmFiles", "warmFile", "push", "clear", "exit"},
         pc' \in Labels \ {"list", "check", "file", "unlock"},
         running' = (pc' \notin {"exit", "dead"}),
         UNCHANGED <<menuvars, mutex, after, entries>>
  PROVE  ThreadInvariant'
  <1> USE DEF ThreadInvariant, ThreadTypes, menuvars
  <1>1. ThreadTypes'
    OBVIOUS
  <1>2. FlagTrue' /\ MutexInv' /\ BootAlone'
    BY DEF FlagTrue, MutexInv, BootAlone, Quiet
  <1>3. EnumInv' /\ EntriesOfPath'
    BY DEF EnumInv, EntriesOfPath, Enumerating
  <1> QED BY <1>1, <1>2, <1>3

\* A trylock in gm_warm_card or gm_warm_files.
LEMMA WarmPollInv ==
  ASSUME ThreadInvariant, NEW next \in {"warmList", "warmFile"}, pc \in {"warm", "warmFiles"},
         menu # "handover", Poll(next, "clear"), UNCHANGED <<menuvars, running, entries>>
  PROVE  ThreadInvariant'
  <1>1. ThreadTypes' /\ FlagTrue' /\ MutexInv' /\ BootAlone' /\ EntriesOfPath'
    BY PollInv
  <1>2. EnumInv'
    BY DEF EnumInv, Enumerating, Poll
  <1> QED BY <1>1, <1>2 DEF ThreadInvariant

\* gm_warm_card and gm_warm_files, and the end of the worker.
LEMMA WarmingInv ==
  ThreadInvariant /\ (Regrid \/ Warm \/ WarmList \/ WarmFiles \/ WarmFile \/ Push \/ Clear \/ Exit) => ThreadInvariant'
  <1> SUFFICES ASSUME ThreadInvariant,
                      Regrid \/ Warm \/ WarmList \/ WarmFiles \/ WarmFile \/ Push \/ Clear \/ Exit
               PROVE  ThreadInvariant'
    OBVIOUS
  <1>1. running = (pc \notin {"exit", "dead"})
    BY DEF ThreadInvariant, ThreadTypes, FlagTrue, Quiet
  <1> USE DEF At, Labels
  <1>2. CASE Regrid
    BY <1>1, <1>2, StandingInv DEF Regrid
  <1>3. CASE Warm
    <2>1. CASE stack = <<>>
      BY <1>1, <1>3, <2>1, StandingInv DEF Warm
    <2>2. CASE stack # <<>>
      BY <1>3, <2>2, WarmPollInv DEF Warm
    <2> QED BY <2>1, <2>2
  <1>4. CASE WarmList
    BY <1>1, <1>4, StandingInv DEF WarmList
  <1>5. CASE WarmFiles
    <2>1. CASE Poll("warmFile", "clear")
      BY <1>5, <2>1, WarmPollInv DEF WarmFiles, warmvars
    <2>2. CASE pc' \in {"push", "warmFiles"} /\ UNCHANGED <<mutex, after>>
      BY <1>1, <1>5, <2>2, StandingInv DEF WarmFiles
    <2> QED BY <1>5, <2>1, <2>2 DEF WarmFiles
  <1>6. CASE WarmFile
    BY <1>1, <1>6, StandingInv DEF WarmFile
  <1>7. CASE Push
    BY <1>1, <1>7, StandingInv DEF Push
  <1>8. CASE Clear
    BY <1>1, <1>8, StandingInv DEF Clear
  <1>9. CASE Exit
    BY <1>1, <1>9, StandingInv DEF Exit
  <1> QED BY <1>2, <1>3, <1>4, <1>5, <1>6, <1>7, <1>8, <1>9

-----------------------------------------------------------------------------
(* The theorems. *)

\* pre_menu_init has started the thread for the root, and nothing is listed yet.
LEMMA ThreadInitInv == Init => ThreadInvariant
  <1> SUFFICES ASSUME Init
               PROVE  ThreadInvariant
    OBVIOUS
  <1> USE CardAssumption, PathAssumption DEF Init
  <1>1. ThreadTypes
    BY DEF ThreadTypes, Labels
  <1>2. FlagTrue /\ MutexInv /\ BootAlone /\ EnumInv
    BY DEF FlagTrue, MutexInv, BootAlone, Quiet, EnumInv, Enumerating
  <1>3. EntriesOfPath
    BY NothingShown, ListingSeq DEF EntriesOfPath
  <1> QED BY <1>1, <1>2, <1>3 DEF ThreadInvariant

\* Every step of either thread preserves the invariant.
LEMMA ThreadNextInv == ThreadInvariant /\ [Next]_vars => ThreadInvariant'
  <1> SUFFICES ASSUME ThreadInvariant, [Next]_vars
               PROVE  ThreadInvariant'
    OBVIOUS
  <1>1. CASE Worker
    BY <1>1, UnlockInv, ListInv, CheckInv, FileInv, WarmingInv DEF Worker
  <1>2. CASE UNCHANGED vars
    <2> USE <1>2 DEF ThreadInvariant, ThreadTypes, vars, menuvars
    <2>1. ThreadTypes' /\ FlagTrue' /\ MutexInv' /\ BootAlone'
      BY DEF FlagTrue, MutexInv, BootAlone, Quiet
    <2>2. EnumInv' /\ EntriesOfPath'
      BY DEF EnumInv, EntriesOfPath, Enumerating
    <2> QED BY <2>1, <2>2
  <1> QED BY <1>1, <1>2, NavigateInv, BootInv, PassthroughInv, JoinedInv DEF Next

\* The invariant holds throughout.
THEOREM ThreadInvariantHolds == Spec => []ThreadInvariant
  BY ThreadInitInv, ThreadNextInv, PTL DEF Spec

\* Whatever interleaving of directory changes and worker steps, the menu shows the
\* valid items of the directory it stands in, in order and each once.
THEOREM ShowsThePath == Spec => []EntriesOfPath
  <1>1. ThreadInvariant => EntriesOfPath
    BY DEF ThreadInvariant
  <1> QED BY <1>1, ThreadInvariantHolds, PTL

\* gm_start_thread after gm_deinit_thread is never refused by a stale flag.
THEOREM RestartAccepted == Spec => []NeverRefused
  <1>1. ThreadInvariant => NeverRefused
    BY DEF ThreadInvariant, ThreadTypes, FlagTrue, Quiet, NeverRefused
  <1> QED BY <1>1, ThreadInvariantHolds, PTL

\* When bs2start boots a game from the card, the worker is done with the storage.
THEOREM BootsUndisturbed == Spec => []BootAlone
  <1>1. ThreadInvariant => BootAlone
    BY DEF ThreadInvariant
  <1> QED BY <1>1, ThreadInvariantHolds, PTL

-----------------------------------------------------------------------------
(* From the buttons to the program: the inductive invariant. *)

Screen == [at : {"main", "select"}, sub : {"LOADER", "START"}, trans : BOOLEAN,
           ca : Int, oa : Int, here : Dirs, count : Nat, slot : 0 .. MaxSlot,
           chosen : Items \cup {Nothing}]

\* On the start screen: the slot is in the list, and the entry in it is the one A was
\* pressed on, whatever has been listed since.
Shows(s) ==
  /\ s.count <= Len(Listing[s.here])
  /\ s.sub = "START" => s.slot < s.count /\ s.chosen = Selected(s)

BootTypes ==
  /\ machine \in Machines
  /\ disc \in {"readable", "gone", "failed"} /\ card \in BOOLEAN /\ bypass \in BOOLEAN /\ pass \in BOOLEAN /\ ready \in BOOLEAN
  /\ m \in Screen
  /\ entry \in Items \cup {Nothing}
  /\ ran \in Programs \cup {Nothing}
  /\ phase \in {"menu", "wiped", "disc", "entry", "loading", "ran", "lost"}

\* What bs2start will find: an entry emu_can_boot vouched for, or the request for the disc.
EntryBootable == entry # Nothing => CanBoot(entry)
Requested == ready \/ phase # "menu" => pass \/ entry # Nothing

\* The drive shows the disc only because Z asked for it and it was there; a machine
\* that was asked for it and does not show it has found it gone, and no stub.
DriveInv ==
  /\ phase = "menu" => ~bypass
  /\ disc = "failed" => bypass
  /\ bypass => pass /\ ~machine.force /\ disc # "gone"
  /\ ~Over /\ phase # "menu" /\ pass /\ ~machine.force /\ ~bypass =>
       disc = "gone" /\ ~(machine.stub /\ card)

\* How far the loaders are: past the disc once it has failed, and reading what was opened.
LoaderInv ==
  /\ phase = "disc" => pass
  /\ phase = "entry" /\ pass => ~machine.force /\ (bypass => disc = "failed")
  /\ phase = "loading" =>
       /\ ran # Nothing /\ ran.what \in {"dol", "swiss", "disc", "game"}
       /\ IF ran.what = "disc" THEN bypass ELSE bypass => disc = "failed"

BootInvariant ==
  /\ BootTypes /\ Shows(m) /\ EntryBootable /\ Requested /\ DriveInv /\ LoaderInv
  /\ RunsLoaded /\ DriveMatches

-----------------------------------------------------------------------------
(* The select screen. *)

\* The cross-fade touches neither the selection nor the screen it leads to.
LEMMA FadeKeeps ==
  ASSUME BootTypes, NEW s \in Screen, Shows(s)
  PROVE  AfterFade(s) \in Screen /\ Shows(AfterFade(s))
  <1>1. machine.step \in Nat
    BY BootAssumption DEF BootTypes
  <1> DEFINE t == AfterFade(s)
             up == IF s.sub = "LOADER" THEN machine.step ELSE -machine.step
  <1>2. /\ U8(s.ca + up) \in Int /\ U8(s.oa - up) \in Int
        /\ Settle(s.ca) \in Int /\ Settle(s.oa) \in Int
    BY <1>1 DEF U8, Settle, Screen
  <1>3. \/ t = s
        \/ t = [s EXCEPT !.trans = FALSE, !.ca = Settle(s.ca), !.oa = Settle(s.oa)]
        \/ t = [s EXCEPT !.ca = U8(s.ca + up), !.oa = U8(s.oa - up)]
    BY DEF AfterFade, Screen
  <1> HIDE DEF t, up
  <1>4. /\ t \in Screen /\ t.sub = s.sub /\ t.here = s.here
        /\ t.count = s.count /\ t.slot = s.slot /\ t.chosen = s.chosen
    BY <1>2, <1>3 DEF Screen
  <1> QED BY <1>4 DEF Shows, Selected, t

\* Another directory: nothing of it is listed yet.
LEMMA EnteringKeeps ==
  ASSUME NEW s \in Screen, s.sub = "LOADER", NEW d \in Dirs
  PROVE  Entering(s, d) \in Screen /\ Shows(Entering(s, d))
  <1>1. Entering(s, d) \in Screen
    BY DEF Entering, Screen
  <1>2. Entering(s, d).here = d /\ Entering(s, d).count = 0 /\ Entering(s, d).sub = "LOADER"
    BY DEF Entering, Screen
  <1> QED BY <1>1, <1>2, ListingSeq DEF Shows

\* B leaves the start screen, or changes what is listed on the other one only.
LEMMA BKeeps ==
  ASSUME NEW s \in Screen, Shows(s), NEW b
  PROVE  AfterB(s, b) \in Screen /\ Shows(AfterB(s, b))
  <1>1. s.here # Root => Up[s.here] \in Dirs
    BY BootAssumption DEF Screen
  <1>2. AfterB(s, b) \in Screen
    BY <1>1 DEF AfterB, Entering, Screen
  <1>3. CASE "B" \notin b \/ s.trans
    BY <1>3 DEF AfterB
  <1>4. CASE ~("B" \notin b \/ s.trans) /\ s.sub = "START"
    BY <1>4 DEF AfterB, Shows, Screen
  <1>5. CASE ~("B" \notin b \/ s.trans) /\ s.sub # "START" /\ s.here # Root
    BY <1>1, <1>5, EnteringKeeps DEF AfterB, Screen
  <1>6. CASE ~("B" \notin b \/ s.trans) /\ s.sub # "START" /\ s.here = Root
    BY <1>6 DEF AfterB, Shows, Screen
  <1> QED BY <1>2, <1>3, <1>4, <1>5, <1>6

\* A leads to the start screen of the entry in the selected slot.
LEMMA AKeeps ==
  ASSUME NEW s \in Screen, Shows(s), NEW b
  PROVE  AfterA(s, b) \in Screen /\ Shows(AfterA(s, b))
  <1> DEFINE dead == "A" \notin b \/ s.at = "main" \/ s.sub # "LOADER" \/ s.slot >= s.count \/ s.trans
  <1>1. CASE dead
    BY <1>1 DEF AfterA
  <1>2. CASE ~dead /\ Selected(s).type \in Dirs
    BY <1>2, EnteringKeeps DEF AfterA
  <1>3. CASE ~dead /\ Selected(s).type \notin Dirs
    <2>1. AfterA(s, b) = [s EXCEPT !.trans = TRUE, !.sub = "START", !.chosen = Selected(s)]
      BY <1>3 DEF AfterA
    <2>2. s.slot \in 0 .. MaxSlot /\ s.count \in Nat /\ s.here \in Dirs /\ s.slot < s.count
      BY <1>3 DEF Screen, MaxSlot
    <2>3. Selected(s) \in Items
      BY <2>2, ListingSeq DEF Selected, Shows, MaxSlot
    <2> QED BY <2>1, <2>2, <2>3 DEF Shows, Selected, Screen
  <1> QED BY <1>1, <1>2, <1>3

\* One frame: START copies the entry the start screen shows, and only one
\* emu_can_boot vouches for; the selection stays where it is there.
LEMMA FrameKeeps ==
  ASSUME BootInvariant, NEW b, Frame(b)
  PROVE  /\ BootTypes' /\ Shows(m)' /\ EntryBootable' /\ Requested'
         /\ entry' # entry => entry' = m'.chosen
         /\ phase = "menu" /\ phase' = "menu" /\ bypass' = bypass /\ disc' = disc
  <1> DEFINE s == AfterA(AfterB(AfterFade(m), b), b)
             boots == "START" \in b /\ s.at # "main" /\ s.sub = "START" /\ CanBoot(Selected(s))
  <1>1. s \in Screen /\ Shows(s)
    BY FadeKeeps, BKeeps, AKeeps DEF BootInvariant, BootTypes
  <1>2. /\ phase = "menu"
        /\ pass' = (pass \/ ("Z" \in b /\ disc = "readable"))
        /\ entry' = IF boots THEN Selected(s) ELSE entry
        /\ ready' = (ready \/ boots \/ ("Z" \in b /\ disc = "readable"))
        /\ \E k \in IF "MOVE" \in b /\ Movable(s) THEN 0 .. MaxSlot ELSE {s.slot} :
             m' = [s EXCEPT !.slot = k]
        /\ UNCHANGED <<machine, disc, card, bypass, phase, ran>>
    BY DEF Frame, media
  <1> HIDE DEF s
  <1>3. boots => /\ Selected(s) = s.chosen /\ Selected(s) \in Items
                 /\ CanBoot(Selected(s)) /\ s.sub = "START"
    <2>1. SUFFICES ASSUME boots
                   PROVE  Selected(s) = s.chosen /\ Selected(s) \in Items
      OBVIOUS
    <2>2. /\ s.slot \in 0 .. MaxSlot /\ s.count \in Nat /\ s.here \in Dirs
          /\ s.slot < s.count /\ s.count <= Len(Listing[s.here]) /\ s.chosen = Selected(s)
      BY <1>1, <2>1 DEF Screen, MaxSlot, Shows
    <2> QED BY <2>2, ListingSeq DEF Selected, MaxSlot
  <1>4. PICK k \in 0 .. MaxSlot :
          m' = [s EXCEPT !.slot = k] /\ (s.sub = "START" => k = s.slot)
    BY <1>1, <1>2 DEF Movable, Screen, MaxSlot
  <1>5. m' \in Screen /\ Shows(m)' /\ m'.chosen = s.chosen
    BY <1>1, <1>4 DEF Screen, Shows, Selected
  <1> HIDE DEF boots
  <1>6. BootTypes'
    BY <1>2, <1>3, <1>5 DEF BootInvariant, BootTypes
  <1>7. entry' # entry => entry' = m'.chosen
    BY <1>2, <1>3, <1>5
  <1>8. EntryBootable'
    BY <1>2, <1>3 DEF BootInvariant, EntryBootable, CanBoot
  <1>9. Requested'
    <2>1. boots => Selected(s) # Nothing
      BY <1>3, BootAssumption, CardAssumption
    <2> QED BY <1>2, <2>1 DEF BootInvariant, Requested
  <1> QED BY <1>2, <1>5, <1>6, <1>7, <1>8, <1>9

\* Another entry is listed: the grid is set up before the first one, when no start
\* screen can be up.
LEMMA ListKeeps ==
  ASSUME BootInvariant, ListMore
  PROVE  m' \in Screen /\ Shows(m)'
  <1>1. /\ m \in Screen /\ Shows(m) /\ m.count < Len(Listing[m.here])
        /\ m' = [m EXCEPT !.count = m.count + 1, !.slot = IF m.count = 0 THEN 0 ELSE m.slot]
    BY DEF ListMore, BootInvariant, BootTypes, Screen
  <1>2. m.here \in Dirs /\ m.count \in Nat /\ m.slot \in 0 .. MaxSlot /\ Len(Listing[m.here]) \in Nat
    BY <1>1, ListingSeq DEF Screen
  <1>3. m' \in Screen
    <2>1. m.count + 1 \in Nat /\ (IF m.count = 0 THEN 0 ELSE m.slot) \in 0 .. MaxSlot
      BY <1>2 DEF MaxSlot
    <2> QED BY <1>1, <2>1 DEF Screen
  <1>4. /\ m'.count = m.count + 1 /\ m'.here = m.here /\ m'.sub = m.sub /\ m'.chosen = m.chosen
        /\ m.count # 0 => m'.slot = m.slot
    BY <1>1 DEF Screen
  <1>5. m.sub = "START" => m.count # 0
    BY <1>1, <1>2 DEF Shows, MaxSlot
  <1> QED BY <1>1, <1>2, <1>3, <1>4, <1>5 DEF Shows, Selected, MaxSlot

-----------------------------------------------------------------------------
(* The invariant. *)

\* A menu step leaves bs2start's part alone.
LEMMA MenuInv ==
  ASSUME BootInvariant, Playing \/ Enter \/ ListMore
  PROVE  BootInvariant'
  <1>1. CASE Playing
    <2>1. PICK b \in SUBSET Buttons : Frame(b)
      BY <1>1 DEF Playing
    <2>2. /\ BootTypes' /\ Shows(m)' /\ EntryBootable' /\ Requested'
          /\ phase = "menu" /\ phase' = "menu" /\ bypass' = bypass /\ disc' = disc
      BY <2>1, FrameKeeps
    <2>3. DriveInv' /\ LoaderInv' /\ RunsLoaded' /\ DriveMatches'
      BY <2>2 DEF BootInvariant, DriveInv, LoaderInv, Over, Loaded, RunsLoaded, DriveMatches
    <2> QED BY <2>2, <2>3 DEF BootInvariant
  <1>2. ASSUME phase = "menu", m' \in Screen, Shows(m)',
               UNCHANGED <<machine, disc, card, bypass, entry, pass, ready, phase, ran>>
        PROVE  BootInvariant'
    <2>1. BootTypes'
      BY <1>2 DEF BootInvariant, BootTypes
    <2>2. EntryBootable' /\ Requested'
      BY <1>2 DEF BootInvariant, EntryBootable, Requested, CanBoot
    <2>3. DriveInv' /\ LoaderInv' /\ RunsLoaded' /\ DriveMatches'
      BY <1>2 DEF BootInvariant, DriveInv, LoaderInv, Over, Loaded, RunsLoaded, DriveMatches
    <2> QED BY <1>2, <2>1, <2>2, <2>3 DEF BootInvariant
  <1>3. CASE Enter
    <2>1. m' \in Screen /\ Shows(m)'
      BY <1>3 DEF Enter, BootInvariant, BootTypes, Shows, Selected, Screen
    <2> QED BY <1>2, <1>3, <2>1 DEF Enter, media, BootInvariant, BootTypes
  <1>4. CASE ListMore
    BY <1>2, <1>4, ListKeeps DEF ListMore, media, BootInvariant, BootTypes
  <1> QED BY <1>1, <1>3, <1>4

\* What is taken out fails from then on, wherever bs2start is.
LEMMA TakeInv ==
  ASSUME BootInvariant, TakeDisc \/ TakeCard
  PROVE  BootInvariant'
  <1>1. /\ ~Over /\ UNCHANGED <<machine, m, bypass, entry, pass, ready, phase, ran>>
        /\ \/ disc = "readable" /\ disc' = (IF bypass THEN "failed" ELSE "gone") /\ card' = card
           \/ disc' = disc /\ card' = FALSE
    BY DEF TakeDisc, TakeCard
  <1>2. BootTypes' /\ Shows(m)'
    BY <1>1 DEF BootInvariant, BootTypes, Shows, Selected
  <1>3. EntryBootable' /\ Requested'
    BY <1>1 DEF BootInvariant, EntryBootable, Requested, CanBoot
  <1>4. DriveInv' /\ LoaderInv'
    BY <1>1 DEF BootInvariant, BootTypes, DriveInv, LoaderInv, Over
  <1>5. RunsLoaded' /\ DriveMatches'
    BY <1>1 DEF Over, Loaded, RunsLoaded, DriveMatches
  <1> QED BY <1>2, <1>3, <1>4, <1>5 DEF BootInvariant

\* A step of bs2start changes neither the entry nor the screen.
LEMMA BootingKeeps ==
  ASSUME BootInvariant, Booting
  PROVE  /\ UNCHANGED <<machine, disc, card, m, entry, pass, ready>>
         /\ phase \in {"menu", "wiped", "disc", "entry", "loading"} /\ (phase = "menu" => ready)
         /\ Shows(m)' /\ EntryBootable' /\ Requested'
  <1>1. /\ UNCHANGED <<machine, disc, card, m, entry, pass, ready>>
        /\ phase \in {"menu", "wiped", "disc", "entry", "loading"} /\ (phase = "menu" => ready)
    BY DEF Booting, Bs2start, Wiped, BootDisc, BootEntry, LoadDol, media
  <1>2. Shows(m)' /\ EntryBootable' /\ Requested'
    BY <1>1 DEF BootInvariant, Shows, Selected, EntryBootable, CanBoot, Requested
  <1> QED BY <1>1, <1>2

\* What a loader opens or runs is a program.
LEMMA RunsProgram ==
  ASSUME NEW what \in {"stub", "dol", "swiss", "zero", "junk", "disc", "game"},
         NEW of \in Items \cup {Nothing}, NEW p, p = [what |-> what, of |-> of]
  PROVE  p \in Programs /\ p # Nothing /\ p.what = what
  BY ProgramAssumption DEF Programs

\* chainload_swiss_game: what it opens is there, and unless it is not there at all, or
\* cannot be opened, it is opened.
LEMMA ChainloadRuns ==
  ASSUME BootTypes, NEW e \in Items \cup {Nothing}, ChainloadSwiss(e)
  PROVE  /\ ran' \in Programs /\ ran' # Nothing
         /\ \/ phase' = "ran" /\ ran'.what = "zero"
            \/ phase' = "loading" /\ ran'.what \in {"dol", "swiss"}
         /\ Opens /\ (machine.swiss \/ (e # Nothing /\ e.type = "swiss")) => phase' = "loading"
  <1>1. PICK what \in {"dol", "swiss", "zero"} :
          /\ ran' = [what |-> what, of |-> e]
          /\ phase' = IF what = "zero" THEN "ran" ELSE "loading"
          /\ Opens /\ (machine.swiss \/ (e # Nothing /\ e.type = "swiss")) => what # "zero"
    BY DEF ChainloadSwiss, Loads, Runs
  <1>2. ran' \in Programs /\ ran' # Nothing /\ ran'.what = what
    BY <1>1, RunsProgram
  <1> QED BY <1>1, <1>2

\* bs2start up to the wipe.
LEMMA Bs2startInv == BootInvariant /\ Bs2start => BootInvariant'
  <1> SUFFICES ASSUME BootInvariant, Bs2start
               PROVE  BootInvariant'
    OBVIOUS
  <1>1. /\ UNCHANGED <<machine, disc, card, m, entry, pass, ready>>
        /\ Shows(m)' /\ EntryBootable' /\ Requested'
    BY BootingKeeps DEF Booting
  <1>2. phase = "menu" /\ ~bypass /\ disc # "failed"
    BY DEF Bs2start, BootInvariant, DriveInv
  <1>3. CASE /\ phase' = "wiped" /\ UNCHANGED ran
             /\ \/ (~pass \/ machine.force) /\ bypass' = bypass
                \/ pass /\ ~machine.force /\ disc = "readable" /\ bypass' = TRUE
                \/ pass /\ ~(machine.stub /\ card) /\ disc # "readable" /\ bypass' = FALSE
    <2>1. BootTypes'
      BY <1>1, <1>3 DEF BootInvariant, BootTypes
    <2>2. DriveInv' /\ LoaderInv' /\ RunsLoaded' /\ DriveMatches'
      BY <1>1, <1>2, <1>3 DEF BootInvariant, BootTypes, DriveInv, LoaderInv, Over, Loaded,
                              RunsLoaded, DriveMatches
    <2> QED BY <1>1, <2>1, <2>2 DEF BootInvariant
  <1>4. CASE Runs("stub", Nothing) /\ bypass' = FALSE
    <2>1. phase' = "ran" /\ ran' \in Programs /\ ran' # Nothing /\ ran'.what = "stub"
      BY <1>4, RunsProgram DEF Runs
    <2>2. BootTypes'
      BY <1>1, <1>4, <2>1 DEF BootInvariant, BootTypes
    <2>3. DriveInv' /\ LoaderInv' /\ RunsLoaded' /\ DriveMatches'
      BY <1>1, <1>2, <1>4, <2>1 DEF DriveInv, LoaderInv, Over, Loaded, RunsLoaded, DriveMatches
    <2> QED BY <1>1, <2>2, <2>3 DEF BootInvariant
  <1> QED BY <1>2, <1>3, <1>4 DEF Bs2start, BypassExit

\* The wipe.
LEMMA WipedInv == BootInvariant /\ Wiped => BootInvariant'
  <1> SUFFICES ASSUME BootInvariant, Wiped
               PROVE  BootInvariant'
    OBVIOUS
  <1>1. /\ UNCHANGED <<machine, disc, card, m, entry, pass, ready>>
        /\ Shows(m)' /\ EntryBootable' /\ Requested'
    BY BootingKeeps DEF Booting
  <1>2. BootTypes'
    BY <1>1 DEF Wiped, BootInvariant, BootTypes
  <1>3. DriveInv' /\ LoaderInv' /\ RunsLoaded' /\ DriveMatches'
    BY <1>1 DEF Wiped, BootInvariant, DriveInv, LoaderInv, Over, Loaded, RunsLoaded, DriveMatches
  <1> QED BY <1>1, <1>2, <1>3 DEF BootInvariant

\* What the three steps of the loaders keep of the invariant.
LEMMA LoaderKeeps ==
  ASSUME BootInvariant, BootDisc \/ BootEntry \/ LoadDol
  PROVE  /\ UNCHANGED <<machine, disc, card, m, entry, pass, ready, bypass>> /\ ~Over
         /\ Shows(m)' /\ EntryBootable' /\ Requested'
         /\ ran' \in Programs \cup {Nothing} /\ phase' \in {"entry", "loading", "ran", "lost"}
              => BootTypes'
         /\ phase' \in {"entry", "loading", "ran", "lost"} => DriveInv'
  <1>1. /\ UNCHANGED <<machine, disc, card, m, entry, pass, ready, bypass>>
        /\ Shows(m)' /\ EntryBootable' /\ Requested' /\ phase \in {"disc", "entry", "loading"}
    BY BootingKeeps DEF Booting, BootDisc, BootEntry, LoadDol
  <1>2. ~Over
    BY <1>1 DEF Over
  <1>3. ran' \in Programs \cup {Nothing} /\ phase' \in {"entry", "loading", "ran", "lost"}
              => BootTypes'
    BY <1>1 DEF BootInvariant, BootTypes
  <1>4. phase' \in {"entry", "loading", "ran", "lost"} => DriveInv'
    BY <1>1, <1>2 DEF BootInvariant, DriveInv, Over
  <1> QED BY <1>1, <1>2, <1>3, <1>4

\* The attempt to run the disc.
LEMMA BootDiscInv == BootInvariant /\ BootDisc => BootInvariant'
  <1> SUFFICES ASSUME BootInvariant, BootDisc
               PROVE  BootInvariant'
    OBVIOUS
  <1>1. /\ UNCHANGED <<machine, disc, card, m, entry, pass, ready, bypass>> /\ phase = "disc"
        /\ pass /\ (bypass => ~machine.force /\ disc # "gone")
        /\ disc \in {"readable", "gone", "failed"} /\ BootTypes
    BY LoaderKeeps DEF BootDisc, BootInvariant, DriveInv, LoaderInv, BootTypes
  <1>2. CASE machine.force
    <2>1. /\ ran' \in Programs /\ ran' # Nothing
          /\ \/ phase' = "ran" /\ ran'.what = "zero"
             \/ phase' = "loading" /\ ran'.what \in {"dol", "swiss"}
          /\ Opens /\ machine.swiss => phase' = "loading"
      BY <1>1, <1>2, ChainloadRuns DEF BootDisc
    <2>2. ~Opens => ~card
      BY <1>1, <1>2 DEF Opens
    <2>3. BootTypes' /\ DriveInv'
      BY <2>1, LoaderKeeps
    <2>4. LoaderInv' /\ RunsLoaded' /\ DriveMatches'
      BY <1>1, <1>2, <2>1, <2>2 DEF LoaderInv, Over, Loaded, TakenOut, NotThere, RunsLoaded,
                                    DriveMatches
    <2> QED BY <2>3, <2>4, LoaderKeeps DEF BootInvariant
  <1>3. CASE ~machine.force /\ bypass /\ disc = "readable"
    <2>1. phase' = "loading" /\ ran' \in Programs /\ ran' # Nothing /\ ran'.what = "disc"
      BY <1>3, RunsProgram DEF BootDisc, Loads
    <2>2. BootTypes' /\ DriveInv'
      BY <2>1, LoaderKeeps
    <2>3. LoaderInv' /\ RunsLoaded' /\ DriveMatches'
      BY <1>1, <1>3, <2>1 DEF LoaderInv, Over, Loaded, RunsLoaded, DriveMatches
    <2> QED BY <2>2, <2>3, LoaderKeeps DEF BootInvariant
  <1>4. CASE ~machine.force /\ ~(bypass /\ disc = "readable")
    <2>1. phase' = "entry" /\ ran' = ran
      BY <1>4 DEF BootDisc
    <2>2. BootTypes' /\ DriveInv'
      BY <2>1, LoaderKeeps DEF BootInvariant, BootTypes
    <2>3. LoaderInv' /\ RunsLoaded' /\ DriveMatches'
      BY <1>1, <1>4, <2>1 DEF LoaderInv, Over, Loaded, RunsLoaded, DriveMatches
    <2> QED BY <2>2, <2>3, LoaderKeeps DEF BootInvariant
  <1> QED BY <1>2, <1>3, <1>4

\* The rest of bs2start: what emu_can_boot vouched for is there to be loaded, unless it
\* has been taken out; after the disc has failed anything may happen.
LEMMA BootEntryInv == BootInvariant /\ BootEntry => BootInvariant'
  <1> SUFFICES ASSUME BootInvariant, BootEntry
               PROVE  BootInvariant'
    OBVIOUS
  <1>1. /\ UNCHANGED <<machine, disc, card, m, entry, pass, ready, bypass>> /\ phase = "entry"
        /\ entry \in Items \cup {Nothing} /\ BootTypes /\ ~Over
        /\ card \in BOOLEAN /\ machine.stub \in BOOLEAN
    BY LoaderKeeps, BootAssumption DEF BootEntry, BootInvariant, BootTypes
  <1>2. /\ pass \/ (entry # Nothing /\ CanBoot(entry))
        /\ bypass => pass /\ disc = "failed"
        /\ pass /\ ~bypass => ~machine.force /\ disc = "gone" /\ ~(machine.stub /\ card)
    BY <1>1 DEF BootInvariant, Requested, EntryBootable, DriveInv, LoaderInv, Over
  <1>3. pass \/ ~Opens => TakenOut' \/ NotThere'
    BY <1>1, <1>2 DEF TakenOut, NotThere, Opens
  <1>4. CASE ChainloadSwiss(entry) /\ ((entry # Nothing /\ entry.type \in {"program", "swiss"}) \/ ~ServesItself)
    <2>1. /\ ran' \in Programs /\ ran' # Nothing
          /\ \/ phase' = "ran" /\ ran'.what = "zero"
             \/ phase' = "loading" /\ ran'.what \in {"dol", "swiss"}
          /\ Opens /\ (machine.swiss \/ (entry # Nothing /\ entry.type = "swiss"))
               => phase' = "loading"
      BY <1>1, <1>4, ChainloadRuns
    <2>2. CanBoot(entry) /\ entry # Nothing => machine.swiss \/ entry.type = "swiss"
      BY <1>4 DEF CanBoot, ServesItself
    <2>3. BootTypes' /\ DriveInv'
      BY <2>1, LoaderKeeps
    <2>4. LoaderInv'
      BY <1>1, <1>2, <2>1 DEF LoaderInv
    <2>5. RunsLoaded' /\ DriveMatches'
      BY <1>2, <1>3, <2>1, <2>2 DEF Over, Loaded, RunsLoaded, DriveMatches
    <2> QED BY <2>3, <2>4, <2>5, LoaderKeeps DEF BootInvariant
  <1>5. CASE entry # Nothing /\ Opens /\ Loads("game", entry)
    <2>1. phase' = "loading" /\ ran' \in Programs /\ ran' # Nothing /\ ran'.what = "game"
      BY <1>1, <1>5, RunsProgram DEF Loads
    <2>2. BootTypes' /\ DriveInv'
      BY <2>1, LoaderKeeps
    <2>3. LoaderInv' /\ RunsLoaded' /\ DriveMatches'
      BY <1>1, <1>2, <2>1 DEF LoaderInv, Over, Loaded, RunsLoaded, DriveMatches
    <2> QED BY <2>2, <2>3, LoaderKeeps DEF BootInvariant
  <1>6. CASE (entry = Nothing \/ ~Opens) /\ phase' = "lost" /\ UNCHANGED ran
    <2>1. BootTypes' /\ DriveInv'
      BY <1>6, LoaderKeeps DEF BootInvariant, BootTypes
    <2>2. LoaderInv' /\ RunsLoaded' /\ DriveMatches'
      BY <1>2, <1>3, <1>6 DEF LoaderInv, Loaded, RunsLoaded, DriveMatches
    <2> QED BY <2>1, <2>2, LoaderKeeps DEF BootInvariant
  <1> QED BY <1>4, <1>5, <1>6 DEF BootEntry

\* What was opened is read: it is run if it still could be read, and only then.
LEMMA LoadDolInv == BootInvariant /\ LoadDol => BootInvariant'
  <1> SUFFICES ASSUME BootInvariant, LoadDol
               PROVE  BootInvariant'
    OBVIOUS
  <1>1. /\ UNCHANGED <<machine, disc, card, m, entry, pass, ready, bypass>>
        /\ phase = "loading" /\ phase' = "ran"
        /\ ran \in Programs /\ ran.what \in {"dol", "swiss", "disc", "game"}
        /\ IF ran.what = "disc" THEN bypass ELSE bypass => disc = "failed"
        /\ disc \in {"readable", "gone", "failed"}
        /\ bypass => disc # "gone"
    BY LoaderKeeps DEF LoadDol, BootInvariant, BootTypes, LoaderInv, DriveInv
  <1> DEFINE reads == IF ran.what = "disc" THEN disc = "readable" ELSE card /\ ~bypass
  <1>2. ran' = IF reads THEN ran ELSE [ran EXCEPT !.what = "junk"]
    BY DEF LoadDol
  <1>3. /\ ran' \in Programs
        /\ reads => ran'.what = ran.what
        /\ ~reads => ran'.what = "junk"
    BY <1>1, <1>2 DEF Programs
  <1>4. BootTypes' /\ DriveInv'
    BY <1>1, <1>3, LoaderKeeps
  <1>5. LoaderInv' /\ RunsLoaded' /\ DriveMatches'
    BY <1>1, <1>3 DEF LoaderInv, Over, Loaded, TakenOut, RunsLoaded, DriveMatches
  <1> QED BY <1>4, <1>5, LoaderKeeps DEF BootInvariant

\* The first frame has nothing listed and nothing chosen.
LEMMA BootInitInv == BootInit => BootInvariant
  <1> SUFFICES ASSUME BootInit
               PROVE  BootInvariant
    OBVIOUS
  <1> USE BootAssumption, CardAssumption DEF BootInit
  <1>1. m \in Screen /\ m.sub = "LOADER" /\ m.count = 0 /\ m.here = Root
    BY DEF Screen, MaxSlot
  <1>2. BootTypes
    BY <1>1 DEF BootTypes
  <1>3. Shows(m)
    BY <1>1, ListingSeq DEF Shows
  <1>4. EntryBootable /\ Requested /\ DriveInv /\ LoaderInv /\ RunsLoaded /\ DriveMatches
    BY DEF EntryBootable, Requested, DriveInv, LoaderInv, Over, Loaded, RunsLoaded, DriveMatches
  <1> QED BY <1>2, <1>3, <1>4 DEF BootInvariant

\* Every step preserves the invariant.
LEMMA BootNextInv == BootInvariant /\ [BootNext]_bootvars => BootInvariant'
  <1> SUFFICES ASSUME BootInvariant, [BootNext]_bootvars
               PROVE  BootInvariant'
    OBVIOUS
  <1>1. CASE UNCHANGED bootvars
    <2>1. BootTypes' /\ Shows(m)'
      BY <1>1 DEF BootInvariant, BootTypes, Shows, Selected, bootvars, media
    <2>2. EntryBootable' /\ Requested' /\ DriveInv' /\ LoaderInv' /\ RunsLoaded' /\ DriveMatches'
      BY <1>1 DEF BootInvariant, EntryBootable, CanBoot, Requested, DriveInv, LoaderInv, Over,
                  Loaded, TakenOut, NotThere, RunsLoaded, DriveMatches, bootvars, media
    <2> QED BY <2>1, <2>2 DEF BootInvariant
  <1> QED BY <1>1, MenuInv, TakeInv, Bs2startInv, WipedInv, BootDiscInv, BootEntryInv, LoadDolInv
          DEF BootNext, Booting

-----------------------------------------------------------------------------
(* The theorems. *)

\* The invariant holds throughout.
THEOREM BootInvariantHolds == BootSpec => []BootInvariant
  BY BootInitInv, BootNextInv, PTL DEF BootSpec

\* emu_can_boot and the look at the disc vouch for what bs2start does later: what is
\* run was loaded, or what it is read from was taken out, or one of two files is missing.
THEOREM StartRunsLoaded == BootSpec => []RunsLoaded
  <1>1. BootInvariant => RunsLoaded
    BY DEF BootInvariant
  <1> QED BY <1>1, BootInvariantHolds, PTL

\* The drive is left showing the disc to the program loaded from it only.
THEOREM DriveHandedOver == BootSpec => []DriveMatches
  <1>1. BootInvariant => DriveMatches
    BY DEF BootInvariant
  <1> QED BY <1>1, BootInvariantHolds, PTL

\* START copies only the entry A was pressed on, whatever fades, moves and newly
\* listed entries come between.
THEOREM StartBootsShown == BootSpec => BootsShown
  <1>1. BootInvariant /\ [BootNext]_bootvars => [entry' # entry => entry' = m'.chosen]_bootvars
    <2> SUFFICES ASSUME BootInvariant, BootNext
                 PROVE  entry' # entry => entry' = m'.chosen
      OBVIOUS
    <2>1. CASE Playing
      BY <2>1, FrameKeeps DEF Playing
    <2>2. CASE Enter \/ ListMore \/ TakeDisc \/ TakeCard \/ Booting
      BY <2>2, BootingKeeps DEF Enter, ListMore, TakeDisc, TakeCard
    <2> QED BY <2>1, <2>2 DEF BootNext
  <1> QED BY <1>1, BootInvariantHolds, PTL DEF BootSpec, BootsShown

-----------------------------------------------------------------------------
(* The game list: the inductive invariant. *)

BrowseTypes ==
  /\ raw \in [Backing -> Int] /\ remaining \in [Backing -> Nat]
  /\ direction \in [Backing -> {"up", "down"}] /\ pending \in [Backing -> Nat]
  /\ alpha \in [Backing -> 0 .. 2]
  /\ movingIn \in [Backing -> BOOLEAN] /\ movingOut \in [Backing -> BOOLEAN]
  /\ selected \in Int /\ top \in Nat /\ nlines \in Nat
  /\ listed \in 0 .. (MaxLines * PerLine)
  /\ stage \in {"listing", "sizing", "checking", "done"}

\* The line is on its way to its place; a distance that remains is counted, and it is
\* not that of a line which could enter the screen at the other end.
Placed(l) ==
  /\ PositionAfter(l) = Top + (l - top) * OffsetY
  /\ remaining[l] > 0 => pending[l] > 0
  /\ remaining[l] > 0 /\ direction[l] = "down" => l >= top
  /\ remaining[l] > 0 /\ direction[l] = "up" => l < top + Rows

\* A line on the screen is opaque or fades in, any other one is gone or fades out.
Lit(l) ==
  IF l \in top .. (top + Rows - 1)
  THEN ~movingOut[l] /\ (alpha[l] = 2 \/ movingIn[l])
  ELSE ~movingIn[l] /\ (alpha[l] = 0 \/ (movingOut[l] /\ alpha[l] < 2))

GridInv == Shown => \A l \in Lines : Placed(l) /\ Lit(l)

\* Until the list has been checked, the grid has the size of the listing.
SizeInv == stage \in {"sizing", "checking"} => nlines = GridLines(listed)

\* Nobody shrinks the grid when every file is a game: the selection is in it.
SelInv ==
  AllValid /\ Shown =>
    /\ nlines <= MaxLines /\ top + Rows <= nlines
    /\ top <= SelLine /\ SelLine < top + Rows

BrowseInv == BrowseTypes /\ GridInv /\ SizeInv /\ SelInv

-----------------------------------------------------------------------------
(* Lines and numbers. *)

\* Bounds of the screen.
LEMMA Numbers ==
  /\ Top = 104 /\ OffsetY = 56 /\ Half = 28 /\ Bottom = 104 + Rows * 56
  /\ Rows \in Nat /\ Rows > 0 /\ MaxLines \in Nat /\ Rows <= MaxLines
  /\ PerLine \in Nat /\ PerLine > 0 /\ Step \in Nat /\ Step > 0
  BY BrowseAssumption DEF Top, OffsetY, Half, Bottom

\* The lines are the numbers below number_of_lines that browser_lines has.
LEMMA LinesAre ==
  ASSUME BrowseTypes
  PROVE  /\ Lines \subseteq Backing /\ Backing \subseteq Nat
         /\ \A l \in Lines : \A k \in Nat : k <= l => k \in Lines
  BY Numbers DEF Lines, Backing, BrowseTypes

\* A line is somewhere.
LEMMA PositionInt ==
  ASSUME BrowseTypes, NEW l \in Backing
  PROVE  /\ PositionAfter(l) \in Int /\ raw[l] \in Int
         /\ remaining[l] \in Nat /\ pending[l] \in Nat
         /\ direction[l] \in {"up", "down"} /\ alpha[l] \in 0 .. 2
         /\ movingIn[l] \in BOOLEAN /\ movingOut[l] \in BOOLEAN
  BY DEF BrowseTypes, PositionAfter, After

\* Division with remainder: the line and the column of a slot.
LEMMA LineAndColumn ==
  ASSUME NEW n \in Int, NEW q \in Int, NEW r \in 0 .. (PerLine - 1), n = PerLine * q + r
  PROVE  n \div PerLine = q /\ n % PerLine = r
  BY Numbers, SMTT(30)

\* Every slot has them.
LEMMA SlotOf ==
  ASSUME NEW n \in Int
  PROVE  /\ n \div PerLine \in Int /\ n % PerLine \in 0 .. (PerLine - 1)
         /\ n = PerLine * (n \div PerLine) + (n % PerLine)
  BY Numbers, SMTT(30)

\* A longer list has no fewer lines, and browser_lines has room for the longest.
LEMMA GridLinesMono ==
  ASSUME NEW n \in Nat, NEW k \in Nat, n <= k, k <= MaxLines * PerLine
  PROVE  /\ GridLines(n) \in Nat /\ Rows <= GridLines(n)
         /\ GridLines(n) <= GridLines(k) /\ GridLines(k) <= MaxLines
  <1> DEFINE a == (n + PerLine - 1) \div PerLine
             b == (k + PerLine - 1) \div PerLine
             ra == (n + PerLine - 1) % PerLine
             rb == (k + PerLine - 1) % PerLine
  <1>1. /\ a \in Int /\ ra \in 0 .. (PerLine - 1) /\ n + PerLine - 1 = PerLine * a + ra
        /\ b \in Int /\ rb \in 0 .. (PerLine - 1) /\ k + PerLine - 1 = PerLine * b + rb
    BY SlotOf, Numbers
  <1> HIDE DEF a, b, ra, rb
  <1>2. a <= b
    <2> SUFFICES ASSUME b + 1 <= a
                 PROVE  FALSE
      BY <1>1
    <2>1. PerLine * (b + 1) <= PerLine * a
      BY <1>1, Numbers, SMT
    <2> QED BY <1>1, <2>1, Numbers, SMT
  <1>3. b <= MaxLines
    <2> SUFFICES ASSUME MaxLines + 1 <= b
                 PROVE  FALSE
      BY <1>1, Numbers
    <2>1. PerLine * (MaxLines + 1) <= PerLine * b
      BY <1>1, Numbers, SMT
    <2> QED BY <1>1, <2>1, Numbers, SMT
  <1> QED BY <1>1, <1>2, <1>3, Numbers DEF GridLines, a, b

-----------------------------------------------------------------------------
(* Dispatch. *)

\* The lines that leave the screen when all lines move by jump.
Leaving(d, jump) ==
  {l \in Lines :
     IF d = "down"
     THEN PositionAfter(l) + jump + 10 >= Bottom /\ PositionAfter(l) + jump - 56 < Bottom
     ELSE PositionAfter(l) + jump + 66 >= Top /\ PositionAfter(l) + jump < Top}

\* Where the lines go when the grid moves by jump: all of them by the same distance,
\* provided no line is under way in the other direction and the one that enters has
\* come to rest.
LEMMA DispatchPlaces ==
  ASSUME BrowseTypes, NEW d \in {"up", "down"}, NEW In, In \subseteq Lines, NEW edge \in Int,
         NEW jump \in Int, jump = IF d = "up" THEN -56 ELSE 56,
         Dispatch(d, In, edge, jump),
         \A l \in Lines : remaining[l] > 0 => pending[l] > 0 /\ direction[l] = d,
         \A l \in In : remaining[l] = 0 /\ After(edge, d, Half) = PositionAfter(l) + jump
  PROVE  /\ \A l \in Lines :
              /\ PositionAfter(l)' = PositionAfter(l) + jump
              /\ remaining'[l] > 0 => pending'[l] > 0 /\ direction'[l] = d
              /\ remaining'[l] > 0 =>
                   \/ remaining[l] > 0 \/ l \in In
                   \/ PositionAfter(l) < Bottom + 46 /\ PositionAfter(l) >= Top - 46
         /\ \E Out :
              /\ Out = Lowest(Leaving(d, jump))
              /\ \A l \in Lines :
                   /\ alpha'[l] = IF l \in Out \cup In THEN 1 ELSE alpha[l]
                   /\ movingIn'[l] <=> l \notin Out /\ (l \in In \/ movingIn[l])
                   /\ movingOut'[l] <=> l \in Out \/ (l \notin In /\ movingOut[l])
  <1> DEFINE Near == {l \in Lines \ In : /\ PositionAfter(l) < Bottom + OffsetY - 10
                                         /\ PositionAfter(l) >= Top - OffsetY + 10}
             far  == Lines \ (In \cup Near)
             end  == [l \in Lines |->
                        IF l \in In THEN After(edge, d, remaining[l] + Half)
                        ELSE IF l \in Near THEN After(raw[l], d, remaining[l] + OffsetY)
                        ELSE PositionAfter(l) + jump]
             Out  == Lowest({l \in Lines :
                       IF d = "down" THEN end[l] + 10 >= Bottom /\ end[l] - OffsetY < Bottom
                       ELSE end[l] + OffsetY + 10 >= Top /\ end[l] < Top})
             dist == [l \in Backing |-> IF l \in In THEN Half ELSE OffsetY]
  <1>1. /\ AddAnim(In \cup Near, d, dist)
        /\ raw' = [l \in Backing |-> IF l \in In THEN edge
                                     ELSE IF l \in far THEN raw[l] + jump ELSE raw[l]]
        /\ alpha' = [l \in Backing |-> IF l \in Out \cup In THEN 1 ELSE alpha[l]]
        /\ movingIn' = [l \in Backing |-> l \notin Out /\ (l \in In \/ movingIn[l])]
        /\ movingOut' = [l \in Backing |-> l \in Out \/ (l \notin In /\ movingOut[l])]
    BY DEF Dispatch
  <1>2. \A l \in Lines : l \in Near => l \notin In
    OBVIOUS
  <1>3. \A l \in Lines : l \in Near =>
          PositionAfter(l) < Bottom + 46 /\ PositionAfter(l) >= Top - 46
    <2> SUFFICES ASSUME NEW l \in Lines, l \in Near
                 PROVE  PositionAfter(l) < Bottom + 46 /\ PositionAfter(l) >= Top - 46
      OBVIOUS
    <2>1. PositionAfter(l) \in Int /\ Bottom \in Int
      BY LinesAre, PositionInt, Numbers
    <2> QED BY <2>1, Numbers
  <1>4. \A l \in Lines : l \in far <=> l \notin In /\ l \notin Near
    OBVIOUS
  <1>5. Near \subseteq Lines /\ Lines \subseteq Backing
    BY LinesAre
  <1> HIDE DEF Near, far
  <1>6. ASSUME NEW l \in Lines
        PROVE  /\ PositionAfter(l)' = PositionAfter(l) + jump
               /\ end[l] = PositionAfter(l) + jump
               /\ remaining'[l] > 0 => pending'[l] > 0 /\ direction'[l] = d
               /\ remaining'[l] > 0 => remaining[l] > 0 \/ l \in In \/ l \in Near
    <2>1. /\ l \in Backing /\ raw[l] \in Int /\ remaining[l] \in Nat /\ pending[l] \in Nat
          /\ direction[l] \in {"up", "down"}
          /\ remaining[l] > 0 => pending[l] > 0 /\ direction[l] = d
          /\ PositionAfter(l) = After(raw[l], direction[l], remaining[l])
      BY <1>5, PositionInt DEF PositionAfter
    <2>2. /\ pending'[l] = IF l \notin In \cup Near THEN pending[l]
                           ELSE IF pending[l] > 0 /\ direction[l] # d THEN 1 ELSE pending[l] + 1
          /\ remaining'[l] = IF l \in In \cup Near THEN remaining[l] + dist[l] ELSE remaining[l]
          /\ direction'[l] = IF l \in In \cup Near THEN d ELSE direction[l]
          /\ dist[l] = IF l \in In THEN 28 ELSE 56
      BY <1>1, <2>1, Numbers DEF AddAnim
    <2>3. raw'[l] = IF l \in In THEN edge ELSE IF l \in far THEN raw[l] + jump ELSE raw[l]
      BY <1>1, <2>1
    <2>4. PositionAfter(l)' = After(raw'[l], direction'[l], remaining'[l])
      BY DEF PositionAfter, After
    <2>5. end[l] = IF l \in In THEN After(edge, d, remaining[l] + 28)
                   ELSE IF l \in Near THEN After(raw[l], d, remaining[l] + 56)
                   ELSE PositionAfter(l) + jump
      BY Numbers
    <2> HIDE DEF end, dist
    <2>6. CASE l \in In
      <3>1. remaining[l] = 0 /\ After(edge, d, 28) = PositionAfter(l) + jump
        BY <2>6, Numbers
      <3>2. remaining'[l] = 28 /\ direction'[l] = d /\ raw'[l] = edge /\ pending'[l] > 0
        BY <2>1, <2>2, <2>3, <2>6, <3>1
      <3> QED BY <2>4, <2>5, <2>6, <3>1, <3>2
    <2>7. CASE l \notin In /\ l \in Near
      <3>1. /\ remaining'[l] = remaining[l] + 56 /\ direction'[l] = d /\ raw'[l] = raw[l]
            /\ pending'[l] > 0
        BY <1>4, <2>1, <2>2, <2>3, <2>7
      <3>2. After(raw[l], d, remaining[l] + 56) = PositionAfter(l) + jump
        BY <2>1 DEF After
      <3> QED BY <2>4, <2>5, <2>7, <3>1, <3>2
    <2>8. CASE l \notin In /\ l \notin Near
      <3>1. /\ remaining'[l] = remaining[l] /\ direction'[l] = direction[l]
            /\ raw'[l] = raw[l] + jump /\ pending'[l] = pending[l]
        BY <1>4, <2>2, <2>3, <2>8
      <3>2. After(raw[l] + jump, direction[l], remaining[l]) = PositionAfter(l) + jump
        BY <2>1 DEF After
      <3> QED BY <2>1, <2>4, <2>5, <2>8, <3>1, <3>2
    <2> QED BY <2>6, <2>7, <2>8
  <1>7. Out = Lowest(Leaving(d, jump))
    <2> DEFINE S == {l \in Lines :
                       IF d = "down" THEN end[l] + 10 >= Bottom /\ end[l] - OffsetY < Bottom
                       ELSE end[l] + OffsetY + 10 >= Top /\ end[l] < Top}
    <2>1. \A l \in Lines : end[l] = PositionAfter(l) + jump /\ PositionAfter(l) \in Int
      BY <1>5, <1>6, PositionInt
    <2> HIDE DEF end
    <2>2. S = Leaving(d, jump)
      BY <2>1, Numbers DEF Leaving
    <2> QED BY <2>2
  <1> HIDE DEF Out, end, dist
  <1>8. \A l \in Lines :
          /\ alpha'[l] = IF l \in Out \cup In THEN 1 ELSE alpha[l]
          /\ movingIn'[l] <=> l \notin Out /\ (l \in In \/ movingIn[l])
          /\ movingOut'[l] <=> l \in Out \/ (l \notin In /\ movingOut[l])
    BY <1>1, <1>5
  <1> QED BY <1>3, <1>6, <1>7, <1>8

\* Positions are in steps of a row: what a window of pixels says of a line.
LEMMA RowOf ==
  ASSUME NEW p \in Int, NEW j \in Int, p = Top + j * OffsetY
  PROVE  /\ p + 10 >= Bottom <=> j >= Rows
         /\ p - 66 < Bottom <=> j <= Rows + 1
         /\ p - 56 < Bottom <=> j <= Rows
         /\ p < Bottom + 46 <=> j <= Rows
         /\ p + 66 >= Top <=> j >= -1
         /\ p - 10 < Top <=> j <= 0
         /\ p < Top <=> j <= -1
         /\ p >= Top - 46 <=> j >= 0
         /\ p >= Bottom - 66 <=> j >= Rows - 1
         /\ p <= Top + 46 <=> j <= 0
         /\ p + 56 = Top + (j + 1) * OffsetY /\ p - 56 = Top + (j - 1) * OffsetY
  BY Numbers

\* grid_dispatch_navigate_down moves every line to the place of the next scroll
\* position; the line below the screen fades in, the one above it fades out.
LEMMA NavigateDownPlaces ==
  ASSUME BrowseTypes, GridInv, Shown, ~Pending("down"), NavigateDown, top' = top + 1,
         UNCHANGED nlines
  PROVE  \A l \in Lines : Placed(l)' /\ Lit(l)'
  <1> DEFINE S  == {l \in Lines : /\ PositionAfter(l) + 10 >= Bottom
                                  /\ PositionAfter(l) - OffsetY - 10 < Bottom}
             In == Lowest(S)
  <1>1. /\ Lines \subseteq Backing /\ Backing \subseteq Nat /\ top \in Nat /\ Rows \in Nat
        /\ Rows > 0 /\ Bottom \in Int /\ top + Rows \in Nat
        /\ \A l \in Lines : \A k \in Nat : k <= l => k \in Lines
    BY LinesAre, Numbers DEF BrowseTypes
  <1>2. ASSUME NEW l \in Lines
        PROVE  /\ l \in Nat /\ l - top \in Int /\ Placed(l) /\ Lit(l)
               /\ PositionAfter(l) \in Int
               /\ PositionAfter(l) = Top + (l - top) * OffsetY
               /\ remaining[l] \in Nat /\ direction[l] \in {"up", "down"}
    BY <1>1, PositionInt DEF GridInv, Placed
  <1>3. \A l \in Lines : l \in S <=> l >= top + Rows /\ l <= top + Rows + 1
    <2> SUFFICES ASSUME NEW l \in Lines
                 PROVE  l \in S <=> l >= top + Rows /\ l <= top + Rows + 1
      OBVIOUS
    <2>1. /\ PositionAfter(l) + 10 >= Bottom <=> l - top >= Rows
          /\ PositionAfter(l) - 66 < Bottom <=> l - top <= Rows + 1
      BY <1>2, RowOf
    <2>2. PositionAfter(l) - OffsetY - 10 = PositionAfter(l) - 66
      BY <1>2, Numbers
    <2>3. l \in S <=> l - top >= Rows /\ l - top <= Rows + 1
      BY <2>1, <2>2
    <2> QED BY <1>1, <1>2, <2>3
  <1>4. S \subseteq Lines
    OBVIOUS
  <1> HIDE DEF S
  <1>5. In \subseteq Lines /\ \A l \in Lines : l \in In <=> l = top + Rows
    <2>1. In \subseteq Lines
      BY <1>4 DEF Lowest
    <2>2. \A l \in Lines : l = top + Rows => l \in In
      BY <1>1, <1>2, <1>3, <1>4 DEF Lowest
    <2>3. ASSUME NEW l \in Lines, l \in In
          PROVE  l = top + Rows
      <3>1. l \in S /\ \A k \in S : l <= k
        BY <2>3 DEF Lowest
      <3>2. l >= top + Rows /\ top + Rows \in Lines
        BY <1>1, <1>2, <1>3, <3>1
      <3>3. top + Rows \in S
        BY <1>1, <1>3, <3>2
      <3> QED BY <1>1, <1>2, <3>1, <3>2, <3>3
    <2> QED BY <2>1, <2>2, <2>3
  <1>6. Dispatch("up", In, Bottom - Half, -OffsetY)
    BY DEF NavigateDown, S
  <1> HIDE DEF In
  <1>7. \A l \in Lines : remaining[l] > 0 => pending[l] > 0 /\ direction[l] = "up"
    BY <1>2 DEF Placed, Pending
  <1>8. \A l \in In : remaining[l] = 0
    BY <1>1, <1>2, <1>5, <1>7 DEF Placed
  <1>9. \A l \in In : After(Bottom - Half, "up", Half) = PositionAfter(l) + (-56)
    <2> SUFFICES ASSUME NEW l \in In
                 PROVE  After(Bottom - Half, "up", Half) = PositionAfter(l) + (-56)
      OBVIOUS
    <2>1. PositionAfter(l) = 104 + Rows * 56
      BY <1>1, <1>2, <1>5, Numbers
    <2> QED BY <2>1, Numbers DEF After
  <1>10. -OffsetY = -56 /\ -56 \in Int /\ Bottom - Half \in Int
    BY Numbers
  <1>11. /\ \A l \in Lines :
              /\ PositionAfter(l)' = PositionAfter(l) + (-56)
              /\ remaining'[l] > 0 => pending'[l] > 0 /\ direction'[l] = "up"
              /\ remaining'[l] > 0 =>
                   \/ remaining[l] > 0 \/ l \in In
                   \/ PositionAfter(l) < Bottom + 46 /\ PositionAfter(l) >= Top - 46
         /\ \E Out :
              /\ Out = Lowest(Leaving("up", -56))
              /\ \A l \in Lines :
                   /\ alpha'[l] = IF l \in Out \cup In THEN 1 ELSE alpha[l]
                   /\ movingIn'[l] <=> l \notin Out /\ (l \in In \/ movingIn[l])
                   /\ movingOut'[l] <=> l \in Out \/ (l \notin In /\ movingOut[l])
    BY <1>5, <1>6, <1>7, <1>8, <1>9, <1>10, DispatchPlaces
  <1>12. PICK Out : /\ Out = Lowest(Leaving("up", -56))
                    /\ \A l \in Lines :
                         /\ alpha'[l] = IF l \in Out \cup In THEN 1 ELSE alpha[l]
                         /\ movingIn'[l] <=> l \notin Out /\ (l \in In \/ movingIn[l])
                         /\ movingOut'[l] <=> l \in Out \/ (l \notin In /\ movingOut[l])
    BY <1>11
  <1>13. \A l \in Lines : l \in Leaving("up", -56) <=> l = top
    <2> SUFFICES ASSUME NEW l \in Lines
                 PROVE  l \in Leaving("up", -56) <=> l = top
      OBVIOUS
    <2>1. PositionAfter(l) + (-56) = Top + (l - top - 1) * OffsetY
      BY <1>1, <1>2, Numbers
    <2>2. /\ PositionAfter(l) + (-56) + 66 >= Top <=> l - top - 1 >= -1
          /\ PositionAfter(l) + (-56) < Top <=> l - top - 1 <= -1
      BY <1>1, <1>2, <2>1, RowOf
    <2> QED BY <1>1, <1>2, <2>2 DEF Leaving
  <1>14. \A l \in Lines : l \in Out <=> l = top
    <2>1. \A l : l \in Leaving("up", -56) <=> l \in Lines /\ l = top
      BY <1>13 DEF Leaving
    <2>2. \A l : l \in Out <=> l \in Leaving("up", -56) /\ \A k \in Leaving("up", -56) : l <= k
      BY <1>12 DEF Lowest
    <2> QED BY <1>1, <2>1, <2>2
  <1> SUFFICES ASSUME NEW l \in Lines
               PROVE  Placed(l)' /\ Lit(l)'
    OBVIOUS
  <1>15. Placed(l)'
    <2>1. PositionAfter(l)' = Top' + (l - top') * OffsetY'
      BY <1>1, <1>2, <1>11, Numbers DEF Top, OffsetY
    <2>2. remaining'[l] > 0 => l <= top + Rows
      <3>1. PositionAfter(l) < Bottom + 46 <=> l - top <= Rows
        BY <1>2, RowOf
      <3>2. remaining[l] > 0 => l < top + Rows
        BY <1>2, <1>7 DEF Placed
      <3> QED BY <1>1, <1>2, <1>5, <1>11, <3>1, <3>2
    <2> QED BY <1>1, <1>2, <1>11, <2>1, <2>2 DEF Placed
  <1>16. Lit(l)'
    <2>1. /\ alpha'[l] = IF l = top \/ l = top + Rows THEN 1 ELSE alpha[l]
          /\ movingIn'[l] <=> l # top /\ (l = top + Rows \/ movingIn[l])
          /\ movingOut'[l] <=> l = top \/ (l # top + Rows /\ movingOut[l])
      BY <1>5, <1>12, <1>14
    <2>2. l \in top' .. (top' + Rows - 1) <=> l >= top + 1 /\ l <= top + Rows
      BY <1>1, <1>2
    <2>3. l \in top .. (top + Rows - 1) <=> l >= top /\ l < top + Rows
      BY <1>1, <1>2
    <2>4. CASE l = top
      BY <1>1, <2>1, <2>2, <2>4 DEF Lit
    <2>5. CASE l = top + Rows
      BY <1>1, <2>1, <2>2, <2>5 DEF Lit
    <2>6. CASE l # top /\ l # top + Rows
      <3>1. l \in top' .. (top' + Rows - 1) <=> l \in top .. (top + Rows - 1)
        BY <1>1, <1>2, <2>2, <2>3, <2>6
      <3>2. /\ alpha'[l] = alpha[l] /\ (movingIn'[l] <=> movingIn[l])
            /\ (movingOut'[l] <=> movingOut[l])
        BY <2>1, <2>6
      <3> QED BY <1>2, <3>1, <3>2 DEF Lit
    <2> QED BY <2>4, <2>5, <2>6
  <1> QED BY <1>15, <1>16

\* grid_dispatch_navigate_up, the other way: the line above the screen fades in, the
\* last line on it fades out.
LEMMA NavigateUpPlaces ==
  ASSUME BrowseTypes, GridInv, Shown, ~Pending("up"), NavigateUp, top # 0, top' = top - 1,
         UNCHANGED nlines
  PROVE  \A l \in Lines : Placed(l)' /\ Lit(l)'
  <1> DEFINE S  == {l \in Lines : /\ PositionAfter(l) + OffsetY + 10 >= Top
                                  /\ PositionAfter(l) - 10 < Top}
             In == Lowest(S)
  <1>1. /\ Lines \subseteq Backing /\ Backing \subseteq Nat /\ top \in Nat /\ Rows \in Nat
        /\ Rows > 0 /\ Bottom \in Int /\ top - 1 \in Nat
        /\ \A l \in Lines : \A k \in Nat : k <= l => k \in Lines
    BY LinesAre, Numbers DEF BrowseTypes
  <1>2. ASSUME NEW l \in Lines
        PROVE  /\ l \in Nat /\ l - top \in Int /\ Placed(l) /\ Lit(l)
               /\ PositionAfter(l) \in Int
               /\ PositionAfter(l) = Top + (l - top) * OffsetY
               /\ remaining[l] \in Nat /\ direction[l] \in {"up", "down"}
    BY <1>1, PositionInt DEF GridInv, Placed
  <1>3. \A l \in Lines : l \in S <=> l >= top - 1 /\ l <= top
    <2> SUFFICES ASSUME NEW l \in Lines
                 PROVE  l \in S <=> l >= top - 1 /\ l <= top
      OBVIOUS
    <2>1. /\ PositionAfter(l) + 66 >= Top <=> l - top >= -1
          /\ PositionAfter(l) - 10 < Top <=> l - top <= 0
      BY <1>2, RowOf
    <2>2. PositionAfter(l) + OffsetY + 10 = PositionAfter(l) + 66
      BY <1>2, Numbers
    <2>3. l \in S <=> l - top >= -1 /\ l - top <= 0
      BY <2>1, <2>2
    <2> QED BY <1>1, <1>2, <2>3
  <1>4. S \subseteq Lines
    OBVIOUS
  <1> HIDE DEF S
  <1>5. In \subseteq Lines /\ \A l \in Lines : l \in In <=> l = top - 1
    <2>1. In \subseteq Lines
      BY <1>4 DEF Lowest
    <2>2. \A l \in Lines : l = top - 1 => l \in In
      BY <1>1, <1>2, <1>3, <1>4 DEF Lowest
    <2>3. ASSUME NEW l \in Lines, l \in In
          PROVE  l = top - 1
      <3>1. l \in S /\ \A k \in S : l <= k
        BY <2>3 DEF Lowest
      <3>2. l >= top - 1 /\ top - 1 \in Lines
        BY <1>1, <1>2, <1>3, <3>1
      <3>3. top - 1 \in S
        BY <1>1, <1>3, <3>2
      <3> QED BY <1>1, <1>2, <3>1, <3>2, <3>3
    <2> QED BY <2>1, <2>2, <2>3
  <1>6. Dispatch("down", In, Top - Half, OffsetY)
    BY DEF NavigateUp, S
  <1> HIDE DEF In
  <1>7. \A l \in Lines : remaining[l] > 0 => pending[l] > 0 /\ direction[l] = "down"
    BY <1>2 DEF Placed, Pending
  <1>8. \A l \in In : remaining[l] = 0
    BY <1>1, <1>2, <1>5, <1>7 DEF Placed
  <1>9. \A l \in In : After(Top - Half, "down", Half) = PositionAfter(l) + 56
    <2> SUFFICES ASSUME NEW l \in In
                 PROVE  After(Top - Half, "down", Half) = PositionAfter(l) + 56
      OBVIOUS
    <2>1. PositionAfter(l) = 104 - 56
      BY <1>1, <1>2, <1>5, Numbers
    <2> QED BY <2>1, Numbers DEF After
  <1>10. /\ OffsetY = 56 /\ 56 \in Int /\ Top - Half \in Int
         /\ 56 = IF "down" = "up" THEN -56 ELSE 56
         /\ Dispatch("down", In, Top - Half, 56)
    BY <1>6, Numbers
  <1>11. /\ \A l \in Lines :
              /\ PositionAfter(l)' = PositionAfter(l) + 56
              /\ remaining'[l] > 0 => pending'[l] > 0 /\ direction'[l] = "down"
              /\ remaining'[l] > 0 =>
                   \/ remaining[l] > 0 \/ l \in In
                   \/ PositionAfter(l) < Bottom + 46 /\ PositionAfter(l) >= Top - 46
         /\ \E Out :
              /\ Out = Lowest(Leaving("down", 56))
              /\ \A l \in Lines :
                   /\ alpha'[l] = IF l \in Out \cup In THEN 1 ELSE alpha[l]
                   /\ movingIn'[l] <=> l \notin Out /\ (l \in In \/ movingIn[l])
                   /\ movingOut'[l] <=> l \in Out \/ (l \notin In /\ movingOut[l])
    BY <1>5, <1>7, <1>8, <1>9, <1>10, DispatchPlaces
  <1>12. PICK Out : /\ Out = Lowest(Leaving("down", 56))
                    /\ \A l \in Lines :
                         /\ alpha'[l] = IF l \in Out \cup In THEN 1 ELSE alpha[l]
                         /\ movingIn'[l] <=> l \notin Out /\ (l \in In \/ movingIn[l])
                         /\ movingOut'[l] <=> l \in Out \/ (l \notin In /\ movingOut[l])
    BY <1>11
  <1>13. \A l \in Lines : l \in Leaving("down", 56) <=> l = top - 1 + Rows
    <2> SUFFICES ASSUME NEW l \in Lines
                 PROVE  l \in Leaving("down", 56) <=> l = top - 1 + Rows
      OBVIOUS
    <2>1. /\ PositionAfter(l) + 56 + 10 >= Bottom <=> l - top + 1 >= Rows
          /\ PositionAfter(l) + 56 - 56 < Bottom <=> l - top + 1 <= Rows
      <3>1. /\ PositionAfter(l) \in Int /\ l - top \in Int
            /\ PositionAfter(l) = 104 + (l - top) * 56 /\ Bottom = 104 + Rows * 56
            /\ Rows \in Int /\ l \in Int /\ top \in Int
        BY <1>1, <1>2, Numbers
      <3> QED BY <3>1
    <2> QED BY <1>1, <1>2, <2>1 DEF Leaving
  <1>14. \A l \in Lines : l \in Out <=> l = top - 1 + Rows
    <2>1. \A l : l \in Leaving("down", 56) <=> l \in Lines /\ l = top - 1 + Rows
      BY <1>13 DEF Leaving
    <2>2. \A l : l \in Out <=> l \in Leaving("down", 56) /\ \A k \in Leaving("down", 56) : l <= k
      BY <1>12 DEF Lowest
    <2> QED BY <1>1, <2>1, <2>2
  <1> SUFFICES ASSUME NEW l \in Lines
               PROVE  Placed(l)' /\ Lit(l)'
    OBVIOUS
  <1>15. Placed(l)'
    <2>1. PositionAfter(l)' = Top' + (l - top') * OffsetY'
      BY <1>1, <1>2, <1>11, Numbers DEF Top, OffsetY
    <2>2. remaining'[l] > 0 => l >= top - 1
      <3>1. PositionAfter(l) >= Top - 46 <=> l - top >= 0
        BY <1>2, RowOf
      <3>2. remaining[l] > 0 => l >= top
        BY <1>2, <1>7 DEF Placed
      <3> QED BY <1>1, <1>2, <1>5, <1>11, <3>1, <3>2
    <2> QED BY <1>1, <1>2, <1>11, <2>1, <2>2 DEF Placed
  <1>16. Lit(l)'
    <2>1. /\ alpha'[l] = IF l = top - 1 + Rows \/ l = top - 1 THEN 1 ELSE alpha[l]
          /\ movingIn'[l] <=> l # top - 1 + Rows /\ (l = top - 1 \/ movingIn[l])
          /\ movingOut'[l] <=> l = top - 1 + Rows \/ (l # top - 1 /\ movingOut[l])
      BY <1>5, <1>12, <1>14
    <2>2. l \in top' .. (top' + Rows - 1) <=> l >= top - 1 /\ l < top - 1 + Rows
      BY <1>1, <1>2
    <2>3. l \in top .. (top + Rows - 1) <=> l >= top /\ l < top + Rows
      BY <1>1, <1>2
    <2>4. CASE l = top - 1
      BY <1>1, <2>1, <2>2, <2>4 DEF Lit
    <2>5. CASE l = top - 1 + Rows
      BY <1>1, <2>1, <2>2, <2>5 DEF Lit
    <2>6. CASE l # top - 1 /\ l # top - 1 + Rows
      <3>1. l \in top' .. (top' + Rows - 1) <=> l \in top .. (top + Rows - 1)
        BY <1>1, <1>2, <2>2, <2>3, <2>6
      <3>2. /\ alpha'[l] = alpha[l] /\ (movingIn'[l] <=> movingIn[l])
            /\ (movingOut'[l] <=> movingOut[l])
        BY <2>1, <2>6
      <3> QED BY <1>2, <3>1, <3>2 DEF Lit
    <2> QED BY <2>4, <2>5, <2>6
  <1> QED BY <1>15, <1>16

\* Whatever is listed, the two dispatch functions leave browser_lines well-formed.
LEMMA DispatchTyped ==
  ASSUME BrowseTypes, NEW d \in {"up", "down"}, NEW In, NEW edge \in Int, NEW jump \in Int,
         Dispatch(d, In, edge, jump)
  PROVE  /\ raw' \in [Backing -> Int] /\ remaining' \in [Backing -> Nat]
         /\ direction' \in [Backing -> {"up", "down"}] /\ pending' \in [Backing -> Nat]
         /\ alpha' \in [Backing -> 0 .. 2]
         /\ movingIn' \in [Backing -> BOOLEAN] /\ movingOut' \in [Backing -> BOOLEAN]
  <1>1. PICK far, Out, Near :
          /\ AddAnim(In \cup Near, d, [l \in Backing |-> IF l \in In THEN Half ELSE OffsetY])
          /\ raw' = [l \in Backing |-> IF l \in In THEN edge
                                       ELSE IF l \in far THEN raw[l] + jump ELSE raw[l]]
          /\ alpha' = [l \in Backing |-> IF l \in Out \cup In THEN 1 ELSE alpha[l]]
          /\ movingIn' = [l \in Backing |-> l \notin Out /\ (l \in In \/ movingIn[l])]
          /\ movingOut' = [l \in Backing |-> l \in Out \/ (l \notin In /\ movingOut[l])]
    BY DEF Dispatch
  <1>2. \A l \in Backing : /\ raw[l] \in Int /\ remaining[l] \in Nat /\ pending[l] \in Nat
                           /\ direction[l] \in {"up", "down"} /\ alpha[l] \in 0 .. 2
    BY PositionInt
  <1>3. raw' \in [Backing -> Int]
    BY <1>1, <1>2
  <1>4. alpha' \in [Backing -> 0 .. 2]
    BY <1>1, <1>2
  <1>5. movingIn' \in [Backing -> BOOLEAN] /\ movingOut' \in [Backing -> BOOLEAN]
    BY <1>1
  <1>6. remaining' \in [Backing -> Nat]
    <2> DEFINE dist == [l \in Backing |-> IF l \in In THEN Half ELSE OffsetY]
    <2>1. \A l \in Backing : dist[l] \in Nat
      BY Numbers
    <2>2. remaining' = [l \in Backing |-> IF l \in In \cup Near THEN remaining[l] + dist[l]
                                          ELSE remaining[l]]
      BY <1>1 DEF AddAnim
    <2> HIDE DEF dist
    <2> QED BY <1>2, <2>1, <2>2
  <1>7. pending' \in [Backing -> Nat]
    <2>1. pending' = [l \in Backing |-> IF l \notin In \cup Near THEN pending[l]
                                        ELSE IF pending[l] > 0 /\ direction[l] # d THEN 1
                                        ELSE pending[l] + 1]
      BY <1>1 DEF AddAnim
    <2> QED BY <1>2, <2>1
  <1>8. direction' \in [Backing -> {"up", "down"}]
    BY <1>1, <1>2 DEF AddAnim
  <1> QED BY <1>3, <1>4, <1>5, <1>6, <1>7, <1>8

-----------------------------------------------------------------------------
(* The actions. *)

\* The lines stay where they are while the grid does.
LEMMA GridStays ==
  ASSUME GridInv, UNCHANGED <<grid, top, nlines, stage>>
  PROVE  GridInv'
  BY DEF GridInv, Shown, Lines, Placed, Lit, PositionAfter, grid, Top, OffsetY

\* A step to the side stays in the line, a step of a line changes only the line.
LEMMA Slots ==
  ASSUME NEW n \in Int
  PROVE  /\ n \div PerLine \in Int
         /\ n % PerLine # PerLine - 1 => (n + 1) \div PerLine = n \div PerLine
         /\ n % PerLine # 0 => (n - 1) \div PerLine = n \div PerLine
         /\ (n + PerLine) \div PerLine = n \div PerLine + 1
         /\ (n - PerLine) \div PerLine = n \div PerLine - 1
  <1> DEFINE q == n \div PerLine
             r == n % PerLine
  <1>1. q \in Int /\ r \in 0 .. (PerLine - 1) /\ n = PerLine * q + r
    BY SlotOf
  <1> HIDE DEF q, r
  <1>2. PerLine \in Nat /\ PerLine > 0
    BY Numbers
  <1>3. ASSUME r # PerLine - 1
        PROVE  (n + 1) \div PerLine = q
    <2>1. n + 1 \in Int /\ r + 1 \in 0 .. (PerLine - 1) /\ n + 1 = PerLine * q + (r + 1)
      BY <1>1, <1>2, <1>3
    <2> QED BY <1>1, <2>1, LineAndColumn
  <1>4. ASSUME r # 0
        PROVE  (n - 1) \div PerLine = q
    <2>1. n - 1 \in Int /\ r - 1 \in 0 .. (PerLine - 1) /\ n - 1 = PerLine * q + (r - 1)
      BY <1>1, <1>2, <1>4
    <2> QED BY <1>1, <2>1, LineAndColumn
  <1>5. (n + PerLine) \div PerLine = q + 1
    <2>1. n + PerLine \in Int /\ q + 1 \in Int /\ n + PerLine = PerLine * (q + 1) + r
      BY <1>1, <1>2
    <2> QED BY <1>1, <2>1, LineAndColumn
  <1>6. (n - PerLine) \div PerLine = q - 1
    <2>1. n - PerLine \in Int /\ q - 1 \in Int /\ n - PerLine = PerLine * (q - 1) + r
      BY <1>1, <1>2
    <2> QED BY <1>1, <2>1, LineAndColumn
  <1> QED BY <1>1, <1>3, <1>4, <1>5, <1>6 DEF q, r

\* The right and the left key.
LEMMA SidePreserves ==
  ASSUME BrowseInv, MoveRight \/ MoveLeft
  PROVE  BrowseInv'
  <1>1. /\ UNCHANGED <<grid, top, nlines, listed, stage>> /\ selected \in Int
        /\ selected' \in Int /\ SelLine' = SelLine
    BY Slots DEF MoveRight, MoveLeft, BrowseInv, BrowseTypes, SelLine
  <1>2. BrowseTypes'
    BY <1>1 DEF BrowseInv, BrowseTypes, grid
  <1>3. GridInv'
    BY <1>1, GridStays DEF BrowseInv
  <1>4. SizeInv' /\ SelInv'
    BY <1>1 DEF BrowseInv, SizeInv, SelInv, Shown, GridLines
  <1> QED BY <1>2, <1>3, <1>4 DEF BrowseInv

\* The selected line of a list of games is one of the grid, at its place.
LEMMA SelectedPlaced ==
  ASSUME BrowseInv, AllValid, Shown
  PROVE  /\ SelLine \in Lines /\ SelLine \in Int /\ top \in Nat
         /\ PositionAfter(SelLine) >= Bottom - OffsetY - 10 <=> SelLine = top + Rows - 1
         /\ PositionAfter(SelLine) <= Top + OffsetY - 10 <=> SelLine = top
  <1>1. /\ selected \in Int /\ top \in Nat /\ nlines \in Nat /\ nlines <= MaxLines
        /\ top + Rows <= nlines /\ top <= SelLine /\ SelLine < top + Rows
    BY DEF BrowseInv, BrowseTypes, SelInv
  <1>2. SelLine \in Int
    BY <1>1, Slots DEF SelLine
  <1>3. SelLine \in Lines
    BY <1>1, <1>2, Numbers DEF Lines, Backing
  <1>4. /\ PositionAfter(SelLine) \in Int
        /\ PositionAfter(SelLine) = Top + (SelLine - top) * OffsetY
    BY <1>3, LinesAre, PositionInt DEF BrowseInv, GridInv, Placed
  <1>5. /\ PositionAfter(SelLine) >= Bottom - 66 <=> SelLine - top >= Rows - 1
        /\ PositionAfter(SelLine) <= Top + 46 <=> SelLine - top <= 0
    BY <1>1, <1>2, <1>4, RowOf
  <1>6. Bottom - OffsetY - 10 = Bottom - 66 /\ Top + OffsetY - 10 = Top + 46
    BY Numbers
  <1>7. /\ SelLine - top >= Rows - 1 <=> SelLine = top + Rows - 1
        /\ SelLine - top <= 0 <=> SelLine = top
    BY <1>1, <1>2, Numbers
  <1> QED BY <1>1, <1>2, <1>3, <1>5, <1>6, <1>7

\* The down key.
LEMMA MoveDownPreserves ==
  ASSUME BrowseInv, MoveDown
  PROVE  BrowseInv'
  <1>1. /\ UNCHANGED <<nlines, listed, stage>> /\ selected' = selected + PerLine
        /\ selected \in Int /\ top \in Nat /\ ~DownRefused
    BY DEF MoveDown, BrowseInv, BrowseTypes
  <1>2. \/ /\ PositionAfter(SelLine) >= Bottom - OffsetY - 10
           /\ ~Pending("down") /\ NavigateDown /\ top' = top + 1
        \/ /\ ~(PositionAfter(SelLine) >= Bottom - OffsetY - 10)
           /\ UNCHANGED <<grid, top>>
    BY DEF MoveDown
  <1>3. BrowseTypes'
    <2>1. CASE NavigateDown /\ top' = top + 1
      <3>1. PICK In : Dispatch("up", In, Bottom - Half, -OffsetY)
        BY <2>1 DEF NavigateDown
      <3>2. Bottom - Half \in Int /\ -OffsetY \in Int
        BY Numbers
      <3>3. BrowseTypes
        BY DEF BrowseInv
      <3>4. /\ raw' \in [Backing -> Int] /\ remaining' \in [Backing -> Nat]
            /\ direction' \in [Backing -> {"up", "down"}] /\ pending' \in [Backing -> Nat]
            /\ alpha' \in [Backing -> 0 .. 2]
            /\ movingIn' \in [Backing -> BOOLEAN] /\ movingOut' \in [Backing -> BOOLEAN]
        BY <3>1, <3>2, <3>3, DispatchTyped
      <3> QED BY <1>1, <2>1, <3>3, <3>4, Numbers DEF BrowseTypes
    <2>2. CASE UNCHANGED <<grid, top>>
      BY <1>1, <2>2, Numbers DEF BrowseInv, BrowseTypes, grid
    <2> QED BY <1>2, <2>1, <2>2
  <1>4. GridInv'
    <2>1. CASE UNCHANGED <<grid, top>>
      BY <1>1, <2>1, GridStays DEF BrowseInv
    <2>2. CASE Shown /\ ~Pending("down") /\ NavigateDown /\ top' = top + 1
      <3>1. \A l \in Lines : Placed(l)' /\ Lit(l)'
        BY <1>1, <2>2, NavigateDownPlaces DEF BrowseInv
      <3>2. Lines' = Lines
        BY <1>1 DEF Lines
      <3> QED BY <3>1, <3>2 DEF GridInv
    <2>3. CASE ~Shown
      BY <1>1, <2>3 DEF GridInv, Shown
    <2> QED BY <1>2, <2>1, <2>2, <2>3
  <1>5. SizeInv'
    BY <1>1 DEF BrowseInv, SizeInv, GridLines
  <1>6. SelInv'
    <2> SUFFICES ASSUME AllValid, Shown
                 PROVE  /\ nlines <= MaxLines /\ top' + Rows <= nlines
                        /\ top' <= SelLine' /\ SelLine' < top' + Rows
      BY <1>1 DEF SelInv, Shown
    <2>1. /\ nlines \in Nat /\ nlines <= MaxLines /\ top + Rows <= nlines
          /\ top <= SelLine /\ SelLine < top + Rows
      BY DEF BrowseInv, BrowseTypes, SelInv
    <2>2. SelLine' = SelLine + 1 /\ SelLine \in Int
      BY <1>1, Slots DEF SelLine
    <2>3. CASE SelLine = top + Rows - 1
      <3>1. top' = top + 1
        BY <1>2, <2>3, SelectedPlaced
      <3>2. ASSUME nlines = top + Rows
            PROVE  FALSE
        <4>1. selected = PerLine * SelLine + (selected % PerLine)
              /\ selected % PerLine \in 0 .. (PerLine - 1)
          BY <1>1, SlotOf DEF SelLine
        <4>2. SelLine = nlines - 1
          BY <1>1, <2>1, <2>3, <3>2, Numbers
        <4>3. selected + PerLine = PerLine * nlines + (selected % PerLine)
          BY <2>1, <4>1, <4>2, Numbers, SMT
        <4>4. selected + PerLine > nlines * PerLine - 1
          BY <2>1, <4>1, <4>3, Numbers, SMT
        <4>5. nlines - top = Rows
          BY <1>1, <3>2, Numbers
        <4> QED BY <1>1, <4>4, <4>5 DEF DownRefused
      <3> QED BY <1>1, <2>1, <2>2, <2>3, <3>1, <3>2, Numbers
    <2>4. CASE SelLine # top + Rows - 1
      <3>1. top' = top
        BY <1>2, <2>4, SelectedPlaced
      <3> QED BY <1>1, <2>1, <2>2, <2>4, <3>1, Numbers
    <2> QED BY <2>3, <2>4
  <1> QED BY <1>3, <1>4, <1>5, <1>6 DEF BrowseInv

\* The up key.
LEMMA MoveUpPreserves ==
  ASSUME BrowseInv, MoveUp
  PROVE  BrowseInv'
  <1>1. /\ UNCHANGED <<nlines, listed, stage>> /\ selected' = selected - PerLine
        /\ selected \in Int /\ top \in Nat /\ ~(top = 0 /\ selected - PerLine < 0)
    BY DEF MoveUp, BrowseInv, BrowseTypes
  <1>2. \/ /\ top # 0 /\ PositionAfter(SelLine) <= Top + OffsetY - 10
           /\ ~Pending("up") /\ NavigateUp /\ top' = top - 1
        \/ /\ ~(top # 0 /\ PositionAfter(SelLine) <= Top + OffsetY - 10)
           /\ UNCHANGED <<grid, top>>
    BY DEF MoveUp
  <1>3. BrowseTypes'
    <2>1. CASE NavigateUp /\ top # 0 /\ top' = top - 1
      <3>1. PICK In : Dispatch("down", In, Top - Half, OffsetY)
        BY <2>1 DEF NavigateUp
      <3>2. Top - Half \in Int /\ OffsetY \in Int
        BY Numbers
      <3>3. BrowseTypes
        BY DEF BrowseInv
      <3>4. /\ raw' \in [Backing -> Int] /\ remaining' \in [Backing -> Nat]
            /\ direction' \in [Backing -> {"up", "down"}] /\ pending' \in [Backing -> Nat]
            /\ alpha' \in [Backing -> 0 .. 2]
            /\ movingIn' \in [Backing -> BOOLEAN] /\ movingOut' \in [Backing -> BOOLEAN]
        BY <3>1, <3>2, <3>3, DispatchTyped
      <3> QED BY <1>1, <2>1, <3>3, <3>4, Numbers DEF BrowseTypes
    <2>2. CASE UNCHANGED <<grid, top>>
      BY <1>1, <2>2, Numbers DEF BrowseInv, BrowseTypes, grid
    <2> QED BY <1>2, <2>1, <2>2
  <1>4. GridInv'
    <2>1. CASE UNCHANGED <<grid, top>>
      BY <1>1, <2>1, GridStays DEF BrowseInv
    <2>2. CASE Shown /\ ~Pending("up") /\ NavigateUp /\ top # 0 /\ top' = top - 1
      <3>1. \A l \in Lines : Placed(l)' /\ Lit(l)'
        BY <1>1, <2>2, NavigateUpPlaces DEF BrowseInv
      <3>2. Lines' = Lines
        BY <1>1 DEF Lines
      <3> QED BY <3>1, <3>2 DEF GridInv
    <2>3. CASE ~Shown
      BY <1>1, <2>3 DEF GridInv, Shown
    <2> QED BY <1>2, <2>1, <2>2, <2>3
  <1>5. SizeInv'
    BY <1>1 DEF BrowseInv, SizeInv, GridLines
  <1>6. SelInv'
    <2> SUFFICES ASSUME AllValid, Shown
                 PROVE  /\ nlines <= MaxLines /\ top' + Rows <= nlines
                        /\ top' <= SelLine' /\ SelLine' < top' + Rows
      BY <1>1 DEF SelInv, Shown
    <2>1. /\ nlines \in Nat /\ nlines <= MaxLines /\ top + Rows <= nlines
          /\ top <= SelLine /\ SelLine < top + Rows
      BY DEF BrowseInv, BrowseTypes, SelInv
    <2>2. SelLine' = SelLine - 1 /\ SelLine \in Int
      BY <1>1, Slots DEF SelLine
    <2>3. CASE top # 0 /\ SelLine = top
      <3>1. top' = top - 1
        BY <1>2, <2>3, SelectedPlaced
      <3> QED BY <1>1, <2>1, <2>2, <2>3, <3>1, Numbers
    <2>4. CASE top = 0 \/ SelLine # top
      <3>1. top' = top
        BY <1>2, <2>4, SelectedPlaced
      <3>2. top # 0 => SelLine - 1 >= top
        BY <1>1, <2>1, <2>2, <2>4
      <3>3. top = 0 => SelLine # 0
        <4> SUFFICES ASSUME top = 0, SelLine = 0
                     PROVE  FALSE
          OBVIOUS
        <4>1. selected = PerLine * SelLine + (selected % PerLine)
              /\ selected % PerLine \in 0 .. (PerLine - 1)
          BY <1>1, SlotOf DEF SelLine
        <4> QED BY <1>1, <4>1, Numbers
      <3> QED BY <1>1, <2>1, <2>2, <3>1, <3>2, <3>3, Numbers
    <2> QED BY <2>3, <2>4
  <1> QED BY <1>3, <1>4, <1>5, <1>6 DEF BrowseInv

\* A frame brings a line nearer to the place it was going to.
LEMMA TickPreserves ==
  ASSUME BrowseInv, Tick
  PROVE  BrowseInv'
  <1> DEFINE left == [l \in Backing |-> IF remaining[l] > Step THEN remaining[l] - Step ELSE 0]
  <1>1. /\ UNCHANGED <<direction, movingIn, selected, top, nlines, listed, stage>>
        /\ remaining' = [l \in Backing |-> IF l \in Moving THEN left[l] ELSE remaining[l]]
        /\ raw' = [l \in Backing |-> IF l \in Moving
                     THEN After(raw[l], direction[l], remaining[l] - left[l]) ELSE raw[l]]
        /\ pending' = TickPending
    BY DEF Tick
  <1>2. PICK F \in {Fading, {}} :
          /\ alpha' = TickAlpha(F)
          /\ movingOut' = [l \in Backing |-> movingOut[l] /\ ~(l \in F /\ alpha[l] <= 1)]
    BY DEF Tick
  <1>3. ASSUME NEW l \in Backing
        PROVE  /\ raw[l] \in Int /\ remaining[l] \in Nat /\ pending[l] \in Nat
               /\ direction[l] \in {"up", "down"} /\ alpha[l] \in 0 .. 2
               /\ movingIn[l] \in BOOLEAN /\ movingOut[l] \in BOOLEAN
               /\ left[l] = IF remaining[l] > Step THEN remaining[l] - Step ELSE 0
               /\ left[l] \in Nat
               /\ l \in Moving => pending[l] > 0
               /\ l \in F => alpha[l] < 2 /\ (movingIn[l] \/ movingOut[l])
    <2>1. l \in F => l \in Fading
      BY <1>2
    <2>2. l \in F => alpha[l] < 2 /\ (movingIn[l] \/ movingOut[l])
      BY <2>1 DEF Fading
    <2>3. l \in Moving => pending[l] > 0
      BY DEF Moving
    <2> QED BY <2>2, <2>3, PositionInt, Numbers DEF BrowseInv
  <1> HIDE DEF left
  <1>4. ASSUME NEW l \in Backing
        PROVE  /\ remaining'[l] = IF l \in Moving THEN left[l] ELSE remaining[l]
               /\ raw'[l] = IF l \in Moving
                     THEN After(raw[l], direction[l], remaining[l] - left[l]) ELSE raw[l]
               /\ pending'[l] = IF l \in Moving /\ remaining[l] <= Step
                                THEN pending[l] - 1 ELSE pending[l]
               /\ alpha'[l] = IF l \notin F THEN alpha[l]
                              ELSE IF movingIn[l] THEN alpha[l] + 1
                              ELSE IF alpha[l] > 0 THEN alpha[l] - 1 ELSE 0
               /\ movingOut'[l] <=> movingOut[l] /\ ~(l \in F /\ alpha[l] <= 1)
    BY <1>1, <1>2 DEF TickPending, TickAlpha
  <1>5. BrowseTypes'
    <2>1. remaining' \in [Backing -> Nat]
      BY <1>1, <1>3
    <2>2. raw' \in [Backing -> Int]
      <3>1. \A l \in Backing : After(raw[l], direction[l], remaining[l] - left[l]) \in Int
        BY <1>3 DEF After
      <3> QED BY <1>1, <1>3, <3>1
    <2>3. pending' \in [Backing -> Nat]
      <3>1. pending' = [l \in Backing |-> IF l \in Moving /\ remaining[l] <= Step
                                          THEN pending[l] - 1 ELSE pending[l]]
        BY <1>1 DEF TickPending
      <3> QED BY <1>3, <3>1
    <2>4. alpha' \in [Backing -> 0 .. 2]
      <3>1. alpha' = [l \in Backing |-> IF l \notin F THEN alpha[l]
                              ELSE IF movingIn[l] THEN alpha[l] + 1
                              ELSE IF alpha[l] > 0 THEN alpha[l] - 1 ELSE 0]
        BY <1>2 DEF TickAlpha
      <3> QED BY <1>3, <3>1
    <2>5. movingOut' \in [Backing -> BOOLEAN]
      BY <1>2
    <2> QED BY <1>1, <2>1, <2>2, <2>3, <2>4, <2>5 DEF BrowseInv, BrowseTypes
  <1>6. GridInv'
    <2> SUFFICES ASSUME Shown, NEW l \in Lines
                 PROVE  Placed(l)' /\ Lit(l)'
      BY <1>1 DEF GridInv, Shown, Lines
    <2>1. l \in Backing /\ Placed(l) /\ Lit(l)
      BY DEF BrowseInv, GridInv, Lines
    <2>2. pending[l] > 0 => l \in Moving
      BY DEF Moving
    <2>3. Placed(l)'
      <3>1. PositionAfter(l)' = PositionAfter(l)
        <4>1. PositionAfter(l)' = After(raw'[l], direction[l], remaining'[l])
          BY <1>1 DEF PositionAfter, After
        <4>2. CASE l \in Moving
          BY <1>3, <1>4, <2>1, <4>1, <4>2 DEF PositionAfter, After
        <4>3. CASE l \notin Moving
          BY <1>4, <2>1, <4>1, <4>3 DEF PositionAfter
        <4> QED BY <4>2, <4>3
      <3>2. remaining'[l] > 0 => remaining[l] > 0 /\ pending'[l] > 0
        BY <1>3, <1>4, <2>1, <2>2, Numbers DEF Placed
      <3> QED BY <1>1, <2>1, <3>1, <3>2 DEF Placed, Top, OffsetY
    <2>4. Lit(l)'
      <3>1. CASE l \in top .. (top + Rows - 1)
        BY <1>1, <1>3, <1>4, <2>1, <3>1 DEF Lit
      <3>2. CASE l \notin top .. (top + Rows - 1)
        BY <1>1, <1>3, <1>4, <2>1, <3>2 DEF Lit
      <3> QED BY <3>1, <3>2
    <2> QED BY <2>3, <2>4
  <1>7. SizeInv' /\ SelInv'
    BY <1>1 DEF BrowseInv, SizeInv, SelInv, Shown, GridLines, SelLine
  <1> QED BY <1>5, <1>6, <1>7 DEF BrowseInv

\* Another directory: nothing is shown until its grid has been set up.
LEMMA ChangeDirectoryPreserves ==
  ASSUME BrowseInv, ChangeDirectory
  PROVE  BrowseInv'
  <1>1. BrowseTypes'
    BY DEF ChangeDirectory, BrowseInv, BrowseTypes, grid
  <1>2. GridInv' /\ SizeInv' /\ SelInv'
    BY DEF ChangeDirectory, GridInv, SizeInv, SelInv, Shown
  <1> QED BY <1>1, <1>2 DEF BrowseInv

\* The listing gives the grid its size.
LEMMA ListedPreserves ==
  ASSUME BrowseInv, NEW n \in 0 .. (MaxLines * PerLine), Listed(n)
  PROVE  BrowseInv'
  <1>1. GridLines(n) \in Nat
    BY GridLinesMono, Numbers
  <1>2. BrowseTypes'
    BY <1>1 DEF Listed, BrowseInv, BrowseTypes, grid
  <1>3. GridInv' /\ SizeInv' /\ SelInv'
    BY DEF Listed, GridInv, SizeInv, SelInv, Shown, GridLines
  <1> QED BY <1>2, <1>3 DEF BrowseInv

\* grid_setup_func puts every line at its place.
LEMMA SetupGridPreserves ==
  ASSUME BrowseInv, SetupGrid
  PROVE  BrowseInv'
  <1>1. \A l \in Backing : l \in Nat
    BY Numbers DEF Backing
  <1>2. BrowseTypes'
    <2>1. raw' \in [Backing -> Int]
      BY <1>1, Numbers DEF SetupGrid
    <2>2. alpha' \in [Backing -> 0 .. 2]
      BY DEF SetupGrid
    <2> QED BY <2>1, <2>2 DEF SetupGrid, BrowseInv, BrowseTypes
  <1>3. GridInv'
    <2> SUFFICES ASSUME NEW l \in Lines
                 PROVE  Placed(l)' /\ Lit(l)'
      BY DEF GridInv, Lines, SetupGrid
    <2>1. l \in Backing /\ l \in Nat
      BY <1>1 DEF Lines
    <2>2. /\ raw'[l] = Top + l * OffsetY /\ remaining'[l] = 0 /\ top' = 0
          /\ direction'[l] = "up" /\ alpha'[l] = IF l < Rows THEN 2 ELSE 0
          /\ movingIn'[l] = FALSE /\ movingOut'[l] = FALSE
      BY <2>1 DEF SetupGrid
    <2>3. Placed(l)'
      BY <2>1, <2>2, Numbers DEF Placed, PositionAfter, After
    <2>4. l \in top' .. (top' + Rows - 1) <=> l < Rows
      BY <2>1, <2>2, Numbers
    <2> QED BY <2>2, <2>3, <2>4 DEF Lit
  <1>4. SizeInv'
    BY DEF SetupGrid, BrowseInv, SizeInv, GridLines
  <1>5. SelInv'
    <2>1. nlines = GridLines(listed) /\ listed \in Nat /\ listed <= MaxLines * PerLine
      BY Numbers DEF SetupGrid, BrowseInv, SizeInv, BrowseTypes
    <2>2. Rows <= nlines /\ nlines <= MaxLines
      BY <2>1, GridLinesMono
    <2>3. 0 \div PerLine = 0
      BY LineAndColumn, Numbers
    <2> QED BY <2>2, <2>3, Numbers DEF SetupGrid, SelInv, SelLine
  <1> QED BY <1>2, <1>3, <1>4, <1>5 DEF BrowseInv

\* Files that were no games can only shorten the grid.
LEMMA CheckedPreserves ==
  ASSUME BrowseInv, NEW n \in 0 .. listed, Checked(n)
  PROVE  BrowseInv'
  <1>1. nlines = GridLines(listed) /\ listed \in Nat /\ listed <= MaxLines * PerLine
    BY Numbers DEF Checked, BrowseInv, SizeInv, BrowseTypes
  <1>2. GridLines(n) \in Nat /\ GridLines(n) <= nlines
    BY <1>1, GridLinesMono
  <1>3. BrowseTypes'
    BY <1>2 DEF Checked, BrowseInv, BrowseTypes, grid
  <1>4. GridInv'
    <2>1. Shown /\ Lines' \subseteq Lines
      BY <1>1, <1>2, Numbers DEF Checked, Shown, Lines, Backing, BrowseInv, BrowseTypes
    <2>2. ASSUME NEW l \in Lines
          PROVE  Placed(l)' /\ Lit(l)'
      BY <2>1 DEF Checked, BrowseInv, GridInv, Placed, Lit, PositionAfter, grid, Top, OffsetY
    <2> QED BY <2>1, <2>2 DEF GridInv
  <1>5. SizeInv'
    BY DEF Checked, SizeInv
  <1>6. SelInv'
    <2>1. AllValid => nlines' = nlines
      BY <1>1 DEF Checked
    <2> QED BY <2>1 DEF Checked, BrowseInv, SelInv, Shown, SelLine
  <1> QED BY <1>3, <1>4, <1>5, <1>6 DEF BrowseInv

-----------------------------------------------------------------------------
(* The theorems. *)

LEMMA BrowseInitHolds ==
  ASSUME BrowseInit
  PROVE  BrowseInv
  <1>1. BrowseTypes
    BY Numbers DEF BrowseInit, BrowseTypes
  <1> QED BY <1>1 DEF BrowseInit, BrowseInv, GridInv, SizeInv, SelInv, Shown

LEMMA BrowseNextPreserves ==
  ASSUME BrowseInv, [BrowseNext]_browsevars
  PROVE  BrowseInv'
  <1>1. CASE MoveRight \/ MoveLeft
    BY <1>1, SidePreserves
  <1>2. CASE MoveDown
    BY <1>2, MoveDownPreserves
  <1>3. CASE MoveUp
    BY <1>3, MoveUpPreserves
  <1>4. CASE ChangeDirectory
    BY <1>4, ChangeDirectoryPreserves
  <1>5. CASE Tick
    BY <1>5, TickPreserves
  <1>6. CASE Enumerate
    BY <1>6, ListedPreserves, SetupGridPreserves, CheckedPreserves DEF Enumerate
  <1>7. CASE UNCHANGED browsevars
    <2>1. GridInv'
      BY <1>7, GridStays DEF BrowseInv, browsevars
    <2> QED BY <1>7, <2>1 DEF BrowseInv, BrowseTypes, SizeInv, SelInv, Shown, SelLine, GridLines, browsevars, grid
  <1> QED BY <1>1, <1>2, <1>3, <1>4, <1>5, <1>6, <1>7 DEF BrowseNext

\* The invariant holds throughout, whatever keys are pressed in whatever frame.
THEOREM BrowseInvariant == BrowseSpec => []BrowseInv
  <1>1. BrowseInit => BrowseInv
    BY BrowseInitHolds
  <1>2. BrowseInv /\ [BrowseNext]_browsevars => BrowseInv'
    BY BrowseNextPreserves
  <1> QED BY <1>1, <1>2, PTL DEF BrowseSpec

\* The grid never drifts: every line is on its way to the place the scroll position
\* gives it, files that are no games or not.
THEOREM GridNeverDrifts == BrowseSpec => []PositionsExact
  <1>1. BrowseInv => PositionsExact
    BY DEF BrowseInv, GridInv, Placed, PositionsExact
  <1> QED BY <1>1, BrowseInvariant, PTL

\* A grid at rest shows the rows of the scroll position and no others.
THEOREM RestingGridIsRight == BrowseSpec => []OnlyRowsDrawn
  <1>1. BrowseInv => OnlyRowsDrawn
    <2> SUFFICES ASSUME BrowseInv, Shown, Moving \cup Fading = {}, NEW l \in Lines
                 PROVE  alpha[l] = IF l \in top .. (top + Rows - 1) THEN 2 ELSE 0
      BY DEF OnlyRowsDrawn
    <2>1. ~(alpha[l] < 2 /\ (movingIn[l] \/ movingOut[l]))
      BY DEF Fading
    <2>2. Lit(l) /\ alpha[l] \in 0 .. 2
      BY LinesAre, PositionInt DEF BrowseInv, GridInv
    <2> QED BY <2>1, <2>2 DEF Lit
  <1> QED BY <1>1, BrowseInvariant, PTL

\* When every file listed is a game, the selected slot is on the screen and in the
\* list, however the keys were pressed, before the grid was set up too.
THEOREM SelectionOnScreen ==
  ASSUME AllValid
  PROVE  BrowseSpec => []SelectionVisible
  <1>1. BrowseInv => SelectionVisible
    <2> SUFFICES ASSUME BrowseInv, Shown
                 PROVE  /\ top <= SelLine /\ SelLine < top + Rows
                        /\ selected < nlines * PerLine
      BY DEF SelectionVisible
    <2>1. /\ selected \in Int /\ top \in Nat /\ nlines \in Nat
          /\ top + Rows <= nlines /\ top <= SelLine /\ SelLine < top + Rows
      BY DEF BrowseInv, BrowseTypes, SelInv
    <2>2. /\ SelLine \in Int /\ selected = PerLine * SelLine + (selected % PerLine)
          /\ selected % PerLine \in 0 .. (PerLine - 1)
      BY <2>1, SlotOf DEF SelLine
    <2>3. SelLine + 1 <= nlines
      BY <2>1, <2>2, Numbers
    <2>4. PerLine * (SelLine + 1) <= PerLine * nlines
      BY <2>1, <2>2, <2>3, Numbers, SMT
    <2>5. selected < nlines * PerLine
      BY <2>1, <2>2, <2>4, Numbers, SMT
    <2> QED BY <2>1, <2>5
  <1> QED BY <1>1, BrowseInvariant, PTL
=============================================================================
