--------------------------------- MODULE Boot ---------------------------------
(***************************************************************************)
(* From the game list to the program that is run: the select screen of     *)
(* menu.c with its cross-fade, the check for a disc behind Z, and bs2start *)
(* with the loaders it tries in turn.  The enumeration thread appears only *)
(* as the count of entries it has listed so far.  The user may take the    *)
(* disc and the card out at any time, and so make any read fail.           *)
(***************************************************************************)
EXTENDS Card, FiniteSets

CONSTANTS
  Machines,   \* [native, force, swiss, stub, step]: emu_is_native, force_swiss_boot,
              \* whether swiss-gc.dol and stub.bin are on the card, transition_step
  Up,         \* the parent of each directory
  Nothing

\* An item of a listing is [type, name], type a directory, "game", "program" or "swiss".

ASSUME BootAssumption ==
  /\ Machines \subseteq [native : BOOLEAN, force : BOOLEAN, swiss : BOOLEAN,
                         stub : BOOLEAN, step : Nat]
  /\ \A d \in Dirs \ {Root} : Up[d] \in Dirs
  /\ Nothing \notin Items

VARIABLES
  machine,
  disc,   \* of a disc in the drive: "readable", "gone", or "failed", gone since its ID was read
  card,   \* the storage device can be read
  m,      \* the select screen: at, sub (current_gameselect_state), trans, ca, oa (the
          \* alphas), here, count (game_backing_count), slot, chosen (entry A was pressed on)
  bypass, \* the drive shows the disc: passthrough of flippy_emu.c
  entry,  \* boot_entry
  pass,   \* start_passthrough_game
  ready,  \* *bs2start_ready
  phase,  \* "menu", "wiped", "disc", "entry", "loading", then "ran", or "lost" past the end
          \* of bs2start
  ran     \* the program that is loaded, then run

media == <<disc, card>>
bootvars == <<machine, media, m, bypass, entry, pass, ready, phase, ran>>

MaxSlot == 1
U8(x) == x % 256

BootInit ==
  /\ machine \in Machines /\ disc \in {"readable", "gone"} /\ card = TRUE
  /\ m = [at |-> "main", sub |-> "LOADER", trans |-> FALSE, ca |-> 255, oa |-> 0,
          here |-> Root, count |-> 0, slot |-> 0, chosen |-> Nothing]
  /\ bypass = FALSE /\ entry = Nothing /\ pass = FALSE /\ ready = FALSE
  /\ phase = "menu" /\ ran = Nothing

-----------------------------------------------------------------------------
(* handle_gameselect_inputs: what each part of it makes of the screen. *)

Selected(s) == Listing[s.here][s.slot + 1]

\* Seeded fault: both menus would have to be opaque.
FadeOverBoth(s) ==
  /\ s.ca # 0 /\ s.oa # 0
  /\ 255 - s.ca < machine.step /\ 255 - s.oa < machine.step

FadeOver(s) ==
  /\ s.ca # 0 /\ s.oa # 0
  /\ 255 - s.ca < machine.step \/ 255 - s.oa < machine.step

Settle(x) == IF x < 127 THEN 0 ELSE 255

\* The cross-fade, one frame of it; the alphas are bytes.
AfterFade(s) ==
  IF ~s.trans THEN s
  ELSE IF FadeOver(s)
  THEN [s EXCEPT !.trans = FALSE, !.ca = Settle(@), !.oa = Settle(@)]
  ELSE LET up == IF s.sub = "LOADER" THEN machine.step ELSE -machine.step
       IN  [s EXCEPT !.ca = U8(@ + up), !.oa = U8(@ - up)]

Entering(s, d) == [s EXCEPT !.here = d, !.count = 0]

\* B: back to the list, or a directory up, or out of the menu.
AfterB(s, b) ==
  IF "B" \notin b \/ s.trans THEN s
  ELSE IF s.sub = "START" THEN [s EXCEPT !.trans = TRUE, !.sub = "LOADER"]
  ELSE IF s.here # Root THEN Entering(s, Up[s.here])
  ELSE [s EXCEPT !.at = "main"]

\* A: into a directory, or to the start screen of an entry.
AfterA(s, b) ==
  IF "A" \notin b \/ s.at = "main" \/ s.sub # "LOADER" \/ s.slot >= s.count \/ s.trans THEN s
  ELSE IF Selected(s).type \in Dirs THEN Entering(s, Selected(s).type)
  ELSE [s EXCEPT !.trans = TRUE, !.sub = "START", !.chosen = Selected(s)]

\* Seeded fault: a FlippyDrive is taken to boot its games itself, forced to Swiss or not.
CanBootUnforced(e) == machine.swiss \/ (e.type = "game" /\ machine.native)

\* emu_can_boot; found_swiss is whether swiss-gc.dol was there when the card was mounted.
CanBoot(e) == machine.swiss \/ (e.type = "game" /\ machine.native /\ ~machine.force)

\* Seeded fault: the selection moves on the start screen too.
MovableAlways(s) == s.at # "main"

\* The analog stick is looked at in the list only.
Movable(s) == s.at # "main" /\ s.sub = "LOADER"

\* One frame with the buttons b pressed.  emu_has_dvd, behind Z, takes the drive
\* over and hands it back whatever it found.
Frame(b) ==
  LET z == "Z" \in b /\ disc = "readable"
      s == AfterA(AfterB(AfterFade(m), b), b)
      boots == "START" \in b /\ s.at # "main" /\ s.sub = "START" /\ CanBoot(Selected(s))
  IN  /\ phase = "menu" /\ m.at = "select"
      /\ pass' = (pass \/ z)
      /\ entry' = IF boots THEN Selected(s) ELSE entry
      /\ ready' = (ready \/ boots \/ z)
      /\ \E k \in IF "MOVE" \in b /\ Movable(s) THEN 0 .. MaxSlot ELSE {s.slot} :
           m' = [s EXCEPT !.slot = k]
      /\ UNCHANGED <<machine, media, bypass, phase, ran>>

\* pre_menu_alpha_setup, on the way into the select screen.
Enter ==
  /\ phase = "menu" /\ m.at = "main"
  /\ m' = [m EXCEPT !.at = "select", !.sub = "LOADER"]
  /\ UNCHANGED <<machine, media, bypass, entry, pass, ready, phase, ran>>

\* The enumeration thread lists another entry; before the first it sets up the grid.
ListMore ==
  /\ phase = "menu" /\ card /\ m.count < Len(Listing[m.here])
  /\ m' = [m EXCEPT !.count = @ + 1, !.slot = IF m.count = 0 THEN 0 ELSE @]
  /\ UNCHANGED <<machine, media, bypass, entry, pass, ready, phase, ran>>

Over == phase \in {"ran", "lost"}

\* The user takes the disc out, or the card; so fails what is read from now on.
TakeDisc ==
  /\ ~Over /\ disc = "readable"
  /\ disc' = IF bypass THEN "failed" ELSE "gone"
  /\ UNCHANGED <<machine, card, m, bypass, entry, pass, ready, phase, ran>>

TakeCard ==
  /\ ~Over /\ card
  /\ card' = FALSE
  /\ UNCHANGED <<machine, disc, m, bypass, entry, pass, ready, phase, ran>>

-----------------------------------------------------------------------------
(* bs2start. *)

\* The program, and the entry it is handed or was loaded from; "zero" is a jump
\* to address 0, "junk" one into memory that was not filled.
Programs == [what : {"stub", "dol", "swiss", "zero", "junk", "disc", "game"},
             of : Items \cup {Nothing}]
ASSUME ProgramAssumption == Nothing \notin Programs

Runs(what, of) == phase' = "ran" /\ ran' = [what |-> what, of |-> of]
Loads(what, of) == phase' = "loading" /\ ran' = [what |-> what, of |-> of]

\* Seeded fault: a disc that cannot be read is not let go of.
BypassExitForgotten == machine.native

\* dvd_custom_bypass_exit
BypassExit == FALSE

\* Up to the wipe of low memory.  The disc is looked at first; without one the
\* stub takes over, when there is a stub: its signature tells.
Bs2start ==
  LET looks == pass /\ ~machine.force
  IN  /\ phase = "menu" /\ ready
      /\ bypass' = IF ~looks THEN bypass
                   ELSE IF disc = "readable" THEN TRUE ELSE BypassExit
      /\ IF looks /\ disc # "readable" /\ machine.stub /\ card
         THEN Runs("stub", Nothing)
         ELSE phase' = "wiped" /\ UNCHANGED ran
      /\ UNCHANGED <<machine, media, m, entry, pass, ready>>

\* Interrupts are off and the IPL is gone.
Wiped ==
  /\ phase = "wiped"
  /\ phase' = IF pass THEN "disc" ELSE "entry"
  /\ UNCHANGED <<machine, media, m, bypass, entry, pass, ready, ran>>

\* A file of the card can be opened; a drive that shows the disc has no files.
Opens == card /\ ~(machine.native /\ bypass)

\* chainload_swiss_game: an entry that is Swiss itself, or swiss-gc.dol with the
\* entry as its argument, or with none for the disc.  A DOL that cannot be opened
\* has entry point 0.
ChainloadSwiss(e) ==
  IF e # Nothing /\ e.type = "swiss"
  THEN IF Opens THEN Loads("dol", e) ELSE Runs("zero", e)
  ELSE IF Opens /\ machine.swiss THEN Loads("swiss", e) ELSE Runs("zero", e)

\* chainload_boot_game(NULL, true): a read of the FST or of BI2 that fails, and they
\* fail unless the drive shows a disc, sends it back to bs2start.
BootDisc ==
  /\ phase = "disc"
  /\ IF machine.force THEN ChainloadSwiss(Nothing)
     ELSE IF bypass /\ disc = "readable" THEN Loads("disc", Nothing)
     ELSE phase' = "entry" /\ UNCHANGED ran
  /\ UNCHANGED <<machine, media, m, bypass, entry, pass, ready>>

\* Only a FlippyDrive can serve a game as a disc.
ServesItself == machine.native /\ ~machine.force

\* The rest of bs2start, with the entry START was pressed on, or none.  A game, or its
\* second disc, that cannot be opened, or whose FST or BI2 cannot be read, sends
\* chainload_boot_game back, and bs2start has nothing left to try.
BootEntry ==
  /\ phase = "entry"
  /\ IF entry # Nothing /\ entry.type \in {"program", "swiss"} THEN ChainloadSwiss(entry)
     ELSE IF ~ServesItself THEN ChainloadSwiss(entry)
     ELSE IF entry # Nothing /\ Opens THEN Loads("game", entry)
     ELSE phase' = "lost" /\ UNCHANGED ran
  /\ UNCHANGED <<machine, media, m, bypass, entry, pass, ready>>

\* load_dol, none of whose reads is tested, and run.  In passthrough every read goes
\* to the disc, whatever was opened.
LoadDol ==
  /\ phase = "loading"
  /\ phase' = "ran"
  /\ ran' = IF IF ran.what = "disc" THEN disc = "readable" ELSE card /\ ~bypass
              THEN ran ELSE [ran EXCEPT !.what = "junk"]
  /\ UNCHANGED <<machine, media, m, bypass, entry, pass, ready>>

-----------------------------------------------------------------------------
Booting == Bs2start \/ Wiped \/ BootDisc \/ BootEntry \/ LoadDol
Buttons == {"Z", "B", "A", "START", "MOVE"}
Playing == \E b \in SUBSET Buttons : Frame(b)
BootNext == Playing \/ Enter \/ ListMore \/ TakeDisc \/ TakeCard \/ Booting

\* The screen is drawn every frame, and the IPL calls bs2start when it is ready.
BootSpec == BootInit /\ [][BootNext]_bootvars /\ WF_bootvars(Playing) /\ WF_bootvars(Booting)

-----------------------------------------------------------------------------
(* Properties. *)

\* Only an entry that A was pressed on, and that the start screen shows, is
\* copied to boot_entry, though START tests neither the slot nor the fade
\* (menu.c, handle_gameselect_inputs).
BootsShown == [][entry' # entry => entry' = m'.chosen]_bootvars

\* Every fade ends, until when A and B are dead, and whatever wrapped around on
\* the way the menu whose buttons work is opaque then and the other is gone.
Settled(x) == ~m.trans /\ <<m.ca, m.oa>> = IF x = "LOADER" THEN <<255, 0>> ELSE <<0, 255>>
FadeEnds ==
  \A x \in {"LOADER", "START"} :
    (m.trans /\ m.sub = x) ~> (Settled(x) \/ m.sub # x \/ phase # "menu")

Loaded == phase = "ran" /\ ran.what \notin {"zero", "junk"}

\* What is run was loaded, as long as what it is read from stays in: emu_can_boot
\* vouches for what chainload_swiss_game and chainload_boot_game do later, and a look
\* at the disc for what Z runs.  Two cases nothing tests: no swiss-gc.dol when Z is
\* pressed and Swiss is forced, no stub.bin when the disc has gone by then.
TakenOut == IF bypass THEN disc = "failed" ELSE ~card
NotThere == \/ pass /\ machine.force /\ ~machine.swiss
            \/ pass /\ ~machine.force /\ ~machine.stub /\ disc = "gone"
RunsLoaded == Over => Loaded \/ TakenOut \/ NotThere

\* The drive shows the disc to the program that was loaded from it and to nothing
\* else that was loaded: not to the stub, not to Swiss, not to a game from the card,
\* though bs2start goes on to those in passthrough when the disc fails under it.
DriveMatches == Loaded => (bypass <=> ran.what = "disc")

\* bs2start does not come to its end, which is __builtin_unreachable().
NeverComesBack == phase # "lost"
===============================================================================
