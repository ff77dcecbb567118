------------------------------- MODULE Browse -------------------------------
(***************************************************************************)
(* Moving through the game list: the selection and the scroll position of  *)
(* menu.c, the animated lines of grid.c, and the two moments at which the  *)
(* enumeration thread resizes the grid under them.  Positions are pixels,  *)
(* as in the code; opacity has the three levels the code tells apart; a    *)
(* frame moves a line by Step.                                             *)
(***************************************************************************)
EXTENDS Integers, FiniteSets

CONSTANTS PerLine,       \* slots per line (8)
          Rows,          \* DRAW_TOTAL_ROWS
          MaxLines,      \* MAX_LINES, the length of browser_lines
          Step,          \* pixels per frame, a divisor of half a row
          AllValid,      \* every file listed is a valid game
          MaxBlind,      \* bound on the key presses while nothing is listed
          MaxRestarts    \* bound on the directory changes

ASSUME BrowseAssumption ==
  /\ {PerLine, Rows, MaxLines, Step} \subseteq Nat \ {0} /\ Rows <= MaxLines
  /\ AllValid \in BOOLEAN /\ {MaxBlind, MaxRestarts} \subseteq Nat

Top == 104               \* DRAW_BOUND_TOP
OffsetY == 56            \* DRAW_OFFSET_Y
Bottom == Top + Rows * OffsetY   \* DRAW_BOUND_BOTTOM
Half == OffsetY \div 2

VARIABLES
  raw, remaining, direction, pending,   \* raw_position_y and anims, by line
  alpha, movingIn, movingOut,
  selected, top,      \* selected_slot, top_line_num
  nlines,             \* number_of_lines
  listed,             \* files in the listing
  stage,              \* the enumeration: "listing", "sizing", "checking", "done"
  blind, restarts

grid == <<raw, remaining, direction, pending, alpha, movingIn, movingOut>>
bounds == <<blind, restarts>>
browsevars == <<grid, selected, top, nlines, listed, stage, bounds>>

Backing == 0 .. (MaxLines - 1)
Lines == {l \in Backing : l < nlines}

\* get_position_after, for given animation fields.
After(y, d, r) == IF d = "up" THEN y - r ELSE y + r
PositionAfter(l) == After(raw[l], direction[l], remaining[l])

Lowest(S) == {l \in S : \A m \in S : l <= m}

-----------------------------------------------------------------------------
(* grid.c *)

\* grid_add_anim for the lines of M, by dist[l].  A line animated the other way
\* loses its count and keeps what remained.
AddAnim(M, d, dist) ==
  /\ pending' = [l \in Backing |-> IF l \notin M THEN pending[l]
                                   ELSE IF pending[l] > 0 /\ direction[l] # d THEN 1
                                   ELSE pending[l] + 1]
  /\ remaining' = [l \in Backing |-> IF l \in M THEN remaining[l] + dist[l] ELSE remaining[l]]
  /\ direction' = [l \in Backing |-> IF l \in M THEN d ELSE direction[l]]

\* The common part of the two dispatch functions: line(s) In enter the screen, the
\* lines near it are animated, the others jump; line(s) Out fade away.  (Going down,
\* a line that is fading already is dimmed to a tenth, which stays above zero.)
Dispatch(d, In, edge, jump) ==
  LET Near == {l \in Lines \ In : /\ PositionAfter(l) < Bottom + OffsetY - 10
                                  /\ PositionAfter(l) >= Top - OffsetY + 10}
      far  == Lines \ (In \cup Near)
      end  == [l \in Lines |->
                 IF l \in In THEN After(edge, d, remaining[l] + Half)
                 ELSE IF l \in Near THEN After(raw[l], d, remaining[l] + OffsetY)
                 ELSE PositionAfter(l) + jump]
      Out  == Lowest({l \in Lines :
                IF d = "down" THEN end[l] + 10 >= Bottom /\ end[l] - OffsetY < Bottom
                ELSE end[l] + OffsetY + 10 >= Top /\ end[l] < Top})
  IN  /\ AddAnim(In \cup Near, d, [l \in Backing |-> IF l \in In THEN Half ELSE OffsetY])
      /\ raw' = [l \in Backing |-> IF l \in In THEN edge
                                   ELSE IF l \in far THEN raw[l] + jump ELSE raw[l]]
      /\ alpha' = [l \in Backing |-> IF l \in Out \cup In THEN 1 ELSE alpha[l]]
      /\ movingIn' = [l \in Backing |-> l \notin Out /\ (l \in In \/ movingIn[l])]
      /\ movingOut' = [l \in Backing |-> l \in Out \/ (l \notin In /\ movingOut[l])]

\* Seeded fault: a move the other way is not refused.
PendingNever(d) == FALSE

\* Some line is still moving in direction d.
Pending(d) == \E l \in Lines : pending[l] > 0 /\ direction[l] = d

\* grid_dispatch_navigate_down: the lines go up.
NavigateDown ==
  Dispatch("up",
           Lowest({l \in Lines : /\ PositionAfter(l) + 10 >= Bottom
                                 /\ PositionAfter(l) - OffsetY - 10 < Bottom}),
           Bottom - Half, -OffsetY)

\* grid_dispatch_navigate_up: the lines go down.
NavigateUp ==
  Dispatch("down",
           Lowest({l \in Lines : /\ PositionAfter(l) + OffsetY + 10 >= Top
                                 /\ PositionAfter(l) - 10 < Top}),
           Top - Half, OffsetY)

Moving == {l \in Lines : pending[l] > 0}
Fading == {l \in Lines : alpha[l] < 2 /\ (movingIn[l] \/ movingOut[l])}

\* Seeded fault: an animation is never counted off.
TickPendingStays == pending

\* A fade takes longer than a move: the lines of F reach the next level now.
TickAlpha(F) ==
  [l \in Backing |-> IF l \notin F THEN alpha[l]
                     ELSE IF movingIn[l] THEN alpha[l] + 1
                     ELSE IF alpha[l] > 0 THEN alpha[l] - 1 ELSE 0]

\* An animation that has arrived is counted off.
TickPending ==
  [l \in Backing |-> IF l \in Moving /\ remaining[l] <= Step
                     THEN pending[l] - 1 ELSE pending[l]]

\* grid_update_icon_positions, once per frame.
Tick ==
  /\ Moving \cup Fading # {}
  /\ LET left == [l \in Backing |-> IF remaining[l] > Step THEN remaining[l] - Step ELSE 0]
     IN  /\ remaining' = [l \in Backing |-> IF l \in Moving THEN left[l] ELSE remaining[l]]
         /\ raw' = [l \in Backing |-> IF l \in Moving
                      THEN After(raw[l], direction[l], remaining[l] - left[l]) ELSE raw[l]]
  /\ pending' = TickPending
  /\ \E F \in {Fading, {}} :
       /\ alpha' = TickAlpha(F)
       /\ movingOut' = [l \in Backing |-> movingOut[l] /\ ~(l \in F /\ alpha[l] <= 1)]
  /\ UNCHANGED <<direction, movingIn, selected, top, nlines, listed, stage, bounds>>

-----------------------------------------------------------------------------
(* handle_gameselect_inputs, with the game list on display. *)

Shown == stage \in {"checking", "done"}

\* Presses before the grid is set up are bounded.
Press ==
  IF ~Shown THEN blind < MaxBlind /\ blind' = blind + 1 ELSE UNCHANGED blind

SelLine == selected \div PerLine

MoveRight ==
  /\ Press
  /\ selected % PerLine # PerLine - 1
  /\ selected' = selected + 1
  /\ UNCHANGED <<grid, top, nlines, listed, stage, restarts>>

MoveLeft ==
  /\ Press
  /\ selected % PerLine # 0
  /\ selected' = selected - 1
  /\ UNCHANGED <<grid, top, nlines, listed, stage, restarts>>

\* Seeded fault: the end of the list is not looked for.
DownRefusedNever == FALSE

DownRefused == nlines - top = Rows /\ selected + PerLine > nlines * PerLine - 1

MoveDown ==
  /\ Press
  /\ ~DownRefused
  /\ IF PositionAfter(SelLine) >= Bottom - OffsetY - 10
     THEN /\ ~Pending("down")
          /\ NavigateDown
          /\ top' = top + 1
     ELSE UNCHANGED <<grid, top>>
  /\ selected' = selected + PerLine
  /\ UNCHANGED <<nlines, listed, stage, restarts>>

MoveUp ==
  /\ Press
  /\ ~(top = 0 /\ selected - PerLine < 0)
  /\ IF top # 0 /\ PositionAfter(SelLine) <= Top + OffsetY - 10
     THEN /\ ~Pending("up")
          /\ NavigateUp
          /\ top' = top - 1
     ELSE UNCHANGED <<grid, top>>
  /\ selected' = selected - PerLine
  /\ UNCHANGED <<nlines, listed, stage, restarts>>

\* gm_start_thread: another directory, nothing listed yet.
ChangeDirectory ==
  /\ restarts < MaxRestarts
  /\ restarts' = restarts + 1
  /\ stage' = "listing"
  /\ nlines' = 0
  /\ UNCHANGED <<grid, selected, top, listed, blind>>

-----------------------------------------------------------------------------
(* The enumeration thread. *)

\* gm_setup_grid, number_of_lines.
GridLines(n) ==
  LET l == (n + PerLine - 1) \div PerLine IN IF l < Rows THEN Rows ELSE l

Listed(n) ==
  /\ stage = "listing"
  /\ nlines' = GridLines(n)
  /\ listed' = n
  /\ stage' = "sizing"
  /\ UNCHANGED <<grid, selected, top, bounds>>

\* Seeded fault: animations and flags are not cleared.
SetupGridKeeps ==
  /\ stage = "sizing"
  /\ selected' = 0 /\ top' = 0
  /\ raw' = [l \in Backing |-> IF l \in Lines THEN Top + l * OffsetY ELSE 0]
  /\ alpha' = [l \in Backing |-> IF l \in Lines /\ l < Rows THEN 2 ELSE 0]
  /\ stage' = "checking"
  /\ UNCHANGED <<remaining, direction, pending, movingIn, movingOut, nlines, listed, bounds>>

\* grid_setup_func
SetupGrid ==
  /\ stage = "sizing"
  /\ selected' = 0 /\ top' = 0
  /\ raw' = [l \in Backing |-> IF l \in Lines THEN Top + l * OffsetY ELSE 0]
  /\ alpha' = [l \in Backing |-> IF l \in Lines /\ l < Rows THEN 2 ELSE 0]
  /\ remaining' = [l \in Backing |-> 0]
  /\ direction' = [l \in Backing |-> "up"]
  /\ pending' = [l \in Backing |-> 0]
  /\ movingIn' = [l \in Backing |-> FALSE]
  /\ movingOut' = [l \in Backing |-> FALSE]
  /\ stage' = "checking"
  /\ UNCHANGED <<nlines, listed, bounds>>

\* gm_setup_grid(gm_entry_count, false): files that were no games have no entry.
Checked(n) ==
  /\ stage = "checking"
  /\ AllValid => n = listed
  /\ nlines' = GridLines(n)
  /\ stage' = "done"
  /\ UNCHANGED <<grid, selected, top, listed, bounds>>

-----------------------------------------------------------------------------
BrowseInit ==
  /\ raw = [l \in Backing |-> 0] /\ remaining = [l \in Backing |-> 0]
  /\ direction = [l \in Backing |-> "up"] /\ pending = [l \in Backing |-> 0]
  /\ alpha = [l \in Backing |-> 0]
  /\ movingIn = [l \in Backing |-> FALSE] /\ movingOut = [l \in Backing |-> FALSE]
  /\ selected = 0 /\ top = 0 /\ nlines = 0 /\ listed = 0
  /\ stage = "listing" /\ blind = 0 /\ restarts = 0

Enumerate ==
  \/ \E n \in 0 .. (MaxLines * PerLine) : Listed(n)
  \/ SetupGrid
  \/ \E n \in 0 .. listed : Checked(n)

BrowseNext ==
  MoveRight \/ MoveLeft \/ MoveDown \/ MoveUp \/ ChangeDirectory \/ Tick \/ Enumerate

\* A frame is drawn sixty times a second, and the thread goes on.
BrowseSpec ==
  /\ BrowseInit /\ [][BrowseNext]_browsevars
  /\ WF_browsevars(Tick) /\ WF_browsevars(Enumerate)

-----------------------------------------------------------------------------
(* Properties. *)

\* However presses and frames interleave, every line is on its way to the place
\* the scroll position gives it: the grid never drifts.
PositionsExact == Shown => \A l \in Lines : PositionAfter(l) = Top + (l - top) * OffsetY

\* The selected slot is on the screen and in the list.
SelectionVisible ==
  Shown => /\ top <= SelLine /\ SelLine < top + Rows
           /\ selected < nlines * PerLine

\* Once everything has come to rest, the lines on the screen are opaque and no
\* other line is drawn.
OnlyRowsDrawn ==
  Shown /\ Moving \cup Fading = {}
    => \A l \in Lines : alpha[l] = IF l \in top .. (top + Rows - 1) THEN 2 ELSE 0

\* A move is refused for a while at most: animations end.
AnimationsEnd == Moving # {} ~> Moving = {}

\* MAX_LINES: "240 lines * 8 slots = 1920 slots".  The line that the handlers look
\* up for the selected slot is one of browser_lines.
SelectedLineBacked == SelLine < MaxLines
=============================================================================
