-------------------------------- MODULE Card --------------------------------
(***************************************************************************)
(* What the menu lists of a card.                                          *)
(***************************************************************************)
EXTENDS Integers, Sequences

CONSTANTS Dirs, Root,
          Listing      \* Listing[d]: what gm_list_files finds, directories and games

ItemsOf(d) == {Listing[d][k] : k \in 1 .. Len(Listing[d])}
Items == UNION {ItemsOf(d) : d \in Dirs}

\* A listing is a sequence.
ASSUME CardAssumption == Root \in Dirs /\ \A d \in Dirs : Listing[d] \in Seq(Items)
=============================================================================
