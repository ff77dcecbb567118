----------------------------- MODULE MCBnrCache -----------------------------
(* Three games in two directories. *)
EXTENDS BnrCache

CONSTANTS gameA, gameB, gameC

MCFiles == {gameA, gameB, gameC}
MCTasks == {gameA, gameB, gameC, Store, Load, Hi}
MCDirs == {<<gameA, gameB>>, <<gameC>>}
MCKey(f) == f
=============================================================================
