-------------------------------- MODULE MCBoot --------------------------------
(* Two directories; every kind of entry; both video modes' fade steps.       *)
EXTENDS Boot

Item(type, name) == [type |-> type, name |-> name]

MCUp == [d \in {"sub"} |-> "root"]
MCListing ==
  [root |-> <<Item("sub", "sub"), Item("game", "g")>>,
   sub  |-> <<Item("program", "p"), Item("swiss", "s")>>]

Machine(native, force, swiss, stub, step) ==
  [native |-> native, force |-> force, swiss |-> swiss, stub |-> stub, step |-> step]

MCMachines ==
  { Machine(TRUE, FALSE, FALSE, TRUE, 14),
    Machine(TRUE, FALSE, TRUE, FALSE, 14),
    Machine(TRUE, TRUE, FALSE, TRUE, 14),
    Machine(FALSE, FALSE, TRUE, TRUE, 16),
    Machine(FALSE, FALSE, FALSE, TRUE, 14),
    Machine(FALSE, TRUE, TRUE, TRUE, 16) }

\* A FlippyDrive with everything in place.
MCFlippy == {Machine(TRUE, FALSE, TRUE, TRUE, 14)}
===============================================================================
