------------------------------ MODULE MCDeviceProbe ------------------------------
(* Machines worth telling apart: what is on the disc interface, and which    *)
(* cards and drives share the EXI flags.                                     *)
EXTENDS DeviceProbe, TLC

Machine(d, m, cards) == [di |-> d, mode |-> m, sd |-> TRUE, cards |-> cards]

Sd(block, fat) == [block |-> block, fat |-> fat]
Ata(ident, fat) == [ident |-> ident, fat |-> fat]

MCMachines ==
  { Machine("none", "none", 3 :> Sd(TRUE, FALSE) @@ 5 :> Sd(FALSE, TRUE)),
    Machine("none", "none", 3 :> Sd(FALSE, TRUE) @@ 4 :> Sd(TRUE, TRUE)),
    Machine("none", "none", 6 :> Ata("lba48", FALSE) @@ 8 :> Ata("lba28", TRUE)),
    Machine("none", "none", 6 :> Ata("lba28", FALSE) @@ 8 :> Ata("zeros", TRUE)),
    Machine("optical", "none", 7 :> Ata("lba48", TRUE)),
    Machine("flippy", "bypass", 3 :> Sd(TRUE, TRUE)),
    Machine("flippy", "bootloader", <<>>),
    Machine("flippy", "firmware", <<>>),
    Machine("gcloader", "none", 5 :> Sd(TRUE, TRUE)),
    [di |-> "gcloader", mode |-> "none", sd |-> FALSE,
     cards |-> 3 :> Sd(TRUE, TRUE)] }
================================================================================
