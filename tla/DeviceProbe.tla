------------------------------ MODULE DeviceProbe ------------------------------
(***************************************************************************)
(* Which storage device is used: flippy_emu_mount and what it calls on the *)
(* way (fdrv_probe, gcode_sd_init, tsd_sd_init, ata_init), first in        *)
(* cubeboot.dol, where main polls for it, then in the patched IPL, which   *)
(* is told the device and brings it up again with drivers of its own; and  *)
(* then the sector reads of the driver that was adopted.                   *)
(*                                                                         *)
(* The hardware is the environment.  The disc interface (DI) holds nothing,*)
(* an optical drive, a GC Loader or a FlippyDrive, which needs up to       *)
(* MaxLate inquiries before it answers; what comes back until then is a    *)
(* transfer that does not end ("timeout"), an error, or a transfer that    *)
(* ends without an answer ("odd").  EXI ports hold SD cards and drives; an *)
(* SD card may keep the IPL side waiting for a sector for good.            *)
(***************************************************************************)
EXTENDS Integers, Sequences, FiniteSets

CONSTANTS
  Machines,       \* what may be plugged in: records [di, mode, sd, cards]
  MaxLate,        \* bound: inquiries a DI drive needs to wake up
  GcFaults,       \* what a GC Loader that wakes up does to an inquiry
  MaxPolls,       \* bound: opens by cubeboot.dol (60 in the settle loop)
  MaxOpens,       \* bound: opens by the IPL side
  GcodeAttempts,  \* GCODE_INIT_ATTEMPTS, 40 in the code
  BootAttempts,   \* FDRV_BOOT_ATTEMPTS, 60 in the code
  MountAttempts,  \* attempts on the IPL side, 30 in the code
  Retries,        \* ATA_READ_RETRIES, 4 in the code
  SectorBytes,    \* 512
  MaxXfer,        \* GCODE_MAX_XFER in sectors, 128 in the code
  Lba28,          \* sectors LBA28 can address, 2^28
  Sectors,        \* sectors that are read
  Kinds           \* outcomes of a transfer: a subset of {"ok", "error"}

ASSUME ProbeAssumption ==
  /\ {MaxLate, MaxPolls, MaxOpens, GcodeAttempts, BootAttempts, MountAttempts,
      Retries, SectorBytes, MaxXfer, Lba28} \subseteq Nat
  /\ SectorBytes > 0
  /\ MaxLate < GcodeAttempts
  /\ GcFaults \subseteq {"timeout", "error", "odd"}
  /\ Sectors \subseteq Nat

None == 0
Flippy == 1
Gcldr == 2

\* device_prio, in order of preference; a device is its index.
DevicePrio == <<"fldrv", "gcldr", "sdc", "sdb", "sda", "ataa", "atab", "atac">>
SdDevices == {3, 4, 5}
AtaDevices == {6, 7, 8}

\* The EXI channel of a device: slot A, slot B and SP2, with atac on SP1.
Channel(d) == CASE d \in {5, 6, 8} -> 0
                [] d \in {4, 7} -> 1
                [] d = 3 -> 2

\* Devices on the EXI bus know how they are addressed.
ASSUME MachineAssumption ==
  \A x \in Machines :
    /\ x.di \in {"none", "optical", "gcloader", "flippy"}
    /\ x.mode \in {"none", "bypass", "bootloader", "firmware"}
    /\ x.di = "flippy" => x.mode # "none"
    /\ \A d \in DOMAIN x.cards :
         IF d \in AtaDevices THEN x.cards[d].ident \in {"lba48", "lba28", "zeros"}
                            ELSE x.cards[d].block \in BOOLEAN

Stock == "stock"
Firmware == "firmware"
Bootloader == "bootloader"

VARIABLES
  machine,        \* environment: what is plugged in
  mode,           \* environment: what a FlippyDrive runs
  late,           \* environment: inquiries until the DI drive answers
  side,           \* "loader" (cubeboot.dol) or "ipl"
  pc,             \* where flippy_emu_mount is
  i,              \* device being brought up
  attempt,        \* of the loop that is running
  opens,          \* calls of dvd_custom_open so far
  emu_sd_device, mounted, has_fdrv, has_gcode,
  rel_date,       \* probe_info as it is in memory
  addressing_block, ata_lba48,
  mounts,         \* attempts of flippy_emu_mount on the IPL side
  awake,          \* history: the DI drive was ready when this open began
  rq              \* the sector read under way

hw == <<machine, mode, late>>
cached == <<has_fdrv, has_gcode>>
flags == <<addressing_block, ata_lba48>>
vars == <<hw, side, pc, i, attempt, opens, emu_sd_device, mounted, cached,
          rel_date, flags, mounts, awake, rq>>

NoRead == [state |-> "none", first |-> 0, count |-> 0, got |-> <<>>,
           tries |-> 0, aligned |-> FALSE]

Init ==
  /\ machine \in Machines
  /\ mode = machine.mode
  /\ late \in 0 .. MaxLate
  /\ side = "loader" /\ pc = "idle" /\ i = None /\ attempt = 0 /\ opens = 0
  /\ emu_sd_device = None /\ mounted = FALSE
  /\ has_fdrv = -1 /\ has_gcode = -1 /\ rel_date = "zero"
  /\ addressing_block = FALSE /\ ata_lba48 = [c \in 0 .. 2 |-> FALSE]
  /\ mounts = 0 /\ awake = FALSE /\ rq = NoRead

--------------------------------------------------------------------------------
(* The disc interface.                                                     *)

\* What the drive says it is once it answers.
Date == CASE machine.di = "gcloader" -> "gcode"
          [] machine.di = "optical" -> Stock
          [] machine.di = "flippy" -> IF mode = "bypass" THEN Stock ELSE mode

Faults == IF machine.di = "gcloader" THEN GcFaults
                                     ELSE {"timeout", "error", "odd"}

\* One OEM inquiry: how it may end.
Inquiry == IF machine.di = "none" THEN {"timeout"}
           ELSE IF late > 0 THEN Faults ELSE {"ok"}

\* Seeded fault: probe_info is not cleared before the inquiry.
InMemoryStale(r) == IF r = "ok" THEN Date ELSE rel_date

\* What is in probe_info after it: the answer, or the zeroes it was cleared to.
InMemory(r) == IF r = "ok" THEN Date ELSE "zero"

\* An inquiry wakes the drive up a little, and a FlippyDrive told to boot
\* runs its firmware once it has woken up.
Waking == late' = IF late > 0 THEN late - 1 ELSE 0

Failed(r) == r \in {"timeout", "error"}

--------------------------------------------------------------------------------
(* flippy_emu_mount.                                                       *)

Ready == /\ late = 0
         /\ \/ machine.di = "gcloader" /\ machine.sd
            \/ machine.di = "flippy" /\ mode = Firmware

\* dvd_custom_open asks for the device.  cubeboot.dol probes the chain while
\* it has none; the IPL side brings up the device it was given and no other,
\* and probes the chain only if it was given none.
Open ==
  /\ pc = "idle" /\ opens < IF side = "loader" THEN MaxPolls ELSE MaxOpens
  /\ IF side = "loader" THEN emu_sd_device = None ELSE ~mounted
  /\ opens' = opens + 1
  /\ awake' = Ready
  /\ pc' = "bringup"
  /\ i' = IF emu_sd_device = None THEN 1 ELSE emu_sd_device
  /\ attempt' = 0 /\ mounts' = 0
  /\ UNCHANGED <<hw, side, emu_sd_device, mounted, cached, rel_date, flags, rq>>

\* device_bring_up succeeded.
Adopted ==
  /\ pc' = "idle" /\ i' = None
  /\ emu_sd_device' = i
  /\ mounted' = (side = "ipl")
  /\ UNCHANGED mounts

\* device_bring_up failed: the next device of the chain, or, on the IPL side
\* with a device given, the same one again up to MountAttempts times.
NotThis ==
  /\ UNCHANGED <<emu_sd_device, mounted>>
  /\ IF side = "ipl" /\ emu_sd_device # None
       THEN /\ mounts' = mounts + 1
            /\ IF mounts + 1 < MountAttempts
                 THEN pc' = "bringup" /\ UNCHANGED i
                 ELSE pc' = "idle" /\ i' = None
       ELSE /\ UNCHANGED mounts
            /\ IF i < Len(DevicePrio) THEN pc' = "bringup" /\ i' = i + 1
                                      ELSE pc' = "idle" /\ i' = None

BroughtUp(ok) == /\ attempt' = 0
                 /\ IF ok THEN Adopted ELSE NotThis

Rest == <<side, opens, awake, rq>>

--------------------------------------------------------------------------------
(* fdrv_probe.                                                             *)

FdrvCached ==
  /\ pc = "bringup" /\ i = Flippy /\ has_fdrv >= 0
  /\ BroughtUp(has_fdrv = 1)
  /\ UNCHANGED <<hw, cached, rel_date, flags, Rest>>

\* What the probe concludes from the date it has now.
FdrvJudge(date) ==
  /\ has_fdrv' = CASE date = Firmware -> 1
                   [] date = Stock -> 0
                   [] OTHER -> -1
  /\ BroughtUp(date = Firmware)

\* The first inquiry.  No answer is not cached; a GC Loader is left alone; a
\* stock drive is told to leave bypass; a bootloader to boot.
FdrvInquire ==
  /\ pc = "bringup" /\ i = Flippy /\ has_fdrv = -1
  /\ \E r \in Inquiry :
       /\ rel_date' = InMemory(r)
       /\ Waking
       /\ CASE Failed(r) -> BroughtUp(FALSE) /\ UNCHANGED has_fdrv
            [] rel_date' = "gcode" -> has_fdrv' = 0 /\ BroughtUp(FALSE)
            [] rel_date' \in {Stock, Bootloader} ->
                 /\ pc' = IF rel_date' = Stock THEN "bypass" ELSE "boot"
                 /\ attempt' = 0
                 /\ UNCHANGED <<has_fdrv, i, emu_sd_device, mounted, mounts>>
            [] OTHER -> FdrvJudge(rel_date')
  /\ UNCHANGED <<machine, mode, has_gcode, flags, Rest>>

\* A FlippyDrive leaves bypass for its bootloader or its firmware, and may be
\* busy for a while; an optical drive ignores the command.
FdrvBypassExit ==
  /\ pc = "bypass"
  /\ IF machine.di = "flippy"
       THEN mode' \in {Bootloader, Firmware} /\ late' \in 0 .. MaxLate
       ELSE UNCHANGED <<mode, late>>
  /\ pc' = "again"
  /\ UNCHANGED <<machine, i, attempt, emu_sd_device, mounted, mounts, cached,
                 rel_date, flags, Rest>>

FdrvInquireAgain ==
  /\ pc = "again"
  /\ \E r \in Inquiry :
       /\ rel_date' = InMemory(r)
       /\ Waking
       /\ CASE Failed(r) -> BroughtUp(FALSE) /\ UNCHANGED has_fdrv
            [] rel_date' = Bootloader ->
                 /\ pc' = "boot" /\ attempt' = 0
                 /\ UNCHANGED <<has_fdrv, i, emu_sd_device, mounted, mounts>>
            [] OTHER -> FdrvJudge(rel_date')
  /\ UNCHANGED <<machine, mode, has_gcode, flags, Rest>>

\* The two knocks: the bootloader starts the firmware, unless it is stuck.
FdrvKnock ==
  /\ pc = "boot"
  /\ mode' \in {Bootloader, Firmware} /\ late' \in 0 .. MaxLate
  /\ pc' = "booting" /\ attempt' = 0
  /\ UNCHANGED <<machine, i, emu_sd_device, mounted, mounts, cached, rel_date,
                 flags, Rest>>

\* Seeded fault: attempts without an answer are not counted.
FdrvAwaitFirmwareForever ==
  /\ pc = "booting"
  /\ \E r \in Inquiry :
       /\ rel_date' = InMemory(r)
       /\ Waking
       /\ IF ~Failed(r) /\ rel_date' = Firmware
            THEN FdrvJudge(Firmware)
            ELSE UNCHANGED <<attempt, pc, i, emu_sd_device, mounted, mounts,
                             has_fdrv>>
  /\ UNCHANGED <<machine, mode, has_gcode, flags, Rest>>

\* Inquiries until the firmware answers; giving up is not cached either.
FdrvAwaitFirmware ==
  /\ pc = "booting"
  /\ IF attempt = BootAttempts
       THEN BroughtUp(FALSE) /\ UNCHANGED <<late, rel_date, has_fdrv>>
       ELSE \E r \in Inquiry :
              /\ rel_date' = InMemory(r)
              /\ Waking
              /\ IF ~Failed(r) /\ rel_date' = Firmware
                   THEN FdrvJudge(Firmware)
                   ELSE /\ attempt' = attempt + 1
                        /\ UNCHANGED <<pc, i, emu_sd_device, mounted, mounts,
                                       has_fdrv>>
  /\ UNCHANGED <<machine, mode, has_gcode, flags, Rest>>

--------------------------------------------------------------------------------
(* gcode_sd_init, and f_mount of the volume behind it.                     *)

GcodeCached ==
  /\ pc = "bringup" /\ i = Gcldr /\ has_gcode >= 0
  /\ BroughtUp(has_gcode = 1 /\ machine.sd)
  /\ UNCHANGED <<hw, cached, rel_date, flags, Rest>>

\* Seeded fault: any answer but the right one is remembered as an absent drive.
GcodeInquireOnce ==
  /\ pc = "bringup" /\ i = Gcldr /\ has_gcode = -1
  /\ \E r \in Inquiry :
       /\ Waking
       /\ has_gcode' = IF r = "ok" /\ Date = "gcode" THEN 1 ELSE 0
       /\ BroughtUp(has_gcode' = 1 /\ machine.sd)
  /\ UNCHANGED <<machine, mode, has_fdrv, rel_date, flags, Rest>>

\* One attempt: a transfer that does not end is taken for an absent drive at
\* once, any other failure only after GcodeAttempts of them.
GcodeInquire ==
  /\ pc = "bringup" /\ i = Gcldr /\ has_gcode = -1
  /\ \E r \in Inquiry :
       /\ Waking
       /\ IF r = "ok" /\ Date = "gcode" THEN has_gcode' = 1 /\ BroughtUp(machine.sd)
          ELSE IF r = "timeout" \/ attempt + 1 = GcodeAttempts
          THEN has_gcode' = 0 /\ BroughtUp(FALSE)
          ELSE /\ attempt' = attempt + 1
               /\ UNCHANGED <<pc, i, emu_sd_device, mounted, mounts, has_gcode>>
  /\ UNCHANGED <<machine, mode, has_fdrv, rel_date, flags, Rest>>

--------------------------------------------------------------------------------
(* The devices on the EXI bus: disk_initialize, then f_mount of what is    *)
(* found.  A card may miss any single attempt.                             *)

Card(d) == machine.cards[d]
Present(d) == d \in DOMAIN machine.cards

\* Seeded fault: the flag is only ever set.
SdInitSticky ==
  /\ addressing_block' = (addressing_block \/ (side = "ipl" /\ Card(i).block))
  /\ UNCHANGED ata_lba48

\* tsd_sd_init: cubeboot.dol leaves addressing to libogc's driver, the IPL
\* side keeps it in one variable for all three ports.
SdInit ==
  /\ addressing_block' = IF side = "ipl" THEN Card(i).block ELSE addressing_block
  /\ UNCHANGED ata_lba48

\* ata_init: the addressing is kept per channel.  An adapter whose identify
\* reads back as zeros knows the extended command alone.
AtaInit ==
  /\ ata_lba48' = [ata_lba48 EXCEPT ![Channel(i)] = Card(i).ident # "lba28"]
  /\ UNCHANGED addressing_block

\* f_mount finds a volume or it does not, or a read of it fails.
Mounting == \E ok \in {Card(i).fat, FALSE} : BroughtUp(ok)

\* On the IPL side the sectors of an SD card are read by tsd_recv_data.
MountExi ==
  /\ pc = "bringup" /\ i \in SdDevices \cup AtaDevices
  /\ \/ /\ Present(i)
        /\ IF i \in SdDevices THEN SdInit ELSE AtaInit
        /\ IF side = "ipl" /\ i \in SdDevices
             THEN /\ pc' = "token"
                  /\ UNCHANGED <<i, attempt, emu_sd_device, mounted, mounts>>
             ELSE Mounting
     \/ BroughtUp(FALSE) /\ UNCHANGED flags
  /\ UNCHANGED <<hw, cached, rel_date, Rest>>

\* The card begins its sectors with the token tsd_recv_data waits for, with no
\* bound on the wait, or refuses them.  That it ever does is up to the card.
Token ==
  /\ pc = "token"
  /\ Mounting
  /\ UNCHANGED <<hw, cached, rel_date, flags, Rest>>

--------------------------------------------------------------------------------
(* From cubeboot.dol to the IPL, and reading.                              *)

\* cubeboot.dol writes emu_sd_device into the patches and starts the IPL,
\* whose copies of the drivers know nothing yet.
StartIpl ==
  /\ side = "loader" /\ pc = "idle"
  /\ emu_sd_device # None \/ opens = MaxPolls
  /\ side' = "ipl" /\ opens' = 0 /\ awake' = FALSE
  /\ has_fdrv' = -1 /\ has_gcode' = -1 /\ rel_date' = "zero"
  /\ addressing_block' = FALSE /\ ata_lba48' = [c \in 0 .. 2 |-> FALSE]
  /\ late' \in 0 .. MaxLate
  /\ UNCHANGED <<machine, mode, pc, i, attempt, emu_sd_device, mounted, mounts, rq>>

\* The sectors of the volume in use: a drive without LBA48 is no larger than
\* LBA28 reaches.
OnDevice == IF emu_sd_device \in AtaDevices /\ Card(emu_sd_device).ident = "lba28"
              THEN {s \in Sectors : s < Lba28} ELSE Sectors

\* disk_read_raw on a mounted block device.  gcode_sd_read moves MaxXfer
\* sectors at a time, or one if the buffer is not aligned.
StartRead ==
  /\ side = "ipl" /\ mounted /\ emu_sd_device # Flippy /\ rq.state = "none"
  /\ \E f \in Sectors, n \in 1 .. Cardinality(OnDevice), a \in BOOLEAN :
       /\ f .. f + n - 1 \subseteq OnDevice
       /\ rq' = [NoRead EXCEPT !.state = "busy", !.first = f, !.count = n,
                               !.aligned = a]
  /\ UNCHANGED <<hw, side, pc, i, attempt, opens, emu_sd_device, mounted, cached,
                 rel_date, flags, mounts, awake>>

\* The sector an SD card delivers for the address it is sent.
SdDelivers(s) ==
  LET addr == IF addressing_block THEN s ELSE s * SectorBytes
  IN IF Card(emu_sd_device).block THEN addr ELSE addr \div SectorBytes

\* The sector an ATA drive delivers: LBA28 keeps the low 28 bits.
AtaDelivers(s) ==
  IF ata_lba48[Channel(emu_sd_device)] THEN s ELSE s % Lba28

Left == rq.count - Len(rq.got)

\* One step of the transfer: a sector of tsd_sd_read or ata_read, or a chunk
\* of gcode_sd_read; a failing sector is tried again by ata_read alone.  A
\* drive without LBA48 refuses the extended command, an adapter that knows
\* nothing else the plain one.
ReadStep ==
  /\ rq.state = "busy"
  /\ \E k \in Kinds :
       LET d == emu_sd_device
           s == rq.first + Len(rq.got)
           chunk == IF d = Gcldr /\ rq.aligned /\ Left > MaxXfer THEN MaxXfer
                    ELSE IF d = Gcldr /\ rq.aligned THEN Left ELSE 1
           data == [j \in 1 .. chunk |->
                      CASE d = Gcldr -> s + j - 1
                        [] d \in SdDevices -> SdDelivers(s)
                        [] d \in AtaDevices -> AtaDelivers(s)]
           refused == /\ d \in AtaDevices
                      /\ Card(d).ident = IF ata_lba48[Channel(d)] THEN "lba28"
                                                                 ELSE "zeros"
       IN rq' =
          IF k = "ok" /\ ~refused
            THEN [rq EXCEPT !.got = @ \o data, !.tries = 0,
                            !.state = IF chunk = Left THEN "ok" ELSE "busy"]
            ELSE [rq EXCEPT !.tries = @ + 1,
                            !.state = IF d \in AtaDevices /\ rq.tries + 1 < Retries
                                        THEN "busy" ELSE "failed"]
  /\ UNCHANGED <<hw, side, pc, i, attempt, opens, emu_sd_device, mounted, cached,
                 rel_date, flags, mounts, awake>>

\* Nothing is left to be done: the device is in use, or was never found.
Done ==
  /\ side = "ipl" /\ pc = "idle"
  /\ IF mounted THEN emu_sd_device = Flippy \/ rq.state \in {"ok", "failed"}
                ELSE opens = MaxOpens
  /\ UNCHANGED vars

Fdrv == FdrvCached \/ FdrvInquire \/ FdrvBypassExit \/ FdrvInquireAgain
        \/ FdrvKnock \/ FdrvAwaitFirmware
Gcode == GcodeCached \/ GcodeInquire

Move == Open \/ Fdrv \/ Gcode \/ MountExi \/ StartIpl \/ StartRead \/ ReadStep
        \/ Done

Next == Move \/ Token

\* The program runs on; a card owes it no token.
Spec == Init /\ [][Next]_vars /\ WF_vars(Move)

--------------------------------------------------------------------------------
\* No drive is written off for being slow: fdrv.c and gcode.c remember that a
\* drive is absent only where it really is (the black screen of fdrv.c:219).
CachedAbsenceTrue ==
  /\ has_fdrv = 0 => machine.di # "flippy"
  /\ has_gcode = 0 => machine.di # "gcloader"

\* A drive that was ready when an open began is the device in use when it is
\* over, however the opens before went: what main's settle loop and the mount
\* retries of the IPL side are for.
ReadyIsAdopted ==
  pc = "idle" /\ awake =>
    IF side = "loader"
      THEN emu_sd_device = IF machine.di = "flippy" THEN Flippy ELSE Gcldr
      ELSE emu_sd_device \in {None, Flippy, Gcldr} => mounted

\* A read that reports success has delivered the sectors it was asked for:
\* the one addressing flag of tsd.c and the one per channel of ata.c are those
\* of the device in use, although other devices set them while they were
\* probed.
ReadIsExact ==
  rq.state = "ok" => rq.got = [j \in 1 .. rq.count |-> rq.first + j - 1]

\* Every probe ends: the IPL side comes to use a device or gives up.  One wait
\* has no bound, and it is the only one: for the sector of an SD card that
\* accepted the read command on the IPL side (tsd.c:87).
ProbeEnds ==
  \/ <>(side = "ipl" /\ pc = "idle" /\ (mounted \/ opens = MaxOpens))
  \/ <>[](side = "ipl" /\ i \in SdDevices /\ Present(i) /\ pc = "token")

================================================================================
