--------------------------- MODULE DeviceProbeProofs ---------------------------
(***************************************************************************)
(* Proofs about DeviceProbe, for every machine and every bound.  What they *)
(* say of a GC Loader needs that an inquiry of it ends while it wakes up:  *)
(* GcQuiet.  A transfer that does not end is taken for an absent drive at  *)
(* once, and MCDeviceProbeLate.cfg shows what becomes of it.               *)
(***************************************************************************)
EXTENDS DeviceProbe, TLAPS, SequenceTheorems

GcQuiet == "timeout" \notin GcFaults

--------------------------------------------------------------------------------
(* The inductive invariant. *)

TypeInv ==
  /\ machine \in Machines
  /\ mode \in {"none", "bypass", "bootloader", "firmware"}
  /\ late \in 0 .. MaxLate
  /\ side \in {"loader", "ipl"}
  /\ pc \in {"idle", "bringup", "bypass", "again", "boot", "booting", "token"}
  /\ i \in 0 .. 8 /\ emu_sd_device \in 0 .. 8
  /\ attempt \in Nat
  /\ mounted \in BOOLEAN /\ awake \in BOOLEAN
  /\ has_fdrv \in -1 .. 1 /\ has_gcode \in -1 .. 1
  /\ ata_lba48 \in [0 .. 2 -> BOOLEAN]

\* Where flippy_emu_mount is, and for which device: the chain while none is known,
\* the one device afterwards; with the volume mounted it is not called any more.
PlaceInv ==
  /\ pc # "idle" => i # None
  /\ pc \in {"bypass", "again", "boot", "booting"} => i = Flippy
  /\ pc = "token" => i \in SdDevices /\ side = "ipl"
  /\ side = "loader" /\ pc # "idle" => emu_sd_device = None
  /\ side = "ipl" /\ emu_sd_device # None /\ pc # "idle" => i = emu_sd_device
  /\ mounted => side = "ipl" /\ pc = "idle" /\ emu_sd_device # None

\* A FlippyDrive asked for the second time has left bypass.
ModeInv ==
  machine.di = "flippy" => mode # "none" /\ (pc = "again" => mode # "bypass")

\* What was found is there, and what is remembered as absent is absent.
KnownInv ==
  /\ has_fdrv = 1 \/ emu_sd_device = Flippy => machine.di = "flippy"
  /\ has_gcode = 1 \/ emu_sd_device = Gcldr => machine.di = "gcloader"
  /\ has_fdrv = 0 => machine.di # "flippy"
  /\ GcQuiet /\ has_gcode = 0 => machine.di # "gcloader"

\* The attempts made are inquiries the GC Loader has heard while it woke up.
GcodeInv ==
  GcQuiet /\ machine.di = "gcloader" /\ pc = "bringup" /\ i = Gcldr /\ has_gcode = -1
    => attempt + late <= MaxLate

\* An open that began with the drive ready is on its way to it.
AwakeInv ==
  GcQuiet /\ awake /\ pc # "idle" =>
    /\ Ready /\ pc \in {"bringup", "token"}
    /\ \/ i = Flippy
       \/ i = Gcldr /\ machine.di = "gcloader"
       \/ side = "ipl" /\ i = emu_sd_device

\* The addressing flags are those of an SD card, or of a drive.
SdAddressed(d) == Present(d) /\ addressing_block = Card(d).block
AtaAddressed(d) == Present(d) /\ ata_lba48[Channel(d)] = (Card(d).ident # "lba28")

\* The addressing flags are those of the device in use, or of the card that is asked
\* for the sectors of its volume.
FlagsInv ==
  /\ mounted => /\ emu_sd_device \in SdDevices => SdAddressed(emu_sd_device)
                /\ emu_sd_device \in AtaDevices => AtaAddressed(emu_sd_device)
  /\ pc = "token" => SdAddressed(i)

\* What a read has delivered so far is the beginning of its range, and all of the
\* range is on the device.
ReadInv ==
  \/ rq = NoRead
  \/ /\ mounted /\ emu_sd_device # Flippy
     /\ rq \in [state : {"busy", "ok", "failed"}, first : Nat, count : Nat,
                got : Seq(Nat), tries : Nat, aligned : BOOLEAN]
     /\ rq.first .. (rq.first + rq.count - 1) \subseteq OnDevice
     /\ Len(rq.got) <= rq.count
     /\ \A j \in 1 .. Len(rq.got) : rq.got[j] = rq.first + j - 1
     /\ rq.state = "busy" => Len(rq.got) < rq.count
     /\ rq.state = "ok" => Len(rq.got) = rq.count

IInv ==
  /\ TypeInv /\ PlaceInv /\ ModeInv /\ KnownInv /\ GcodeInv /\ AwakeInv
  /\ GcQuiet => ReadyIsAdopted
  /\ FlagsInv /\ ReadInv

--------------------------------------------------------------------------------
(* The disc interface. *)

\* What an inquiry can say, and of whom.
LEMMA InquirySays ==
  ASSUME IInv, NEW r \in Inquiry
  PROVE  /\ InMemory(r) \in {"zero", "gcode", Stock, Firmware, Bootloader}
         /\ r = "ok" \/ InMemory(r) = "zero"
         /\ InMemory(r) = "gcode" <=> r = "ok" /\ Date = "gcode"
         /\ InMemory(r) = "gcode" => machine.di = "gcloader"
         /\ InMemory(r) \in {Firmware, Bootloader} => machine.di = "flippy"
         /\ InMemory(r) = Stock /\ machine.di = "flippy" => mode = "bypass"
         /\ Ready => r = "ok" /\ InMemory(r) = IF machine.di = "flippy" THEN Firmware ELSE "gcode"
         /\ machine.di = "gcloader" => r # "timeout" \/ ~GcQuiet
         /\ machine.di = "gcloader" => late > 0 \/ (r = "ok" /\ Date = "gcode")
  <1> USE DEF Stock, Firmware, Bootloader
  <1>1. /\ machine.di \in {"none", "optical", "gcloader", "flippy"}
        /\ late \in Nat
        /\ mode \in {"none", "bypass", "bootloader", "firmware"}
        /\ machine.di = "flippy" => mode # "none"
    BY MachineAssumption, ProbeAssumption DEF IInv, TypeInv, ModeInv
  <1>2. /\ machine.di = "gcloader" => Date = "gcode"
        /\ machine.di = "optical" => Date = Stock
        /\ machine.di = "flippy" => Date = IF mode = "bypass" THEN Stock ELSE mode
    BY DEF Date
  <1>3. /\ machine.di = "none" => r = "timeout"
        /\ machine.di # "none" /\ late = 0 => r = "ok"
        /\ machine.di = "gcloader" /\ late > 0 => r \in GcFaults
        /\ machine.di = "gcloader" => late > 0 \/ r = "ok"
    BY <1>1 DEF Inquiry, Faults
  <1>4. CASE r = "ok"
    BY <1>1, <1>2, <1>3, <1>4 DEF InMemory, Ready, GcQuiet
  <1>5. CASE r # "ok"
    BY <1>1, <1>2, <1>3, <1>5 DEF InMemory, Ready, GcQuiet
  <1> QED BY <1>4, <1>5

\* An inquiry leaves a drive that is ready as it is, and another one nearer to it.
LEMMA WakingFacts ==
  ASSUME IInv, Waking
  PROVE  /\ late' \in 0 .. MaxLate
         /\ late = 0 => late' = 0
         /\ late > 0 => late' = late - 1
  BY ProbeAssumption DEF IInv, TypeInv, Waking

--------------------------------------------------------------------------------
(* flippy_emu_mount. *)

\* What holds of the state a bring-up leaves behind, whatever it found.
Sane ==
  /\ machine \in Machines
  /\ mode \in {"none", "bypass", "bootloader", "firmware"}
  /\ machine.di = "flippy" => mode # "none"
  /\ late \in 0 .. MaxLate
  /\ has_fdrv \in -1 .. 1 /\ has_gcode \in -1 .. 1
  /\ has_fdrv = 1 => machine.di = "flippy"
  /\ has_gcode = 1 => machine.di = "gcloader"
  /\ has_fdrv = 0 => machine.di # "flippy"
  /\ GcQuiet /\ has_gcode = 0 => machine.di # "gcloader"
  /\ ata_lba48 \in [0 .. 2 -> BOOLEAN]

\* It holds throughout.
LEMMA IInvSane == IInv => Sane
  BY DEF IInv, TypeInv, ModeInv, KnownInv, Sane

\* device_bring_up succeeded, for whichever driver: what is adopted is there and
\* addressed as its flags say.
LEMMA AdoptedInv ==
  ASSUME IInv, pc # "idle", Adopted, attempt' = 0, Sane',
         UNCHANGED <<machine, side, awake, rq>>,
         i = Flippy => machine.di = "flippy",
         i = Gcldr => machine.di = "gcloader",
         i \in SdDevices /\ side = "ipl" => Present(i) /\ addressing_block' = Card(i).block,
         i \in AtaDevices => Present(i) /\ ata_lba48'[Channel(i)] = (Card(i).ident # "lba28")
  PROVE  IInv'
  <1>0. /\ ~mounted /\ rq = NoRead /\ i \in 1 .. 8
        /\ emu_sd_device \in 0 .. 8 /\ side \in {"loader", "ipl"} /\ awake \in BOOLEAN
        /\ side = "loader" => emu_sd_device = None
        /\ side = "ipl" /\ emu_sd_device # None => i = emu_sd_device
    BY DEF IInv, TypeInv, PlaceInv, ReadInv, None
  <1>1. /\ pc' = "idle" /\ i' = None /\ emu_sd_device' = i
        /\ mounted' = (side = "ipl")
    BY DEF Adopted
  <1>2. TypeInv'
    BY <1>0, <1>1 DEF IInv, TypeInv, Sane, None
  <1>3. PlaceInv' /\ ModeInv' /\ GcodeInv' /\ AwakeInv'
    <2>1. i # None
      BY <1>0 DEF None
    <2>2. PlaceInv'
      BY <1>0, <1>1, <2>1 DEF PlaceInv
    <2>3. ModeInv' /\ GcodeInv' /\ AwakeInv'
      BY <1>1 DEF ModeInv, GcodeInv, AwakeInv, Sane
    <2> QED BY <2>2, <2>3
  <1>4. KnownInv'
    BY <1>1 DEF KnownInv, Sane
  <1>5. FlagsInv'
    <2>1. mounted' => side = "ipl"
      BY <1>1
    <2>2. mounted' /\ i \in SdDevices => Present(i) /\ addressing_block' = Card(i).block
      BY <2>1
    <2>3. pc' # "token"
      BY <1>1
    <2> QED BY <1>1, <2>2, <2>3 DEF FlagsInv, SdAddressed, AtaAddressed, Present, Card
  <1>6. ReadInv'
    BY <1>0 DEF ReadInv, NoRead
  <1>7. GcQuiet => ReadyIsAdopted'
    <2> SUFFICES ASSUME GcQuiet, awake
                 PROVE  ReadyIsAdopted'
      BY DEF ReadyIsAdopted
    <2>1. i = Flippy \/ (i = Gcldr /\ machine.di = "gcloader") \/ side = "ipl"
      BY DEF IInv, AwakeInv
    <2> QED BY <1>0, <1>1, <2>1 DEF ReadyIsAdopted, Flippy, Gcldr
  <1> QED BY <1>2, <1>3, <1>4, <1>5, <1>6, <1>7 DEF IInv, GcQuiet

\* It failed: a drive that is ready is not passed over.
LEMMA NotThisInv ==
  ASSUME IInv, pc # "idle", NotThis, attempt' = 0, Sane',
         UNCHANGED <<machine, side, awake, rq>>,
         GcQuiet /\ awake => Ready' /\ i # Gcldr /\ (i = Flippy => machine.di # "flippy")
  PROVE  IInv'
  <1>0. /\ ~mounted /\ rq = NoRead /\ i \in 1 .. 8
        /\ emu_sd_device \in 0 .. 8 /\ side \in {"loader", "ipl"} /\ awake \in BOOLEAN
        /\ side = "loader" => emu_sd_device = None
        /\ side = "ipl" /\ emu_sd_device # None => i = emu_sd_device
    BY DEF IInv, TypeInv, PlaceInv, ReadInv, None
  <1>1. /\ UNCHANGED <<emu_sd_device, mounted>>
        /\ \/ pc' = "idle" /\ i' = None
           \/ /\ pc' = "bringup" /\ side = "ipl" /\ emu_sd_device # None /\ i' = i
           \/ /\ pc' = "bringup" /\ ~(side = "ipl" /\ emu_sd_device # None)
              /\ i' = i + 1 /\ i < 8
        /\ ~(side = "ipl" /\ emu_sd_device # None) /\ i < 8 => pc' = "bringup"
    BY DEF NotThis, DevicePrio
  <1>2. TypeInv'
    BY <1>0, <1>1 DEF IInv, TypeInv, Sane, None
  <1>3. PlaceInv' /\ ModeInv'
    BY <1>0, <1>1 DEF PlaceInv, ModeInv, None, Sane
  <1>4. GcodeInv'
    BY <1>0, ProbeAssumption DEF GcodeInv, Sane
  <1>5. KnownInv'
    BY <1>1 DEF IInv, KnownInv, Sane
  <1>6. FlagsInv' /\ ReadInv'
    BY <1>0, <1>1 DEF FlagsInv, ReadInv, NoRead
  <1>7. GcQuiet => AwakeInv' /\ ReadyIsAdopted'
    <2> SUFFICES ASSUME GcQuiet, awake
                 PROVE  AwakeInv' /\ ReadyIsAdopted'
      BY DEF AwakeInv, ReadyIsAdopted
    <2>1. \/ i = Flippy \/ i = Gcldr
          \/ side = "ipl" /\ i = emu_sd_device /\ i \notin {Flippy, Gcldr}
      BY DEF IInv, AwakeInv
    <2>2. CASE i = Flippy
      <3>1. machine.di = "gcloader"
        BY <2>2 DEF Ready
      <3>2. ~(side = "ipl" /\ emu_sd_device # None)
        BY <1>0, <2>2, <3>1 DEF IInv, KnownInv
      <3>3. pc' = "bringup" /\ i' = Gcldr
        BY <1>0, <1>1, <2>2, <3>2 DEF Flippy, Gcldr
      <3> QED BY <3>1, <3>3 DEF AwakeInv, ReadyIsAdopted
    <2>3. CASE side = "ipl" /\ i = emu_sd_device /\ i \notin {Flippy, Gcldr}
      <3>1. emu_sd_device # None
        BY <1>0, <2>3 DEF None
      <3> QED BY <1>0, <1>1, <2>3, <3>1 DEF AwakeInv, ReadyIsAdopted, None
    <2> QED BY <2>1, <2>2, <2>3
  <1>8. GcQuiet' <=> GcQuiet
    BY DEF GcQuiet
  <1>9. AwakeInv'
    BY <1>7, <1>8 DEF AwakeInv
  <1> QED BY <1>2, <1>3, <1>4, <1>5, <1>6, <1>7, <1>8, <1>9 DEF IInv

\* A step inside a driver's probe, of a drive that was not ready when it began.
LEMMA ProbingInv ==
  ASSUME IInv, pc # "idle",
         UNCHANGED <<machine, side, awake, rq, i, emu_sd_device, mounted, flags>>,
         Sane', ModeInv', pc' \in {"bringup", "bypass", "again", "boot", "booting"},
         pc' # "bringup" => i = Flippy,
         attempt' \in Nat, GcodeInv', ~(GcQuiet /\ awake)
  PROVE  IInv'
  <1>1. ~mounted /\ rq = NoRead
    BY DEF IInv, PlaceInv, ReadInv
  <1>2. TypeInv'
    BY DEF IInv, TypeInv, Sane
  <1>3. PlaceInv'
    BY <1>1 DEF IInv, PlaceInv
  <1>4. KnownInv'
    BY DEF IInv, KnownInv, Sane
  <1>5. AwakeInv' /\ (GcQuiet' => ReadyIsAdopted')
    BY DEF AwakeInv, ReadyIsAdopted, GcQuiet
  <1>6. FlagsInv' /\ ReadInv'
    BY <1>1 DEF FlagsInv, ReadInv, NoRead
  <1> QED BY <1>2, <1>3, <1>4, <1>5, <1>6 DEF IInv

\* dvd_custom_open.
LEMMA OpenInv == IInv /\ Open => IInv'
  <1> SUFFICES ASSUME IInv, Open
               PROVE  IInv'
    OBVIOUS
  <1>1. /\ pc = "idle" /\ ~mounted /\ pc' = "bringup" /\ attempt' = 0 /\ awake' = Ready
        /\ i' = IF emu_sd_device = None THEN 1 ELSE emu_sd_device
        /\ side = "loader" => emu_sd_device = None
        /\ emu_sd_device \in 0 .. 8 /\ rq = NoRead
        /\ UNCHANGED <<machine, mode, late, side, emu_sd_device, mounted, has_fdrv, has_gcode,
                       rel_date, addressing_block, ata_lba48, rq>>
    BY DEF Open, hw, cached, flags, IInv, TypeInv, PlaceInv, ReadInv
  <1>2. TypeInv'
    BY <1>1 DEF IInv, TypeInv, None, Ready
  <1>3. PlaceInv' /\ ModeInv'
    BY <1>1 DEF IInv, PlaceInv, ModeInv, None
  <1>4. KnownInv'
    BY <1>1 DEF IInv, KnownInv, GcQuiet
  <1>5. GcodeInv'
    BY <1>1, ProbeAssumption DEF IInv, TypeInv, GcodeInv
  <1>6. AwakeInv' /\ (GcQuiet' => ReadyIsAdopted')
    <2>1. Ready' = Ready
      BY <1>1 DEF Ready
    <2>2. i' = Flippy \/ (side = "ipl" /\ i' = emu_sd_device)
      BY <1>1 DEF Flippy, IInv, TypeInv
    <2> QED BY <1>1, <2>1, <2>2 DEF AwakeInv, ReadyIsAdopted
  <1>7. FlagsInv' /\ ReadInv'
    BY <1>1 DEF FlagsInv, ReadInv, NoRead
  <1> QED BY <1>2, <1>3, <1>4, <1>5, <1>6, <1>7 DEF IInv

--------------------------------------------------------------------------------
(* fdrv_probe. *)

\* The answer it remembers.
LEMMA FdrvCachedInv == IInv /\ FdrvCached => IInv'
  <1> SUFFICES ASSUME IInv, FdrvCached
               PROVE  IInv'
    OBVIOUS
  <1>1. /\ pc = "bringup" /\ i = Flippy /\ has_fdrv >= 0 /\ BroughtUp(has_fdrv = 1)
        /\ UNCHANGED <<machine, mode, late, has_fdrv, has_gcode, addressing_block, ata_lba48,
                       side, awake, rq>>
    BY DEF FdrvCached, hw, cached, flags, Rest
  <1>2. Sane'
    BY <1>1, IInvSane DEF Sane, GcQuiet
  <1>3. has_fdrv = 1 <=> machine.di = "flippy"
    BY <1>1 DEF IInv, TypeInv, KnownInv
  <1>4. GcQuiet /\ awake => Ready'
    BY <1>1 DEF IInv, AwakeInv, Ready
  <1>5. i \notin SdDevices /\ i \notin AtaDevices /\ i # Gcldr
    BY <1>1 DEF Flippy, Gcldr, SdDevices, AtaDevices
  <1>6. CASE has_fdrv = 1
    BY <1>1, <1>2, <1>3, <1>5, <1>6, AdoptedInv DEF BroughtUp
  <1>7. CASE has_fdrv # 1
    BY <1>1, <1>2, <1>3, <1>4, <1>5, <1>7, NotThisInv DEF BroughtUp
  <1> QED BY <1>6, <1>7

\* fdrv_probe finds the firmware.
LEMMA FdrvFoundInv ==
  ASSUME IInv, pc # "idle", i = Flippy, machine.di = "flippy", FdrvJudge(Firmware),
         UNCHANGED <<machine, side, awake, rq, has_gcode, ata_lba48, mode>>,
         late' \in 0 .. MaxLate
  PROVE  IInv'
  <1>1. has_fdrv' = 1 /\ attempt' = 0 /\ Adopted
    <2>1. has_fdrv' = 1
      BY DEF FdrvJudge, Firmware, Stock
    <2>2. BroughtUp(Firmware = Firmware)
      BY DEF FdrvJudge
    <2> QED BY <2>1, <2>2 DEF BroughtUp
  <1>2. Sane'
    BY <1>1, IInvSane DEF Sane, GcQuiet
  <1>3. i \notin SdDevices /\ i \notin AtaDevices /\ i # Gcldr
    BY DEF Flippy, Gcldr, SdDevices, AtaDevices
  <1> QED BY <1>1, <1>2, <1>3, AdoptedInv

\* fdrv_probe ends without it: absence is remembered only where it is true, and a
\* drive that is ready is no FlippyDrive.
LEMMA FdrvNotInv ==
  ASSUME IInv, pc # "idle", i = Flippy, attempt' = 0, NotThis,
         UNCHANGED <<machine, side, awake, rq, has_gcode, ata_lba48, mode>>,
         late' \in 0 .. MaxLate, late = 0 => late' = 0,
         has_fdrv' = has_fdrv \/ has_fdrv' = -1 \/ (has_fdrv' = 0 /\ machine.di # "flippy"),
         GcQuiet /\ awake => machine.di # "flippy"
  PROVE  IInv'
  <1>1. Sane'
    BY IInvSane DEF Sane, GcQuiet
  <1>2. GcQuiet /\ awake => Ready'
    BY DEF IInv, AwakeInv, Ready
  <1>3. i # Gcldr
    BY DEF Flippy, Gcldr
  <1> QED BY <1>1, <1>2, <1>3, NotThisInv

\* A step on to the next part of fdrv_probe, which a ready drive does not need.
LEMMA FdrvOnInv ==
  ASSUME IInv, pc # "idle", i = Flippy,
         pc' \in {"bypass", "again", "boot", "booting"}, attempt' \in Nat,
         UNCHANGED <<machine, side, awake, rq, i, emu_sd_device, mounted, has_fdrv, has_gcode, flags>>,
         late' \in 0 .. MaxLate,
         mode' \in {"none", "bypass", "bootloader", "firmware"},
         machine.di = "flippy" => mode' # "none" /\ (pc' = "again" => mode' # "bypass"),
         ~(GcQuiet /\ awake)
  PROVE  IInv'
  <1>1. Sane'
    BY IInvSane DEF Sane, GcQuiet, flags
  <1>2. ModeInv' /\ GcodeInv'
    BY DEF ModeInv, GcodeInv
  <1> QED BY <1>1, <1>2, ProbingInv

\* The first inquiry: a GC Loader is recognised, and a stock date leads to another one.
LEMMA FdrvInquireInv == IInv /\ FdrvInquire => IInv'
  <1> SUFFICES ASSUME IInv, FdrvInquire
               PROVE  IInv'
    OBVIOUS
  <1>1. PICK r \in Inquiry :
          /\ rel_date' = InMemory(r)
          /\ Waking
          /\ CASE Failed(r) -> BroughtUp(FALSE) /\ UNCHANGED has_fdrv
               [] rel_date' = "gcode" -> has_fdrv' = 0 /\ BroughtUp(FALSE)
               [] rel_date' \in {Stock, Bootloader} ->
                    /\ pc' = IF rel_date' = Stock THEN "bypass" ELSE "boot"
                    /\ attempt' = 0
                    /\ UNCHANGED <<has_fdrv, i, emu_sd_device, mounted, mounts>>
               [] OTHER -> FdrvJudge(rel_date')
    BY DEF FdrvInquire
  <1>2. /\ pc = "bringup" /\ i = Flippy /\ has_fdrv = -1
        /\ UNCHANGED <<machine, mode, has_gcode, flags, addressing_block, ata_lba48, side, awake, rq>>
    BY DEF FdrvInquire, flags, Rest
  <1>3. /\ late' \in 0 .. MaxLate
        /\ late = 0 => late' = 0
    BY <1>1, WakingFacts
  <1>4. GcQuiet /\ awake => Ready
    BY <1>2 DEF IInv, AwakeInv
  <1> DEFINE d == InMemory(r)
  <1>5. /\ d \in {"zero", "gcode", Stock, Firmware, Bootloader}
        /\ r = "ok" \/ d = "zero"
        /\ d = "gcode" => machine.di = "gcloader"
        /\ d \in {Firmware, Bootloader} => machine.di = "flippy"
        /\ Ready => r = "ok" /\ d = IF machine.di = "flippy" THEN Firmware ELSE "gcode"
    BY InquirySays
  <1> HIDE DEF d
  <1>6. \/ Failed(r) /\ BroughtUp(FALSE) /\ UNCHANGED has_fdrv
        \/ d = "gcode" /\ has_fdrv' = 0 /\ BroughtUp(FALSE)
        \/ /\ d \in {Stock, Bootloader} /\ pc' \in {"bypass", "boot"}
           /\ attempt' = 0 /\ UNCHANGED <<has_fdrv, i, emu_sd_device, mounted>>
        \/ d \notin {"gcode", Stock, Bootloader} /\ FdrvJudge(d)
    BY <1>1 DEF d
  <1>7. CASE Failed(r) /\ attempt' = 0 /\ NotThis /\ UNCHANGED has_fdrv
    <2>1. ~(GcQuiet /\ awake)
      BY <1>4, <1>5, <1>7 DEF Failed
    <2> QED BY <1>2, <1>3, <1>7, <2>1, FdrvNotInv
  <1>8. CASE d = "gcode" /\ has_fdrv' = 0 /\ attempt' = 0 /\ NotThis
    <2>1. machine.di # "flippy"
      BY <1>5, <1>8
    <2> QED BY <1>2, <1>3, <1>8, <2>1, FdrvNotInv
  <1>9. CASE /\ d \in {Stock, Bootloader} /\ pc' \in {"bypass", "boot"}
             /\ attempt' = 0 /\ UNCHANGED <<has_fdrv, i, emu_sd_device, mounted>>
    <2>1. ~(GcQuiet /\ awake)
      BY <1>4, <1>5, <1>9 DEF Stock, Bootloader, Firmware
    <2>2. /\ mode' \in {"none", "bypass", "bootloader", "firmware"}
          /\ machine.di = "flippy" => mode' # "none"
      BY <1>2 DEF IInv, TypeInv, ModeInv
    <2>3. pc # "idle" /\ attempt' \in Nat /\ pc' \in {"bypass", "again", "boot", "booting"} /\ pc' # "again"
      BY <1>2, <1>9
    <2> QED BY <1>2, <1>3, <1>9, <2>1, <2>2, <2>3, FdrvOnInv
  <1>10. CASE d \notin {"gcode", Stock, Bootloader} /\ FdrvJudge(d)
    <2>1. CASE d = Firmware
      BY <1>2, <1>3, <1>5, <1>10, <2>1, FdrvFoundInv
    <2>2. CASE d = "zero"
      <3>1. has_fdrv' = -1 /\ attempt' = 0 /\ NotThis
        BY <1>10, <2>2 DEF FdrvJudge, Firmware, Stock, BroughtUp
      <3>2. ~(GcQuiet /\ awake)
        BY <1>4, <1>5, <2>2 DEF Firmware
      <3> QED BY <1>2, <1>3, <3>1, <3>2, FdrvNotInv
    <2> QED BY <1>5, <1>10, <2>1, <2>2
  <1> QED BY <1>6, <1>7, <1>8, <1>9, <1>10 DEF BroughtUp

\* No open that began with the drive ready comes past the first inquiry.
LEMMA NotAwake ==
  ASSUME IInv, pc \in {"bypass", "again", "boot", "booting"}
  PROVE  ~(GcQuiet /\ awake) /\ i = Flippy /\ pc # "idle"
  BY DEF IInv, AwakeInv, PlaceInv

\* The command to leave bypass.
LEMMA FdrvBypassExitInv == IInv /\ FdrvBypassExit => IInv'
  <1> SUFFICES ASSUME IInv, FdrvBypassExit
               PROVE  IInv'
    OBVIOUS
  <1>1. /\ pc = "bypass" /\ pc' = "again" /\ attempt' \in Nat
        /\ UNCHANGED <<machine, side, awake, rq, i, emu_sd_device, mounted, has_fdrv, has_gcode, flags>>
    BY DEF FdrvBypassExit, cached, Rest, IInv, TypeInv
  <1>2. /\ late' \in 0 .. MaxLate
        /\ mode' \in {"none", "bypass", "bootloader", "firmware"}
        /\ machine.di = "flippy" => mode' # "none" /\ mode' # "bypass"
    BY DEF FdrvBypassExit, Bootloader, Firmware, IInv, TypeInv
  <1> QED BY <1>1, <1>2, NotAwake, FdrvOnInv

\* The second inquiry: a stock date now is that of an optical drive.
LEMMA FdrvInquireAgainInv == IInv /\ FdrvInquireAgain => IInv'
  <1> SUFFICES ASSUME IInv, FdrvInquireAgain
               PROVE  IInv'
    OBVIOUS
  <1>1. PICK r \in Inquiry :
          /\ rel_date' = InMemory(r)
          /\ Waking
          /\ CASE Failed(r) -> BroughtUp(FALSE) /\ UNCHANGED has_fdrv
               [] rel_date' = Bootloader ->
                    /\ pc' = "boot" /\ attempt' = 0
                    /\ UNCHANGED <<has_fdrv, i, emu_sd_device, mounted, mounts>>
               [] OTHER -> FdrvJudge(rel_date')
    BY DEF FdrvInquireAgain
  <1>2. /\ pc = "again" /\ pc # "idle" /\ i = Flippy /\ ~(GcQuiet /\ awake)
        /\ UNCHANGED <<machine, mode, has_gcode, flags, addressing_block, ata_lba48, side, awake, rq>>
    BY NotAwake DEF FdrvInquireAgain, flags, Rest
  <1>3. /\ late' \in 0 .. MaxLate
        /\ late = 0 => late' = 0
    BY <1>1, WakingFacts
  <1>4. /\ mode \in {"none", "bypass", "bootloader", "firmware"}
        /\ machine.di = "flippy" => mode # "none" /\ mode # "bypass"
        /\ has_fdrv \in -1 .. 1 /\ (has_fdrv = 1 => machine.di = "flippy")
        /\ has_fdrv = 0 => machine.di # "flippy"
    BY <1>2 DEF IInv, TypeInv, ModeInv, KnownInv
  <1> DEFINE d == InMemory(r)
  <1>5. /\ d \in {"zero", "gcode", Stock, Firmware, Bootloader}
        /\ d \in {Firmware, Bootloader} => machine.di = "flippy"
        /\ d = Stock => machine.di # "flippy"
    BY <1>4, InquirySays
  <1> HIDE DEF d
  <1>6. \/ attempt' = 0 /\ NotThis /\ UNCHANGED has_fdrv
        \/ /\ pc' = "boot" /\ attempt' = 0
           /\ UNCHANGED <<has_fdrv, i, emu_sd_device, mounted>>
        \/ FdrvJudge(d)
    BY <1>1 DEF d, BroughtUp
  <1>7. CASE attempt' = 0 /\ NotThis /\ UNCHANGED has_fdrv
    BY <1>2, <1>3, <1>7, FdrvNotInv
  <1>8. CASE /\ pc' = "boot" /\ attempt' = 0
             /\ UNCHANGED <<has_fdrv, i, emu_sd_device, mounted>>
    BY <1>2, <1>3, <1>4, <1>8, FdrvOnInv
  <1>9. CASE FdrvJudge(d)
    <2>1. CASE d = Firmware
      BY <1>2, <1>3, <1>5, <1>9, <2>1, FdrvFoundInv
    <2>2. CASE d # Firmware
      <3>1. attempt' = 0 /\ NotThis
        BY <1>9, <2>2 DEF FdrvJudge, BroughtUp
      <3>2. has_fdrv' = -1 \/ (has_fdrv' = 0 /\ machine.di # "flippy")
        BY <1>5, <1>9, <2>2 DEF FdrvJudge
      <3> QED BY <1>2, <1>3, <3>1, <3>2, FdrvNotInv
    <2> QED BY <2>1, <2>2
  <1> QED BY <1>6, <1>7, <1>8, <1>9

\* The knocks.
LEMMA FdrvKnockInv == IInv /\ FdrvKnock => IInv'
  <1> SUFFICES ASSUME IInv, FdrvKnock
               PROVE  IInv'
    OBVIOUS
  <1>1. /\ pc = "boot" /\ pc' = "booting" /\ attempt' \in Nat
        /\ UNCHANGED <<machine, side, awake, rq, i, emu_sd_device, mounted, has_fdrv, has_gcode, flags>>
    BY DEF FdrvKnock, cached, Rest
  <1>2. /\ late' \in 0 .. MaxLate
        /\ mode' \in {"bootloader", "firmware"}
    BY DEF FdrvKnock, Bootloader, Firmware
  <1> QED BY <1>1, <1>2, NotAwake, FdrvOnInv

\* Waiting for the firmware, or giving up, which is not remembered.
LEMMA FdrvAwaitFirmwareInv == IInv /\ FdrvAwaitFirmware => IInv'
  <1> SUFFICES ASSUME IInv, FdrvAwaitFirmware
               PROVE  IInv'
    OBVIOUS
  <1>1. /\ pc = "booting" /\ pc # "idle" /\ i = Flippy /\ ~(GcQuiet /\ awake)
        /\ UNCHANGED <<machine, mode, has_gcode, flags, addressing_block, ata_lba48, side, awake, rq>>
    BY NotAwake DEF FdrvAwaitFirmware, flags, Rest
  <1>2. /\ mode \in {"none", "bypass", "bootloader", "firmware"}
        /\ machine.di = "flippy" => mode # "none"
        /\ late \in 0 .. MaxLate /\ attempt \in Nat
        /\ has_fdrv \in -1 .. 1 /\ (has_fdrv = 1 => machine.di = "flippy")
        /\ has_fdrv = 0 => machine.di # "flippy"
    BY <1>1 DEF IInv, TypeInv, ModeInv, KnownInv
  <1>3. CASE attempt' = 0 /\ NotThis /\ UNCHANGED <<late, has_fdrv>>
    BY <1>1, <1>2, <1>3, FdrvNotInv
  <1>4. ASSUME NEW r \in Inquiry, Waking, InMemory(r) = Firmware, FdrvJudge(Firmware)
        PROVE  IInv'
    <2>1. machine.di = "flippy"
      BY <1>4, InquirySays
    <2> QED BY <1>1, <1>4, <2>1, WakingFacts, FdrvFoundInv
  <1>5. CASE /\ Waking /\ attempt' = attempt + 1
             /\ UNCHANGED <<pc, i, emu_sd_device, mounted, has_fdrv>>
    <2>1. attempt' \in Nat
      BY <1>2, <1>5
    <2> QED BY <1>1, <1>2, <1>5, <2>1, WakingFacts, FdrvOnInv
  <1> QED BY <1>3, <1>4, <1>5 DEF FdrvAwaitFirmware, BroughtUp

--------------------------------------------------------------------------------
(* gcode_sd_init and the EXI devices. *)

\* The answer gcode.c remembers.
LEMMA GcodeCachedInv == IInv /\ GcodeCached => IInv'
  <1> SUFFICES ASSUME IInv, GcodeCached
               PROVE  IInv'
    OBVIOUS
  <1>1. /\ pc = "bringup" /\ i = Gcldr /\ has_gcode >= 0 /\ BroughtUp(has_gcode = 1 /\ machine.sd)
        /\ UNCHANGED <<machine, mode, late, has_fdrv, has_gcode, ata_lba48, side, awake, rq>>
    BY DEF GcodeCached, hw, cached, flags, Rest
  <1>2. Sane'
    BY <1>1, IInvSane DEF Sane, GcQuiet
  <1>3. /\ has_gcode = 1 => machine.di = "gcloader"
        /\ has_gcode = 1 \/ has_gcode = 0
        /\ GcQuiet /\ has_gcode = 0 => machine.di # "gcloader"
    BY <1>1 DEF IInv, TypeInv, KnownInv
  <1>4. GcQuiet /\ awake => Ready' /\ machine.di = "gcloader" /\ machine.sd
    <2> SUFFICES ASSUME GcQuiet, awake
                 PROVE  Ready' /\ machine.di = "gcloader" /\ machine.sd
      OBVIOUS
    <2>1. Ready /\ (machine.di = "gcloader" \/ i = emu_sd_device)
      BY <1>1 DEF IInv, AwakeInv, Flippy, Gcldr
    <2>2. machine.di = "gcloader"
      BY <1>1, <2>1 DEF IInv, KnownInv
    <2> QED BY <1>1, <2>1, <2>2 DEF Ready
  <1>5. i \notin SdDevices /\ i \notin AtaDevices /\ i # Flippy
    BY <1>1 DEF Flippy, Gcldr, SdDevices, AtaDevices
  <1>6. CASE has_gcode = 1 /\ machine.sd
    BY <1>1, <1>2, <1>3, <1>5, <1>6, AdoptedInv DEF BroughtUp
  <1>7. CASE ~(has_gcode = 1 /\ machine.sd)
    <2>1. ~(GcQuiet /\ awake)
      BY <1>3, <1>4, <1>7
    <2> QED BY <1>1, <1>2, <1>7, <2>1, NotThisInv DEF BroughtUp
  <1> QED BY <1>6, <1>7

\* One attempt: a GC Loader has answered before the attempts are used up.
LEMMA GcodeInquireInv == IInv /\ GcodeInquire => IInv'
  <1> SUFFICES ASSUME IInv, GcodeInquire
               PROVE  IInv'
    OBVIOUS
  <1>1. PICK r \in Inquiry :
          /\ Waking
          /\ IF r = "ok" /\ Date = "gcode" THEN has_gcode' = 1 /\ BroughtUp(machine.sd)
             ELSE IF r = "timeout" \/ attempt + 1 = GcodeAttempts
             THEN has_gcode' = 0 /\ BroughtUp(FALSE)
             ELSE /\ attempt' = attempt + 1
                  /\ UNCHANGED <<pc, i, emu_sd_device, mounted, mounts, has_gcode>>
    BY DEF GcodeInquire
  <1>2. /\ pc = "bringup" /\ i = Gcldr /\ has_gcode = -1
        /\ UNCHANGED <<machine, mode, has_fdrv, flags, ata_lba48, side, awake, rq>>
    BY DEF GcodeInquire, flags, Rest
  <1>3. /\ late' \in 0 .. MaxLate
        /\ late = 0 => late' = 0
        /\ late > 0 => late' = late - 1
        /\ late \in Nat /\ attempt \in Nat /\ MaxLate \in Nat /\ MaxLate < GcodeAttempts
    BY <1>1, WakingFacts, ProbeAssumption DEF IInv, TypeInv
  <1> DEFINE found == r = "ok" /\ Date = "gcode"
  <1>4. /\ found => machine.di = "gcloader"
        /\ machine.di = "gcloader" /\ GcQuiet => r # "timeout"
        /\ machine.di = "gcloader" => late > 0 \/ found
    BY InquirySays
  <1>5. GcQuiet /\ awake => Ready /\ machine.di = "gcloader" /\ machine.sd /\ found
    <2> SUFFICES ASSUME GcQuiet, awake
                 PROVE  Ready /\ machine.di = "gcloader" /\ machine.sd /\ found
      OBVIOUS
    <2>1. Ready /\ (machine.di = "gcloader" \/ i = emu_sd_device)
      BY <1>2 DEF IInv, AwakeInv, Flippy, Gcldr
    <2>2. machine.di = "gcloader"
      BY <1>2, <2>1 DEF IInv, KnownInv
    <2> QED BY <1>3, <1>4, <2>1, <2>2 DEF Ready
  <1>6. i \notin SdDevices /\ i \notin AtaDevices /\ i # Flippy /\ pc # "idle"
    BY <1>2 DEF Flippy, Gcldr, SdDevices, AtaDevices
  <1>7. CASE found
    <2>1. has_gcode' = 1
      BY <1>1, <1>7
    <2>2. Sane'
      BY <1>2, <1>3, <1>4, <1>7, <2>1, IInvSane DEF Sane, GcQuiet
    <2>3. BroughtUp(machine.sd)
      BY <1>1, <1>7
    <2>4. CASE machine.sd
      BY <1>2, <1>4, <1>6, <1>7, <2>2, <2>3, <2>4, AdoptedInv DEF BroughtUp
    <2>5. CASE ~machine.sd
      <3>1. attempt' = 0 /\ NotThis
        BY <2>3, <2>5 DEF BroughtUp
      <3> QED BY <1>2, <1>5, <1>6, <2>2, <2>5, <3>1, NotThisInv
    <2> QED BY <2>4, <2>5
  <1>8. CASE ~found /\ (r = "timeout" \/ attempt + 1 = GcodeAttempts)
    <2>1. has_gcode' = 0 /\ attempt' = 0 /\ NotThis
      BY <1>1, <1>8 DEF BroughtUp
    <2>2. GcQuiet => machine.di # "gcloader"
      <3> SUFFICES ASSUME GcQuiet, machine.di = "gcloader"
                   PROVE  FALSE
        OBVIOUS
      <3>1. attempt + late <= MaxLate
        BY <1>2 DEF IInv, GcodeInv
      <3> QED BY <1>3, <1>4, <1>8, <3>1
    <2>3. Sane'
      BY <1>2, <1>3, <2>1, <2>2, IInvSane DEF Sane, GcQuiet
    <2> QED BY <1>2, <1>5, <1>6, <1>8, <2>1, <2>3, NotThisInv
  <1>9. CASE ~found /\ ~(r = "timeout" \/ attempt + 1 = GcodeAttempts)
    <2>1. attempt' = attempt + 1 /\ UNCHANGED <<pc, i, emu_sd_device, mounted, has_gcode>>
      BY <1>1, <1>9
    <2>2. Sane' /\ ModeInv'
      BY <1>2, <1>3, <2>1, IInvSane DEF Sane, GcQuiet, IInv, ModeInv
    <2>3. GcodeInv'
      <3>1. GcQuiet /\ machine.di = "gcloader" => attempt + late <= MaxLate /\ late' = late - 1
        BY <1>2, <1>3, <1>4, <1>9 DEF IInv, GcodeInv
      <3> QED BY <1>2, <1>3, <2>1, <3>1 DEF GcodeInv, GcQuiet
    <2>4. attempt' \in Nat /\ ~(GcQuiet /\ awake)
      BY <1>3, <1>5, <1>9, <2>1
    <2> QED BY <1>2, <1>6, <2>1, <2>2, <2>3, <2>4, ProbingInv
  <1> QED BY <1>7, <1>8, <1>9

\* An SD card has been set up and is asked for the sectors of its volume.
LEMMA AwaitingInv ==
  ASSUME IInv, pc = "bringup", i \in SdDevices, Present(i), Sane',
         addressing_block' = Card(i).block, side = "ipl", pc' = "token",
         UNCHANGED <<machine, mode, late, side, awake, rq, i, attempt, emu_sd_device, mounted>>
  PROVE  IInv'
  <1>1. /\ ~mounted /\ rq = NoRead /\ i # Flippy /\ i # Gcldr /\ i # None
    BY DEF IInv, PlaceInv, ReadInv, Flippy, Gcldr, SdDevices, None
  <1>2. TypeInv' /\ PlaceInv' /\ ModeInv'
    BY <1>1 DEF IInv, TypeInv, PlaceInv, ModeInv, Sane
  <1>3. KnownInv' /\ GcodeInv'
    BY <1>1 DEF IInv, KnownInv, GcodeInv, Sane, GcQuiet
  <1>4. AwakeInv' /\ (GcQuiet => ReadyIsAdopted)'
    BY <1>1 DEF IInv, AwakeInv, Ready, ReadyIsAdopted, GcQuiet
  <1>5. FlagsInv' /\ ReadInv'
    BY <1>1 DEF FlagsInv, ReadInv, NoRead, SdAddressed, Card, Present
  <1> QED BY <1>2, <1>3, <1>4, <1>5 DEF IInv, GcQuiet

\* A card or drive on the EXI bus: the flags are those of the last one initialised.
LEMMA MountExiInv == IInv /\ MountExi => IInv'
  <1> SUFFICES ASSUME IInv, MountExi
               PROVE  IInv'
    OBVIOUS
  <1>1. /\ pc = "bringup" /\ i \in SdDevices \cup AtaDevices
        /\ UNCHANGED <<machine, mode, late, has_fdrv, has_gcode, side, awake, rq>>
    BY DEF MountExi, hw, cached, Rest
  <1>2. i # Flippy /\ i # Gcldr /\ pc # "idle" /\ (i \in SdDevices => i \notin AtaDevices)
    BY <1>1 DEF Flippy, Gcldr, SdDevices, AtaDevices
  <1>3. GcQuiet /\ awake => Ready'
    BY <1>1 DEF IInv, AwakeInv, Ready
  <1>4. /\ machine \in Machines /\ ata_lba48 \in [0 .. 2 -> BOOLEAN]
    BY DEF IInv, TypeInv
  <1>5. CASE BroughtUp(FALSE) /\ UNCHANGED flags
    <2>1. Sane'
      BY <1>1, <1>5, IInvSane DEF Sane, GcQuiet, flags
    <2> QED BY <1>1, <1>2, <1>3, <1>5, <2>1, NotThisInv DEF BroughtUp
  <1>6. CASE /\ Present(i) /\ IF i \in SdDevices THEN SdInit ELSE AtaInit
             /\ IF side = "ipl" /\ i \in SdDevices
                  THEN /\ pc' = "token"
                       /\ UNCHANGED <<i, attempt, emu_sd_device, mounted, mounts>>
                  ELSE Mounting
    <2>1. /\ ata_lba48' \in [0 .. 2 -> BOOLEAN]
          /\ i \in SdDevices /\ side = "ipl" => addressing_block' = Card(i).block
          /\ i \in AtaDevices => ata_lba48'[Channel(i)] = (Card(i).ident # "lba28")
      <3>1. CASE i \in SdDevices
        BY <1>2, <1>4, <1>6, <3>1 DEF SdInit
      <3>2. CASE i \in AtaDevices
        <4>1. Channel(i) \in 0 .. 2
          BY <3>2 DEF Channel, AtaDevices
        <4>2. ata_lba48' = [ata_lba48 EXCEPT ![Channel(i)] = (Card(i).ident # "lba28")]
          BY <1>2, <1>6, <3>2 DEF AtaInit
        <4> QED BY <1>2, <1>4, <3>2, <4>1, <4>2
      <3> QED BY <1>1, <3>1, <3>2
    <2>2. Sane'
      BY <1>1, <2>1, IInvSane DEF Sane, GcQuiet
    <2>3. CASE Mounting
      <3>1. PICK ok \in {Card(i).fat, FALSE} : BroughtUp(ok)
        BY <2>3 DEF Mounting
      <3>2. CASE ok
        BY <1>1, <1>2, <1>6, <2>1, <2>2, <3>1, <3>2, AdoptedInv DEF BroughtUp
      <3>3. CASE ~ok
        BY <1>1, <1>2, <1>3, <2>2, <3>1, <3>3, NotThisInv DEF BroughtUp
      <3> QED BY <3>2, <3>3
    <2>4. CASE /\ side = "ipl" /\ i \in SdDevices /\ pc' = "token"
               /\ UNCHANGED <<i, attempt, emu_sd_device, mounted, mounts>>
      BY <1>1, <1>2, <1>3, <1>6, <2>1, <2>2, <2>4, AwaitingInv
    <2> QED BY <1>6, <2>3, <2>4
  <1> QED BY <1>5, <1>6 DEF MountExi

\* The card has begun its sectors, or refused them.
LEMMA TokenInv == IInv /\ Token => IInv'
  <1> SUFFICES ASSUME IInv, Token
               PROVE  IInv'
    OBVIOUS
  <1>1. /\ pc = "token" /\ i \in SdDevices /\ i \notin AtaDevices /\ SdAddressed(i)
        /\ i # Flippy /\ i # Gcldr /\ pc # "idle"
        /\ UNCHANGED <<machine, mode, late, has_fdrv, has_gcode, side, awake, rq,
                       addressing_block, ata_lba48>>
    BY DEF Token, IInv, PlaceInv, FlagsInv, hw, cached, flags, Rest, Flippy, Gcldr,
           SdDevices, AtaDevices
  <1>2. GcQuiet /\ awake => Ready'
    BY <1>1 DEF IInv, AwakeInv, Ready
  <1>3. Sane'
    BY <1>1, IInvSane DEF Sane, GcQuiet
  <1>4. PICK ok \in {Card(i).fat, FALSE} : BroughtUp(ok)
    BY DEF Token, Mounting
  <1>5. CASE ok
    BY <1>1, <1>3, <1>4, <1>5, AdoptedInv DEF BroughtUp, SdAddressed
  <1>6. CASE ~ok
    BY <1>1, <1>2, <1>3, <1>4, <1>6, NotThisInv DEF BroughtUp
  <1> QED BY <1>5, <1>6

\* The IPL starts with drivers that know nothing yet.
LEMMA StartIplInv == IInv /\ StartIpl => IInv'
  <1> SUFFICES ASSUME IInv, StartIpl
               PROVE  IInv'
    OBVIOUS
  <1>1. /\ pc = "idle" /\ side' = "ipl" /\ awake' = FALSE /\ has_fdrv' = -1 /\ has_gcode' = -1
        /\ ata_lba48' \in [0 .. 2 -> BOOLEAN] /\ late' \in 0 .. MaxLate
        /\ ~mounted /\ rq = NoRead
        /\ UNCHANGED <<machine, mode, pc, i, attempt, emu_sd_device, mounted, rq>>
    BY DEF StartIpl, IInv, TypeInv, PlaceInv, ReadInv
  <1>2. TypeInv'
    <2>1. -1 \in -1 .. 1
      OBVIOUS
    <2> QED BY <1>1, <2>1 DEF IInv, TypeInv
  <1>3. PlaceInv' /\ ModeInv' /\ KnownInv'
    BY <1>1 DEF IInv, PlaceInv, ModeInv, KnownInv
  <1>4. GcodeInv' /\ AwakeInv' /\ (GcQuiet' => ReadyIsAdopted')
    BY <1>1 DEF GcodeInv, AwakeInv, ReadyIsAdopted
  <1>5. FlagsInv' /\ ReadInv'
    BY <1>1 DEF FlagsInv, ReadInv, NoRead
  <1> QED BY <1>2, <1>3, <1>4, <1>5 DEF IInv

--------------------------------------------------------------------------------
(* Reading. *)

\* While a volume is mounted, a step of a read disturbs nothing else.
LEMMA ReadingInv ==
  ASSUME IInv, ReadInv',
         UNCHANGED <<hw, side, pc, i, attempt, opens, emu_sd_device, mounted, cached,
                     rel_date, flags, mounts, awake>>
  PROVE  IInv'
  <1> USE DEF hw, cached, flags
  <1>1. TypeInv' /\ PlaceInv' /\ ModeInv'
    BY DEF IInv, TypeInv, PlaceInv, ModeInv
  <1>2. KnownInv' /\ GcodeInv' /\ FlagsInv'
    BY DEF IInv, KnownInv, GcodeInv, FlagsInv, SdAddressed, AtaAddressed, GcQuiet, Present, Card
  <1>3. AwakeInv' /\ (GcQuiet' => ReadyIsAdopted')
    BY DEF IInv, AwakeInv, ReadyIsAdopted, GcQuiet, Ready
  <1> QED BY <1>1, <1>2, <1>3 DEF IInv

\* A read begins with nothing delivered.
LEMMA StartReadInv == IInv /\ StartRead => IInv'
  <1> SUFFICES ASSUME IInv, StartRead
               PROVE  ReadInv'
    BY ReadingInv DEF StartRead
  <1>1. PICK f \in Sectors, n \in 1 .. Cardinality(OnDevice), a \in BOOLEAN :
          /\ f .. f + n - 1 \subseteq OnDevice
          /\ rq' = [NoRead EXCEPT !.state = "busy", !.first = f, !.count = n, !.aligned = a]
    BY DEF StartRead
  <1>2. /\ rq' = [state |-> "busy", first |-> f, count |-> n, got |-> <<>>, tries |-> 0, aligned |-> a]
        /\ mounted' /\ emu_sd_device' # Flippy /\ OnDevice' = OnDevice
    BY <1>1 DEF StartRead, NoRead, OnDevice, Card, hw
  <1>3. f \in Nat /\ n \in Nat
    BY ProbeAssumption
  <1>4. rq' \in [state : {"busy", "ok", "failed"}, first : Nat, count : Nat,
                 got : Seq(Nat), tries : Nat, aligned : BOOLEAN]
    BY <1>2, <1>3
  <1>5. /\ rq'.state = "busy" /\ rq'.first = f /\ rq'.count = n
        /\ rq'.got = <<>> /\ Len(rq'.got) = 0
    BY <1>2
  <1> QED BY <1>1, <1>2, <1>3, <1>4, <1>5 DEF ReadInv

\* Sectors in bytes and back.
LEMMA BytesAndBack ==
  ASSUME NEW s \in Nat
  PROVE  (s * SectorBytes) \div SectorBytes = s
  <1>1. SectorBytes \in Nat \ {0}
    BY ProbeAssumption
  <1> DEFINE b == SectorBytes
             q == (s * b) \div b
  <1>2. /\ s * b \in Nat /\ q \in Nat
        /\ s * b = b * q + ((s * b) % b) /\ (s * b) % b \in 0 .. (b - 1)
    BY <1>1, SMT
  <1> HIDE DEF q, b
  <1> QED BY <1>1, <1>2, SMT DEF b, q

\* The flags being those of the device, it delivers the sector asked for.
LEMMA DeliversIt ==
  ASSUME IInv, mounted, NEW s \in OnDevice
  PROVE  /\ emu_sd_device \in SdDevices => SdDelivers(s) = s
         /\ emu_sd_device \in AtaDevices => AtaDelivers(s) = s
  <1>1. s \in Nat
    BY ProbeAssumption DEF OnDevice
  <1>2. ASSUME emu_sd_device \in SdDevices
        PROVE  SdDelivers(s) = s
    <2>1. addressing_block = Card(emu_sd_device).block
      BY <1>2 DEF IInv, FlagsInv, SdAddressed
    <2> QED BY <1>1, <2>1, BytesAndBack DEF SdDelivers
  <1>3. ASSUME emu_sd_device \in AtaDevices
        PROVE  AtaDelivers(s) = s
    <2>1. ata_lba48[Channel(emu_sd_device)] = (Card(emu_sd_device).ident # "lba28")
      BY <1>3 DEF IInv, FlagsInv, AtaAddressed
    <2>2. Card(emu_sd_device).ident = "lba28" => s < Lba28
      BY <1>3 DEF OnDevice
    <2>3. Lba28 \in Nat /\ (s < Lba28 => s % Lba28 = s)
      BY <1>1, ProbeAssumption
    <2> QED BY <2>1, <2>2, <2>3 DEF AtaDelivers
  <1> QED BY <1>2, <1>3

\* The next c sectors behind those that were delivered.
LEMMA RangeGrows ==
  ASSUME NEW got \in Seq(Nat), NEW f \in Nat, NEW c \in Nat,
         \A j \in 1 .. Len(got) : got[j] = f + j - 1
  PROVE  LET g == got \o [j \in 1 .. c |-> (f + Len(got)) + j - 1]
         IN  /\ g \in Seq(Nat)
             /\ Len(g) = Len(got) + c
             /\ \A j \in 1 .. Len(g) : g[j] = f + j - 1
  <1> DEFINE data == [j \in 1 .. c |-> (f + Len(got)) + j - 1]
             g == got \o data
  <1>1. data \in Seq(Nat) /\ Len(data) = c /\ Len(got) \in Nat
    OBVIOUS
  <1>2. \A j \in 1 .. c : data[j] = (f + Len(got)) + j - 1
    OBVIOUS
  <1> HIDE DEF data
  <1>3. g \in Seq(Nat) /\ Len(g) = Len(got) + c
    BY <1>1, ConcatProperties
  <1>4. ASSUME NEW j \in 1 .. Len(g)
        PROVE  g[j] = f + j - 1
    <2>1. CASE j <= Len(got)
      BY <1>1, <1>3, <2>1
    <2>2. CASE j > Len(got)
      <3>1. g[j] = data[j - Len(got)] /\ j - Len(got) \in 1 .. c
        BY <1>1, <1>3, <2>2
      <3> QED BY <1>1, <1>2, <1>3, <3>1
    <2> QED BY <1>1, <1>3, <2>1, <2>2
  <1> QED BY <1>3, <1>4 DEF data

\* One step of a transfer: what it adds is the next part of the range.
LEMMA ReadStepInv == IInv /\ ReadStep => IInv'
  <1> SUFFICES ASSUME IInv, ReadStep
               PROVE  ReadInv'
    BY ReadingInv DEF ReadStep
  <1> DEFINE d == emu_sd_device
             s == rq.first + Len(rq.got)
             chunk == IF d = Gcldr /\ rq.aligned /\ Left > MaxXfer THEN MaxXfer
                      ELSE IF d = Gcldr /\ rq.aligned THEN Left ELSE 1
             data == [j \in 1 .. chunk |->
                        CASE d = Gcldr -> s + j - 1
                          [] d \in SdDevices -> SdDelivers(s)
                          [] d \in AtaDevices -> AtaDelivers(s)]
             refused == /\ d \in AtaDevices
                        /\ Card(d).ident = IF ata_lba48[Channel(d)] THEN "lba28"
                                                                   ELSE "zeros"
             R == [state : {"busy", "ok", "failed"}, first : Nat, count : Nat,
                   got : Seq(Nat), tries : Nat, aligned : BOOLEAN]
  <1>1. PICK k \in Kinds :
          rq' = IF k = "ok" /\ ~refused
                THEN [rq EXCEPT !.got = @ \o data, !.tries = 0,
                                !.state = IF chunk = Left THEN "ok" ELSE "busy"]
                ELSE [rq EXCEPT !.tries = @ + 1,
                                !.state = IF d \in AtaDevices /\ rq.tries + 1 < Retries
                                          THEN "busy" ELSE "failed"]
    BY DEF ReadStep
  <1>2. /\ rq.state = "busy" /\ rq # NoRead
        /\ mounted /\ d # Flippy /\ rq \in R
        /\ rq.first .. (rq.first + rq.count - 1) \subseteq OnDevice
        /\ Len(rq.got) < rq.count
        /\ \A j \in 1 .. Len(rq.got) : rq.got[j] = rq.first + j - 1
    BY DEF ReadStep, IInv, ReadInv, NoRead
  <1>3. mounted' /\ emu_sd_device' # Flippy /\ OnDevice' = OnDevice
    BY <1>2 DEF ReadStep, OnDevice, Card, hw
  <1>4. /\ rq.first \in Nat /\ rq.count \in Nat /\ rq.got \in Seq(Nat) /\ rq.tries \in Nat
        /\ rq.aligned \in BOOLEAN /\ Len(rq.got) \in Nat /\ MaxXfer \in Nat
        /\ d \in 0 .. 8 /\ d # 0
    BY <1>2, ProbeAssumption DEF IInv, TypeInv, PlaceInv, None
  <1> HIDE DEF data, chunk, s, refused
  <1>5. CASE k = "ok" /\ ~refused
    <2> DEFINE st == IF chunk = Left THEN "ok" ELSE "busy"
               n == Len(rq.got)
    <2>1. rq' = [rq EXCEPT !.got = rq.got \o data, !.tries = 0, !.state = st]
      BY <1>1, <1>2, <1>5
    <2>2. /\ s \in Nat /\ Left \in Nat /\ Left = rq.count - n /\ s = rq.first + n
          /\ chunk \in Nat /\ chunk <= Left
      BY <1>2, <1>4 DEF s, chunk, Left
    <2>3. chunk = 1 \/ d = Gcldr
      BY DEF chunk
    <2>4. s \in OnDevice
      BY <1>2, <1>4, <2>2
    <2>5. \A j \in 1 .. chunk :
            (CASE d = Gcldr -> s + j - 1
               [] d \in SdDevices -> SdDelivers(s)
               [] d \in AtaDevices -> AtaDelivers(s)) = s + j - 1
      <3>1. CASE d = Gcldr
        BY <3>1 DEF Gcldr, SdDevices, AtaDevices
      <3>2. CASE d \in SdDevices /\ d # Gcldr
        <4>1. chunk = 1 /\ SdDelivers(s) = s /\ d \notin AtaDevices
          BY <1>2, <2>3, <2>4, <3>2, DeliversIt DEF SdDevices, AtaDevices
        <4> QED BY <2>2, <3>2, <4>1
      <3>3. CASE d \in AtaDevices /\ d # Gcldr
        <4>1. chunk = 1 /\ AtaDelivers(s) = s /\ d \notin SdDevices
          BY <1>2, <2>3, <2>4, <3>3, DeliversIt DEF SdDevices, AtaDevices
        <4> QED BY <2>2, <3>3, <4>1
      <3>4. d = Gcldr \/ (d \in SdDevices /\ d # Gcldr) \/ (d \in AtaDevices /\ d # Gcldr)
        BY <1>2, <1>4 DEF Flippy, Gcldr, SdDevices, AtaDevices
      <3> QED BY <3>1, <3>2, <3>3, <3>4
    <2>6. data = [j \in 1 .. chunk |-> s + j - 1]
      BY <2>5 DEF data
    <2> HIDE DEF st
    <2> DEFINE g == rq.got \o data
    <2>7. /\ g \in Seq(Nat) /\ Len(g) = n + chunk
          /\ \A j \in 1 .. Len(g) : g[j] = rq.first + j - 1
      <3> DEFINE got == rq.got
                 f == rq.first
                 h == got \o [j \in 1 .. chunk |-> (f + Len(got)) + j - 1]
      <3>1. g = h
        BY <2>2, <2>6
      <3>2. /\ got \in Seq(Nat) /\ f \in Nat /\ chunk \in Nat
            /\ \A j \in 1 .. Len(got) : got[j] = f + j - 1
        BY <1>2, <1>4, <2>2
      <3> HIDE DEF got, f
      <3>3. /\ h \in Seq(Nat) /\ Len(h) = Len(got) + chunk
            /\ \A j \in 1 .. Len(h) : h[j] = f + j - 1
        BY <3>2, RangeGrows
      <3> HIDE DEF g, h
      <3> QED BY <3>1, <3>3 DEF got, f
    <2> HIDE DEF g
    <2>9. /\ Len(g) <= rq.count
          /\ chunk = Left => Len(g) = rq.count
          /\ chunk # Left => Len(g) < rq.count
      <3>1. Len(g) = n + chunk /\ n \in Nat /\ rq.count \in Nat /\ Left = rq.count - n
        BY <1>4, <2>2, <2>7
      <3>2. chunk \in Nat /\ Left \in Nat /\ chunk <= Left
        BY <2>2
      <3> HIDE DEF n
      <3> QED BY <3>1, <3>2
    <2>10. st \in {"ok", "busy"} /\ (st = "ok" <=> chunk = Left)
      BY DEF st
    <2>11. /\ rq' = [state |-> st, first |-> rq.first, count |-> rq.count, got |-> g,
                      tries |-> 0, aligned |-> rq.aligned]
      BY <1>2, <2>1 DEF g
    <2>12. /\ rq' \in R /\ rq'.first = rq.first /\ rq'.count = rq.count /\ rq'.got = g
           /\ rq'.state = st
      BY <1>4, <2>7, <2>10, <2>11
    <2> QED BY <1>2, <1>3, <2>7, <2>9, <2>10, <2>12 DEF ReadInv
  <1>6. CASE ~(k = "ok" /\ ~refused)
    <2> DEFINE st == IF d \in AtaDevices /\ rq.tries + 1 < Retries THEN "busy" ELSE "failed"
    <2>1. rq' = [rq EXCEPT !.tries = rq.tries + 1, !.state = st]
      BY <1>1, <1>2, <1>6
    <2>2. st \in {"busy", "failed"}
      OBVIOUS
    <2> HIDE DEF st
    <2>3. /\ rq' = [state |-> st, first |-> rq.first, count |-> rq.count, got |-> rq.got,
                     tries |-> rq.tries + 1, aligned |-> rq.aligned]
      BY <1>2, <2>1
    <2>4. /\ rq' \in R /\ rq'.first = rq.first /\ rq'.count = rq.count /\ rq'.got = rq.got
          /\ rq'.state # "ok"
      BY <1>4, <2>2, <2>3
    <2>5. Len(rq.got) <= rq.count
      BY <1>2, <1>4
    <2> QED BY <1>2, <1>3, <2>4, <2>5 DEF ReadInv
  <1> QED BY <1>5, <1>6

--------------------------------------------------------------------------------
(* The theorems. *)

\* Nothing is known and nothing is under way.
LEMMA InitInv == Init => IInv
  <1> SUFFICES ASSUME Init
               PROVE  IInv
    OBVIOUS
  <1> USE DEF Init, None
  <1>1. TypeInv
    <2>1. -1 \in -1 .. 1 /\ 0 \in Nat
      OBVIOUS
    <2>2. mode \in {"none", "bypass", "bootloader", "firmware"}
      BY MachineAssumption
    <2>3. ata_lba48 \in [0 .. 2 -> BOOLEAN]
      OBVIOUS
    <2>4. i \in 0 .. 8 /\ emu_sd_device \in 0 .. 8 /\ attempt \in Nat
      OBVIOUS
    <2> QED BY <2>1, <2>2, <2>3, <2>4 DEF TypeInv
  <1>2. PlaceInv /\ ModeInv /\ KnownInv
    BY MachineAssumption DEF PlaceInv, ModeInv, KnownInv, Flippy, Gcldr
  <1>3. GcodeInv /\ AwakeInv /\ ReadyIsAdopted /\ FlagsInv /\ ReadInv
    BY DEF GcodeInv, AwakeInv, ReadyIsAdopted, FlagsInv, ReadInv
  <1> QED BY <1>1, <1>2, <1>3 DEF IInv

\* Every step preserves the invariant.
LEMMA NextInv == IInv /\ [Next]_vars => IInv'
  <1> SUFFICES ASSUME IInv, [Next]_vars
               PROVE  IInv'
    OBVIOUS
  <1>1. CASE UNCHANGED vars
    <2>1. ReadInv'
      BY <1>1 DEF vars, hw, IInv, ReadInv, OnDevice, Card
    <2> QED BY <1>1, <2>1, ReadingInv DEF vars
  <1>2. CASE Done
    BY <1>1, <1>2 DEF Done
  <1>3. CASE Fdrv
    BY <1>3, FdrvCachedInv, FdrvInquireInv, FdrvBypassExitInv, FdrvInquireAgainInv,
       FdrvKnockInv, FdrvAwaitFirmwareInv DEF Fdrv
  <1>4. CASE Gcode
    BY <1>4, GcodeCachedInv, GcodeInquireInv DEF Gcode
  <1> QED BY <1>1, <1>2, <1>3, <1>4, OpenInv, MountExiInv, TokenInv, StartIplInv, StartReadInv,
             ReadStepInv DEF Next, Move

\* The invariant holds throughout.
THEOREM Invariant == Spec => []IInv
  BY InitInv, NextInv, PTL DEF Spec

\* However slowly a drive wakes up, fdrv.c and gcode.c do not write it off, provided
\* the inquiries of a waking GC Loader end.
THEOREM AbsenceIsTrue ==
  ASSUME GcQuiet
  PROVE  Spec => []CachedAbsenceTrue
  <1>1. IInv => CachedAbsenceTrue
    BY DEF IInv, KnownInv, CachedAbsenceTrue
  <1> QED BY <1>1, Invariant, PTL

\* A drive that is ready when an open begins is adopted by it, provided the
\* inquiries of a waking GC Loader end.
THEOREM ReadyDriveAdopted ==
  ASSUME GcQuiet
  PROVE  Spec => []ReadyIsAdopted
  <1>1. IInv => ReadyIsAdopted
    BY DEF IInv
  <1> QED BY <1>1, Invariant, PTL

\* A read that succeeds delivers the sectors asked for, on every device, whatever was
\* initialised on the way to it.
THEOREM ReadsAreExact == Spec => []ReadIsExact
  <1>1. IInv => ReadIsExact
    <2> SUFFICES ASSUME IInv, rq.state = "ok"
                 PROVE  rq.got = [j \in 1 .. rq.count |-> rq.first + j - 1]
      BY DEF ReadIsExact
    <2>1. /\ rq.got \in Seq(Nat) /\ Len(rq.got) = rq.count
          /\ \A j \in 1 .. Len(rq.got) : rq.got[j] = rq.first + j - 1
      BY DEF IInv, ReadInv, NoRead
    <2>2. rq.got = [j \in 1 .. Len(rq.got) |-> rq.got[j]]
      BY <2>1
    <2> QED BY <2>1, <2>2
  <1> QED BY <1>1, Invariant, PTL
================================================================================
