------------------------------- MODULE FatFile -------------------------------
(***************************************************************************)
(* The file API of flippy_emu.c over FatFs: one static FIL, one static     *)
(* FFDIR, and the single sector buffer fs->win (FF_FS_TINY) that the FAT,  *)
(* the directories and the ends of file reads share.  Every sector that is *)
(* read is a step of its own, and may fail.                                *)
(***************************************************************************)
EXTENDS FatVolume

CONSTANTS Calls, NoCall, NoValue,
          MaxFaults     \* bound on the disk reads that fail

\* Paths have at most two segments, as in Lookup.
ASSUME CallAssumption ==
  /\ NoCall \notin Calls /\ MaxFaults \in Nat
  /\ \A c \in Calls :
       \/ c.op = "open" /\ c.kind \in {"file", "dir"} /\ c.paths \in Seq(Seq(Names)) \ {<<>>}
                       /\ \A k \in 1 .. Len(c.paths) : Len(c.paths[k]) <= 2
       \/ c.op = "read" /\ c.off \in Nat /\ c.len \in Nat
       \/ c.op = "readdir"

VARIABLES
  vol,
  file,      \* the FIL: open (obj.fs), entry (sclust, objsize, stat), err, fptr, clust, sect
  dir,       \* the FFDIR, and f_open's own one: open, sclust, clust, sect, dptr
  winsect,   \* fs->winsect: the sector the window is said to hold, -1 for none
  win,       \* the sector it does hold
  pc, call,  \* the call under way
  path,      \* what is left of the path it follows, and
  alts,      \* the paths to try when this one leads nowhere
  ofs, btr,  \* bytes left to seek, and to read
  xfer,      \* the transfer being put together: sect, cc, ccsize
  got,       \* the caller's buffer
  ret, hurt, faults

filevars == <<file, ofs, btr, xfer, got>>
dirvars == <<dir, path, alts>>
window == <<winsect, win, faults, hurt>>
vars == <<vol, filevars, dirvars, window, pc, call, ret>>

Invalid == -1
NoXfer == [sect |-> 0, cc |-> 0, ccsize |-> 0]

Closed == [open |-> FALSE, entry |-> NoEntry, err |-> FALSE,
           fptr |-> 0, clust |-> 0, sect |-> 0]
ClosedDir == [open |-> FALSE, entry |-> NoEntry, clust |-> 0, sect |-> 0, dptr |-> 0]

Init ==
  /\ vol \in Volumes
  /\ file = Closed /\ dir = ClosedDir
  /\ winsect = Invalid /\ win = Invalid /\ faults = 0 /\ hurt = FALSE
  /\ pc = "idle" /\ call = NoCall /\ ret = [ok |-> TRUE, val |-> NoValue]
  /\ path = <<>> /\ alts = <<>> /\ ofs = 0 /\ btr = 0 /\ xfer = NoXfer /\ got = <<>>

-----------------------------------------------------------------------------
(* The disk and the window. *)

\* disk_read, of sectors that do or do not come.
DiskRead(ok) ==
  IF ok THEN UNCHANGED <<faults, hurt>>
  ELSE faults < MaxFaults /\ faults' = faults + 1 /\ hurt' = TRUE

\* move_window.  A failed read leaves nothing usable in the buffer.
MoveWindow(s, ok) ==
  IF s = winsect THEN ok /\ UNCHANGED window
  ELSE /\ DiskRead(ok)
       /\ winsect' = IF ok THEN s ELSE Invalid
       /\ win' = IF ok THEN s ELSE Invalid

\* The entry of an exFAT file that lies in one piece: generated, not read.
Contiguous(o, c) ==
  IF First(vol, o.id) <= c /\ (c - First(vol, o.id)) * Bcs < o.size
  THEN IF (c - First(vol, o.id) + 1) * Bcs < o.size THEN c + 1 ELSE EOC
  ELSE 1

\* get_fat: the value is v.
GetFat(o, c, v) ==
  IF c \notin 2 .. NFat - 1 THEN v = 1 /\ UNCHANGED window
  ELSE IF o.stat = 2 THEN v = Contiguous(o, c) /\ UNCHANGED window
  ELSE \E ok \in BOOLEAN :
         /\ MoveWindow(FatSector(c), ok)
         /\ v = IF ~ok THEN DiskErr ELSE IF win' = FatSector(c) THEN Fat(vol, c) ELSE 1

FatValues == 0 .. DiskErr

-----------------------------------------------------------------------------
(* Calls and returns. *)

Return(ok, val) ==
  /\ pc' = "idle" /\ call' = NoCall /\ ret' = [ok |-> ok, val |-> val]
  /\ path' = <<>> /\ alts' = <<>> /\ ofs' = 0 /\ btr' = 0 /\ xfer' = NoXfer /\ got' = <<>>

\* ABORT: the error stays in the file.
Abort == file' = [file EXCEPT !.err = TRUE] /\ Return(FALSE, NoValue)

\* dir_sdi(dp, 0)
Rewind(e) ==
  [open |-> FALSE, entry |-> e, clust |-> First(vol, e.id),
   sect |-> Clst2Sect(First(vol, e.id)), dptr |-> 0]

\* dvd_custom_open, and dvd_custom_open_flash with its two paths: dvd_custom_close,
\* then f_open or f_opendir follows the path from the root.
InvokeOpen(c) ==
  /\ pc = "idle" /\ c.op = "open"
  /\ call' = c /\ hurt' = FALSE
  /\ file' = Closed /\ dir' = Rewind(RootEntry)
  /\ path' = Head(c.paths) /\ alts' = Tail(c.paths)
  /\ pc' = "find"
  /\ UNCHANGED <<vol, ofs, btr, xfer, got, winsect, win, faults, ret>>

\* dvd_read, and dvd_custom_readdir, which is called for a directory only.
Invoke(c) ==
  /\ pc = "idle" /\ c.op # "open"
  /\ c.op = "readdir" => dir.open
  /\ call' = c /\ hurt' = FALSE
  /\ pc' = IF c.op = "read" THEN "lseek" ELSE "list"
  /\ UNCHANGED <<vol, filevars, dirvars, winsect, win, faults, ret>>

-----------------------------------------------------------------------------
(* Directories. *)

\* The entry dp->dir points to, when the window holds its sector.
EntryInWindow == EntryIn(vol, win', dir.dptr % DirPerSector)

\* dir_next: the FAT is read at the end of a cluster only.
NextIndex == dir.dptr + 1
EndOfCluster == NextIndex % (DirPerSector * CSize) = 0
NextCluster(v) ==
  IF EndOfCluster THEN GetFat(dir.entry, dir.clust, v) ELSE v = dir.clust /\ UNCHANGED window

NextFails(v) == v < 2 \/ v = DiskErr
NextEnds(v) == v >= NFat /\ v # DiskErr

Advanced(v) ==
  IF NextFails(v) THEN [dir EXCEPT !.sect = @ + 1]
  ELSE IF NextEnds(v) THEN [dir EXCEPT !.sect = 0]
  ELSE IF EndOfCluster THEN [dir EXCEPT !.dptr = NextIndex, !.clust = v, !.sect = Clst2Sect(v)]
  ELSE [dir EXCEPT !.dptr = NextIndex,
                   !.sect = IF NextIndex % DirPerSector = 0 THEN @ + 1 ELSE @]

\* The path led to entry e, or nowhere (NoEntry): the last part of f_open and
\* f_opendir, and the second path of dvd_custom_open_flash.
Resolve(e) ==
  IF e.kind = call.kind
  THEN /\ IF e.kind = "file"
          THEN /\ file' = [Closed EXCEPT !.open = TRUE, !.entry = e]
               /\ dir' = ClosedDir
          ELSE dir' = [Rewind(e) EXCEPT !.open = TRUE] /\ UNCHANGED file
       /\ Return(TRUE, NoValue)
  ELSE /\ UNCHANGED file
       /\ IF alts = <<>> THEN dir' = ClosedDir /\ Return(FALSE, NoValue)
          ELSE /\ dir' = Rewind(RootEntry)
               /\ path' = Head(alts) /\ alts' = Tail(alts) /\ pc' = "find"
               /\ UNCHANGED <<call, ret, ofs, btr, xfer, got>>

\* follow_path of the root directory itself.
FindRoot ==
  /\ pc = "find" /\ path = <<>>
  /\ Resolve(RootEntry)
  /\ UNCHANGED <<vol, window>>

\* dir_find looks at an entry: follow_path goes down, is at its end, or fails.
FindEntry ==
  /\ pc = "find" /\ path # <<>>
  /\ \E ok \in BOOLEAN :
       /\ MoveWindow(dir.sect, ok)
       /\ IF ~ok \/ EntryInWindow.kind = "end" THEN Resolve(NoEntry)
          ELSE IF EntryInWindow.kind \in {"file", "dir"} /\ EntryInWindow.name = Head(path)
          THEN IF Len(path) = 1 THEN Resolve(EntryInWindow)
               ELSE IF EntryInWindow.kind # "dir" THEN Resolve(NoEntry)
               ELSE /\ dir' = Rewind(EntryInWindow) /\ path' = Tail(path)
                    /\ UNCHANGED <<pc, call, ret, filevars, alts>>
          ELSE pc' = "findnext" /\ UNCHANGED <<call, ret, filevars, dirvars>>
  /\ UNCHANGED vol

FindNext ==
  /\ pc = "findnext"
  /\ \E v \in FatValues :
       /\ NextCluster(v)
       /\ IF NextFails(v) \/ NextEnds(v) THEN Resolve(NoEntry)
          ELSE /\ dir' = Advanced(v) /\ pc' = "find"
               /\ UNCHANGED <<call, ret, filevars, path, alts>>
  /\ UNCHANGED vol

\* The caller of a listing that failed is in ipl_panic.
Panic ==
  /\ pc' = "panic" /\ call' = NoCall /\ ret' = [ok |-> FALSE, val |-> NoValue]
  /\ UNCHANGED <<filevars, path, alts>>

ListEnds == dir' = [dir EXCEPT !.sect = 0] /\ file' = file /\ Return(TRUE, EndEntry)

\* f_readdir after the end.
ListPastEnd ==
  /\ pc = "list" /\ dir.sect = 0
  /\ ListEnds
  /\ UNCHANGED <<vol, window>>

\* dir_read looks at an entry.
ListEntry ==
  /\ pc = "list" /\ dir.sect # 0
  /\ \E ok \in BOOLEAN :
       /\ MoveWindow(dir.sect, ok)
       /\ IF ~ok THEN dir' = [dir EXCEPT !.sect = 0] /\ Panic
          ELSE IF EntryInWindow.kind = "end" THEN ListEnds
          ELSE IF EntryInWindow.kind \in {"file", "dir"}
          THEN /\ got' = <<EntryInWindow>> /\ pc' = "listed"
               /\ UNCHANGED <<call, ret, file, ofs, btr, xfer, dirvars>>
          ELSE pc' = "listnext" /\ UNCHANGED <<call, ret, filevars, dirvars>>
  /\ UNCHANGED vol

\* dir_read goes on to the next entry.
ListNext ==
  /\ pc = "listnext"
  /\ \E v \in FatValues :
       /\ NextCluster(v)
       /\ IF NextFails(v) THEN dir' = [dir EXCEPT !.sect = 0] /\ Panic
          ELSE IF NextEnds(v) THEN ListEnds
          ELSE dir' = Advanced(v) /\ pc' = "list" /\ UNCHANGED <<call, ret, filevars, path, alts>>
  /\ UNCHANGED vol

\* f_readdir has its entry and moves past it; when that fails the entry is lost.
Listed ==
  /\ pc = "listed"
  /\ \E v \in FatValues :
       /\ NextCluster(v)
       /\ dir' = Advanced(v)
       /\ IF NextFails(v) THEN Panic ELSE file' = file /\ Return(TRUE, got[1])
  /\ UNCHANGED vol

-----------------------------------------------------------------------------
(* f_lseek. *)

Target == Min({call.off, file.entry.size})

\* Seeded fault: the current cluster is taken to be the one that holds fptr.
LseekStartAtPointer ==
  /\ pc = "lseek" /\ file.open /\ ~file.err
  /\ LET base == (file.fptr \div Bcs) * Bcs
     IN  IF file.fptr > 0 /\ Target > base
         THEN file' = [file EXCEPT !.fptr = base] /\ ofs' = Target - base
         ELSE /\ file' = [file EXCEPT !.fptr = 0, !.clust = IF Target > 0 THEN First(vol, file.entry.id) ELSE @]
              /\ ofs' = Target
  /\ pc' = "seek"
  /\ UNCHANGED <<vol, call, ret, btr, xfer, got, dirvars, window>>

\* From the current cluster when the target is not before it, else from the first.
\* The current cluster is the one that holds the byte before fptr.
LseekStart ==
  /\ pc = "lseek" /\ file.open /\ ~file.err
  /\ LET base == ((file.fptr - 1) \div Bcs) * Bcs
     IN  IF Target > 0 /\ file.fptr > 0 /\ (Target - 1) \div Bcs >= (file.fptr - 1) \div Bcs
         THEN file' = [file EXCEPT !.fptr = base] /\ ofs' = Target - base
         ELSE /\ file' = [file EXCEPT !.fptr = 0, !.clust = IF Target > 0 THEN First(vol, file.entry.id) ELSE @]
              /\ ofs' = Target
  /\ pc' = "seek"
  /\ UNCHANGED <<vol, call, ret, btr, xfer, got, dirvars, window>>

\* validate, and the error that stays.
LseekRefused ==
  /\ pc = "lseek" /\ (~file.open \/ file.err)
  /\ Return(FALSE, NoValue)
  /\ UNCHANGED <<vol, file, dir, window>>

\* The cluster following loop.
SeekCluster ==
  /\ pc = "seek" /\ ofs > Bcs
  /\ \E v \in FatValues :
       /\ GetFat(file.entry, file.clust, v)
       /\ IF v \in 2 .. NFat - 1
          THEN /\ file' = [file EXCEPT !.fptr = @ + Bcs, !.clust = v]
               /\ ofs' = ofs - Bcs
               /\ UNCHANGED <<pc, call, ret, btr, xfer, got, path, alts>>
          ELSE Abort
  /\ UNCHANGED <<vol, dir>>

\* The end of f_lseek and the start of f_read.
SeekEnd ==
  /\ pc = "seek" /\ ofs <= Bcs
  /\ file' = [file EXCEPT !.fptr = @ + ofs,
                          !.sect = IF ofs % SS = 0 THEN @ ELSE Clst2Sect(file.clust) + ofs \div SS]
  /\ ofs' = 0
  /\ btr' = Min({call.len, file.entry.size - file'.fptr})
  /\ pc' = "read"
  /\ UNCHANGED <<vol, call, ret, xfer, got, dirvars, window>>

-----------------------------------------------------------------------------
(* f_read. *)

ReadDone ==
  /\ pc = "read" /\ btr = 0
  /\ file' = file /\ Return(TRUE, got)
  /\ UNCHANGED <<vol, dir, window>>

\* On a cluster boundary: the first cluster, or the one after the current.
ReadCluster ==
  /\ pc = "read" /\ btr > 0 /\ file.fptr % Bcs = 0
  /\ \E v \in FatValues :
       /\ IF file.fptr = 0 THEN v = First(vol, file.entry.id) /\ UNCHANGED window
                           ELSE GetFat(file.entry, file.clust, v)
       /\ IF v \in 2 .. NFat - 1
          THEN /\ file' = [file EXCEPT !.clust = v] /\ pc' = "sector"
               /\ UNCHANGED <<call, ret, ofs, btr, xfer, got, path, alts>>
          ELSE Abort
  /\ UNCHANGED <<vol, dir>>

\* On a sector boundary: whole sectors go to the caller's buffer, the rest
\* through the window.
ReadSector ==
  /\ btr > 0
  /\ \/ pc = "sector"
     \/ pc = "read" /\ file.fptr % SS = 0 /\ file.fptr % Bcs # 0
  /\ LET csect == (file.fptr \div SS) % CSize
         sect == Clst2Sect(file.clust) + csect
     IN  IF btr >= SS
         THEN /\ xfer' = [sect |-> sect, cc |-> btr \div SS, ccsize |-> CSize - csect]
              /\ pc' = "merge" /\ UNCHANGED file
         ELSE file' = [file EXCEPT !.sect = sect] /\ pc' = "copy" /\ UNCHANGED xfer
  /\ UNCHANGED <<vol, call, ret, ofs, btr, got, dirvars, window>>

\* Seeded fault: any next cluster is taken to follow this one on the disk.
MergeAnyCluster ==
  /\ pc = "merge" /\ xfer.cc > xfer.ccsize
  /\ \E v \in FatValues :
       /\ GetFat(file.entry, file.clust, v)
       /\ v \in 2 .. NFat - 1
       /\ file' = [file EXCEPT !.clust = v]
       /\ xfer' = [xfer EXCEPT !.ccsize = @ + CSize]
  /\ UNCHANGED <<vol, pc, call, ret, ofs, btr, got, dirvars>>

\* Clusters that follow each other on the disk are read in one transfer.
MergeCluster ==
  /\ pc = "merge" /\ xfer.cc > xfer.ccsize
  /\ \E v \in FatValues :
       /\ GetFat(file.entry, file.clust, v)
       /\ IF v < 2 \/ v = DiskErr THEN Abort
          ELSE /\ IF v = file.clust + 1
                  THEN /\ file' = [file EXCEPT !.clust = v]
                       /\ xfer' = [xfer EXCEPT !.ccsize = @ + CSize]
                  ELSE xfer' = [xfer EXCEPT !.cc = xfer.ccsize] /\ UNCHANGED file
               /\ UNCHANGED <<pc, call, ret, ofs, btr, got, path, alts>>
  /\ UNCHANGED <<vol, dir>>

ReadXfer ==
  /\ pc = "merge" /\ xfer.cc <= xfer.ccsize
  /\ \E ok \in BOOLEAN :
       /\ DiskRead(ok)
       /\ IF ~ok THEN Abort
          ELSE /\ got' = got \o [b \in 1 .. SS * xfer.cc |->
                                   <<xfer.sect + (b - 1) \div SS, (b - 1) % SS>>]
               /\ file' = [file EXCEPT !.fptr = @ + SS * xfer.cc]
               /\ btr' = btr - SS * xfer.cc
               /\ pc' = "read" /\ xfer' = NoXfer
               /\ UNCHANGED <<call, ret, ofs, path, alts>>
  /\ UNCHANGED <<vol, dir, winsect, win>>

\* Seeded fault: the rest of the sector is copied, whatever was asked for.
ReadCopyWhole ==
  /\ btr > 0
  /\ pc = "copy" \/ (pc = "read" /\ file.fptr % SS # 0)
  /\ MoveWindow(file.sect, TRUE)
  /\ file' = [file EXCEPT !.fptr = @ + SS - (@ % SS)]
  /\ btr' = btr - (SS - (file.fptr % SS))
  /\ pc' = "read"
  /\ UNCHANGED <<vol, dir, got, call, ret, ofs, xfer, path, alts>>

\* Part of a sector, through the window.
ReadCopy ==
  /\ btr > 0
  /\ pc = "copy" \/ (pc = "read" /\ file.fptr % SS # 0)
  /\ \E ok \in BOOLEAN :
       /\ MoveWindow(file.sect, ok)
       /\ LET from == file.fptr % SS
              rcnt == Min({SS - from, btr})
          IN  IF ~ok THEN Abort
              ELSE /\ got' = got \o [b \in 1 .. rcnt |-> <<win', from + b - 1>>]
                   /\ file' = [file EXCEPT !.fptr = @ + rcnt]
                   /\ btr' = btr - rcnt
                   /\ pc' = "read"
                   /\ UNCHANGED <<call, ret, ofs, xfer, path, alts>>
  /\ UNCHANGED <<vol, dir>>

-----------------------------------------------------------------------------
Step ==
  \/ FindRoot \/ FindEntry \/ FindNext
  \/ ListPastEnd \/ ListEntry \/ ListNext \/ Listed
  \/ LseekStart \/ LseekRefused \/ SeekCluster \/ SeekEnd
  \/ ReadDone \/ ReadCluster \/ ReadSector \/ MergeCluster \/ ReadXfer \/ ReadCopy

Next == Step \/ \E c \in Calls : InvokeOpen(c) \/ Invoke(c)

\* A call that was made is carried on with: it runs in its caller's thread.
Spec == Init /\ [][Next]_vars /\ WF_vars(Step)

-----------------------------------------------------------------------------
(* Properties. *)

\* The cluster before the file pointer is the current one, and the sector of a
\* pointer inside a sector is the current sector: what f_lseek and f_read start
\* the next call from, after merged transfers, seeks back and forth and ends of
\* file.
PositionTrue ==
  (pc = "idle" /\ file.open /\ ~file.err /\ file.fptr > 0) =>
    LET byte == Content(vol, file.entry)[file.fptr]
    IN  /\ file.fptr <= Len(Content(vol, file.entry))
        /\ file.clust = ClusterAt(byte[1])
        /\ file.fptr % SS # 0 => file.sect = byte[1]

Abstract ==
  INSTANCE FileSpec WITH
    open <- IF file.open THEN file.entry ELSE IF dir.open THEN dir.entry ELSE NoEntry,
    pos <- IF ~dir.open THEN 0
           ELSE LET seen == IF dir.sect = 0 /\ pc # "panic"
                            THEN Len(vol.table[dir.entry.id]) ELSE dir.dptr
                IN  Max({0} \cup {p \in Live(vol, dir.entry.id) : p <= seen}),
    failed <- pc = "panic" \/ file.err

\* dvd_custom_open, dvd_read and dvd_custom_readdir behave as the file API they
\* emulate: the right bytes, the right entries, and an error only for a reason.
ImplementsFile == Abstract!Spec

\* Every call returns (or its caller has panicked).
CallsReturn == (call # NoCall) ~> (call = NoCall)
=============================================================================
