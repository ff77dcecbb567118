# A TLA+ development of cubiboot

cubiboot replaces the GameCube's IPL menu by a game launcher.  `cubeboot.dol` finds the
storage device, reads the settings and patches the IPL image; the code under
`patches/source` then runs inside the IPL: it lists the games on the card, shows their
banners in a scrolling grid and boots what the user picks.  The storage code in
`cubeboot/source/emu` is compiled into both.

This directory models the parts that keep state over time: the way from a button to the
program that runs, the way from a file name to the sectors of a card, and the threads,
interrupts and buffers in between.  TLC checks small instances; TLAPS proves
the safety properties for every size.  `PROJECT.json` maps every definition to its source
lines and lists runs, seeded faults, findings, hazards and theorems.

## 1. Inventory

| component | state | operations | interacts with |
|---|---|---|---|
| block cache, `emu/ffs/dvm_cache.c`, `diskio.c` | LRU list, base sectors, page data in scratch RAM, sentinel, owner, ready/disabled | read, write, initialize, disable, enable | FatFs calls it; the boot path wipes its pages |
| FatFs, `emu/ffs/ff.c` | sector window, file pointer, current cluster and sector, directory position | open, seek, read, readdir, close | file API above, disk layer below |
| device probe and file API, `flippy_emu.c`, `fdrv.c`, `gcode.c` | adopted device, cached probe results, one open file and directory, bypass flag | mount, open, read, readdir, close, bypass | everything that reads a file |
| drivers, `tsd.c`, `ata.c`, `gcode.c` | addressing flag, LBA48 flag per channel | init, read | disk layer |
| ARAM queue, `decomp_arq.c` | two linked lists of caller-owned requests, two pending slots, callbacks | post, interrupt | menu, enumeration thread, banner cache post to it |
| banner cache, `emu/tweaks.c` | 1024 keyed slots, ARAM from the top down | get, put | enumeration thread, ARAM queue |
| banner assets, `games.c` | load state, buffer and request per banner, buffer pool | setup, setup-unload, load, free, line changed | ARAM queue; menu and enumeration thread |
| enumeration thread, `games.c` | running flag, mutex, path, path list, entries, warm-up stack | start, stop, list, check, warm | menu (higher priority), FatFs, banner cache, boot |
| heap, `pmalloc.c` | free and assigned lists, magic words | malloc, free, memalign, freealign | entries of the list, PNG decoder |
| grid, `grid.c`, `menu.c` | line positions, animations, opacity, selection, scroll position | four directions, per-frame update, setup | enumeration thread resizes it |
| start screen, `menu.c` | submenu, fade, two alphas | A, B, START, Z | grid's selection, boot |
| boot, `main.c`, `boot.c`, `loader.c` | boot entry, passthrough flag, what the drive shows | bs2start, chainload | stops the thread, disables the cache, wipes RAM |
| loader, `cubeboot/source/main.c`, `settings.c`, `ipl.c` | settings, BIOS index | one pass | device probe |

What is hard here: a preemptive menu thread over a worker with which it shares plain
globals; an interrupt that runs callbacks on structures the threads own; page memory that
is wiped under metadata that survives; devices that are slow to wake up, fail, or end in
the middle of a page; one window, one open file and one addressing flag for many users; a
list that changes size under the user.  What must hold: reads return the medium's data;
requests and probes end; a banner on display is the right one; stopping the worker always
ends; what is booted is what was shown, and it was loaded; the grid agrees with the scroll
position.  `hazards` in `PROJECT.json` has each danger at its line and the property that
would notice it.

## 2. Modules

| module | models | composition |
|---|---|---|
| `BlockDevice` | abstract: an uncached block device | - |
| `DvmCache` | `dvm_cache.c` and the entry points of `diskio.c` | implements `BlockDevice` |
| `FileSpec` | abstract: one open file or directory on a tree of files | over `FatVolume` |
| `FatVolume` | a FAT32 or exFAT volume: what is where, and what it means | - |
| `FatFile` | the read path of `ff.c` under the file API of `flippy_emu.c` | implements `FileSpec` |
| `DeviceProbe` | `flippy_emu_mount`, the probes, driver initialisation, sector reads | - |
| `Arq` | `decomp_arq.c`, as operators on a queue record | - |
| `ArqFifo` | abstract: two FIFO queues | - |
| `BnrCache` | banner cache, the listing and the menu as clients of the queue | extends `Arq`, implements `ArqFifo` |
| `Assets` | banners, pool, scrolling, enumeration | extends `Arq` |
| `Card` | the directories of a card and what is listed of each | - |
| `GameThread` | life of the enumeration thread, warm-up, hand-over | extends `Card` |
| `Pmalloc` | `pmalloc.c`, as operators on a heap record | - |
| `HeapUse` | the program's allocations: cube logo and PNG decoder, list entries | extends `Pmalloc` |
| `Browse` | selection, scroll position, animated lines | - |
| `Boot` | start screen, Z and START, `bs2start`, both chainloaders | extends `Card` |
| `MC...` | constants for TLC | extend the module in their name |
| `MenuProofs` | proofs about `GameThread`, `Boot` and `Browse` | extends the three |
| `...Proofs` | proofs about `DvmCache`, `FatFile`, `DeviceProbe`, `Arq`, `BnrCache`, `Assets`, `HeapUse` | extend the module in their name; those of `BnrCache` and `Assets` also extend `ArqProofs` |

**DvmCache.**  One step is one iteration of the loop in `dvm_cache_access`
(`HitRead`, `HitWrite`, `FillPage`, `FillFallback`, `Direct`), so each device transfer
fails or succeeds on its own; `first`, `num`, `p`, `searchBase` are its locals.  `Submit`
is everything before the loop, the claim included; `Return` is `RES_OK`.  The linked list
is the function `list`, from the most to the least recently used.  A device transfer may
fail at any time and must fail past the end; a write that fails has stored some prefix,
and the sectors it was about are *torn*: their contents, on the medium and for readers,
are indeterminate until they are written again.  `WipeAll` clears pages and sentinel with
or without `dvm_cache_disable` before it; `Overwrite` is `load_stub`/`load_dol`, which may
miss the sentinel but do disable the cache.  The disk layer is used by one thread at a
time, which `GameThread` looks into (`BootAlone`).

**FatFile.**  A byte is the pair of its sector and its offset, so that wrong data are
always noticed.  `win` is what the window really holds, `winsect` what FatFs believes.
`file` and `dir` are the static objects of `flippy_emu.c`.  A step ends where the disk may
be read; `GetFat` and `MoveWindow` are relations between the state and the value they
return, so that a disk error is one of their outcomes.  Names are compared whole:
long-name entries and deleted ones are entries that are passed over.  The two paths
of `dvd_custom_open_flash` are `alts`.  A listing that fails ends in `ipl_panic`, as the
caller does.  An error stays in the file (`ABORT`), so every later read fails until the
next open; `FileSpec` allows exactly that.  Its `pos` is the position of the entry that was
returned last, and `Child` is the first entry of a name, as `dir_find` takes it: nothing
on a card keeps a name from being there twice.

**DeviceProbe.**  The machine is chosen at the start: what is on the disc interface, what
is on the EXI ports.  A drive that is not awake answers an inquiry with a transfer that
does not end, an error, or one that ends without data; each inquiry brings it one closer
to being ready.  `pc`, `i`, `attempt`, `mounts` are the position in
`flippy_emu_mount` and the loops below it.  cubeboot.dol and the IPL side have drivers of
their own: `StartIpl` resets all they remember and keeps only `emu_sd_device`.  A card may
miss any single attempt.  `tsd_recv_data` waits for the token of a sector without a bound
(`tsd.c:87-92`): on the IPL side, where its driver is used, mounting an SD card goes
through `pc = "token"`, which only the card can end.  An ATA drive answers IDENTIFY with or
without LBA48, or with zeros.  Sector numbers and LBA28's limit are scaled down together.

**Arq.**  The queue is a record with the fields of the code's statics, the requests' own
fields as functions.  Lengths are counted in chunks; the decrement after the last chunk
wraps, as it does in the code (no transfer's length is a multiple of the 4096-byte
chunk).  The callback runs before the pending slot is cleared, in one interrupt.

**BnrCache.**  ARAM is an array of cells; a banner of the list is larger than a cached one
(it is two cells here), so overlap shows as a banner that is not of one piece.  `Get` and
`Put` stop where the code spins on `bnr_load_bsy` and `bnr_store_bsy`; the interrupt's
callback lets the worker go on.  `Key` is the path hash, taken to be injective on a card.
The user is taken to wait for a directory's requests before leaving it (`Assets` looks at
what happens otherwise).

**Assets.**  A banner embeds its request, so a banner's number names both.  The menu's
calls run to completion against the worker (higher priority) but not against the
interrupt: `todo` holds the calls left.  The worker's `gm_get_banner_buf` is split between
test (`EnumPick`) and set (`EnumTake`), where it can be preempted.  Entries keep their
place in memory, which `EntryInPlace` of `HeapUse` justifies.  `gm_can_move` always says
yes, so in the code a move may meet banners that are on their way to or from ARAM, and
then goes wrong (`assets_early`, `MCAssetsRequeue.cfg`).  `Patient` says what it would have to
test for the rest of the code to be right, and is `FALSE` for the code alone: the lines to
load and to free are `Still` and the worker is not between test and set (`CanMove`); a
listing under way has passed the lines around the new screen, since it decides what to
leave in ARAM by where the screen was (`Listed`); and no callback can come for an entry
that is freed (`MayStart`).  Everything else goes on meanwhile: a patient user scrolls
during a listing, with transfers of other lines queued and in flight.

**GameThread.**  One step per poll, unlock, file or directory of the worker; the menu's
code between two waits is one step, as nothing can preempt it but interrupts.  Paths are
names; `Listing` is what `gm_list_files` finds, sorted.

**Pmalloc, HeapUse.**  Memory is an array of words, a block is the address of its header.
Headers survive where blocks were, as in the code: what `pmalloc_item_insert` does not
write keeps its value (`Wild` once an owner has written over it), and following a wild
pointer sets `wild`.  The magic word that `pmalloc_freealign` searches for backwards is in
the memory too, so a stale one would be found.  `HeapUse` makes the program's calls in the
program's order, through every early return of `upng_decode`.

**Browse.**  `nlines` is the code's `number_of_lines`, `stage` where the session with the
grid is.  Positions are the code's pixels.  Opacity has three levels (invisible,
between, opaque), speed is a fixed step: the code's speed-up with the number of pending
animations changes only how many frames a move takes, and fades may take any number of
frames longer than moves.

**Boot.**  A frame handles its buttons in the code's order: fade, Z, B, A, START, stick.
The alphas are bytes with the code's two step widths.  The disc and the card can be taken
out at any moment until a program runs: `disc` is `gone` when it was taken out before
`bs2start` read its ID, `failed` when after.  The loaders come back as the code's do: a
disc whose FST or BI2 cannot be read leads on to the entry, with the drive still in
passthrough; a game that cannot be opened or read leads to the end of `bs2start`; a DOL
that cannot be opened has entry point zero and is run.  What could be opened is `loading`
until `LoadDol` has read it, none of whose reads is tested.  `ran` is what got control: a
disc, a game served by the drive, a DOL, Swiss, the stub, address zero, or `junk`, memory
that a failed read has not filled; `lost` is the end of `bs2start`, marked unreachable in
the code.

## 3. Runs

| run | instance | states | result |
|---|---|---|---|
| `cache_reads` | 2 drives, 6 sectors, 2 pages of 2, requests up to 3 | 335 088 | pass |
| `cache_writes` | 1 drive, 4 sectors, 1 page of 2, writes that fail half way | 1.05 M | pass |
| `files` | 3 volumes, sectors of 2 bytes, clusters of 2, 16 calls, 2 faults | 20 896 | pass |
| `drives` | 10 machines, up to 3 inquiries late, 3 polls, 2 opens | 35 369 | pass |
| `late_drive` | the same, a GC Loader's inquiry may not end | - | `ReadyIsAdopted` fails |
| `banner_cache` | 3 games, 2 directories, 2 slots, 3 walks, 2 reloads, 1 high request | 67 772 | pass |
| `assets` | 4 banners, 3 buffers, 1 row + 1 preloaded line, 1 restart, patient user | 231 969 | pass |
| `assets_early` | 5 banners, 4 buffers, the code alone | - | `LoadedIsValid` fails |
| `game_thread` | 4 directories, one unreadable, 4 games, a broken file, 4 moves | 8 823 | pass |
| `heap` | 44 words, 13 logos, up to 5 entries | 6 306 | pass |
| `browse` | 2 per line, 2 rows, up to 5 lines, 1 restart | 207 856 | pass |
| `boot` | 6 machines, 2 directories, every set of buttons in every frame, disc and card taken out at any step | 190 160 | pass |

Why the bounds are enough.  In `cache_reads` a request of 3 sectors over pages of 2 is
partial or not, aligned or not, spans two pages, meets a cached page behind, at or ahead
of it, and three pages compete for two entries; both drives have their own image, and a
sector's value names image and sector, so data from a wrong place is always noticed.
`cache_writes` needs only one entry: coherence is per page.  What these sizes cannot show
the proofs do.

`files` has reads that are shorter than a sector, cross a sector, a cluster and two
clusters, start on and off every boundary, end at and past the end of the file, in a chain
that is contiguous at first and then not; a directory of two clusters with deleted entries
at the end, and one that fills its cluster; a file in two places; one with no clusters.
The state between calls is kept, so calls of any length of history are covered.  `drives`
has a drive slower than the attempts of one loop but not of the loops around it, every
pair of cards that shares a flag in either order, and reads across the LBA28 limit; the
attempt counts are scaled down (40, 60 and 30 in the code), with `MaxLate` below them, as
the code's comments assume of the hardware.

`banner_cache` puts more games than it has slots, so slots are taken over, and lists and cache touch in
ARAM without overlapping.  `assets` has more banners than buffers and a list longer than
window plus preload, so lines are both loaded and freed in either direction, and the pool
runs dry.  In `MCAssetsWindow.cfg`, the same with a buffer for every banner, it cannot, and
`WindowLoaded` says there that every load was served (396 245 states, no error).  In both
the user scrolls while the listing and two chunks of each transfer are under way.
`game_thread` reaches every directory with a warm-up cut short in each phase.  `heap` has
logos that fit into holes left before and logos that do not fit at all, and a remainder
too small for an entry.  `browse` scrolls by three lines with animations overlapping;
`MaxBlind` bounds the presses before the grid exists, which `grid_setup_func` forgets.
`boot` has no bound but the two slots of the selection.  `Patient` in `assets` is an
assumption on the *user*; `assets_early` shows what happens without it.

Fairness.  `DvmCache`, `FatFile`: the loop of a call goes on (a function call waits for
nobody).  `DeviceProbe`: it is a sequential program, so it goes on; no SD card owes it a
token, so that step is not fair, and `ProbeEnds` names the state in which it is missing.
`BnrCache`, `Assets`: a started DMA transfer ends and raises its interrupt; the worker and
the menu's calls go on.  `GameThread`: the worker runs whenever the menu waits for the next
frame, which it does sixty times a second; the menu goes on once the join can return.
`Browse`, `Boot`: frames are drawn; the worker goes on; the IPL calls `bs2start` once it is
ready.  The user is never fair: all user actions may stop at any time (in `Boot` a frame
without buttons satisfies the fairness).  Weak fairness suffices everywhere.

Deadlock is checked for the cache, the probe and the grid.  In the others the system may
stop: all walks, moves or entries of a bounded user used up, the console handed over or
a program run, the worker in the code's own `while(1)` for an unreadable directory, the
caller of a listing in `ipl_panic`.

Every property of a passing run has a seeded fault (a definition marked so, next to the
one it replaces) under which TLC finds it violated.

### What the violations show

1. `assets_early`: `gm_banner_load` reports a banner that is still in setup or unloading
   and posts its request again all the same (`games.c:298`); nothing keeps the user from
   scrolling over it, since `gm_can_move` is always true (`games.c:978`).
2. `late_drive`: an inquiry that does not end is cached as an absent GC Loader on the first
   attempt (`gcode.c:110-113`), so neither the attempts of that loop nor the polling in
   `cubeboot/source/main.c` ask it again, which both are there for.  `fdrv_probe` does not
   cache that outcome, for the reason its comment gives (`fdrv.c:213-227`).

### Instances outside the listed runs

These configurations ask a stronger question than the passing run of the same module; TLC
answers each with a counterexample, which marks the limit of what the passing run says.
(`MCAssetsWindow.cfg` is the exception: it passes.)

| configuration | fails | because |
|---|---|---|
| `MCDvmCacheFailedWrite.cfg` | `AlwaysCoherent` | a write hit patches the page before the device is written and leaves it patched when the device refuses (`dvm_cache.c:299`); in the menu nothing writes |
| `MCGameThreadDisc.cfg` | `HandoverAlone` | booting the disc with Z does not stop the worker (`main.c:561`) |
| `MCGameThreadCreate.cfg` | `CreateAfterExit` | the running flag is cleared before the thread is gone (`games.c:1150`) |
| `MCBrowseBroken.cfg` | `SelectedLineBacked` | after files that are no games have made the list shorter, the test for its end, one for equality, does not stop DOWN any more (`menu.c:893`) |
| `MCBnrCacheError.cfg` | `OwnBanner` | the result of `dvd_threaded_read` is not looked at (`games.c:658`, `1048`): after a read error the banner before is cached under this game's key |
| `MCAssetsRequeue.cfg` | `QueueIntact` | `gm_can_move` (`games.c:978`), which is there "so grid can check if load/unload is possible", is always true; a request that is queued is posted again (`games.c:298`), which cuts the list of `decomp_arq.c` or closes it into a ring |
| `MCBootLost.cfg` | `NeverComesBack` | `chainload_boot_game` comes back when the game cannot be opened or FST or BI2 cannot be read (`boot.c:239-242`, `251-254`, `288-300`); after a disc that failed, `bs2start` tries the entry with the drive in passthrough (`main.c:625-647`), and then runs past its end, `__builtin_unreachable()` (`main.c:649`), with the IPL gone |
| `MCHeapUseStored.cfg` | `PrevIsPrevious` | `Deflated` does not hold: a block inserted before the root keeps whatever its `prev` field held (`pmalloc.c:249-255`); it takes a logo whose image is smaller than its compressed data |

Known exceptions written into properties: `RunsLoaded` leaves out what is read from a
medium that has been taken out (`TakenOut`: nothing in the loaders could help), and two
cases that nothing tests (`NotThere`): Z with Swiss forced and no `swiss-gc.dol` (entry
point 0 is run) and Z with the disc gone by then and no `stub.bin` (`bs2start` goes on to an
entry that was never chosen).  `ReadyIsAdopted` speaks of a
drive that is ready when an open begins: a FlippyDrive that wakes up later, next to an SD
card that is ready, loses to the card, although `flippy_emu.c:79-81` calls that the wrong
answer.

## 4. Proofs

Each theorem is proved from the named assumptions of its module, which say what the
constants are (and which TLC evaluates in the module's run), and from the hypotheses in its
own statement where it has any.  An invariant has one lemma per action and one step per
conjunct the action can disturb.

| theorem | property | hypotheses |
|---|---|---|
| `DvmCacheProofs!UnusedAreLast`, `NoPageTwice`, `CacheCoherent`, `CarriedSearchIsValid`, `ReadsAreRight` | `EmptyAtTail`, `DistinctPages`, `Coherent`, `SearchStillValid`, `ReadReturnsMedium` | - |
| `DvmCacheProofs!CacheIsInvisible` | `ImplementsBlockDevice` | - |
| `FatFileProofs!PositionHolds` | `PositionTrue` | - |
| `FatFileProofs!Implements` | `ImplementsFile` | - |
| `MenuProofs!ShowsThePath`, `RestartAccepted`, `BootsUndisturbed` | `EntriesOfPath`, `NeverRefused`, `BootAlone` | - |
| `MenuProofs!StartRunsLoaded`, `DriveHandedOver`, `StartBootsShown` | `RunsLoaded`, `DriveMatches`, `BootsShown` | - |
| `DeviceProbeProofs!AbsenceIsTrue`, `ReadyDriveAdopted` | `CachedAbsenceTrue`, `ReadyIsAdopted` | `GcQuiet` |
| `DeviceProbeProofs!ReadsAreExact` | `ReadIsExact` | - |
| `MenuProofs!GridNeverDrifts`, `RestingGridIsRight` | `PositionsExact`, `OnlyRowsDrawn` | - |
| `MenuProofs!SelectionOnScreen` | `SelectionVisible` | `AllValid` |
| `BnrCacheProofs!QueueIsFifo` | `ImplementsFifo` | - |
| `BnrCacheProofs!ShownIsOwn`, `SlotsAreTheirs` | `OwnBanner`, `SlotsHoldTheirs` | `Apart`, no read errors |
| `AssetsProofs!LoadedBannersAreValid`, `PoolStaysExact`, `WindowIsLoaded` | `LoadedIsValid`, `PoolExact`, `WindowLoaded` | `Patient` |
| `HeapUseProofs!HeapStaysSound`, `EntriesStayInPlace` | `HeapSound`, `EntryInPlace` | `NoSliver`, `Deflated` |

The hypotheses mark where the code really needs something that it does not ensure itself:
without `GcQuiet`, `Patient`, `AllValid`, `Deflated` and the absence of read errors TLC has
a counterexample (section 3: `late_drive`, `assets_early`, `MCBrowseBroken.cfg`,
`MCHeapUseStored.cfg`, `MCBnrCacheError.cfg`).  `Patient` is the conjunction of `CanMove`,
`Listed` and `MayStart` (section 2); the pool may have any size, except that `WindowLoaded`
lets a banner go without a buffer where there are fewer buffers than games.  `Apart` says that no directory is so large that its banners reach
the cache in ARAM (section 5).
`NoSliver` has two parts.  `pmalloc_malloc` makes a free block of whatever is left of a
block, even of less than a header, which then lies across the end of the heap: no buffer of
the logo may end that close to the end.  And the entries of a full list fit, as the 1920 of
the code (`games.c:590`, some 600 bytes each, `games.h:91`) do into its 2 MB
(`games.c:350`), so that the result of `gm_malloc`, which the code does not test, is never
null.  `MCHeapUse` has TLC evaluate that its instance satisfies `NoSliver` and `Deflated`.

**DvmCache** (`CacheAssumption`: sizes are positive, the empty mark is beyond every sector a
request can name, `Entries` has `Pages` members, images are images).  None of the properties
is inductive alone.  The invariant `IInv` adds to them:

- `PagesOnMedium`: a cached page is aligned and wholly on the medium; without it two
  pages could overlap and patching one would leave the other stale;
- `DisabledEmpty`: a write that bypasses the disabled cache has no page to miss.  It holds
  because both ways to disable also clear `ready`, and only `disk_initialize` sets it again;
- `ServingOwner`: in the loop the pages are trusted and belong to the request's drive;
- `RangeLeft` and `DoneSoFar`: what is left is the end of the range, what is behind has
  been transferred;
- `SearchInv`: `p` is the first cached page from the current one on and `searchBase` is
  one beyond it, or there is none.  It is stated over the cached pages, not over
  `Search`, so that a step can be seen to preserve it: a hit moves past `p`, a direct
  transfer stops before `p`, a fill makes `p` the page filled and forces a new search.

`SearchFinds` is the bridge: with unused entries last and pages distinct, `Search`
returns exactly that first page (`EmptyAtTail` is needed because the search stops at the
first unused entry).  `VictimIsLast` and `PromotedOrder` do the same for the LRU list,
`AlignedApart` for the arithmetic of pages.
Refinement (`StepRefines`): a fill is a stutter, a hit or direct transfer delivers or
stores, `Return` succeeds by `DoneSoFar`, the error paths fail.

**FatFile** (`GeometryAssumption`: sectors, clusters and sectors of entries have a size;
`NameAssumption`, `CallAssumption`: calls have the shapes the file API gives them;
`VolumeAssumption`: each volume is `WellFormed`).  A well-formed volume is one whose
structures do not contradict each other: chains do not meet, a directory fits into its
chain, an entry names an object and says rightly whether the FAT holds its chain.  A chain
may be shorter than the size of its file asks for.  It may not be missing altogether: for a file with
bytes and no cluster `f_lseek` would make a chain, a write on the way to a read
(`ff.c:4721-4726`), and such entries are left out.  `IInv` is inductive; TLC checked it before the
proof.  Its parts:

- `Synced`: the window holds the sector it is said to hold, whatever read failed last;
- `PlaceInv`: where the file stands, for each step of `f_lseek` and `f_read`.  Positions
  are counted in *sectors of the chain*: sector `t` lies in cluster `chain[t \div CSize]`
  (`On`, `SectorNo`), so that a cluster that is followed and a sector that is read are
  steps on one scale.  `Resting` has the current cluster at the byte *before* the file
  pointer, the fact behind `PositionTrue`; in `Merging` the clusters collected so far lie
  one after the other on the disk, and the current one is the last of them;
- `BufferInv`: the caller's buffer is the file from the target of the seek to the file
  pointer, byte by byte;
- `FindInv`: no entry before the current one has the name, and what is left of the path,
  from this directory on, leads where the whole path leads (`Trying`, `Walk`);
- `ListInv` with `Stands`: the directory object is at the sector and cluster of its index,
  and an entry that is about to be returned is the next one that names something.

`FatIs` and `ContiguousIs` connect `get_fat` to the chain, for chains the FAT holds and for
those exFAT only generates; `GetFatIs` has both, and the outcomes of a read that fails.
`NextPlace` and `MergeNext` are the arithmetic of the next entry and of the next cluster of
a transfer, from `DivMod`, `DivIs` and `DivDiv`, since the provers do no division by a
constant they do not know.  Each action has one lemma that shows both that `IInv` is kept and
that the step is one of `FileSpec`, or none: all reads of the disk inside a call are
stutters or `DiskFails`; `ReadDone`, `Listed`, `ListEnds` and `Resolve` are the returns,
and each way to fail is traced to a fault during the call or to a chain that ends early.
Attempting this proof showed that the cases of `Advanced` overlapped at the end of a
cluster; the code tests for the failed read first, and the definition now does.

**GameThread** (`CardAssumption`: listings are sequences; `PathAssumption`: no path reads
"boot"; any tree, any unreadable or broken items, any number of moves).  `FlagTrue` ties the running flag to what
the worker may still touch, `MutexInv` says who holds the mutex where: the menu waits only
for a worker between its trylock and its unlock, which is what `NeverRefused` and
`BootAlone` come down to.  `EnumInv` is needed for `EntriesOfPath`: in `gm_check_files`
exactly the items before the index have been looked at, in the directory that is on display
now.  `FirstShown` states "the valid ones of the first n" by the positions they came from,
so that one more item is one more position (`OneMoreShown`) and no induction is needed.

**Boot** (`CardAssumption`, `BootAssumption`, `ProgramAssumption`: any machines, directory
tree, fade step).
`Shows` relates the start screen to the list under it: the slot stays in the list and
`chosen` is the entry in it, because entries are only appended while the screen is open.
`EntryBootable` and `Requested` carry what `emu_can_boot` and the buttons established past
the wipe to `bs2start`; `DriveInv` follows the drive: passthrough is on only because Z asked
for the disc and it was there, and off after Z only because it was gone and there was no
stub.  `LoaderInv` is about the loaders that come back: the entry is reached in passthrough
only after the disc has failed, and nothing but the disc is being loaded from a drive that
shows a readable one.  So a game or DOL that is opened under a disc that failed is never
*loaded* in the sense of `DriveMatches`: its reads go to the drive and fill nothing
(`LoadDol`).  `TakeInv` has the two ways the environment can interfere with all of this.

**DeviceProbe** (`ProbeAssumption`, `MachineAssumption`: a drive is ready within
`gcode_probe`'s attempts, machines are built of known parts).  `PlaceInv` says which
device each position of `flippy_emu_mount` is about, `ModeInv` that a FlippyDrive asked for
the second time has left bypass, `KnownInv` that both cached answers and the adopted device
are true, `GcodeInv` that the attempts already made and the inquiries still missing do not
exceed the limit, so that the last attempt is never the one that fails.  `FlagsInv` is the
reason for `ReadIsExact`: the addressing flags are those of the mounted device, since
whatever a later probe sets, the mount that succeeds has set last.  Attempting this proof
showed that the cases of `GcodeInquire` overlapped (the right answer, on the last
attempt); the code tests for the answer first, and the definition now does.

**Browse** (`BrowseAssumption`: positive sizes, at least as many lines as rows).  `Placed`
strengthens `PositionsExact` by which way a line can still have to go: a move that is
pending down is that of a line at or below the top, one that is pending up is that of a
line above the bottom, so no animation is cut short when a line comes in from the other end.  `Lit` is the same for the
opacity, `SizeInv` and `SelInv` hold the selection inside the grid.

**Arq** (`ArqAssumption`).  `Represents` says that the two linked lists, `head` to `tail`,
are two sequences of distinct requests, that pending slots and remaining chunks fit them,
and `PostsLo`, `PostsHi`, `Interrupts` what posting and the interrupt do to the sequences:
`Append` and `Tail`.  The proofs about the two users rest on these lemmas only.  Reading the
sequence off the list (`Chain`) is a recursion; since the provers cannot instantiate an
induction rule, `NthIs` and `ChainIs` argue by the least counterexample, which
`LeastNumber` gets from the well-foundedness of the naturals.

**BnrCache** (`BnrAssumption`: slots fit into ARAM, requests are distinct, a directory has no
file twice, the hash of paths is injective).  `QueueInv` adds to `Represents` that each
request in a queue is owed to somebody who waits for it (`Owed`), so that nobody posts a
request that is in flight: the one thing `decomp_arq.c` leaves to its callers.  From it
alone the queue refines `ArqFifo`.  `BannerInv` says of every cell of ARAM in use whose
banner it holds: `SlotInv` of the valid slots, `PlaceInv` of the disjoint places below the
cache, `BufferInv` of the one buffer and the slot that is being filled while the worker
spins, `ListInv` of which of buffer and ARAM holds a banner in each state.

**Assets** (`AssetsAssumption`: any number of games, slots, rows, preloaded lines and
buffers).  `Inv` is inductive under `Patient`; TLC checked it first, on the instances of the
runs and with more and fewer buffers.  Its parts:

- `FlightInv`: a callback finds its banner in the state it was posted in, and no banner is
  left in SETUP or UNLOADING without one;
- `PoolInv`: the buffers in use are those of the banners that need one, one each, and hold
  their pixels.  While the entries of a listing are freed (`starting`) only half of it
  holds: an entry that was left in ARAM gives back the buffer it had once, which may be that
  of an entry still to be freed;
- `EnumInv`: the buffer the worker has looked up is free until it takes it, and what it
  leaves in ARAM is below the screen wherever the user has moved since;
- `MenuInv`: the calls left of a move are on entries at rest, and on each once, though
  other requests come and go between them;
- `GridInv`: the grid has a line for every entry, so that a line is not loaded for being
  the last;
- `WindowInv`: what is in the window is there or on its way or due, and the entries that
  still point to a buffer they have given back (`Cold`) are below the window, and never
  freed before they are loaded.  This is the heart of it: `gm_banner_free` of a banner that
  is `UNLOADED` releases the buffer it points to (`games.c` keeps the pointer after
  `gm_setup_banner_unload`), which somebody else may hold by now;
- `ServedInv`: with a buffer for every banner, a banner is not `LOADING` without a transfer.

`Concats` and `ScrollCalls` say what is due after a move, `MoveIs` which lines it asks for.
Each part of `Patient` is needed: without it TLC finds a move that breaks one of the three
properties.  `Room` counts by
`FS_PigeonHole` that a load finds a buffer when there is one for every banner.  In
`PoolStaysExact` the holders of a buffer, which the property counts, are shown to be the
one banner of `PoolInv`.

**HeapUse** (`HeapAssumption`, `LogoAssumption`, `SizeAssumption`: a header, an alignment and
the memory have a size; any logos, any entries).  The proof has three layers.

- *Lists.*  `Listed` says of a set of headers that `next` and `prev` are the next and the
  previous one in the order of addresses.  `LinkInsert` and `LinkRemove` keep it, and
  `NodesInOrder` gives back the sequence that the properties walk over.  The loops of the
  code (the place to insert at, first fit, both directions of `pmalloc_merge`) are
  recursive functions; as for `Arq`, what they return is shown by least counterexample.
- *Heap.*  `Sound(g, A, U)`: the free blocks `A` and the used blocks `U` are the two lists,
  they tile the memory (`Layout`: a block ends where another one begins, or the memory
  does), and the counter of free words is their sum.  `MallocIs` says which blocks an
  allocation leaves, with and without a rest; `FreeNodeIs` which ones a release leaves, with
  the free neighbours it swallows.  `FreeFirst`, `FreeApart`, `FreeBehind` and `FreeBetween`
  are the four places a block can be freed at.  A block `Owns` an aligned pointer if the
  nearest magic word below it is that of the block, so that `HeaderOfIs` has
  `pmalloc_freealign` find it; `Keeps` says that no operation on other blocks changes that.
- *Program.*  `IInv` says for every step of the program which blocks are free and used and
  where they are: `LogoInv` for the buffers of the logo, `EntryInv` for the entries, which
  stand one behind the other from the start of the memory.  The places
  matter because soundness alone is not inductive: `pmalloc_item_insert` does not write
  `prev` of a block it puts before the root (`pmalloc.c:249-255`), nor `next` of one it puts
  at the end.  A block that changes lists has just been through `pmalloc_item_remove`, which
  clears both; the rest that `pmalloc_malloc` splits off has not, and its `prev` is whatever
  an earlier owner wrote there, for the next merge to follow.  On the way this program goes
  (`Suits`) an allocation either takes a free block whole or cuts the one that reaches to the
  end of the memory, so that the rest is the last free block and inherits the null `next` of
  the last used one.  `Deflated` is what that needs: an image smaller than the compressed
  data is put where they were, in front of the other free block, and the rest in between
  becomes the root.

`IInv` was checked by TLC first, on the instance of the run `heap`.

Only model-checked is liveness (`RequestEnds`, `EveryRequestAnswered`, `TransfersEnd`,
`StopEnds`, `CardWarmed`, `AnimationsEnd`, `ProbeEnds`, `CallsReturn`, `FadeEnds`), which is
out of the prover's reach.

## 5. Not modelled

- Drawing, fonts, textures, sound; parsing of disc headers (`gameid.c`, `iso9660.c`); the
  loader but for its polling (a straight-line program); register-level start-up code;
  build scripts.
- Tables and formatting: `ffunicode.c` (code pages), `bnr_offsets.c` (generated),
  `rpl_vsnprintf.c`, `tinyprintf`, `elf_abi.h`.  They are a third of the lines of the
  repository and have no state; inflate (`tinflate.c`, `upng.c`) is a pure function of
  files that the other properties do not depend on.
- FatFs beyond reading: the write path (used by `sram.c` of the loader only), mounting,
  assembly of long names, exFAT entry sets, FAT12/16 packing.
- The native commands of a FlippyDrive: they are answered by its firmware.
- Within modelled components: icons (dead code), multi-disc pairing, the 100-entry limit of
  `path_stack` (`games.c:1102`; a card that large is out of TLC's reach), the bytes of a
  single SD or ATA command.  The unbounded wait of `tsd_recv_data` (`tsd.c:92`) is modelled
  where a card is mounted; a sector read later may wait in the same way, where
  `DeviceProbe` and `FatFile` let it fail.  A lost EXI lock is not noticed by `ata.c:155`,
  which is taken for a failed read too.
- ARAM: with the 1024 slots in use, the cache and the banners of one directory meet at
  about 1070 games; `banner_cache` assumes fewer.  Z while the worker reads through the
  disc interface (`tweaks.c:78`) is left to `MCGameThreadDisc.cfg`, at the level of who runs.

## 6. Plan

Every safety property of a passing run is a theorem.  Where the development could grow:

1. `Boot` over `GameThread`: `Boot` has of the worker only the number of entries it has
   listed so far; composed, the pair would also show who reads the card at each step of
   `bs2start`.
2. `FatFile` over `DvmCache`: a disk read of `FatFile` is one of an uncached device, which
   `CacheIsInvisible` allows, but the composition is not a theorem.
3. The loader of `cubeboot/source/main.c` beyond its polling, once it keeps state.
