------------------------------ MODULE DvmCache ------------------------------
(***************************************************************************)
(* The write-through LRU block cache between FatFs and the storage drivers *)
(* (emu/ffs/dvm_cache.c) with the entry points of diskio.c that reach it.  *)
(*                                                                         *)
(* One step per iteration of the loop of dvm_cache_access, so that every   *)
(* device transfer may fail on its own.  The pages and the sentinel live   *)
(* in scratch RAM that the boot path wipes; the metadata survives.         *)
(***************************************************************************)
EXTENDS Integers, FiniteSets

CONSTANTS Drives, Sectors, MaxCount, Values, Contents, Ops, Unset, NoRequest,
          Entries,      \* dvm_entries[]: the cache's page slots
          Pages,        \* DVM_CACHE_PAGES, the length of dvm_list
          PageSectors,  \* DVM_PAGE_SECTORS
          EmptyPage,    \* DVM_EMPTY_PAGE: beyond every sector number
          NoEntry,      \* the NULL pointer
          Garbage       \* what a wiped sector of page data holds

VARIABLES
  disk, torn, req, status, buf,   \* the interface, see BlockDevice
  list,        \* dvm_list: entries from the most to the least recently used
  base,        \* base[e]: e->base_sector
  data,        \* data[e][o]: the page data of e, by sector offset
  ready, disabled, owner,         \* dvm_ready, dvm_disabled, dvm_owner_pdrv
  magic,       \* dvm_magic = DVM_MAGIC
  first, num, p, searchBase       \* locals of dvm_cache_access

BD == INSTANCE BlockDevice

meta == <<list, base, ready, disabled, owner>>
locals == <<first, num, p, searchBase>>
vars == <<disk, torn, req, status, buf, meta, data, magic, locals>>

ASSUME CacheAssumption ==
  /\ Sectors \in Nat \ {0} /\ MaxCount \in Nat
  /\ PageSectors \in Nat \ {0}
  /\ EmptyPage \in Nat /\ EmptyPage > Sectors + MaxCount
  /\ Pages \in Nat \ {0}
  /\ \E f \in [1 .. Pages -> Entries] :
       /\ \A i, j \in 1 .. Pages : f[i] = f[j] => i = j
       /\ \A e \in Entries : \E i \in 1 .. Pages : f[i] = e
  /\ NoEntry \notin Entries
  /\ Contents \subseteq [0 .. (Sectors - 1) -> Values]
  /\ Unset \notin Values /\ Garbage \in Values
  /\ Ops \subseteq {"read", "write", "initialize", "disable", "enable", "wipe", "overwrite"}

Min2(a, b) == IF a < b THEN a ELSE b

-----------------------------------------------------------------------------
(* The LRU list. *)

\* Every entry is on the list once.
Orders == {f \in [1 .. Pages -> Entries] :
             /\ \A i, j \in 1 .. Pages : f[i] = f[j] => i = j
             /\ \A e \in Entries : \E i \in 1 .. Pages : f[i] = e}

\* Entries in the order of dvm_entries[].
IndexOrder == CHOOSE f \in Orders : TRUE

PosOf(e) == CHOOSE i \in 1 .. Pages : list[i] = e

\* dvm_cache_promote: move e to the front.
Promoted(e) ==
  [i \in 1 .. Pages |-> IF i = 1 THEN e
                        ELSE IF i <= PosOf(e) THEN list[i - 1]
                        ELSE list[i]]

\* The entries dvm_cache_search visits: it stops at the first empty one.
Visited == {e \in Entries : \A j \in 1 .. PosOf(e) : base[list[j]] # EmptyPage}

Above(page) == {e \in Visited : base[e] > page}

\* dvm_cache_search: the entry that holds the page, else the one with the
\* lowest page above it, else NULL.
Search(page) ==
  IF \E e \in Visited : base[e] = page
  THEN CHOOSE e \in Visited : base[e] = page
  ELSE IF Above(page) # {}
       THEN CHOOSE e \in Above(page) : \A f \in Above(page) : base[e] <= base[f]
       ELSE NoEntry

\* dvm_cache_evict: the least recently used entry, or the first of the run of
\* empty entries that ends the list.
Victim ==
  LET run == {i \in 1 .. Pages : \A j \in i .. Pages : base[list[j]] = EmptyPage}
  IN  IF run = {} THEN list[Pages]
      ELSE list[CHOOSE i \in run : \A j \in run : i <= j]

-----------------------------------------------------------------------------
(* Devices (external: the drivers, as disk_read_raw / disk_write_raw use    *)
(* them).  A transfer may fail at any time and must fail past the end.      *)

InRange(s, n) == s + n <= Sectors

RawData(s, n) ==
  [b \in BD!LBA |-> IF b \in s .. (s + n - 1) THEN disk[req.pdrv][b] ELSE buf[b]]

\* n sectors from s reach the medium.
RawWriteOk(s, n) ==
  /\ InRange(s, n)
  /\ disk' = BD!Written(s .. (s + n - 1))
  /\ torn' = torn \ ({req.pdrv} \X (s .. (s + n - 1)))

\* The drivers write sector by sector: k of the n sectors made it.
RawWriteFail(s, n) ==
  \E k \in 0 .. (n - 1) :
    /\ InRange(s, k)
    /\ disk' = BD!Written(s .. (s + k - 1))
    /\ torn' = torn \cup ({req.pdrv} \X {b \in s .. (s + n - 1) : b < Sectors})

-----------------------------------------------------------------------------
(* Entry points. *)

\* dvm_cache_reset
Reset ==
  /\ list' = IndexOrder
  /\ base' = [e \in Entries |-> EmptyPage]
  /\ magic' = TRUE
  /\ ready' = TRUE

\* Seeded faults: the sentinel, or the drive, is not looked at.
ClaimNoMagic(d) ==
  IF ~ready \/ d # owner
  THEN Reset /\ owner' = d /\ UNCHANGED disabled
  ELSE UNCHANGED <<meta, magic>>
ClaimAnyDrive(d) ==
  IF ~magic \/ ~ready
  THEN Reset /\ owner' = d /\ UNCHANGED disabled
  ELSE UNCHANGED <<meta, magic>>

\* dvm_cache_claim
Claim(d) ==
  IF ~magic \/ ~ready \/ d # owner
  THEN Reset /\ owner' = d /\ UNCHANGED disabled
  ELSE UNCHANGED <<meta, magic>>

\* disk_read / disk_write up to the loop of dvm_cache_access: an empty request
\* and a disabled cache return before the claim.
Submit(r) ==
  /\ BD!Accept(r)
  /\ IF r.count = 0 \/ disabled THEN UNCHANGED <<meta, magic>> ELSE Claim(r.pdrv)
  /\ first' = r.first
  /\ num' = r.count
  /\ p' = NoEntry
  /\ searchBase' = 0
  /\ UNCHANGED data

\* disk_initialize: whatever is cached describes the previous medium.
Initialize(d, c) ==
  /\ BD!NewMedium(d, c)
  /\ Reset
  /\ UNCHANGED <<data, disabled, owner, locals>>

Disable ==
  /\ status # "busy" /\ "disable" \in Ops
  /\ disabled' = TRUE
  /\ ready' = FALSE
  /\ UNCHANGED <<disk, torn, req, status, buf, list, base, owner, data, magic, locals>>

Enable ==
  /\ status # "busy" /\ "enable" \in Ops
  /\ disabled' = FALSE
  /\ ready' = FALSE
  /\ UNCHANGED <<disk, torn, req, status, buf, list, base, owner, data, magic, locals>>

Wiped == [e \in Entries |-> [o \in 0 .. (PageSectors - 1) |-> Garbage]]

\* The whole scratch region is cleared, sentinel included.  bs2start does so after
\* dvm_cache_disable; the sentinel is there for a wipe by code that does not, so
\* this step asks for no Disable before it.
WipeAll ==
  /\ status # "busy" /\ "wipe" \in Ops
  /\ data' = Wiped
  /\ magic' = FALSE
  /\ UNCHANGED <<disk, torn, req, status, buf, meta, locals>>

\* load_stub and load_dol overwrite scratch RAM and may miss the sentinel; both
\* disable the cache first.
Overwrite ==
  /\ status # "busy" /\ "overwrite" \in Ops
  /\ disabled' = TRUE
  /\ ready' = FALSE
  /\ data' = Wiped
  /\ UNCHANGED <<disk, torn, req, status, buf, list, base, owner, magic, locals>>

-----------------------------------------------------------------------------
(* dvm_cache_access, one iteration per step. *)

CurPage == first - (first % PageSectors)
CurOffset == first % PageSectors
PageCount == Min2(num, PageSectors - CurOffset)
IsWhole == CurOffset = 0 /\ PageCount = PageSectors
IsPartial == req.count < PageSectors

\* Seeded fault: one search per request.
CurEntryOnce == IF searchBase = 0 THEN Search(CurPage) ELSE p

\* The entry this iteration works with: searched for unless the search made
\* earlier still answers for the current page.
CurEntry == IF CurPage >= searchBase THEN Search(CurPage) ELSE p
CurSearchBase ==
  IF CurPage < searchBase THEN searchBase
  ELSE IF CurEntry # NoEntry THEN base[CurEntry] + 1 ELSE EmptyPage

Busy == status = "busy" /\ num > 0
Looping == Busy /\ ~disabled
IsHit == CurEntry # NoEntry /\ base[CurEntry] = CurPage
IsFill == ~IsHit /\ req.op = "read" /\ (IsPartial \/ ~req.aligned)

Advance(n) == first' = first + n /\ num' = num - n

\* Return to FatFs with result res; the locals are gone.
Leave(res) ==
  /\ status' = res
  /\ req' = NoRequest /\ buf' = BD!NoData
  /\ first' = 0 /\ num' = 0 /\ p' = NoEntry /\ searchBase' = 0

PromoteAfterHit ==
  IF IsWhole THEN UNCHANGED list ELSE list' = Promoted(CurEntry)

\* Seeded fault: copy from the start of the page.
HitReadNoOffset ==
  /\ Looping /\ IsHit /\ req.op = "read"
  /\ buf' = [b \in BD!LBA |-> IF b \in first .. (first + PageCount - 1)
                              THEN data[CurEntry][b - first] ELSE buf[b]]
  /\ PromoteAfterHit
  /\ p' = CurEntry /\ searchBase' = CurSearchBase
  /\ Advance(PageCount)
  /\ UNCHANGED <<disk, torn, req, status, base, data, ready, disabled, owner, magic>>

HitRead ==
  /\ Looping /\ IsHit /\ req.op = "read"
  /\ buf' = [b \in BD!LBA |-> IF b \in first .. (first + PageCount - 1)
                              THEN data[CurEntry][b - CurPage] ELSE buf[b]]
  /\ PromoteAfterHit
  /\ p' = CurEntry /\ searchBase' = CurSearchBase
  /\ Advance(PageCount)
  /\ UNCHANGED <<disk, torn, req, status, base, data, ready, disabled, owner, magic>>

\* Seeded fault: the cached page is left as it was.
NotPatched == data

\* The page with the write buffer's sectors copied into it.
PatchedPage ==
  [data EXCEPT ![CurEntry] =
    [o \in 0 .. (PageSectors - 1) |->
       IF CurPage + o \in first .. (first + PageCount - 1)
       THEN req.img[CurPage + o] ELSE @[o]]]

\* Seeded fault: the device's error is ignored.
HitWriteNoError ==
  /\ Looping /\ IsHit /\ req.op = "write"
  /\ data' = PatchedPage
  /\ RawWriteOk(first, PageCount) \/ RawWriteFail(first, PageCount)
  /\ PromoteAfterHit
  /\ p' = CurEntry /\ searchBase' = CurSearchBase
  /\ Advance(PageCount)
  /\ UNCHANGED <<req, status, buf, base, ready, disabled, owner, magic>>

\* The page is patched before the device is written.
HitWrite ==
  /\ Looping /\ IsHit /\ req.op = "write"
  /\ data' = PatchedPage
  /\ \/ /\ RawWriteOk(first, PageCount)
        /\ PromoteAfterHit
        /\ p' = CurEntry /\ searchBase' = CurSearchBase
        /\ Advance(PageCount)
        /\ UNCHANGED <<req, status, buf>>
     \/ RawWriteFail(first, PageCount) /\ Leave("error") /\ UNCHANGED list
  /\ UNCHANGED <<base, ready, disabled, owner, magic>>

\* Seeded fault: the pointer is not moved to the page just filled.
FillPageStalePointer ==
  /\ Looping /\ IsFill
  /\ InRange(CurPage, PageSectors)
  /\ base' = [base EXCEPT ![Victim] = CurPage]
  /\ data' = [data EXCEPT ![Victim] =
                [o \in 0 .. (PageSectors - 1) |-> disk[req.pdrv][CurPage + o]]]
  /\ list' = Promoted(Victim)
  /\ p' = CurEntry
  /\ searchBase' = CurPage + 1
  /\ UNCHANGED <<disk, torn, req, status, buf, ready, disabled, owner, magic, first, num>>

\* A miss worth caching: fill a page, then come back through the hit path.
FillPage ==
  /\ Looping /\ IsFill
  /\ InRange(CurPage, PageSectors)
  /\ base' = [base EXCEPT ![Victim] = CurPage]
  /\ data' = [data EXCEPT ![Victim] =
                [o \in 0 .. (PageSectors - 1) |-> disk[req.pdrv][CurPage + o]]]
  /\ list' = Promoted(Victim)
  /\ p' = Victim
  /\ searchBase' = CurPage + 1
  /\ UNCHANGED <<disk, torn, req, status, buf, ready, disabled, owner, magic, first, num>>

\* Seeded faults: the victim is promoted before the read; the read is retried.
FillFallbackPromotes ==
  /\ Looping /\ IsFill
  /\ base' = [base EXCEPT ![Victim] = EmptyPage]
  /\ list' = Promoted(Victim)
  /\ Leave("error")
  /\ UNCHANGED <<disk, torn, data, ready, disabled, owner, magic>>
FillFallbackRetries ==
  /\ Looping /\ IsFill
  /\ base' = [base EXCEPT ![Victim] = EmptyPage]
  /\ UNCHANGED <<disk, torn, req, status, buf, list, data, ready, disabled, owner,
                 magic, locals>>

\* The fill failed (a page past the end of the volume): the entry is unused again,
\* whatever the read left in it, and the whole request is served uncached.
FillFallback ==
  /\ Looping /\ IsFill
  /\ base' = [base EXCEPT ![Victim] = EmptyPage]
  /\ \/ /\ InRange(req.first, req.count)
        /\ buf' = RawData(req.first, req.count)
        /\ num' = 0
        /\ UNCHANGED <<req, status, first, p, searchBase>>
     \/ Leave("error")
  /\ UNCHANGED <<disk, torn, list, data, ready, disabled, owner, magic>>

\* Straight to the device, stopping short of the next cached page.  The
\* difference is unsigned: a page behind us would lift the limit altogether.
DirectCount ==
  IF CurEntry # NoEntry /\ base[CurEntry] >= first
  THEN Min2(num, base[CurEntry] - first) ELSE num

Direct ==
  /\ Looping /\ ~IsHit /\ ~IsFill
  /\ \/ /\ req.op = "read" /\ InRange(first, DirectCount)
        /\ buf' = RawData(first, DirectCount)
        /\ p' = CurEntry /\ searchBase' = CurSearchBase
        /\ Advance(DirectCount)
        /\ UNCHANGED <<disk, torn, req, status>>
     \/ /\ req.op = "write" /\ RawWriteOk(first, DirectCount)
        /\ p' = CurEntry /\ searchBase' = CurSearchBase
        /\ Advance(DirectCount)
        /\ UNCHANGED <<req, status, buf>>
     \/ req.op = "read" /\ Leave("error") /\ UNCHANGED <<disk, torn>>
     \/ req.op = "write" /\ RawWriteFail(first, DirectCount) /\ Leave("error")
  /\ UNCHANGED <<meta, data, magic>>

\* The cache is disabled: disk_read_raw / disk_write_raw of the whole request.
Bypass ==
  /\ Busy /\ disabled
  /\ \/ /\ req.op = "read" /\ InRange(first, num)
        /\ buf' = RawData(first, num)
        /\ num' = 0
        /\ UNCHANGED <<disk, torn, req, status, first, p, searchBase>>
     \/ /\ req.op = "write" /\ RawWriteOk(first, num)
        /\ num' = 0
        /\ UNCHANGED <<req, status, buf, first, p, searchBase>>
     \/ req.op = "read" /\ Leave("error") /\ UNCHANGED <<disk, torn>>
     \/ req.op = "write" /\ RawWriteFail(first, num) /\ Leave("error")
  /\ UNCHANGED <<meta, data, magic>>

\* Nothing is left to transfer: RES_OK.
Return ==
  /\ status = "busy" /\ num = 0
  /\ Leave("ok")
  /\ UNCHANGED <<disk, torn, meta, data, magic>>

-----------------------------------------------------------------------------
\* .bss is zero, the scratch RAM holds whatever the last boot left there.
Init ==
  /\ BD!Init
  /\ list = IndexOrder
  /\ base = [e \in Entries |-> 0]
  /\ data = Wiped
  /\ ready = FALSE /\ disabled = FALSE
  /\ owner \in Drives
  /\ magic \in BOOLEAN
  /\ first = 0 /\ num = 0 /\ p = NoEntry /\ searchBase = 0

Next ==
  \/ \E r \in BD!Request : Submit(r)
  \/ \E d \in Drives, c \in Contents : Initialize(d, c)
  \/ Disable \/ Enable \/ WipeAll \/ Overwrite
  \/ HitRead \/ HitWrite \/ FillPage \/ FillFallback \/ Direct \/ Bypass \/ Return

Spec == Init /\ [][Next]_vars

\* The loop runs to its end: dvm_cache_access never waits for anybody.
FairSpec == Spec /\ WF_vars(HitRead \/ HitWrite \/ FillPage \/ FillFallback
                             \/ Direct \/ Bypass \/ Return)

-----------------------------------------------------------------------------
(* Properties. *)

PageOffsets == 0 .. (PageSectors - 1)

\* The types of the variables.  A base sector is page-aligned and on the medium
\* with its whole page, except before the first reset, when .bss says 0.
TypeOK ==
  /\ disk \in [Drives -> [0 .. (Sectors - 1) -> Values]]
  /\ torn \subseteq Drives \X (0 .. (Sectors - 1))
  /\ req \in BD!Request \cup {NoRequest}
  /\ status \in {"none", "busy", "ok", "error"}
  /\ buf \in [BD!LBA -> Values \cup {Unset}]
  /\ list \in Orders
  /\ base \in [Entries -> (0 .. (Sectors - 1)) \cup {EmptyPage}]
  /\ data \in [Entries -> [PageOffsets -> Values]]
  /\ ready \in BOOLEAN /\ disabled \in BOOLEAN /\ magic \in BOOLEAN
  /\ owner \in Drives
  /\ first \in 0 .. (Sectors + MaxCount) /\ num \in 0 .. MaxCount
  /\ p \in Entries \cup {NoEntry}
  /\ searchBase \in Nat

\* dvm_cache_search stops at the first unused entry ("Unused entries are only
\* ever taken from the tail"): no used entry may be behind an unused one.
EmptyAtTail ==
  ready => \A i, j \in 1 .. Pages :
             i < j /\ base[list[i]] = EmptyPage => base[list[j]] = EmptyPage

\* No page is cached twice, so a write can patch every copy there is.
DistinctPages ==
  ready => \A e, f \in Entries : base[e] = base[f] /\ base[e] # EmptyPage => e = f

\* The pages the next request may be answered from: dvm_cache_claim accepts them.
Trusted == ready /\ magic

\* A page that will be used holds what the owner's medium holds, except where a
\* write has failed: across evictions, wipes, drive switches and new media.
Coherent ==
  Trusted => \A e \in Entries, o \in PageOffsets :
    /\ base[e] # EmptyPage
    /\ <<owner, base[e] + o>> \notin torn
    => data[e][o] = disk[owner][base[e] + o]

\* What diskio.c says of dvm_cache_write ("the cache keeps any affected page
\* coherent"): coherence with no exception for writes the device refused.
AlwaysCoherent ==
  Trusted => \A e \in Entries, o \in PageOffsets :
    base[e] # EmptyPage => data[e][o] = disk[owner][base[e] + o]

\* When an iteration skips dvm_cache_search, the pointer it reuses is the one a
\* new search would return: no stale pointer, no cached page jumped over, and
\* the unsigned distance to the next cached page never wraps.
SearchStillValid ==
  Looping /\ CurPage < searchBase => p = Search(CurPage)

\* A read about to return RES_OK has delivered the medium's sectors, all of them.
ReadReturnsMedium ==
  status = "busy" /\ num = 0 /\ req.op = "read" =>
    \A s \in BD!Span(req) :
      /\ s < Sectors
      /\ <<req.pdrv, s>> \notin torn => buf[s] = disk[req.pdrv][s]

\* The cache is invisible: with it, the disk layer is an uncached block device.
ImplementsBlockDevice == BD!Spec

\* Every request ends: the loop always advances, also around cached pages.
RequestEnds == status = "busy" ~> status # "busy"

=============================================================================
