--------------------------- MODULE DvmCacheProofs ---------------------------
(***************************************************************************)
(* Proofs about DvmCache, for every number of drives, sectors, pages and   *)
(* sectors per page.                                                       *)
(***************************************************************************)
EXTENDS DvmCache, TLAPS, WellFoundedInduction

-----------------------------------------------------------------------------
(* The inductive invariant. *)

\* TypeOK, and what bounds the loop's counters.
TypeInv ==
  /\ TypeOK
  /\ first + num <= Sectors + MaxCount
  /\ status = "busy" => req \in BD!Request

\* A cached page is aligned, and the medium holds all of it.
PagesOnMedium ==
  ready => \A e \in Entries :
             base[e] # EmptyPage => base[e] % PageSectors = 0 /\ base[e] + PageSectors <= Sectors

\* While the cache is disabled nothing is cached that a later write could miss.
DisabledEmpty == disabled /\ ready => \A e \in Entries : base[e] = EmptyPage

\* In the loop, the pages may be used and belong to the request's drive.
ServingOwner == Looping => ready /\ magic /\ owner = req.pdrv

\* What is left is the end of the request's range.
RangeLeft == Busy => first >= req.first /\ first + num = req.first + req.count

\* p is the first cached page from the current one on, and searchBase is beyond it.
SearchInv ==
  Looping /\ searchBase # 0 =>
    \/ /\ p \in Entries /\ base[p] # EmptyPage /\ searchBase = base[p] + 1
       /\ \A e \in Entries : base[e] # EmptyPage /\ base[e] >= CurPage => base[e] >= base[p]
    \/ /\ p = NoEntry /\ searchBase = EmptyPage
       /\ \A e \in Entries : base[e] # EmptyPage => base[e] < CurPage

\* The sectors of the request behind us have been transferred.
DoneSoFar ==
  status = "busy" =>
    \A s \in BD!Span(req) :
      s < first \/ num = 0 =>
        /\ s < Sectors
        /\ req.op = "read" => /\ buf[s] # Unset
                              /\ <<req.pdrv, s>> \notin torn => buf[s] = disk[req.pdrv][s]
        /\ req.op = "write" => disk[req.pdrv][s] = req.img[s]

IInv ==
  /\ TypeInv /\ EmptyAtTail /\ DistinctPages /\ PagesOnMedium /\ DisabledEmpty
  /\ ServingOwner /\ RangeLeft /\ SearchInv /\ Coherent /\ DoneSoFar

-----------------------------------------------------------------------------
(* Arithmetic. *)

\* Division with remainder.
LEMMA ModDiv ==
  ASSUME NEW n \in Nat, NEW d \in Nat \ {0}
  PROVE  /\ n = (d * (n \div d)) + (n % d)
         /\ n \div d \in Nat
         /\ n % d \in 0 .. (d - 1)
  BY SMT

\* Rounding down to a multiple of d: the page of a sector.
LEMMA AlignDown ==
  ASSUME NEW n \in Nat, NEW d \in Nat \ {0}
  PROVE  /\ n - (n % d) \in Nat
         /\ (n - (n % d)) % d = 0
         /\ n - (n % d) <= n
         /\ n < (n - (n % d)) + d
  <1>1. n % d <= n
    BY ModDiv, SMT
  <1>2. (n - (n % d)) % d = 0
    BY ModDiv, SMTT(30)
  <1> QED BY <1>1, <1>2, ModDiv, SMT

\* Two different pages do not overlap.
LEMMA AlignedApart ==
  ASSUME NEW a \in Nat, NEW b \in Nat, NEW d \in Nat \ {0},
         a % d = 0, b % d = 0, a < b
  PROVE  a + d <= b
  <1> DEFINE q == a \div d
             r == b \div d
  <1>1. a = d * q /\ b = d * r /\ q \in Nat /\ r \in Nat
    BY ModDiv, SMT
  <1> HIDE DEF q, r
  <1>2. q < r
    BY <1>1, SMT
  <1>3. d * (q + 1) <= d * r
    BY <1>1, <1>2, SMT
  <1> QED BY <1>1, <1>3, SMT

\* A set of numbers that is not empty has a least one.
LEMMA NatMin ==
  ASSUME NEW T, T \subseteq Nat, T # {}
  PROVE  \E x \in T : \A y \in T : x <= y
  <1> DEFINE R == OpToRel(<, Nat)
  <1>1. IsWellFoundedOn(R, Nat)
    BY NatLessThanWellFounded
  <1>2. \A x, y \in Nat : <<y, x>> \in R <=> y < x
    BY DEF OpToRel
  <1> HIDE DEF R
  <1>3. PICK x \in T : \A y \in T : ~(<<y, x>> \in R)
    BY <1>1, WFMin
  <1>4. \A y \in T : ~(y < x)
    BY <1>2, <1>3
  <1>5. \A y \in T : x <= y
    BY <1>4
  <1> QED BY <1>5

-----------------------------------------------------------------------------
(* The list. *)

\* dvm_cache_reset links every entry once.
LEMMA IndexOrderIsOrder == IndexOrder \in Orders
  BY CacheAssumption DEF Orders, IndexOrder

\* Every entry has a place on dvm_list.
LEMMA PosOfIn ==
  ASSUME list \in Orders, NEW e \in Entries
  PROVE  PosOf(e) \in 1 .. Pages /\ list[PosOf(e)] = e
  BY DEF Orders, PosOf

\* dvm_cache_promote keeps every entry on the list once, and keeps the order of
\* the others: entry i of the new list is the first, or entry old(i) of the old.
LEMMA PromotedOrder ==
  ASSUME list \in Orders, NEW e \in Entries
  PROVE  /\ Promoted(e) \in Orders
         /\ Promoted(e)[1] = e
         /\ \A i \in 2 .. Pages :
              Promoted(e)[i] = list[IF i <= PosOf(e) THEN i - 1 ELSE i]
  <1> DEFINE k == PosOf(e)
             new == Promoted(e)
  <1>1. k \in 1 .. Pages /\ list[k] = e
    BY PosOfIn
  <1>2. /\ list \in [1 .. Pages -> Entries]
        /\ \A i, j \in 1 .. Pages : list[i] = list[j] => i = j
        /\ \A f \in Entries : \E i \in 1 .. Pages : list[i] = f
    BY DEF Orders
  <1>3. new = [i \in 1 .. Pages |-> IF i = 1 THEN e ELSE IF i <= k THEN list[i - 1] ELSE list[i]]
    BY DEF Promoted
  <1> Pages \in Nat \ {0}
    BY CacheAssumption
  <1> HIDE DEF k, new
  <1>4. new \in [1 .. Pages -> Entries]
    BY <1>1, <1>2, <1>3
  <1>5. \A i \in 2 .. Pages : new[i] = list[IF i <= k THEN i - 1 ELSE i] /\ new[i] # e
    BY <1>1, <1>2, <1>3
  <1>6. new[1] = e
    BY <1>3
  <1>7. \A i, j \in 1 .. Pages : new[i] = new[j] => i = j
    <2> SUFFICES ASSUME NEW i \in 1 .. Pages, NEW j \in 1 .. Pages, new[i] = new[j]
                 PROVE  i = j
      OBVIOUS
    <2>1. CASE i = 1 \/ j = 1
      BY <2>1, <1>5, <1>6
    <2>2. CASE i # 1 /\ j # 1
      <3>1. list[IF i <= k THEN i - 1 ELSE i] = list[IF j <= k THEN j - 1 ELSE j]
        BY <2>2, <1>5
      <3>2. (IF i <= k THEN i - 1 ELSE i) = (IF j <= k THEN j - 1 ELSE j)
        BY <3>1, <2>2, <1>1, <1>2
      <3> QED BY <3>2, <1>1
    <2> QED BY <2>1, <2>2
  <1>8. \A f \in Entries : \E i \in 1 .. Pages : new[i] = f
    <2> SUFFICES ASSUME NEW f \in Entries PROVE \E i \in 1 .. Pages : new[i] = f
      OBVIOUS
    <2>1. PICK i \in 1 .. Pages : list[i] = f
      BY <1>2
    <2>2. CASE i = k
      BY <2>1, <2>2, <1>1, <1>6
    <2>3. CASE i < k
      <3>1. i + 1 \in 2 .. Pages /\ i + 1 <= k
        BY <2>3, <1>1
      <3> QED BY <2>1, <3>1, <1>5
    <2>4. CASE i > k
      <3>1. i \in 2 .. Pages /\ ~(i <= k)
        BY <2>4, <1>1
      <3> QED BY <2>1, <3>1, <1>5
    <2> QED BY <2>2, <2>3, <2>4, <1>1
  <1>9. new \in Orders
    BY <1>4, <1>7, <1>8 DEF Orders
  <1> QED BY <1>5, <1>6, <1>9 DEF new, k

-----------------------------------------------------------------------------
(* Searching and evicting. *)

\* The types of the cache's own state, which the lemmas below rest on.
MetaType == list \in Orders /\ base \in [Entries -> (0 .. (Sectors - 1)) \cup {EmptyPage}]

\* A base sector is a number up to DVM_EMPTY_PAGE.
LEMMA BaseNat ==
  ASSUME MetaType, NEW e \in Entries
  PROVE  base[e] \in Nat /\ base[e] <= EmptyPage
  BY CacheAssumption DEF MetaType

\* dvm_cache_search reaches every entry in use, since the unused ones are last.
LEMMA VisitedIsUsed ==
  ASSUME MetaType, EmptyAtTail, ready, NEW e \in Entries
  PROVE  e \in Visited <=> base[e] # EmptyPage
  <1>1. PosOf(e) \in 1 .. Pages /\ list[PosOf(e)] = e
    BY PosOfIn DEF MetaType
  <1>2. CASE base[e] = EmptyPage
    BY <1>1, <1>2 DEF Visited
  <1>3. CASE base[e] # EmptyPage
    <2> SUFFICES ASSUME NEW j \in 1 .. PosOf(e), base[list[j]] = EmptyPage
                 PROVE  FALSE
      BY <1>3 DEF Visited
    <2>1. j \in 1 .. Pages /\ (j < PosOf(e) \/ j = PosOf(e))
      BY <1>1, CacheAssumption
    <2> QED BY <2>1, <1>1, <1>3 DEF EmptyAtTail
  <1> QED BY <1>2, <1>3

\* e is the first cached page from page q on; NoEntry, that there is none.
FirstFrom(e, q) ==
  \/ e = NoEntry /\ \A f \in Entries : base[f] # EmptyPage => base[f] < q
  \/ /\ e \in Entries /\ base[e] # EmptyPage /\ base[e] >= q
     /\ \A f \in Entries : base[f] # EmptyPage /\ base[f] >= q => base[f] >= base[e]

\* dvm_cache_search finds the page, or the first cached page after it.
LEMMA SearchFinds ==
  ASSUME MetaType, EmptyAtTail, ready, NEW q \in Nat
  PROVE  FirstFrom(Search(q), q)
  <1>1. \A e \in Entries : e \in Visited <=> base[e] # EmptyPage
    BY VisitedIsUsed
  <1>2. Visited \subseteq Entries
    BY DEF Visited
  <1>3. \A e \in Entries : base[e] \in Nat
    BY BaseNat
  <1>4. CASE \E e \in Visited : base[e] = q
    <2>1. Search(q) \in Visited /\ base[Search(q)] = q
      BY <1>4 DEF Search
    <2> QED BY <2>1, <1>1, <1>2, <1>3 DEF FirstFrom
  <1>5. CASE ~(\E e \in Visited : base[e] = q) /\ Above(q) # {}
    <2>1. {base[e] : e \in Above(q)} \subseteq Nat /\ {base[e] : e \in Above(q)} # {}
      BY <1>5, <1>2, <1>3 DEF Above
    <2>2. PICK x \in {base[e] : e \in Above(q)} : \A y \in {base[e] : e \in Above(q)} : x <= y
      BY <2>1, NatMin
    <2>3. \E e \in Above(q) : \A f \in Above(q) : base[e] <= base[f]
      BY <2>2
    <2>4. /\ Search(q) \in Above(q)
          /\ \A f \in Above(q) : base[Search(q)] <= base[f]
      BY <1>5, <2>3 DEF Search
    <2>5. \A f \in Entries : base[f] # EmptyPage /\ base[f] >= q => f \in Above(q)
      BY <1>1, <1>3, <1>5 DEF Above
    <2> QED BY <2>4, <2>5, <1>1, <1>2, <1>3 DEF FirstFrom, Above
  <1>6. CASE ~(\E e \in Visited : base[e] = q) /\ Above(q) = {}
    <2>1. Search(q) = NoEntry
      BY <1>6 DEF Search
    <2>2. \A f \in Entries : base[f] # EmptyPage => base[f] < q
      BY <1>1, <1>3, <1>6 DEF Above
    <2> QED BY <2>1, <2>2 DEF FirstFrom
  <1> QED BY <1>4, <1>5, <1>6

\* No page is cached twice, so "the first page from q on" is one entry.
LEMMA FirstFromUnique ==
  ASSUME MetaType, DistinctPages, ready, NEW q \in Nat, NEW e, NEW f,
         FirstFrom(e, q), FirstFrom(f, q)
  PROVE  e = f
  <1>1. \A g \in Entries : base[g] \in Nat
    BY BaseNat
  <1>2. NoEntry \notin Entries
    BY CacheAssumption
  <1>3. CASE e = NoEntry \/ f = NoEntry
    BY <1>1, <1>2, <1>3 DEF FirstFrom
  <1>4. CASE e # NoEntry /\ f # NoEntry
    <2>1. e \in Entries /\ f \in Entries /\ base[e] # EmptyPage /\ base[e] = base[f]
      BY <1>1, <1>4 DEF FirstFrom
    <2> QED BY <2>1 DEF DistinctPages
  <1> QED BY <1>3, <1>4

\* dvm_cache_evict returns an entry with nothing but unused entries behind it.
LEMMA VictimIsLast ==
  ASSUME MetaType
  PROVE  /\ Victim \in Entries
         /\ \E k \in 1 .. Pages : /\ list[k] = Victim
                                  /\ \A j \in (k + 1) .. Pages : base[list[j]] = EmptyPage
  <1> DEFINE run == {i \in 1 .. Pages : \A j \in i .. Pages : base[list[j]] = EmptyPage}
  <1>1. list \in [1 .. Pages -> Entries] /\ Pages \in Nat \ {0}
    BY CacheAssumption DEF MetaType, Orders
  <1>2. CASE run = {}
    <2>1. Victim = list[Pages]
      BY <1>2 DEF Victim
    <2>2. Pages \in 1 .. Pages /\ \A j \in (Pages + 1) .. Pages : base[list[j]] = EmptyPage
      BY <1>1
    <2> QED BY <1>1, <2>1, <2>2
  <1>3. CASE run # {}
    <2>1. run \subseteq Nat
      OBVIOUS
    <2>2. \E i \in run : \A j \in run : i <= j
      BY <1>3, <2>1, NatMin
    <2>3. PICK k \in run : Victim = list[k]
      BY <1>3, <2>2 DEF Victim
    <2>4. k \in 1 .. Pages /\ \A j \in (k + 1) .. Pages : base[list[j]] = EmptyPage
      BY <2>3, <1>1
    <2> QED BY <1>1, <2>3, <2>4
  <1> QED BY <1>2, <1>3

-----------------------------------------------------------------------------
(* The loop of dvm_cache_access. *)

\* The fields of a request from FatFs.
LEMMA RequestFields ==
  ASSUME NEW r \in BD!Request
  PROVE  /\ r.op \in {"read", "write"} /\ r.pdrv \in Drives
         /\ r.first \in 0 .. Sectors /\ r.count \in 0 .. MaxCount
         /\ r.img \in [0 .. (Sectors - 1) -> Values]
  <1>1. r \in [op : Ops \cap {"read", "write"}, pdrv : Drives, first : 0 .. Sectors,
               count : 0 .. MaxCount, aligned : BOOLEAN, img : Contents]
    BY DEF BD!Request
  <1> QED BY <1>1, CacheAssumption

\* The page of a sector grows with the sector.
LEMMA PageMonotone ==
  ASSUME NEW m \in Nat, NEW n \in Nat, m <= n, NEW d \in Nat \ {0}
  PROVE  m - (m % d) <= n - (n % d)
  <1> DEFINE a == m - (m % d)
             b == n - (n % d)
  <1>1. a \in Nat /\ a % d = 0 /\ a <= m /\ m < a + d
    BY AlignDown
  <1>2. b \in Nat /\ b % d = 0 /\ b <= n /\ n < b + d
    BY AlignDown
  <1> HIDE DEF a, b
  <1>3. b < a => b + d <= a
    BY <1>1, <1>2, AlignedApart
  <1>4. a <= b
    BY <1>1, <1>2, <1>3
  <1> QED BY <1>4 DEF a, b

\* Where an iteration stands in its page.
LEMMA PageFacts ==
  ASSUME TypeOK
  PROVE  /\ first \in Nat /\ num \in Nat /\ PageSectors \in Nat \ {0}
         /\ CurPage \in Nat /\ CurPage % PageSectors = 0
         /\ CurPage <= first /\ first < CurPage + PageSectors
         /\ CurOffset = first - CurPage
         /\ PageCount \in Nat /\ PageCount <= num /\ first + PageCount <= CurPage + PageSectors
         /\ num > 0 => PageCount > 0
  <1>1. first \in Nat /\ num \in Nat /\ PageSectors \in Nat \ {0}
    BY CacheAssumption DEF TypeOK
  <1>2. /\ CurPage \in Nat /\ CurPage % PageSectors = 0
        /\ CurPage <= first /\ first < CurPage + PageSectors
    BY <1>1, AlignDown DEF CurPage
  <1>3. first % PageSectors \in Nat
    BY <1>1, ModDiv
  <1>4. CurOffset = first - CurPage
    BY <1>1, <1>3 DEF CurPage, CurOffset
  <1>5. /\ PageCount \in Nat /\ PageCount <= num /\ first + PageCount <= CurPage + PageSectors
        /\ num > 0 => PageCount > 0
    BY <1>1, <1>2, <1>4 DEF PageCount, Min2
  <1> QED BY <1>1, <1>2, <1>4, <1>5

\* The entry an iteration works with is the first cached page from the current one
\* on, whether it was searched for or carried over.
LEMMA CurEntryFirst ==
  ASSUME IInv, Looping
  PROVE  /\ FirstFrom(CurEntry, CurPage)
         /\ CurSearchBase = IF CurEntry = NoEntry THEN EmptyPage ELSE base[CurEntry] + 1
  <1>1. MetaType /\ EmptyAtTail /\ ready /\ TypeOK
    BY DEF IInv, TypeInv, TypeOK, MetaType, ServingOwner
  <1>2. CurPage \in Nat
    BY <1>1, PageFacts
  <1>3. searchBase \in Nat
    BY <1>1 DEF TypeOK
  <1>4. CASE CurPage >= searchBase
    <2>1. CurEntry = Search(CurPage)
      BY <1>4 DEF CurEntry
    <2> QED BY <2>1, <1>1, <1>2, <1>3, <1>4, SearchFinds DEF CurSearchBase
  <1>5. CASE CurPage < searchBase
    <2>1. CurEntry = p /\ CurSearchBase = searchBase /\ searchBase # 0
      BY <1>2, <1>3, <1>5 DEF CurEntry, CurSearchBase
    <2>2. \A e \in Entries : base[e] \in Nat
      BY <1>1, BaseNat
    <2>3. NoEntry \notin Entries
      BY CacheAssumption
    <2>4. \/ /\ p \in Entries /\ base[p] # EmptyPage /\ searchBase = base[p] + 1
             /\ \A e \in Entries : base[e] # EmptyPage /\ base[e] >= CurPage => base[e] >= base[p]
          \/ /\ p = NoEntry /\ searchBase = EmptyPage
             /\ \A e \in Entries : base[e] # EmptyPage => base[e] < CurPage
      BY <2>1 DEF IInv, SearchInv
    <2> QED BY <2>1, <2>2, <2>3, <2>4, <1>2, <1>5 DEF FirstFrom
  <1> QED BY <1>2, <1>3, <1>4, <1>5

\* A search made stays good while the loop goes forward and the pages stay.
LEMMA SearchCarries ==
  ASSUME IInv, Looping, base' = base, p' = CurEntry, searchBase' = CurSearchBase,
         first' \in Nat, first <= first'
  PROVE  SearchInv'
  <1>1. FirstFrom(CurEntry, CurPage)
    BY CurEntryFirst
  <1>2. CurSearchBase = IF CurEntry = NoEntry THEN EmptyPage ELSE base[CurEntry] + 1
    BY CurEntryFirst
  <1>3. MetaType /\ TypeOK
    BY DEF IInv, TypeInv, TypeOK, MetaType
  <1>4. \A e \in Entries : base[e] \in Nat
    BY <1>3, BaseNat
  <1>5. first \in Nat /\ PageSectors \in Nat \ {0} /\ CurPage \in Nat
    BY <1>3, PageFacts
  <1>6. CurPage <= CurPage'
    BY <1>5, PageMonotone DEF CurPage
  <1>7. CurPage' \in Nat
    BY <1>5, AlignDown DEF CurPage
  <1>8. NoEntry \notin Entries
    BY CacheAssumption
  <1>9. CASE CurEntry = NoEntry
    <2>1. p' = NoEntry /\ searchBase' = EmptyPage
      BY <1>2, <1>9
    <2>2. \A e \in Entries : base'[e] # EmptyPage => base'[e] < CurPage'
      BY <1>1, <1>4, <1>5, <1>6, <1>7, <1>8, <1>9 DEF FirstFrom
    <2> QED BY <2>1, <2>2 DEF SearchInv
  <1>10. CASE CurEntry # NoEntry
    <2>1. p' \in Entries /\ base'[p'] # EmptyPage /\ searchBase' = base'[p'] + 1
      BY <1>1, <1>2, <1>10 DEF FirstFrom
    <2>2. \A e \in Entries : base'[e] # EmptyPage /\ base'[e] >= CurPage' => base'[e] >= base'[p']
      BY <1>1, <1>4, <1>5, <1>6, <1>7, <1>10 DEF FirstFrom
    <2> QED BY <2>1, <2>2 DEF SearchInv
  <1> QED BY <1>9, <1>10

-----------------------------------------------------------------------------
(* Steps that share an argument. *)

\* Outside a request, nothing is claimed about the locals of dvm_cache_access.
LEMMA LeavesLoop ==
  ASSUME status' # "busy"
  PROVE  ServingOwner' /\ RangeLeft' /\ SearchInv' /\ DoneSoFar'
  BY DEF ServingOwner, RangeLeft, SearchInv, DoneSoFar, Looping, Busy

\* A cache that is not ready holds nothing that will be used.
LEMMA NotReadyHolds ==
  ASSUME ready' = FALSE
  PROVE  EmptyAtTail' /\ DistinctPages' /\ PagesOnMedium' /\ DisabledEmpty' /\ Coherent'
  BY DEF EmptyAtTail, DistinctPages, PagesOnMedium, DisabledEmpty, Coherent, Trusted

\* dvm_cache_reset leaves every entry on the list and unused.
LEMMA ResetHolds ==
  ASSUME Reset
  PROVE  /\ list' \in Orders
         /\ base' \in [Entries -> (0 .. (Sectors - 1)) \cup {EmptyPage}]
         /\ magic' = TRUE /\ ready' = TRUE
         /\ EmptyAtTail' /\ DistinctPages' /\ PagesOnMedium' /\ DisabledEmpty' /\ Coherent'
  <1>1. list' \in Orders /\ base' = [e \in Entries |-> EmptyPage] /\ magic' = TRUE /\ ready' = TRUE
    BY IndexOrderIsOrder DEF Reset
  <1>2. list' \in [1 .. Pages -> Entries]
    BY <1>1 DEF Orders
  <1>3. \A i \in 1 .. Pages : base'[list'[i]] = EmptyPage
    BY <1>1, <1>2
  <1>4. EmptyAtTail'
    BY <1>3 DEF EmptyAtTail
  <1>5. DistinctPages' /\ PagesOnMedium' /\ DisabledEmpty' /\ Coherent'
    BY <1>1 DEF DistinctPages, PagesOnMedium, DisabledEmpty, Coherent
  <1> QED BY <1>1, <1>4, <1>5

\* A step that touches neither the pages nor the media keeps what the pages promise.
LEMMA SamePages ==
  ASSUME IInv, UNCHANGED <<disk, torn, meta, data, magic>>
  PROVE  EmptyAtTail' /\ DistinctPages' /\ PagesOnMedium' /\ DisabledEmpty' /\ Coherent'
  BY DEF IInv, meta, EmptyAtTail, DistinctPages, PagesOnMedium, DisabledEmpty, Coherent, Trusted

\* dvm_cache_promote of an entry that is in use afterwards leaves no used entry
\* behind an unused one.
LEMMA PromoteKeepsTail ==
  ASSUME MetaType, EmptyAtTail, ready, NEW e \in Entries, NEW q, q # EmptyPage,
         list' = Promoted(e), base' = [base EXCEPT ![e] = q]
  PROVE  EmptyAtTail'
  <1> DEFINE old(i) == IF i <= PosOf(e) THEN i - 1 ELSE i
  <1>1. list' \in Orders /\ list'[1] = e /\ \A i \in 2 .. Pages : list'[i] = list[old(i)]
    BY PromotedOrder DEF MetaType
  <1>2. PosOf(e) \in 1 .. Pages /\ Pages \in Nat
    BY PosOfIn, CacheAssumption DEF MetaType
  <1>3. base \in [Entries -> (0 .. (Sectors - 1)) \cup {EmptyPage}] /\ base'[e] = q
    BY DEF MetaType
  <1>4. list' \in [1 .. Pages -> Entries] /\ \A i, j \in 1 .. Pages : list'[i] = list'[j] => i = j
    BY <1>1 DEF Orders
  <1> SUFFICES ASSUME NEW i \in 1 .. Pages, NEW j \in 1 .. Pages,
                      i < j, base'[list'[i]] = EmptyPage
               PROVE  base'[list'[j]] = EmptyPage
    BY DEF EmptyAtTail
  <1>5. i # 1 /\ j # 1
    BY <1>1, <1>2, <1>3
  <1>6. list'[i] # e /\ list'[j] # e
    BY <1>1, <1>2, <1>4, <1>5
  <1>7. base'[list'[i]] = base[list'[i]] /\ base'[list'[j]] = base[list'[j]]
    BY <1>3, <1>4, <1>6
  <1>8. list'[i] = list[old(i)] /\ list'[j] = list[old(j)]
    BY <1>1, <1>2, <1>5
  <1>9. old(i) \in 1 .. Pages /\ old(j) \in 1 .. Pages /\ old(i) < old(j)
    BY <1>2, <1>5
  <1> QED BY <1>7, <1>8, <1>9 DEF EmptyAtTail

-----------------------------------------------------------------------------
(* Between requests. *)

\* Init establishes the invariant.
LEMMA InitInv == Init => IInv
  <1> SUFFICES ASSUME Init PROVE IInv
    OBVIOUS
  <1>1. status = "none" /\ ready = FALSE /\ first = 0 /\ num = 0
    BY DEF Init, BD!Init
  <1>2. /\ disk \in [Drives -> [0 .. (Sectors - 1) -> Values]] /\ torn = {} /\ req = NoRequest
        /\ buf \in [BD!LBA -> Values \cup {Unset}]
    BY CacheAssumption DEF Init, BD!Init, BD!NoData
  <1>3. list \in Orders /\ data \in [Entries -> [PageOffsets -> Values]]
    BY CacheAssumption, IndexOrderIsOrder DEF Init, Wiped, PageOffsets
  <1>4. base \in [Entries -> (0 .. (Sectors - 1)) \cup {EmptyPage}]
    BY CacheAssumption DEF Init
  <1>5. TypeInv
    <2>1. ready \in BOOLEAN /\ disabled \in BOOLEAN /\ magic \in BOOLEAN /\ owner \in Drives
      BY DEF Init
    <2>2. /\ first \in 0 .. (Sectors + MaxCount) /\ num \in 0 .. MaxCount /\ searchBase \in Nat
          /\ first + num <= Sectors + MaxCount
      BY CacheAssumption DEF Init
    <2>3. p \in Entries \cup {NoEntry} /\ torn \subseteq Drives \X (0 .. (Sectors - 1))
      BY <1>2 DEF Init
    <2> QED BY <1>1, <1>2, <1>3, <1>4, <2>1, <2>2, <2>3 DEF TypeInv, TypeOK
  <1> QED BY <1>1, <1>5 DEF IInv, EmptyAtTail, DistinctPages, PagesOnMedium, DisabledEmpty,
       ServingOwner, RangeLeft, SearchInv, Coherent, Trusted, DoneSoFar, Looping, Busy

\* A request is accepted, the cache claimed for its drive.
LEMMA SubmitInv ==
  ASSUME IInv, NEW r \in BD!Request, Submit(r)
  PROVE  IInv'
  <1>1. /\ r.op \in {"read", "write"} /\ r.pdrv \in Drives
        /\ r.first \in 0 .. Sectors /\ r.count \in 0 .. MaxCount
    BY RequestFields
  <1>2. /\ status' = "busy" /\ req' = r /\ first' = r.first /\ num' = r.count
        /\ p' = NoEntry /\ searchBase' = 0 /\ buf' = BD!NoData
        /\ UNCHANGED <<disk, torn, data>>
    BY DEF Submit, BD!Accept
  <1>3. /\ list' \in Orders
        /\ base' \in [Entries -> (0 .. (Sectors - 1)) \cup {EmptyPage}]
        /\ magic' \in BOOLEAN /\ ready' \in BOOLEAN /\ disabled' = disabled
        /\ owner' \in Drives
        /\ EmptyAtTail' /\ DistinctPages' /\ PagesOnMedium' /\ DisabledEmpty' /\ Coherent'
        /\ r.count # 0 /\ ~disabled => magic' /\ ready' /\ owner' = r.pdrv
    <2>1. CASE UNCHANGED <<meta, magic>> /\ (r.count = 0 \/ disabled \/ (magic /\ ready /\ owner = r.pdrv))
      <3>1. EmptyAtTail' /\ DistinctPages' /\ PagesOnMedium' /\ DisabledEmpty' /\ Coherent'
        BY <2>1, <1>2, SamePages
      <3> QED BY <2>1, <3>1 DEF IInv, TypeInv, TypeOK, meta
    <2>2. CASE Reset /\ owner' = r.pdrv /\ UNCHANGED disabled
      BY <2>2, <1>1, ResetHolds
    <2> QED BY <2>1, <2>2 DEF Submit, Claim
  <1>4. disk \in [Drives -> [0 .. (Sectors - 1) -> Values]] /\ torn \subseteq Drives \X (0 .. (Sectors - 1))
    BY DEF IInv, TypeInv, TypeOK
  <1>5. TypeInv'
    <2>1. buf' \in [BD!LBA -> Values \cup {Unset}]
      BY <1>2 DEF BD!NoData
    <2>2. data' \in [Entries -> [PageOffsets -> Values]] /\ disabled' \in BOOLEAN
      BY <1>2, <1>3 DEF IInv, TypeInv, TypeOK
    <2>3. first' \in 0 .. (Sectors + MaxCount) /\ num' \in 0 .. MaxCount /\ first' + num' <= Sectors + MaxCount
      BY <1>1, <1>2, CacheAssumption
    <2> QED BY <1>2, <1>3, <1>4, <2>1, <2>2, <2>3 DEF TypeInv, TypeOK
  <1>6. ServingOwner'
    BY <1>1, <1>2, <1>3 DEF ServingOwner, Looping, Busy
  <1>7. RangeLeft' /\ SearchInv'
    BY <1>1, <1>2, CacheAssumption DEF RangeLeft, SearchInv, Busy
  <1>8. DoneSoFar'
    BY <1>1, <1>2, CacheAssumption DEF DoneSoFar, BD!Span
  <1> QED BY <1>3, <1>5, <1>6, <1>7, <1>8 DEF IInv

\* disk_initialize: a new medium, nothing of the old one kept.
LEMMA InitializeInv ==
  ASSUME IInv, NEW d \in Drives, NEW c \in Contents, Initialize(d, c)
  PROVE  IInv'
  <1>1. /\ disk' = [disk EXCEPT ![d] = c] /\ torn' = {x \in torn : x[1] # d}
        /\ status' = "none" /\ UNCHANGED <<req, buf, data, disabled, owner, locals>>
        /\ Reset
    BY DEF Initialize, BD!NewMedium
  <1>2. /\ list' \in Orders
        /\ base' \in [Entries -> (0 .. (Sectors - 1)) \cup {EmptyPage}]
        /\ magic' = TRUE /\ ready' = TRUE
        /\ EmptyAtTail' /\ DistinctPages' /\ PagesOnMedium' /\ DisabledEmpty' /\ Coherent'
    BY <1>1, ResetHolds
  <1>3. TypeInv'
    <2>1. disk' \in [Drives -> [0 .. (Sectors - 1) -> Values]]
      BY <1>1, CacheAssumption DEF IInv, TypeInv, TypeOK
    <2>2. torn' \subseteq Drives \X (0 .. (Sectors - 1))
      BY <1>1 DEF IInv, TypeInv, TypeOK
    <2> QED BY <1>1, <1>2, <2>1, <2>2 DEF IInv, TypeInv, TypeOK, locals
  <1> QED BY <1>1, <1>2, <1>3, LeavesLoop DEF IInv

\* dvm_cache_disable, dvm_cache_enable, and code that overwrites scratch RAM after
\* disabling the cache: nothing cached will be used again.
LEMMA UnreadyInv ==
  ASSUME IInv, Disable \/ Enable \/ Overwrite
  PROVE  IInv'
  <1>1. /\ status' # "busy" /\ ready' = FALSE /\ disabled' \in BOOLEAN
        /\ UNCHANGED <<disk, torn, req, status, buf, list, base, owner, magic, locals>>
        /\ data' = data \/ data' = Wiped
    BY DEF Disable, Enable, Overwrite
  <1>2. data' \in [Entries -> [PageOffsets -> Values]]
    BY <1>1, CacheAssumption DEF IInv, TypeInv, TypeOK, Wiped, PageOffsets
  <1>3. TypeInv'
    BY <1>1, <1>2 DEF IInv, TypeInv, TypeOK, locals
  <1> QED BY <1>1, <1>3, LeavesLoop, NotReadyHolds DEF IInv

\* The boot path wipes the scratch RAM, and with it the sentinel.
LEMMA WipeInv ==
  ASSUME IInv, WipeAll
  PROVE  IInv'
  <1>1. /\ status' # "busy" /\ data' = Wiped /\ magic' = FALSE
        /\ UNCHANGED <<disk, torn, req, status, buf, meta, locals>>
    BY DEF WipeAll
  <1>2. data' \in [Entries -> [PageOffsets -> Values]]
    BY <1>1, CacheAssumption DEF Wiped, PageOffsets
  <1>3. TypeInv'
    BY <1>1, <1>2 DEF IInv, TypeInv, TypeOK, meta, locals
  <1>4. EmptyAtTail' /\ DistinctPages' /\ PagesOnMedium' /\ DisabledEmpty'
    BY <1>1 DEF IInv, meta, EmptyAtTail, DistinctPages, PagesOnMedium, DisabledEmpty
  <1>5. Coherent'
    BY <1>1 DEF Coherent, Trusted
  <1> QED BY <1>1, <1>3, <1>4, <1>5, LeavesLoop DEF IInv

\* Returning to FatFs leaves a well-typed idle state.
LEMMA LeaveType ==
  ASSUME TypeInv, NEW res \in {"ok", "error"}, Leave(res),
         disk' \in [Drives -> [0 .. (Sectors - 1) -> Values]],
         torn' \subseteq Drives \X (0 .. (Sectors - 1)),
         base' \in [Entries -> (0 .. (Sectors - 1)) \cup {EmptyPage}],
         data' \in [Entries -> [PageOffsets -> Values]],
         UNCHANGED <<list, ready, disabled, owner, magic>>
  PROVE  TypeInv' /\ status' # "busy"
  <1>1. /\ status' = res /\ req' = NoRequest /\ buf' = BD!NoData
        /\ first' = 0 /\ num' = 0 /\ p' = NoEntry /\ searchBase' = 0
    BY DEF Leave
  <1>2. buf' \in [BD!LBA -> Values \cup {Unset}]
    BY <1>1 DEF BD!NoData
  <1>3. /\ first' \in 0 .. (Sectors + MaxCount) /\ num' \in 0 .. MaxCount /\ searchBase' \in Nat
        /\ first' + num' <= Sectors + MaxCount
    BY <1>1, CacheAssumption
  <1>4. status' # "busy" /\ status' \in {"none", "busy", "ok", "error"}
    BY <1>1
  <1>5. p' \in Entries \cup {NoEntry} /\ req' \in BD!Request \cup {NoRequest}
    BY <1>1
  <1> QED BY <1>2, <1>3, <1>4, <1>5 DEF TypeInv, TypeOK

\* The end of dvm_cache_access.
LEMMA ReturnInv ==
  ASSUME IInv, Return
  PROVE  IInv'
  <1>1. TypeInv' /\ status' # "busy"
    <2>1. Leave("ok") /\ UNCHANGED <<disk, torn, list, base, ready, disabled, owner, data, magic>>
      BY DEF Return, meta
    <2>2. TypeInv
      BY DEF IInv
    <2> QED BY <2>1, <2>2, LeaveType DEF TypeInv, TypeOK
  <1>2. EmptyAtTail' /\ DistinctPages' /\ PagesOnMedium' /\ DisabledEmpty' /\ Coherent'
    BY SamePages DEF Return
  <1> QED BY <1>1, <1>2, LeavesLoop DEF IInv

-----------------------------------------------------------------------------
(* Transfers. *)

\* The state a request is served in.
LEMMA BusyFacts ==
  ASSUME IInv, Busy
  PROVE  /\ status = "busy" /\ req \in BD!Request /\ TypeOK /\ MetaType
         /\ req.op \in {"read", "write"} /\ req.pdrv \in Drives
         /\ req.img \in [0 .. (Sectors - 1) -> Values]
         /\ req.first \in Nat /\ req.count \in Nat /\ first \in Nat /\ num \in Nat \ {0}
         /\ req.first <= first /\ first + num = req.first + req.count
         /\ first + num <= Sectors + MaxCount
         /\ BD!Span(req) = req.first .. (first + num - 1)
         /\ disk \in [Drives -> [0 .. (Sectors - 1) -> Values]]
         /\ torn \subseteq Drives \X (0 .. (Sectors - 1))
  <1>1. /\ TypeOK /\ MetaType /\ status = "busy" /\ req \in BD!Request
        /\ first + num <= Sectors + MaxCount
    BY DEF IInv, TypeInv, TypeOK, MetaType, Busy
  <1>2. /\ req.op \in {"read", "write"} /\ req.pdrv \in Drives
        /\ req.img \in [0 .. (Sectors - 1) -> Values]
        /\ req.first \in Nat /\ req.count \in Nat
    BY <1>1, RequestFields, CacheAssumption
  <1>3. first \in Nat /\ num \in Nat \ {0}
    BY <1>1, CacheAssumption DEF TypeOK, Busy
  <1>4. req.first <= first /\ first + num = req.first + req.count
    BY <1>2, <1>3 DEF IInv, RangeLeft
  <1>5. BD!Span(req) = req.first .. (first + num - 1)
    BY <1>2, <1>3, <1>4 DEF BD!Span
  <1> QED BY <1>1, <1>2, <1>3, <1>4, <1>5 DEF TypeOK

\* In the loop, the pages may be used and are the request's drive's.
LEMMA LoopFacts ==
  ASSUME IInv, Looping
  PROVE  /\ Busy /\ ~disabled /\ ready /\ magic /\ Trusted /\ owner = req.pdrv
         /\ EmptyAtTail /\ DistinctPages
         /\ \A e \in Entries : base[e] # EmptyPage =>
              /\ base[e] \in Nat /\ base[e] % PageSectors = 0 /\ base[e] + PageSectors <= Sectors
         /\ \A e \in Entries, o \in PageOffsets :
              base[e] # EmptyPage /\ <<req.pdrv, base[e] + o>> \notin torn
              => data[e][o] = disk[req.pdrv][base[e] + o]
  <1>1. Busy /\ ~disabled /\ ready /\ magic /\ owner = req.pdrv
    BY DEF IInv, ServingOwner, Looping
  <1>2. Trusted /\ EmptyAtTail /\ DistinctPages
    BY <1>1 DEF IInv, Trusted
  <1>3. \A e \in Entries : base[e] # EmptyPage =>
          /\ base[e] \in Nat /\ base[e] % PageSectors = 0 /\ base[e] + PageSectors <= Sectors
    BY <1>1, BusyFacts, BaseNat DEF IInv, PagesOnMedium
  <1>4. \A e \in Entries, o \in PageOffsets :
          base[e] # EmptyPage /\ <<req.pdrv, base[e] + o>> \notin torn
          => data[e][o] = disk[req.pdrv][base[e] + o]
    BY <1>1, <1>2 DEF IInv, Coherent
  <1> QED BY <1>1, <1>2, <1>3, <1>4

\* The page the loop stands in and what a hit copies of it.
LEMMA HitFacts ==
  ASSUME IInv, Looping, IsHit
  PROVE  /\ CurEntry \in Entries /\ base[CurEntry] = CurPage /\ base[CurEntry] # EmptyPage
         /\ CurPage + PageSectors <= Sectors
         /\ \A s \in first .. (first + PageCount - 1) :
              s - CurPage \in PageOffsets /\ s \in 0 .. (Sectors - 1)
              /\ CurPage + (s - CurPage) = s
  <1>1. FirstFrom(CurEntry, CurPage) /\ CurEntry # NoEntry
    BY CurEntryFirst DEF IsHit
  <1>2. CurEntry \in Entries /\ base[CurEntry] = CurPage /\ base[CurEntry] # EmptyPage
    BY <1>1 DEF IsHit, FirstFrom
  <1>3. CurPage + PageSectors <= Sectors
    BY <1>2, LoopFacts
  <1>4. Busy /\ TypeOK
    BY BusyFacts, LoopFacts
  <1>5. /\ CurPage \in Nat /\ PageCount \in Nat /\ first \in Nat /\ PageSectors \in Nat
        /\ CurPage <= first /\ first + PageCount <= CurPage + PageSectors
    BY <1>4, PageFacts
  <1>6. \A s \in first .. (first + PageCount - 1) :
          s - CurPage \in PageOffsets /\ s \in 0 .. (Sectors - 1) /\ CurPage + (s - CurPage) = s
    BY <1>3, <1>5, CacheAssumption DEF PageOffsets
  <1> QED BY <1>2, <1>3, <1>6

\* A transfer from the device that succeeded: what the buffer holds then.
LEMMA RawReadFacts ==
  ASSUME IInv, Busy, NEW s \in Nat, NEW n \in Nat, InRange(s, n), buf' = RawData(s, n)
  PROVE  /\ buf' \in [BD!LBA -> Values \cup {Unset}]
         /\ \A b \in s .. (s + n - 1) :
              b < Sectors /\ buf'[b] = disk[req.pdrv][b] /\ buf'[b] \in Values /\ buf'[b] # Unset
         /\ \A b \in BD!LBA : b \notin s .. (s + n - 1) => buf'[b] = buf[b]
  <1>1. /\ disk \in [Drives -> [0 .. (Sectors - 1) -> Values]] /\ req.pdrv \in Drives
        /\ buf \in [BD!LBA -> Values \cup {Unset}]
    BY BusyFacts DEF TypeOK
  <1>2. s + n <= Sectors /\ Sectors \in Nat /\ MaxCount \in Nat /\ Unset \notin Values
    BY CacheAssumption DEF InRange
  <1>3. buf' = [b \in BD!LBA |-> IF b \in s .. (s + n - 1) THEN disk[req.pdrv][b] ELSE buf[b]]
    BY DEF RawData
  <1>4. \A b \in s .. (s + n - 1) : b \in BD!LBA /\ b \in 0 .. (Sectors - 1)
    BY <1>2 DEF BD!LBA
  <1>5. \A b \in s .. (s + n - 1) : disk[req.pdrv][b] \in Values
    BY <1>1, <1>4
  <1>6. \A b \in s .. (s + n - 1) : b < Sectors
    BY <1>2, <1>4
  <1> QED BY <1>1, <1>2, <1>3, <1>4, <1>5, <1>6

\* A write changes the request's drive only where it was asked to.
LEMMA WrittenFacts ==
  ASSUME IInv, Busy, NEW S, disk' = BD!Written(S)
  PROVE  /\ disk' \in [Drives -> [0 .. (Sectors - 1) -> Values]]
         /\ \A b \in S : b \in 0 .. (Sectors - 1) => disk'[req.pdrv][b] = req.img[b]
         /\ \A d \in Drives, b \in 0 .. (Sectors - 1) :
              d # req.pdrv \/ b \notin S => disk'[d][b] = disk[d][b]
  <1>1. /\ disk \in [Drives -> [0 .. (Sectors - 1) -> Values]] /\ req.pdrv \in Drives
        /\ req.img \in [0 .. (Sectors - 1) -> Values]
    BY BusyFacts
  <1> DEFINE new == [b \in 0 .. (Sectors - 1) |-> IF b \in S THEN req.img[b] ELSE disk[req.pdrv][b]]
  <1>2. disk' = [disk EXCEPT ![req.pdrv] = new]
    BY DEF BD!Written
  <1>3. new \in [0 .. (Sectors - 1) -> Values]
    BY <1>1
  <1>4. \A b \in 0 .. (Sectors - 1) : new[b] = IF b \in S THEN req.img[b] ELSE disk[req.pdrv][b]
    OBVIOUS
  <1> HIDE DEF new
  <1>5. disk'[req.pdrv] = new /\ \A d \in Drives : d # req.pdrv => disk'[d] = disk[d]
    BY <1>1, <1>2
  <1> QED BY <1>1, <1>2, <1>3, <1>4, <1>5

\* A write that succeeded.
LEMMA WriteOkFacts ==
  ASSUME IInv, Busy, NEW s \in Nat, NEW n \in Nat, RawWriteOk(s, n)
  PROVE  /\ disk' \in [Drives -> [0 .. (Sectors - 1) -> Values]]
         /\ torn' \subseteq Drives \X (0 .. (Sectors - 1))
         /\ \A b \in s .. (s + n - 1) : b \in 0 .. (Sectors - 1) /\ disk'[req.pdrv][b] = req.img[b]
         /\ \A d \in Drives, b \in 0 .. (Sectors - 1) :
              d # req.pdrv \/ b \notin s .. (s + n - 1) => disk'[d][b] = disk[d][b]
         /\ \A d \in Drives, b \in 0 .. (Sectors - 1) :
              d # req.pdrv \/ b \notin s .. (s + n - 1) => (<<d, b>> \in torn => <<d, b>> \in torn')
  <1>1. /\ s + n <= Sectors /\ disk' = BD!Written(s .. (s + n - 1))
        /\ torn' = torn \ ({req.pdrv} \X (s .. (s + n - 1)))
    BY DEF RawWriteOk, InRange
  <1>2. \A b \in s .. (s + n - 1) : b \in 0 .. (Sectors - 1)
    BY <1>1, CacheAssumption
  <1>3. torn \subseteq Drives \X (0 .. (Sectors - 1))
    BY BusyFacts
  <1>4. \A d \in Drives, b \in 0 .. (Sectors - 1) :
          d # req.pdrv \/ b \notin s .. (s + n - 1) => (<<d, b>> \in torn => <<d, b>> \in torn')
    BY <1>1
  <1> QED BY <1>1, <1>2, <1>3, <1>4, WrittenFacts

\* A write that failed: all it was about is torn.
LEMMA WriteFailFacts ==
  ASSUME IInv, Busy, NEW s \in Nat, NEW n \in Nat, RawWriteFail(s, n)
  PROVE  /\ disk' \in [Drives -> [0 .. (Sectors - 1) -> Values]]
         /\ torn' \subseteq Drives \X (0 .. (Sectors - 1))
         /\ torn \subseteq torn'
         /\ \A b \in s .. (s + n - 1) : b \in 0 .. (Sectors - 1) => <<req.pdrv, b>> \in torn'
         /\ \A d \in Drives, b \in 0 .. (Sectors - 1) :
              d # req.pdrv \/ b \notin s .. (s + n - 1) => disk'[d][b] = disk[d][b]
  <1>1. PICK k \in 0 .. (n - 1) :
          /\ disk' = BD!Written(s .. (s + k - 1))
          /\ torn' = torn \cup ({req.pdrv} \X {b \in s .. (s + n - 1) : b < Sectors})
    BY DEF RawWriteFail
  <1>2. torn \subseteq Drives \X (0 .. (Sectors - 1)) /\ req.pdrv \in Drives /\ Sectors \in Nat
    BY BusyFacts, CacheAssumption
  <1>3. {b \in s .. (s + n - 1) : b < Sectors} \subseteq 0 .. (Sectors - 1)
    BY <1>2
  <1>4. torn' \subseteq Drives \X (0 .. (Sectors - 1)) /\ torn \subseteq torn'
    BY <1>1, <1>2, <1>3
  <1>5. \A b \in s .. (s + n - 1) : b \in 0 .. (Sectors - 1) => <<req.pdrv, b>> \in torn'
    BY <1>1, <1>2
  <1>6. \A b : b \in s .. (s + k - 1) => b \in s .. (s + n - 1)
    BY <1>1
  <1> QED BY <1>1, <1>4, <1>5, <1>6, WrittenFacts

-----------------------------------------------------------------------------
(* The iterations. *)

\* An iteration that goes on keeps the loop's counters in order.
LEMMA AdvanceFacts ==
  ASSUME IInv, Busy, NEW n \in Nat, n <= num, Advance(n), UNCHANGED <<status, req>>
  PROVE  /\ first' \in 0 .. (Sectors + MaxCount) /\ num' \in 0 .. MaxCount
         /\ first' + num' <= Sectors + MaxCount /\ first <= first' /\ first' = first + n
         /\ RangeLeft'
         /\ \A s \in BD!Span(req') : s < first' \/ num' = 0 => s < first \/ s \in first .. (first + n - 1)
  <1>1. /\ req.first \in Nat /\ req.count \in Nat /\ first \in Nat /\ num \in Nat \ {0}
        /\ req.first <= first /\ first + num = req.first + req.count
        /\ first + num <= Sectors + MaxCount
        /\ BD!Span(req) = req.first .. (first + num - 1)
    BY BusyFacts
  <1>2. first' = first + n /\ num' = num - n /\ req' = req
    BY DEF Advance
  <1>3. num \in 0 .. MaxCount /\ MaxCount \in Nat /\ Sectors \in Nat
    BY BusyFacts, CacheAssumption DEF TypeOK
  <1>4. RangeLeft'
    BY <1>1, <1>2 DEF RangeLeft
  <1>5. BD!Span(req') = req.first .. (first + num - 1)
    BY <1>1, <1>2 DEF BD!Span
  <1>6. \A s \in req.first .. (first + num - 1) :
          s < first' \/ num' = 0 => s < first \/ s \in first .. (first + n - 1)
    BY <1>1, <1>2
  <1> QED BY <1>1, <1>2, <1>3, <1>4, <1>5, <1>6

\* The list after a hit.
LEMMA PromoteAfterHitFacts ==
  ASSUME IInv, Looping, IsHit, PromoteAfterHit, base' = base, ready' = ready
  PROVE  list' \in Orders /\ EmptyAtTail'
  <1>1. MetaType /\ EmptyAtTail /\ ready /\ base[CurEntry] # EmptyPage /\ CurEntry \in Entries
    BY LoopFacts, BusyFacts, HitFacts
  <1>2. CASE UNCHANGED list
    BY <1>1, <1>2 DEF MetaType, EmptyAtTail
  <1>3. CASE list' = Promoted(CurEntry)
    <2>1. list' \in Orders
      BY <1>1, <1>3, PromotedOrder DEF MetaType
    <2>2. base' = [base EXCEPT ![CurEntry] = base[CurEntry]]
      BY <1>1 DEF MetaType
    <2> QED BY <1>1, <1>3, <2>1, <2>2, PromoteKeepsTail
  <1> QED BY <1>2, <1>3 DEF PromoteAfterHit

\* What a read on a cached page delivers.
LEMMA HitReadData ==
  ASSUME IInv, HitRead
  PROVE  /\ buf' \in [BD!LBA -> Values \cup {Unset}]
         /\ \A s \in first .. (first + PageCount - 1) :
              /\ s < Sectors /\ buf'[s] \in Values /\ buf'[s] # Unset
              /\ <<req.pdrv, s>> \notin torn => buf'[s] = disk[req.pdrv][s]
         /\ \A s \in BD!LBA : s \notin first .. (first + PageCount - 1) => buf'[s] = buf[s]
  <1>1. Looping /\ IsHit
    BY DEF HitRead
  <1>2. Busy /\ TypeOK
    BY <1>1, LoopFacts, BusyFacts
  <1>3. buf' = [b \in BD!LBA |-> IF b \in first .. (first + PageCount - 1)
                                 THEN data[CurEntry][b - CurPage] ELSE buf[b]]
    BY DEF HitRead
  <1>4. /\ CurEntry \in Entries /\ base[CurEntry] = CurPage /\ base[CurEntry] # EmptyPage
        /\ \A s \in first .. (first + PageCount - 1) :
             s - CurPage \in PageOffsets /\ s \in 0 .. (Sectors - 1) /\ CurPage + (s - CurPage) = s
    BY <1>1, HitFacts
  <1>5. /\ buf \in [BD!LBA -> Values \cup {Unset}] /\ data \in [Entries -> [PageOffsets -> Values]]
        /\ Unset \notin Values /\ Sectors \in Nat /\ MaxCount \in Nat
    BY <1>2, CacheAssumption DEF TypeOK
  <1>6. \A s \in first .. (first + PageCount - 1) :
          s \in BD!LBA /\ s < Sectors /\ data[CurEntry][s - CurPage] \in Values
    BY <1>4, <1>5 DEF BD!LBA
  <1>7. \A s \in first .. (first + PageCount - 1) :
          <<req.pdrv, s>> \notin torn => data[CurEntry][s - CurPage] = disk[req.pdrv][s]
    BY <1>1, <1>4, LoopFacts
  <1> QED BY <1>3, <1>5, <1>6, <1>7

\* A read from a cached page.
LEMMA HitReadInv ==
  ASSUME IInv, HitRead
  PROVE  IInv'
  <1>1. /\ Looping /\ IsHit /\ req.op = "read" /\ PromoteAfterHit
        /\ p' = CurEntry /\ searchBase' = CurSearchBase /\ Advance(PageCount)
        /\ UNCHANGED <<disk, torn, req, status, base, data, ready, disabled, owner, magic>>
    BY DEF HitRead
  <1>2. Busy /\ ready /\ TypeOK /\ status = "busy" /\ req \in BD!Request
    BY <1>1, LoopFacts, BusyFacts
  <1>3. PageCount \in Nat /\ PageCount <= num
    BY <1>2, PageFacts
  <1>4. /\ first' \in 0 .. (Sectors + MaxCount) /\ num' \in 0 .. MaxCount
        /\ first' + num' <= Sectors + MaxCount /\ first <= first' /\ first' \in Nat
        /\ RangeLeft'
        /\ \A s \in BD!Span(req') :
             s < first' \/ num' = 0 => s < first \/ s \in first .. (first + PageCount - 1)
    BY <1>1, <1>2, <1>3, AdvanceFacts, CacheAssumption
  <1>5. list' \in Orders /\ EmptyAtTail'
    BY <1>1, PromoteAfterHitFacts
  <1>6. DistinctPages' /\ PagesOnMedium' /\ DisabledEmpty' /\ Coherent'
    BY <1>1 DEF IInv, DistinctPages, PagesOnMedium, DisabledEmpty, Coherent, Trusted
  <1>7. ServingOwner'
    BY <1>1, LoopFacts DEF ServingOwner
  <1>8. SearchInv'
    BY <1>1, <1>4, SearchCarries
  <1>9. TypeInv'
    <2>1. buf' \in [BD!LBA -> Values \cup {Unset}]
      BY HitReadData
    <2>2. p' \in Entries \cup {NoEntry} /\ searchBase' \in Nat
      <3>1. CurEntry \in Entries /\ base[CurEntry] \in Nat /\ searchBase' = base[CurEntry] + 1
        BY <1>1, <1>2, HitFacts, CurEntryFirst, BusyFacts, BaseNat, CacheAssumption
      <3> QED BY <1>1, <3>1
    <2> QED BY <1>1, <1>2, <1>4, <1>5, <2>1, <2>2 DEF TypeInv, TypeOK
  <1>10. DoneSoFar'
    <2> SUFFICES ASSUME NEW s \in BD!Span(req'), s < first' \/ num' = 0
                 PROVE  /\ s < Sectors /\ buf'[s] # Unset
                        /\ <<req.pdrv, s>> \notin torn => buf'[s] = disk[req.pdrv][s]
      BY <1>1 DEF DoneSoFar
    <2>1. s \in BD!Span(req) /\ (s < first \/ s \in first .. (first + PageCount - 1))
      BY <1>1, <1>4 DEF BD!Span
    <2>2. CASE s \in first .. (first + PageCount - 1)
      BY <2>2, HitReadData
    <2>3. CASE s < first
      <3>1. /\ s < Sectors /\ buf[s] # Unset
            /\ <<req.pdrv, s>> \notin torn => buf[s] = disk[req.pdrv][s]
        BY <1>1, <1>2, <2>1, <2>3 DEF IInv, DoneSoFar
      <3>2. s \in BD!LBA /\ s \notin first .. (first + PageCount - 1)
        BY <2>1, <2>3, <3>1, <1>2, BusyFacts, CacheAssumption DEF BD!LBA
      <3> QED BY <3>1, <3>2, HitReadData
    <2> QED BY <2>1, <2>2, <2>3
  <1> QED BY <1>4, <1>5, <1>6, <1>7, <1>8, <1>9, <1>10 DEF IInv

\* Cached pages other than the current one have no sector in it.
LEMMA OtherPageApart ==
  ASSUME IInv, Looping, NEW e \in Entries, NEW o \in PageOffsets,
         base[e] # EmptyPage, base[e] # CurPage
  PROVE  base[e] + o \notin CurPage .. (CurPage + PageSectors - 1)
  <1>1. TypeOK
    BY LoopFacts, BusyFacts
  <1>2. PageSectors \in Nat \ {0} /\ CurPage \in Nat /\ CurPage % PageSectors = 0
    BY <1>1, PageFacts
  <1>3. base[e] \in Nat /\ base[e] % PageSectors = 0
    BY LoopFacts
  <1>4. base[e] + PageSectors <= CurPage \/ CurPage + PageSectors <= base[e]
    <2>1. CASE base[e] < CurPage
      BY <2>1, <1>2, <1>3, AlignedApart
    <2>2. CASE CurPage < base[e]
      BY <2>2, <1>2, <1>3, AlignedApart
    <2> QED BY <2>1, <2>2, <1>2, <1>3
  <1> QED BY <1>2, <1>3, <1>4 DEF PageOffsets

\* The page the write buffer was copied into.
LEMMA PatchedFacts ==
  ASSUME IInv, Looping, IsHit
  PROVE  /\ PatchedPage \in [Entries -> [PageOffsets -> Values]]
         /\ \A e \in Entries : e # CurEntry => PatchedPage[e] = data[e]
         /\ \A o \in PageOffsets : PatchedPage[CurEntry][o] =
              IF CurPage + o \in first .. (first + PageCount - 1)
              THEN req.img[CurPage + o] ELSE data[CurEntry][o]
  <1> DEFINE W(o) == CurPage + o \in first .. (first + PageCount - 1)
             new == [o \in PageOffsets |-> IF W(o) THEN req.img[CurPage + o] ELSE data[CurEntry][o]]
  <1>1. CurEntry \in Entries /\ \A s \in first .. (first + PageCount - 1) : s \in 0 .. (Sectors - 1)
    BY HitFacts
  <1>2. data \in [Entries -> [PageOffsets -> Values]] /\ req.img \in [0 .. (Sectors - 1) -> Values]
    BY LoopFacts, BusyFacts DEF TypeOK
  <1>3. PatchedPage = [data EXCEPT ![CurEntry] = new]
    BY DEF PatchedPage, PageOffsets
  <1>4. new \in [PageOffsets -> Values]
    BY <1>1, <1>2
  <1>5. \A o \in PageOffsets : new[o] = IF W(o) THEN req.img[CurPage + o] ELSE data[CurEntry][o]
    OBVIOUS
  <1> HIDE DEF new
  <1>6. PatchedPage[CurEntry] = new /\ \A e \in Entries : e # CurEntry => PatchedPage[e] = data[e]
    BY <1>1, <1>2, <1>3
  <1>7. PatchedPage \in [Entries -> [PageOffsets -> Values]]
    BY <1>1, <1>2, <1>3, <1>4
  <1> QED BY <1>5, <1>6, <1>7

\* A write to a cached page, whether the device took it or not, leaves every page
\* as the medium is, except where the medium is torn.
LEMMA HitWriteCoherent ==
  ASSUME IInv, HitWrite
  PROVE  /\ disk' \in [Drives -> [0 .. (Sectors - 1) -> Values]]
         /\ torn' \subseteq Drives \X (0 .. (Sectors - 1))
         /\ data' \in [Entries -> [PageOffsets -> Values]]
         /\ Coherent'
  <1>1. /\ Looping /\ IsHit /\ data' = PatchedPage
        /\ UNCHANGED <<base, ready, disabled, owner, magic>>
        /\ RawWriteOk(first, PageCount) \/ RawWriteFail(first, PageCount)
    BY DEF HitWrite
  <1>2. Busy /\ TypeOK /\ MetaType /\ req.pdrv \in Drives /\ owner = req.pdrv
    BY <1>1, LoopFacts, BusyFacts
  <1>3. /\ PageCount \in Nat /\ first \in Nat /\ CurPage \in Nat /\ PageSectors \in Nat
        /\ CurPage <= first /\ first + PageCount <= CurPage + PageSectors
    BY <1>2, PageFacts
  <1>4. /\ disk' \in [Drives -> [0 .. (Sectors - 1) -> Values]]
        /\ torn' \subseteq Drives \X (0 .. (Sectors - 1))
        /\ \A b \in first .. (first + PageCount - 1) :
             b \in 0 .. (Sectors - 1) =>
               <<req.pdrv, b>> \in torn' \/ disk'[req.pdrv][b] = req.img[b]
        /\ \A b \in 0 .. (Sectors - 1) : b \notin first .. (first + PageCount - 1) =>
             disk'[req.pdrv][b] = disk[req.pdrv][b] /\ (<<req.pdrv, b>> \in torn => <<req.pdrv, b>> \in torn')
    <2>1. CASE RawWriteOk(first, PageCount)
      <3>1. /\ disk' \in [Drives -> [0 .. (Sectors - 1) -> Values]]
            /\ torn' \subseteq Drives \X (0 .. (Sectors - 1))
            /\ \A b \in first .. (first + PageCount - 1) : b \in 0 .. (Sectors - 1) /\ disk'[req.pdrv][b] = req.img[b]
            /\ \A d \in Drives, b \in 0 .. (Sectors - 1) :
                 d # req.pdrv \/ b \notin first .. (first + PageCount - 1) => disk'[d][b] = disk[d][b]
            /\ \A d \in Drives, b \in 0 .. (Sectors - 1) :
                 d # req.pdrv \/ b \notin first .. (first + PageCount - 1) => (<<d, b>> \in torn => <<d, b>> \in torn')
        BY <2>1, <1>2, <1>3, WriteOkFacts, Zenon
      <3> QED BY <3>1, <1>2, Zenon
    <2>2. CASE RawWriteFail(first, PageCount)
      <3>1. /\ disk' \in [Drives -> [0 .. (Sectors - 1) -> Values]]
            /\ torn' \subseteq Drives \X (0 .. (Sectors - 1))
            /\ torn \subseteq torn'
            /\ \A b \in first .. (first + PageCount - 1) : b \in 0 .. (Sectors - 1) => <<req.pdrv, b>> \in torn'
            /\ \A d \in Drives, b \in 0 .. (Sectors - 1) :
                 d # req.pdrv \/ b \notin first .. (first + PageCount - 1) => disk'[d][b] = disk[d][b]
        BY <2>2, <1>2, <1>3, WriteFailFacts, Zenon
      <3> QED BY <3>1, <1>2, Zenon
    <2> QED BY <1>1, <2>1, <2>2
  <1>5. /\ CurEntry \in Entries /\ base[CurEntry] = CurPage
        /\ \A s \in first .. (first + PageCount - 1) : s \in 0 .. (Sectors - 1)
    BY <1>1, HitFacts
  <1>6. Coherent'
    <2> SUFFICES ASSUME NEW e \in Entries, NEW o \in PageOffsets, base[e] # EmptyPage,
                        <<req.pdrv, base[e] + o>> \notin torn'
                 PROVE  data'[e][o] = disk'[req.pdrv][base[e] + o]
      BY <1>1, <1>2 DEF Coherent
    <2> DEFINE s == base[e] + o
    <2>1. s \in 0 .. (Sectors - 1)
      <3>1. base[e] \in Nat /\ base[e] + PageSectors <= Sectors
        BY <1>1, LoopFacts
      <3> QED BY <3>1, <1>3, CacheAssumption, SMTT(30) DEF PageOffsets
    <2>2. CASE s \in first .. (first + PageCount - 1)
      <3>1. s \in CurPage .. (CurPage + PageSectors - 1)
        BY <2>2, <1>3
      <3>2. base[e] = CurPage
        BY <3>1, <1>1, OtherPageApart
      <3>3. e = CurEntry
        BY <3>2, <1>1, <1>5, LoopFacts DEF DistinctPages
      <3>4. data'[e][o] = req.img[s]
        BY <3>2, <3>3, <2>2, <1>1, PatchedFacts
      <3> QED BY <3>4, <2>1, <2>2, <1>4
    <2>3. CASE s \notin first .. (first + PageCount - 1)
      <3>1. disk'[req.pdrv][s] = disk[req.pdrv][s] /\ <<req.pdrv, s>> \notin torn
        BY <2>1, <2>3, <1>4
      <3>2. data[e][o] = disk[req.pdrv][s]
        BY <3>1, <1>1, LoopFacts
      <3>3. data'[e][o] = data[e][o]
        BY <2>3, <1>1, <1>5, PatchedFacts
      <3> QED BY <3>1, <3>2, <3>3
    <2> QED BY <2>2, <2>3
  <1> QED BY <1>1, <1>4, <1>6, PatchedFacts

\* The request's sectors written so far stay written.
LEMMA WriteDone ==
  ASSUME IInv, Busy, req.op = "write", NEW n \in Nat, n <= num, RawWriteOk(first, n),
         UNCHANGED <<status, req>>,
         \A s \in BD!Span(req') : s < first' \/ num' = 0 => s < first \/ s \in first .. (first + n - 1)
  PROVE  DoneSoFar'
  <1> SUFFICES ASSUME NEW s \in BD!Span(req'), s < first' \/ num' = 0
               PROVE  s < Sectors /\ disk'[req.pdrv][s] = req.img[s]
    BY DEF DoneSoFar
  <1>1. s \in BD!Span(req) /\ (s < first \/ s \in first .. (first + n - 1)) /\ Sectors \in Nat
    BY CacheAssumption DEF BD!Span
  <1>2. first \in Nat /\ req.pdrv \in Drives /\ status = "busy" /\ req.first \in Nat
        /\ BD!Span(req) = req.first .. (first + num - 1) /\ num \in Nat
    BY BusyFacts
  <1>3. CASE s \in first .. (first + n - 1)
    BY <1>1, <1>2, <1>3, WriteOkFacts
  <1>4. CASE s < first
    <2>1. s < Sectors /\ disk[req.pdrv][s] = req.img[s]
      BY <1>1, <1>2, <1>4 DEF IInv, DoneSoFar
    <2>2. s \in 0 .. (Sectors - 1) /\ s \notin first .. (first + n - 1)
      BY <2>1, <1>1, <1>2, <1>4
    <2>3. \A d \in Drives, b \in 0 .. (Sectors - 1) :
            d # req.pdrv \/ b \notin first .. (first + n - 1) => disk'[d][b] = disk[d][b]
      BY <1>2, WriteOkFacts
    <2> QED BY <2>1, <2>2, <2>3, <1>2
  <1> QED BY <1>1, <1>3, <1>4

\* A write to a cached page.
LEMMA HitWriteInv ==
  ASSUME IInv, HitWrite
  PROVE  IInv'
  <1>1. /\ Looping /\ IsHit /\ req.op = "write"
        /\ UNCHANGED <<base, ready, disabled, owner, magic>>
    BY DEF HitWrite
  <1>2. Busy /\ ready /\ TypeOK /\ TypeInv /\ status = "busy" /\ req \in BD!Request
    BY <1>1, LoopFacts, BusyFacts DEF IInv
  <1>3. /\ disk' \in [Drives -> [0 .. (Sectors - 1) -> Values]]
        /\ torn' \subseteq Drives \X (0 .. (Sectors - 1))
        /\ data' \in [Entries -> [PageOffsets -> Values]]
        /\ Coherent'
    BY HitWriteCoherent
  <1>4. DistinctPages' /\ PagesOnMedium' /\ DisabledEmpty'
    BY <1>1 DEF IInv, DistinctPages, PagesOnMedium, DisabledEmpty
  <1>5. CASE RawWriteFail(first, PageCount) /\ Leave("error") /\ UNCHANGED list
    <2>1. TypeInv' /\ status' # "busy"
      BY <1>1, <1>2, <1>3, <1>5, LeaveType DEF TypeOK
    <2>2. EmptyAtTail'
      BY <1>1, <1>5 DEF IInv, EmptyAtTail
    <2> QED BY <1>3, <1>4, <2>1, <2>2, LeavesLoop DEF IInv
  <1>6. CASE /\ RawWriteOk(first, PageCount) /\ PromoteAfterHit
             /\ p' = CurEntry /\ searchBase' = CurSearchBase
             /\ Advance(PageCount) /\ UNCHANGED <<req, status, buf>>
    <2>1. PageCount \in Nat /\ PageCount <= num
      BY <1>2, PageFacts
    <2>2. /\ first' \in 0 .. (Sectors + MaxCount) /\ num' \in 0 .. MaxCount
          /\ first' + num' <= Sectors + MaxCount /\ first <= first' /\ first' \in Nat
          /\ RangeLeft'
          /\ \A s \in BD!Span(req') :
               s < first' \/ num' = 0 => s < first \/ s \in first .. (first + PageCount - 1)
      BY <1>2, <1>6, <2>1, AdvanceFacts, CacheAssumption
    <2>3. list' \in Orders /\ EmptyAtTail'
      BY <1>1, <1>6, PromoteAfterHitFacts
    <2>4. ServingOwner'
      BY <1>1, <1>6, LoopFacts DEF ServingOwner
    <2>5. SearchInv'
      BY <1>1, <1>6, <2>2, SearchCarries
    <2>6. DoneSoFar'
      BY <1>1, <1>2, <1>6, <2>1, <2>2, WriteDone
    <2>7. TypeInv'
      <3>1. CurEntry \in Entries /\ base[CurEntry] \in Nat /\ searchBase' = base[CurEntry] + 1
        BY <1>1, <1>2, <1>6, HitFacts, CurEntryFirst, BusyFacts, BaseNat, CacheAssumption
      <3>2. p' \in Entries \cup {NoEntry} /\ searchBase' \in Nat
        BY <1>6, <3>1
      <3> QED BY <1>1, <1>2, <1>3, <1>6, <2>2, <2>3, <3>2 DEF TypeInv, TypeOK
    <2> QED BY <1>3, <1>4, <2>2, <2>3, <2>4, <2>5, <2>6, <2>7 DEF IInv
  <1> QED BY <1>5, <1>6 DEF HitWrite

\* The direct path stops short of the next cached page: no cached sector is in the
\* range it transfers.
LEMMA DirectFacts ==
  ASSUME IInv, Looping, ~IsHit
  PROVE  /\ DirectCount \in Nat /\ DirectCount <= num
         /\ \A e \in Entries, o \in PageOffsets :
              base[e] # EmptyPage => base[e] + o \notin first .. (first + DirectCount - 1)
         /\ CurEntry \in Entries \cup {NoEntry} /\ CurSearchBase \in Nat
  <1>1. FirstFrom(CurEntry, CurPage)
    BY CurEntryFirst
  <1>2. TypeOK /\ MetaType
    BY LoopFacts, BusyFacts
  <1>3. /\ first \in Nat /\ num \in Nat /\ PageSectors \in Nat \ {0}
        /\ CurPage \in Nat /\ CurPage % PageSectors = 0
        /\ CurPage <= first /\ first < CurPage + PageSectors
    BY <1>2, PageFacts
  <1>4. \A e \in Entries : base[e] # EmptyPage => base[e] \in Nat /\ base[e] % PageSectors = 0
    BY LoopFacts
  <1>5. NoEntry \notin Entries /\ EmptyPage \in Nat
    BY CacheAssumption
  <1>6. CurEntry # NoEntry => /\ CurEntry \in Entries /\ base[CurEntry] # EmptyPage
                              /\ base[CurEntry] \in Nat /\ CurPage + PageSectors <= base[CurEntry]
    <2> SUFFICES ASSUME CurEntry # NoEntry
                 PROVE  /\ CurEntry \in Entries /\ base[CurEntry] # EmptyPage
                        /\ base[CurEntry] \in Nat /\ CurPage + PageSectors <= base[CurEntry]
      OBVIOUS
    <2>1. CurEntry \in Entries /\ base[CurEntry] # EmptyPage /\ base[CurEntry] >= CurPage
      BY <1>1 DEF FirstFrom
    <2>2. base[CurEntry] \in Nat /\ base[CurEntry] % PageSectors = 0 /\ base[CurEntry] # CurPage
      BY <2>1, <1>4 DEF IsHit
    <2>3. CurPage < base[CurEntry]
      BY <2>1, <2>2, <1>3
    <2> QED BY <2>1, <2>2, <2>3, <1>3, AlignedApart
  <1>7. DirectCount \in Nat /\ DirectCount <= num
    BY <1>3, <1>6 DEF DirectCount, Min2
  <1>8. CurEntry # NoEntry => first + DirectCount <= base[CurEntry]
    BY <1>3, <1>6 DEF DirectCount, Min2
  <1>9. \A e \in Entries, o \in PageOffsets :
          base[e] # EmptyPage => base[e] + o \notin first .. (first + DirectCount - 1)
    <2> SUFFICES ASSUME NEW e \in Entries, NEW o \in PageOffsets, base[e] # EmptyPage
                 PROVE  base[e] + o \notin first .. (first + DirectCount - 1)
      OBVIOUS
    <2>1. base[e] \in Nat /\ base[e] % PageSectors = 0 /\ o \in 0 .. (PageSectors - 1)
      BY <1>4 DEF PageOffsets
    <2>2. CASE base[e] < CurPage
      <3>1. base[e] + PageSectors <= CurPage
        BY <2>1, <2>2, <1>3, AlignedApart
      <3> QED BY <3>1, <2>1, <1>3, <1>7
    <2>3. CASE base[e] >= CurPage
      <3>1. CurEntry # NoEntry /\ base[CurEntry] <= base[e]
        BY <2>1, <2>3, <1>1, <1>3, <1>5, <1>6 DEF FirstFrom
      <3> QED BY <3>1, <2>1, <1>3, <1>6, <1>7, <1>8
    <2> QED BY <2>1, <2>2, <2>3, <1>3
  <1>10. CurEntry \in Entries \cup {NoEntry} /\ CurSearchBase \in Nat
    BY <1>1, <1>5, <1>6, CurEntryFirst DEF FirstFrom
  <1> QED BY <1>7, <1>9, <1>10

\* The request's sectors read so far stay read.
LEMMA ReadDone ==
  ASSUME IInv, Busy, req.op = "read", NEW a \in Nat, NEW n \in Nat, InRange(a, n),
         buf' = RawData(a, n), UNCHANGED <<disk, torn, status, req>>,
         \A s \in BD!Span(req') : s < first' \/ num' = 0 => s < first \/ s \in a .. (a + n - 1)
  PROVE  DoneSoFar'
  <1> SUFFICES ASSUME NEW s \in BD!Span(req'), s < first' \/ num' = 0
               PROVE  /\ s < Sectors /\ buf'[s] # Unset
                      /\ <<req.pdrv, s>> \notin torn => buf'[s] = disk[req.pdrv][s]
    BY DEF DoneSoFar
  <1>1. s \in BD!Span(req) /\ (s < first \/ s \in a .. (a + n - 1))
    BY DEF BD!Span
  <1>2. /\ first \in Nat /\ status = "busy" /\ req.first \in Nat /\ num \in Nat
        /\ BD!Span(req) = req.first .. (first + num - 1)
    BY BusyFacts
  <1>3. CASE s \in a .. (a + n - 1)
    BY <1>3, RawReadFacts
  <1>4. CASE s < first /\ s \notin a .. (a + n - 1)
    <2>1. /\ s < Sectors /\ buf[s] # Unset
          /\ <<req.pdrv, s>> \notin torn => buf[s] = disk[req.pdrv][s]
      BY <1>1, <1>2, <1>4 DEF IInv, DoneSoFar
    <2>2. s \in BD!LBA
      BY <2>1, <1>1, <1>2, CacheAssumption DEF BD!LBA
    <2>3. buf'[s] = buf[s]
      BY <2>2, <1>4, RawReadFacts
    <2> QED BY <2>1, <2>3
  <1> QED BY <1>1, <1>3, <1>4

\* Writes that no cached page has a sector in keep the pages coherent.
LEMMA WriteApartCoherent ==
  ASSUME IInv, Busy, NEW n \in Nat, RawWriteOk(first, n) \/ RawWriteFail(first, n),
         UNCHANGED <<meta, data, magic>>,
         ready => \A e \in Entries, o \in PageOffsets :
                    base[e] # EmptyPage => base[e] + o \notin first .. (first + n - 1)
  PROVE  /\ disk' \in [Drives -> [0 .. (Sectors - 1) -> Values]]
         /\ torn' \subseteq Drives \X (0 .. (Sectors - 1))
         /\ Coherent'
  <1>1. first \in Nat /\ TypeOK /\ MetaType /\ PageSectors \in Nat
    BY BusyFacts, CacheAssumption
  <1>2. /\ disk' \in [Drives -> [0 .. (Sectors - 1) -> Values]]
        /\ torn' \subseteq Drives \X (0 .. (Sectors - 1))
        /\ \A d \in Drives, b \in 0 .. (Sectors - 1) :
             b \notin first .. (first + n - 1) => disk'[d][b] = disk[d][b]
        /\ \A d \in Drives, b \in 0 .. (Sectors - 1) :
             b \notin first .. (first + n - 1) => (<<d, b>> \in torn => <<d, b>> \in torn')
    <2>1. CASE RawWriteOk(first, n)
      BY <2>1, <1>1, WriteOkFacts
    <2>2. CASE RawWriteFail(first, n)
      BY <2>2, <1>1, WriteFailFacts
    <2> QED BY <2>1, <2>2
  <1>3. Coherent'
    <2> SUFFICES ASSUME Trusted, NEW e \in Entries, NEW o \in PageOffsets, base[e] # EmptyPage,
                        <<owner, base[e] + o>> \notin torn'
                 PROVE  data[e][o] = disk'[owner][base[e] + o]
      BY DEF Coherent, Trusted, meta
    <2>1. base[e] + o \in 0 .. (Sectors - 1)
      <3>1. base[e] \in Nat /\ base[e] + PageSectors <= Sectors
        BY <1>1, BaseNat DEF IInv, PagesOnMedium, Trusted
      <3> QED BY <3>1, <1>1, CacheAssumption, SMTT(30) DEF PageOffsets
    <2>2. base[e] + o \notin first .. (first + n - 1) /\ owner \in Drives
      BY <1>1 DEF Trusted, TypeOK
    <2>3. disk'[owner][base[e] + o] = disk[owner][base[e] + o] /\ <<owner, base[e] + o>> \notin torn
      BY <2>1, <2>2, <1>2
    <2> QED BY <2>3 DEF IInv, Coherent
  <1> QED BY <1>2, <1>3

\* A transfer around the cached pages.
LEMMA DirectInv ==
  ASSUME IInv, Direct
  PROVE  IInv'
  <1>1. Looping /\ ~IsHit /\ UNCHANGED <<meta, data, magic>>
    BY DEF Direct
  <1>2. Busy /\ ready /\ TypeOK /\ TypeInv /\ status = "busy" /\ req \in BD!Request /\ first \in Nat
    BY <1>1, LoopFacts, BusyFacts DEF IInv
  <1>3. /\ DirectCount \in Nat /\ DirectCount <= num
        /\ \A e \in Entries, o \in PageOffsets :
             base[e] # EmptyPage => base[e] + o \notin first .. (first + DirectCount - 1)
        /\ CurEntry \in Entries \cup {NoEntry} /\ CurSearchBase \in Nat
    BY <1>1, DirectFacts
  <1>4. EmptyAtTail' /\ DistinctPages' /\ PagesOnMedium' /\ DisabledEmpty'
    BY <1>1 DEF IInv, meta, EmptyAtTail, DistinctPages, PagesOnMedium, DisabledEmpty
  <1>5. ASSUME disk' \in [Drives -> [0 .. (Sectors - 1) -> Values]],
               torn' \subseteq Drives \X (0 .. (Sectors - 1)), Coherent', Leave("error")
        PROVE  IInv'
    <2>1. TypeInv' /\ status' # "busy"
      BY <1>1, <1>2, <1>5, LeaveType DEF TypeOK, meta
    <2> QED BY <1>4, <1>5, <2>1, LeavesLoop DEF IInv
  <1>6. ASSUME disk' \in [Drives -> [0 .. (Sectors - 1) -> Values]],
               torn' \subseteq Drives \X (0 .. (Sectors - 1)), Coherent',
               buf' \in [BD!LBA -> Values \cup {Unset}],
               p' = CurEntry, searchBase' = CurSearchBase, Advance(DirectCount),
               UNCHANGED <<req, status>>,
               (\A s \in BD!Span(req') :
                  s < first' \/ num' = 0 => s < first \/ s \in first .. (first + DirectCount - 1))
               => DoneSoFar'
        PROVE  IInv'
    <2>1. /\ first' \in 0 .. (Sectors + MaxCount) /\ num' \in 0 .. MaxCount
          /\ first' + num' <= Sectors + MaxCount /\ first <= first' /\ first' \in Nat
          /\ RangeLeft' /\ DoneSoFar'
      BY <1>2, <1>3, <1>6, AdvanceFacts, CacheAssumption
    <2>2. ServingOwner'
      BY <1>1, <1>6, LoopFacts DEF ServingOwner, meta
    <2>3. SearchInv'
      BY <1>1, <1>6, <2>1, SearchCarries DEF meta
    <2>4. TypeInv'
      BY <1>1, <1>2, <1>3, <1>6, <2>1 DEF TypeInv, TypeOK, meta
    <2> QED BY <1>4, <1>6, <2>1, <2>2, <2>3, <2>4 DEF IInv
  <1>7. CASE req.op = "read"
    <2>0. UNCHANGED <<disk, torn>>
      BY <1>7 DEF Direct
    <2>1. Coherent' /\ disk' \in [Drives -> [0 .. (Sectors - 1) -> Values]]
          /\ torn' \subseteq Drives \X (0 .. (Sectors - 1))
      BY <1>1, <1>2, <2>0, SamePages DEF TypeOK
    <2>2. CASE Leave("error")
      BY <2>1, <2>2, <1>5
    <2>3. CASE /\ req.op = "read" /\ InRange(first, DirectCount)
               /\ buf' = RawData(first, DirectCount)
               /\ p' = CurEntry /\ searchBase' = CurSearchBase
               /\ Advance(DirectCount) /\ UNCHANGED <<disk, torn, req, status>>
      <3>1. buf' \in [BD!LBA -> Values \cup {Unset}]
        BY <2>3, <1>2, <1>3, RawReadFacts
      <3>2. (\A s \in BD!Span(req') :
               s < first' \/ num' = 0 => s < first \/ s \in first .. (first + DirectCount - 1))
            => DoneSoFar'
        BY <2>3, <1>2, <1>3, ReadDone
      <3> QED BY <2>1, <2>3, <3>1, <3>2, <1>6
    <2> QED BY <2>2, <2>3, <1>7 DEF Direct
  <1>8. CASE req.op = "write"
    <2>0. RawWriteOk(first, DirectCount) \/ RawWriteFail(first, DirectCount)
      BY <1>8 DEF Direct
    <2>1. Coherent' /\ disk' \in [Drives -> [0 .. (Sectors - 1) -> Values]]
          /\ torn' \subseteq Drives \X (0 .. (Sectors - 1))
      BY <1>1, <1>2, <1>3, <2>0, WriteApartCoherent
    <2>2. CASE Leave("error")
      BY <2>1, <2>2, <1>5
    <2>3. CASE RawWriteOk(first, DirectCount) /\ req.op = "write" /\ UNCHANGED <<req, status, buf>>
               /\ p' = CurEntry /\ searchBase' = CurSearchBase /\ Advance(DirectCount)
      BY <2>1, <2>3, <1>2, <1>3, <1>6, WriteDone DEF TypeOK
    <2> QED BY <2>2, <2>3, <1>8 DEF Direct
  <1> QED BY <1>7, <1>8 DEF Direct

\* A miss that fills a page.
LEMMA FillPageInv ==
  ASSUME IInv, FillPage
  PROVE  IInv'
  <1>1. /\ Looping /\ ~IsHit /\ CurPage + PageSectors <= Sectors
        /\ base' = [base EXCEPT ![Victim] = CurPage]
        /\ list' = Promoted(Victim) /\ p' = Victim /\ searchBase' = CurPage + 1
        /\ UNCHANGED <<disk, torn, req, status, buf, ready, disabled, owner, magic, first, num>>
    BY DEF FillPage, IsFill, InRange
  <1>2. /\ Busy /\ ready /\ TypeOK /\ TypeInv /\ MetaType /\ EmptyAtTail /\ owner = req.pdrv
        /\ req.pdrv \in Drives /\ ~disabled
    BY <1>1, LoopFacts, BusyFacts DEF IInv
  <1>3. Victim \in Entries
    BY <1>2, VictimIsLast
  <1>4. CurPage \in Nat /\ CurPage % PageSectors = 0 /\ PageSectors \in Nat \ {0}
    BY <1>2, PageFacts
  <1>5. CurPage \in 0 .. (Sectors - 1) /\ CurPage # EmptyPage
    BY <1>1, <1>4, CacheAssumption
  <1>6. /\ base' \in [Entries -> (0 .. (Sectors - 1)) \cup {EmptyPage}]
        /\ base'[Victim] = CurPage /\ \A e \in Entries : e # Victim => base'[e] = base[e]
    BY <1>1, <1>2, <1>3, <1>5 DEF MetaType
  <1> DEFINE page == [o \in PageOffsets |-> disk[req.pdrv][CurPage + o]]
  <1>7. page \in [PageOffsets -> Values] /\ \A o \in PageOffsets : page[o] = disk[req.pdrv][CurPage + o]
    <2>1. \A o \in PageOffsets : CurPage + o \in 0 .. (Sectors - 1)
      BY <1>1, <1>4, CacheAssumption DEF PageOffsets
    <2> QED BY <2>1, <1>2 DEF TypeOK
  <1>8. data' = [data EXCEPT ![Victim] = page]
    BY DEF FillPage, PageOffsets
  <1> HIDE DEF page
  <1>9. /\ data' \in [Entries -> [PageOffsets -> Values]] /\ data'[Victim] = page
        /\ \A e \in Entries : e # Victim => data'[e] = data[e]
    BY <1>2, <1>3, <1>7, <1>8 DEF TypeOK
  <1>10. list' \in Orders
    BY <1>1, <1>2, <1>3, PromotedOrder DEF MetaType
  <1>11. EmptyAtTail'
    BY <1>1, <1>2, <1>3, <1>5, PromoteKeepsTail
  <1>12. \A e \in Entries : base[e] # CurPage
    <2>1. FirstFrom(CurEntry, CurPage)
      BY <1>1, CurEntryFirst
    <2>2. \A e \in Entries : base[e] \in Nat
      BY <1>2, BaseNat
    <2>3. NoEntry \notin Entries
      BY CacheAssumption
    <2> QED BY <2>1, <2>2, <2>3, <1>1, <1>4, <1>5 DEF FirstFrom, IsHit
  <1>13. DistinctPages'
    <2>1. \A e, f \in Entries : base[e] = base[f] /\ base[e] # EmptyPage => e = f
      BY <1>1, LoopFacts DEF DistinctPages
    <2> QED BY <2>1, <1>6, <1>12 DEF DistinctPages
  <1>14. PagesOnMedium'
    BY <1>1, <1>2, <1>4, <1>6 DEF IInv, PagesOnMedium
  <1>15. DisabledEmpty'
    BY <1>1, <1>2 DEF DisabledEmpty
  <1>16. Coherent'
    <2>1. \A e \in Entries, o \in PageOffsets :
            base[e] # EmptyPage /\ <<req.pdrv, base[e] + o>> \notin torn
            => data[e][o] = disk[req.pdrv][base[e] + o]
      BY <1>1, LoopFacts
    <2> QED BY <2>1, <1>1, <1>2, <1>6, <1>7, <1>9 DEF Coherent
  <1>17. ServingOwner'
    BY <1>1, LoopFacts DEF ServingOwner
  <1>18. RangeLeft' /\ DoneSoFar'
    BY <1>1, <1>2 DEF IInv, RangeLeft, DoneSoFar, BD!Span, Busy
  <1>19. SearchInv'
    <2>1. CurPage' = CurPage
      BY <1>1 DEF CurPage
    <2>2. \A e \in Entries : base'[e] >= CurPage' => base'[e] >= base'[p']
      BY <2>1, <1>1, <1>6
    <2> QED BY <2>2, <1>1, <1>3, <1>5, <1>6 DEF SearchInv
  <1>20. TypeInv'
    <2>1. p' \in Entries \cup {NoEntry} /\ searchBase' \in Nat
      BY <1>1, <1>3, <1>4
    <2> QED BY <2>1, <1>1, <1>2, <1>6, <1>9, <1>10 DEF TypeInv, TypeOK
  <1> QED BY <1>11, <1>13, <1>14, <1>15, <1>16, <1>17, <1>18, <1>19, <1>20 DEF IInv

\* A fill that failed: the victim is dropped where it stands, at the end of the used
\* entries, and the whole request goes to the device.
LEMMA FillFallbackInv ==
  ASSUME IInv, FillFallback
  PROVE  IInv'
  <1>1. /\ Looping /\ req.op = "read"
        /\ base' = [base EXCEPT ![Victim] = EmptyPage]
        /\ UNCHANGED <<disk, torn, list, data, ready, disabled, owner, magic>>
    BY DEF FillFallback, IsFill
  <1>2. /\ Busy /\ ready /\ TypeOK /\ TypeInv /\ MetaType /\ EmptyAtTail /\ ~disabled
        /\ status = "busy" /\ req \in BD!Request
    BY <1>1, LoopFacts, BusyFacts DEF IInv
  <1>3. Victim \in Entries
    BY <1>2, VictimIsLast
  <1>4. /\ base' \in [Entries -> (0 .. (Sectors - 1)) \cup {EmptyPage}]
        /\ base'[Victim] = EmptyPage /\ \A e \in Entries : e # Victim => base'[e] = base[e]
    BY <1>1, <1>2, <1>3 DEF MetaType
  <1>5. EmptyAtTail'
    <2>1. PICK k \in 1 .. Pages : /\ list[k] = Victim
                                  /\ \A j \in (k + 1) .. Pages : base[list[j]] = EmptyPage
      BY <1>2, VictimIsLast
    <2>2. list \in [1 .. Pages -> Entries] /\ \A i, j \in 1 .. Pages : list[i] = list[j] => i = j
      BY <1>2 DEF MetaType, Orders
    <2> SUFFICES ASSUME NEW i \in 1 .. Pages, NEW j \in 1 .. Pages, i < j,
                        base'[list[i]] = EmptyPage
                 PROVE  base'[list[j]] = EmptyPage
      BY <1>1 DEF EmptyAtTail
    <2>3. base[list[j]] = EmptyPage
      <3>1. CASE i = k
        BY <3>1, <2>1, CacheAssumption
      <3>2. CASE i # k
        <4>1. base[list[i]] = EmptyPage
          BY <3>2, <2>1, <2>2, <1>4
        <4> QED BY <4>1, <1>2 DEF EmptyAtTail
      <3> QED BY <3>1, <3>2
    <2> QED BY <2>2, <2>3, <1>4
  <1>6. DistinctPages' /\ PagesOnMedium' /\ DisabledEmpty' /\ Coherent'
    BY <1>1, <1>2, <1>4 DEF IInv, DistinctPages, PagesOnMedium, DisabledEmpty, Coherent, Trusted
  <1>7. CASE Leave("error")
    <2>1. TypeInv' /\ status' # "busy"
      BY <1>1, <1>2, <1>4, <1>7, LeaveType DEF TypeOK
    <2> QED BY <1>5, <1>6, <2>1, LeavesLoop DEF IInv
  <1>8. CASE /\ InRange(req.first, req.count) /\ buf' = RawData(req.first, req.count)
             /\ num' = 0 /\ UNCHANGED <<req, status, first, p, searchBase>>
    <2>1. req.first \in Nat /\ req.count \in Nat
      BY <1>2, BusyFacts
    <2>2. buf' \in [BD!LBA -> Values \cup {Unset}]
      BY <1>2, <1>8, <2>1, RawReadFacts
    <2>3. TypeInv'
      <3>1. num' \in 0 .. MaxCount /\ first' + num' <= Sectors + MaxCount
        BY <1>2, <1>8, CacheAssumption DEF TypeOK
      <3> QED BY <1>1, <1>2, <1>4, <1>8, <2>2, <3>1 DEF TypeInv, TypeOK
    <2>4. DoneSoFar'
      <3>1. \A s \in BD!Span(req') : s \in req.first .. (req.first + req.count - 1)
        BY <1>8 DEF BD!Span
      <3> QED BY <1>1, <1>2, <1>8, <2>1, <3>1, ReadDone
    <2>5. ServingOwner' /\ RangeLeft' /\ SearchInv'
      BY <1>8 DEF ServingOwner, RangeLeft, SearchInv, Looping, Busy
    <2> QED BY <1>5, <1>6, <2>3, <2>4, <2>5 DEF IInv
  <1> QED BY <1>7, <1>8 DEF FillFallback

\* A request while the cache is disabled.
LEMMA BypassInv ==
  ASSUME IInv, Bypass
  PROVE  IInv'
  <1>1. Busy /\ disabled /\ UNCHANGED <<meta, data, magic>>
    BY DEF Bypass
  <1>2. TypeOK /\ TypeInv /\ status = "busy" /\ req \in BD!Request /\ first \in Nat /\ num \in Nat
    BY <1>1, BusyFacts DEF IInv
  <1>3. EmptyAtTail' /\ DistinctPages' /\ PagesOnMedium' /\ DisabledEmpty'
    BY <1>1 DEF IInv, meta, EmptyAtTail, DistinctPages, PagesOnMedium, DisabledEmpty
  <1>4. ready => \A e \in Entries : base[e] = EmptyPage
    BY <1>1 DEF IInv, DisabledEmpty
  <1>5. /\ Coherent' /\ disk' \in [Drives -> [0 .. (Sectors - 1) -> Values]]
        /\ torn' \subseteq Drives \X (0 .. (Sectors - 1))
    <2>1. CASE UNCHANGED <<disk, torn>>
      BY <1>1, <1>2, <2>1, SamePages DEF TypeOK
    <2>2. CASE RawWriteOk(first, num) \/ RawWriteFail(first, num)
      BY <1>1, <1>2, <1>4, <2>2, WriteApartCoherent
    <2> QED BY <2>1, <2>2 DEF Bypass
  <1>6. CASE Leave("error")
    <2>1. TypeInv' /\ status' # "busy"
      BY <1>1, <1>2, <1>5, <1>6, LeaveType DEF TypeOK, meta
    <2> QED BY <1>3, <1>5, <2>1, LeavesLoop DEF IInv
  <1>7. ASSUME num' = 0, UNCHANGED <<req, status, first, p, searchBase>>,
               buf' \in [BD!LBA -> Values \cup {Unset}],
               (\A s \in BD!Span(req') :
                  s < first' \/ num' = 0 => s < first \/ s \in first .. (first + num - 1))
               => DoneSoFar'
        PROVE  IInv'
    <2>1. TypeInv'
      <3>1. num' \in 0 .. MaxCount /\ first' + num' <= Sectors + MaxCount
        BY <1>2, <1>7, CacheAssumption DEF TypeOK
      <3> QED BY <1>1, <1>2, <1>5, <1>7, <3>1 DEF TypeInv, TypeOK, meta
    <2>2. DoneSoFar'
      <3>1. BD!Span(req') = req.first .. (first + num - 1) /\ req.first \in Nat
        BY <1>1, <1>7, BusyFacts DEF BD!Span
      <3> QED BY <3>1, <1>2, <1>7
    <2>3. ServingOwner' /\ RangeLeft' /\ SearchInv'
      BY <1>7 DEF ServingOwner, RangeLeft, SearchInv, Looping, Busy
    <2> QED BY <1>3, <1>5, <2>1, <2>2, <2>3 DEF IInv
  <1>8. CASE /\ req.op = "read" /\ InRange(first, num) /\ buf' = RawData(first, num) /\ num' = 0
             /\ UNCHANGED <<disk, torn, req, status, first, p, searchBase>>
    BY <1>1, <1>2, <1>7, <1>8, RawReadFacts, ReadDone
  <1>9. CASE /\ req.op = "write" /\ RawWriteOk(first, num) /\ num' = 0
             /\ UNCHANGED <<req, status, buf, first, p, searchBase>>
    BY <1>1, <1>2, <1>7, <1>9, WriteDone DEF TypeOK
  <1> QED BY <1>6, <1>8, <1>9 DEF Bypass

-----------------------------------------------------------------------------
(* The theorems. *)

\* Every step of the cache keeps the invariant.
LEMMA NextInv == IInv /\ [Next]_vars => IInv'
  <1> SUFFICES ASSUME IInv, [Next]_vars PROVE IInv'
    OBVIOUS
  <1>1. CASE UNCHANGED vars
    BY <1>1 DEF vars, meta, locals, IInv, TypeInv, TypeOK, EmptyAtTail, DistinctPages,
       PagesOnMedium, DisabledEmpty, ServingOwner, RangeLeft, SearchInv, Coherent, Trusted,
       DoneSoFar, Looping, Busy, CurPage, BD!Span
  <1>2. ASSUME NEW r \in BD!Request, Submit(r) PROVE IInv'
    BY <1>2, SubmitInv
  <1>3. ASSUME NEW d \in Drives, NEW c \in Contents, Initialize(d, c) PROVE IInv'
    BY <1>3, InitializeInv
  <1>4. CASE Disable \/ Enable \/ Overwrite
    BY <1>4, UnreadyInv
  <1>5. CASE WipeAll
    BY <1>5, WipeInv
  <1>6. CASE HitRead
    BY <1>6, HitReadInv
  <1>7. CASE HitWrite
    BY <1>7, HitWriteInv
  <1>8. CASE FillPage
    BY <1>8, FillPageInv
  <1>9. CASE FillFallback
    BY <1>9, FillFallbackInv
  <1>10. CASE Direct
    BY <1>10, DirectInv
  <1>11. CASE Bypass
    BY <1>11, BypassInv
  <1>12. CASE Return
    BY <1>12, ReturnInv
  <1> QED BY <1>1, <1>2, <1>3, <1>4, <1>5, <1>6, <1>7, <1>8, <1>9, <1>10, <1>11, <1>12 DEF Next

\* The inductive invariant holds in every reachable state of the cache.
THEOREM Invariant == Spec => []IInv
  BY InitInv, NextInv, PTL DEF Spec

\* Every variable keeps its type; base sectors stay on the medium.
THEOREM TypeCorrect == Spec => []TypeOK
  <1>1. IInv => TypeOK
    BY DEF IInv, TypeInv
  <1> QED BY <1>1, Invariant, PTL

\* dvm_cache_search may stop at the first unused entry: none in use is behind it.
THEOREM UnusedAreLast == Spec => []EmptyAtTail
  <1>1. IInv => EmptyAtTail
    BY DEF IInv
  <1> QED BY <1>1, Invariant, PTL

\* dvm_cache_access never caches a page twice.
THEOREM NoPageTwice == Spec => []DistinctPages
  <1>1. IInv => DistinctPages
    BY DEF IInv
  <1> QED BY <1>1, Invariant, PTL

\* The pages dvm_cache_claim accepts hold what the medium holds, except in sectors
\* of a failed write, whatever wipes, drive switches and media changes came before.
THEOREM CacheCoherent == Spec => []Coherent
  <1>1. IInv => Coherent
    BY DEF IInv
  <1> QED BY <1>1, Invariant, PTL

\* The pointer dvm_cache_access carries from one iteration to the next is what a new
\* dvm_cache_search would return.
THEOREM CarriedSearchIsValid == Spec => []SearchStillValid
  <1>1. IInv => SearchStillValid
    <2> SUFFICES ASSUME IInv, Looping, CurPage < searchBase PROVE p = Search(CurPage)
      BY DEF SearchStillValid
    <2>1. MetaType /\ EmptyAtTail /\ DistinctPages /\ ready /\ TypeOK
      BY LoopFacts, BusyFacts
    <2>2. CurPage \in Nat /\ searchBase \in Nat
      BY <2>1, PageFacts DEF TypeOK
    <2>3. FirstFrom(p, CurPage)
      <3>1. CurEntry = p
        BY <2>2 DEF CurEntry
      <3> QED BY <3>1, CurEntryFirst
    <2>4. FirstFrom(Search(CurPage), CurPage)
      BY <2>1, <2>2, SearchFinds
    <2> QED BY <2>1, <2>2, <2>3, <2>4, FirstFromUnique
  <1> QED BY <1>1, Invariant, PTL

\* A read that returns RES_OK has delivered the medium's sectors.
THEOREM ReadsAreRight == Spec => []ReadReturnsMedium
  <1>1. IInv => ReadReturnsMedium
    BY DEF IInv, DoneSoFar, ReadReturnsMedium
  <1> QED BY <1>1, Invariant, PTL

-----------------------------------------------------------------------------
(* The cache implements the uncached block device. *)

\* A successful transfer from the device is a Deliver of the abstract device.
LEMMA RawReadDelivers ==
  ASSUME IInv, Busy, req.op = "read", NEW s \in Nat, NEW n \in Nat, InRange(s, n),
         req.first <= s, s + n <= req.first + req.count,
         buf' = RawData(s, n), UNCHANGED <<disk, torn, req, status>>
  PROVE  BD!Deliver
  <1>1. /\ buf' \in [BD!LBA -> Values \cup {Unset}]
        /\ \A b \in s .. (s + n - 1) :
             b < Sectors /\ buf'[b] = disk[req.pdrv][b] /\ buf'[b] \in Values
        /\ \A b \in BD!LBA : b \notin s .. (s + n - 1) => buf'[b] = buf[b]
    BY RawReadFacts
  <1>2. \A b \in s .. (s + n - 1) : b \in BD!Span(req)
    BY BusyFacts, SMTT(30) DEF BD!Span
  <1> QED BY <1>1, <1>2 DEF BD!Deliver, Busy

\* A successful write is a Store.
LEMMA RawWriteStores ==
  ASSUME IInv, Busy, req.op = "write", NEW n \in Nat, n <= num, RawWriteOk(first, n),
         UNCHANGED <<req, status, buf>>
  PROVE  BD!Store
  <1> DEFINE S == first .. (first + n - 1)
  <1>1. S \subseteq BD!OnMedium(req)
    <2>1. /\ BD!Span(req) = req.first .. (first + num - 1) /\ req.first \in Nat /\ first \in Nat
          /\ num \in Nat /\ req.first <= first /\ Sectors \in Nat /\ first + n <= Sectors
      BY BusyFacts, CacheAssumption DEF RawWriteOk, InRange
    <2> QED BY <2>1 DEF BD!OnMedium
  <1>2. disk' = BD!Written(S) /\ torn' = torn \ ({req.pdrv} \X S)
    BY DEF RawWriteOk
  <1> HIDE DEF S
  <1>3. S \in SUBSET BD!OnMedium(req)
    BY <1>1
  <1>4. \E T \in SUBSET BD!OnMedium(req) :
          disk' = BD!Written(T) /\ torn' = torn \ ({req.pdrv} \X T)
    BY <1>2, <1>3
  <1> QED BY <1>4 DEF BD!Store, Busy

\* An error is a Fail; for a write, with what may have reached the medium.
LEMMA LeavingFails ==
  ASSUME IInv, Busy, Leave("error"),
         \/ req.op = "read" /\ UNCHANGED <<disk, torn>>
         \/ req.op = "write" /\ \E n \in Nat : n <= num /\ RawWriteFail(first, n)
  PROVE  BD!Fail
  <1>1. status = "busy" /\ status' = "error" /\ req' = NoRequest /\ buf' = BD!NoData
    BY DEF Leave, Busy
  <1>2. CASE req.op = "read" /\ UNCHANGED <<disk, torn>>
    BY <1>1, <1>2 DEF BD!Fail
  <1>3. CASE req.op = "write" /\ \E n \in Nat : n <= num /\ RawWriteFail(first, n)
    <2>1. PICK n \in Nat : n <= num /\ RawWriteFail(first, n)
      BY <1>3
    <2>2. PICK k \in 0 .. (n - 1) :
            /\ InRange(first, k) /\ disk' = BD!Written(first .. (first + k - 1))
            /\ torn' = torn \cup ({req.pdrv} \X {b \in first .. (first + n - 1) : b < Sectors})
      BY <2>1 DEF RawWriteFail
    <2> DEFINE S == first .. (first + k - 1)
               U == {b \in first .. (first + n - 1) : b < Sectors}
    <2>3. S \subseteq BD!OnMedium(req) /\ U \subseteq BD!OnMedium(req)
      <3>1. /\ BD!Span(req) = req.first .. (first + num - 1) /\ req.first \in Nat /\ first \in Nat
            /\ num \in Nat /\ req.first <= first /\ Sectors \in Nat
        BY BusyFacts, CacheAssumption
      <3>2. S \subseteq BD!OnMedium(req)
        BY <3>1, <2>1, <2>2 DEF BD!OnMedium, InRange
      <3>3. U \subseteq BD!OnMedium(req)
        BY <3>1, <2>1 DEF BD!OnMedium
      <3> QED BY <3>2, <3>3
    <2>5. disk' = BD!Written(S) /\ torn' = torn \cup ({req.pdrv} \X U)
      BY <2>2
    <2> HIDE DEF S, U
    <2>6. \E T \in SUBSET BD!OnMedium(req) : \E V \in SUBSET BD!OnMedium(req) :
            disk' = BD!Written(T) /\ torn' = torn \cup ({req.pdrv} \X V)
      BY <2>3, <2>5
    <2> QED BY <1>1, <1>3, <2>6 DEF BD!Fail
  <1> QED BY <1>2, <1>3

\* Every step of the cache is a step of the block device, or leaves it alone.
LEMMA StepRefines == IInv /\ [Next]_vars => [BD!Next]_(BD!bdvars)
  <1> SUFFICES ASSUME IInv, [Next]_vars PROVE BD!Next \/ UNCHANGED BD!bdvars
    OBVIOUS
  <1>1. CASE UNCHANGED vars
    BY <1>1 DEF vars, BD!bdvars
  <1>2. ASSUME NEW r \in BD!Request, Submit(r) PROVE BD!Next
    <2>1. BD!Accept(r) /\ req' = r
      BY <1>2 DEF Submit, BD!Accept
    <2> QED BY <2>1 DEF BD!Next
  <1>3. ASSUME NEW d \in Drives, NEW c \in Contents, Initialize(d, c) PROVE BD!Next
    BY <1>3 DEF Initialize, BD!Next
  <1>4. CASE Disable \/ Enable \/ WipeAll \/ Overwrite \/ FillPage
    BY <1>4 DEF Disable, Enable, WipeAll, Overwrite, FillPage, BD!bdvars
  <1>5. CASE HitRead
    <2>1. Busy /\ req.op = "read" /\ UNCHANGED <<disk, torn, req, status>>
      BY <1>5 DEF HitRead, Looping
    <2>2. TypeOK
      BY <2>1, BusyFacts
    <2>3. \A s \in first .. (first + PageCount - 1) : s \in BD!Span(req)
      BY <2>1, <2>2, BusyFacts, PageFacts, SMTT(30)
    <2>4. BD!Deliver
      BY <1>5, <2>1, <2>3, HitReadData DEF BD!Deliver, Busy
    <2> QED BY <2>4 DEF BD!Next
  <1>6. CASE HitWrite
    <2>1. Busy /\ req.op = "write" /\ TypeOK
      BY <1>6, BusyFacts DEF HitWrite, Looping
    <2>2. PageCount \in Nat /\ PageCount <= num
      BY <2>1, PageFacts
    <2>3. CASE RawWriteOk(first, PageCount) /\ UNCHANGED <<req, status, buf>>
      BY <2>1, <2>2, <2>3, RawWriteStores DEF BD!Next
    <2>4. CASE RawWriteFail(first, PageCount) /\ Leave("error")
      BY <2>1, <2>2, <2>4, LeavingFails DEF BD!Next
    <2> QED BY <1>6, <2>3, <2>4 DEF HitWrite
  <1>7. CASE FillFallback
    <2>1. Busy /\ req.op = "read" /\ UNCHANGED <<disk, torn>>
      BY <1>7 DEF FillFallback, IsFill, Looping
    <2>2. CASE Leave("error")
      BY <2>1, <2>2, LeavingFails DEF BD!Next
    <2>3. CASE /\ InRange(req.first, req.count) /\ buf' = RawData(req.first, req.count)
               /\ UNCHANGED <<req, status>>
      <3>1. req.first \in Nat /\ req.count \in Nat /\ req.first <= req.first
        BY <2>1, BusyFacts
      <3> QED BY <2>1, <2>3, <3>1, RawReadDelivers DEF BD!Next
    <2> QED BY <1>7, <2>2, <2>3 DEF FillFallback
  <1>8. ASSUME Busy, NEW n \in Nat, n <= num,
               \/ /\ req.op = "read" /\ InRange(first, n) /\ buf' = RawData(first, n)
                  /\ UNCHANGED <<disk, torn, req, status>>
               \/ req.op = "write" /\ RawWriteOk(first, n) /\ UNCHANGED <<req, status, buf>>
               \/ req.op = "read" /\ Leave("error") /\ UNCHANGED <<disk, torn>>
               \/ req.op = "write" /\ RawWriteFail(first, n) /\ Leave("error")
        PROVE  BD!Next
    <2>1. CASE /\ req.op = "read" /\ InRange(first, n) /\ buf' = RawData(first, n)
               /\ UNCHANGED <<disk, torn, req, status>>
      <3>1. first \in Nat /\ req.first <= first /\ first + n <= req.first + req.count
        BY <1>8, BusyFacts
      <3> QED BY <1>8, <2>1, <3>1, RawReadDelivers DEF BD!Next
    <2>2. CASE req.op = "write" /\ RawWriteOk(first, n) /\ UNCHANGED <<req, status, buf>>
      BY <1>8, <2>2, RawWriteStores DEF BD!Next
    <2>3. CASE req.op = "read" /\ Leave("error") /\ UNCHANGED <<disk, torn>>
      BY <1>8, <2>3, LeavingFails DEF BD!Next
    <2>4. CASE req.op = "write" /\ RawWriteFail(first, n) /\ Leave("error")
      BY <1>8, <2>4, LeavingFails DEF BD!Next
    <2> QED BY <1>8, <2>1, <2>2, <2>3, <2>4
  <1>9. CASE Direct
    <2>1. Looping /\ ~IsHit /\ Busy
      BY <1>9 DEF Direct, Looping
    <2>2. DirectCount \in Nat /\ DirectCount <= num
      BY <2>1, DirectFacts
    <2> QED BY <1>8, <1>9, <2>1, <2>2 DEF Direct
  <1>10. CASE Bypass
    <2>1. Busy /\ num \in Nat /\ num <= num
      BY <1>10, BusyFacts DEF Bypass
    <2> QED BY <1>8, <1>10, <2>1 DEF Bypass
  <1>11. CASE Return
    <2>1. status = "busy" /\ num = 0 /\ req \in BD!Request /\ Leave("ok") /\ UNCHANGED <<disk, torn>>
      BY <1>11 DEF Return, IInv, TypeInv
    <2>2. \A s \in BD!Span(req) :
            s < Sectors /\ IF req.op = "read" THEN buf[s] # Unset ELSE disk[req.pdrv][s] = req.img[s]
      BY <2>1, RequestFields DEF IInv, DoneSoFar
    <2> QED BY <2>1, <2>2 DEF Leave, BD!Succeed, BD!Next
  <1> QED BY <1>1, <1>2, <1>3, <1>4, <1>5, <1>6, <1>7, <1>9, <1>10, <1>11 DEF Next

\* FatFs cannot tell disk_read / disk_write with dvm_cache.c under them from an
\* uncached block device: the cache implements BlockDevice.
THEOREM CacheIsInvisible == Spec => ImplementsBlockDevice
  <1>1. Init => BD!Init
    BY DEF Init
  <1> QED BY <1>1, Invariant, StepRefines, PTL DEF Spec, ImplementsBlockDevice, BD!Spec
=============================================================================
