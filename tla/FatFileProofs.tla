--------------------------- MODULE FatFileProofs ---------------------------
(***************************************************************************)
(* The file API over FatFs, for every well-formed volume, every geometry   *)
(* and every sequence of calls and failed reads: the file position is true *)
(* whenever a call has returned, and what the calls return is what the     *)
(* abstract file API promises.  Positions are counted in sectors of the    *)
(* object's chain: t \div CSize is the index of the cluster, t % CSize the *)
(* sector in it.                                                           *)
(***************************************************************************)
EXTENDS FatFile, FiniteSetTheorems, SequenceTheorems, NaturalsInduction, TLAPS

-----------------------------------------------------------------------------
(* Where the parts of an object lie. *)

\* Sector t of a chain, and the cluster k it lies in.
SectorNo(chain, t) == Clst2Sect(chain[1 + (t \div CSize)]) + (t % CSize)
On(chain, t, k) == t \div CSize < Len(chain) /\ k = chain[1 + (t \div CSize)]

\* Byte n (from 0) of a chain.
Byte(chain, n) == <<SectorNo(chain, n \div SS), n % SS>>

-----------------------------------------------------------------------------
(* The invariant. *)

Finding == {"find", "findnext"}
Listing == {"list", "listed", "listnext"}
Reading == {"read", "sector", "merge", "copy"}
Pcs == {"idle", "panic", "lseek", "seek"} \cup Finding \cup Listing \cup Reading

FIL == [open : BOOLEAN, entry : Entries, err : BOOLEAN, fptr : Nat, clust : Int, sect : Int]
FFDIR == [open : BOOLEAN, entry : Entries, clust : Int, sect : Int, dptr : Nat]
Transfers == [sect : Int, cc : Int, ccsize : Int]

Types ==
  /\ vol \in Volumes
  /\ pc \in Pcs
  /\ file \in FIL /\ dir \in FFDIR /\ xfer \in Transfers
  /\ ofs \in Nat /\ btr \in Nat
  /\ faults \in Nat /\ hurt \in BOOLEAN

\* fs->win holds the sector fs->winsect says.
Synced == winsect = win

\* Which call is under way, and what it has open.
CallInv ==
  /\ pc \in {"idle", "panic"} => call = NoCall
  /\ pc \notin {"idle", "panic"} => call \in Calls
  /\ pc \in Finding => call.op = "open" /\ ~file.open /\ ~dir.open
  /\ pc \in Listing \cup {"panic"} => dir.open
  /\ pc \in Listing => call.op = "readdir"
  /\ pc \in {"lseek", "seek"} \cup Reading => call.op = "read"
  /\ pc \in {"seek"} \cup Reading => file.open /\ ~file.err

OpenInv ==
  /\ ~file.open => file = Closed
  /\ file.open => ~dir.open /\ file.entry.kind = "file" /\ Sound(vol, file.entry)
  /\ dir.open \/ pc \in Finding =>
       dir.entry.kind = "dir" /\ Sound(vol, dir.entry)

\* The cluster and the sector of a directory object are those of its entry.
Stands(v, d) ==
  LET chain == v.chain[d.entry.id]
      t == d.dptr \div DirPerSector
  IN  On(chain, t, d.clust) /\ d.sect = SectorNo(chain, t)

AtEntry == Stands(vol, dir)

DirTable == vol.table[dir.entry.id]

\* What path p names, from directory d on.
Walk(v, d, p) ==
  CASE p = <<>> -> RootEntry
    [] Len(p) = 1 -> Child(v, d, p[1])
    [] OTHER -> LET e == Child(v, d, p[1])
                IN  IF e.kind = "dir" THEN Child(v, e.id, p[2]) ELSE NoEntry

\* The first n entries are not the one searched for.
Passed(n) ==
  \A p \in Live(vol, dir.entry.id) : p <= n => DirTable[p].name # path[1]

\* The k-th path of the call is being followed, and those before it led nowhere.
Fits(k) == Lookup(vol, call.paths[k]).kind = call.kind

Trying(k) ==
  /\ Len(alts) = Len(call.paths) - k
  /\ \A i \in 1 .. Len(alts) : alts[i] = call.paths[k + i]
  /\ ~hurt => \A j \in 1 .. (k - 1) : ~Fits(j)
  /\ Lookup(vol, call.paths[k]) = Walk(vol, dir.entry.id, path)

FindInv ==
  pc \in Finding =>
    /\ path \in Seq(Names) /\ Len(path) <= 2
    /\ AtEntry
    /\ path # <<>> => Passed(dir.dptr)
    /\ pc = "findnext" =>
         path # <<>> /\ Passed(dir.dptr + 1) /\ dir.dptr + 1 <= Len(DirTable)
    /\ alts \in Seq(Seq(Names))
    /\ \E k \in 1 .. Len(call.paths) : Trying(k)

ListInv ==
  /\ dir.open /\ pc # "panic" => dir.sect = 0 \/ AtEntry
  /\ pc \in {"listed", "listnext"} => dir.sect # 0 /\ dir.dptr + 1 <= Len(DirTable)
  /\ pc = "listed" => got = <<DirTable[dir.dptr + 1]>> /\ dir.dptr + 1 \in Live(vol, dir.entry.id)
  /\ pc = "listnext" => dir.dptr + 1 \notin Live(vol, dir.entry.id)

\* Where a file stands: its cluster and its sector, per step of f_lseek and f_read.
FileChain == vol.chain[file.entry.id]
Sector == file.fptr \div SS

Resting ==
  /\ file.fptr <= file.entry.size
  /\ file.fptr > 0 => On(FileChain, (file.fptr - 1) \div SS, file.clust)
  /\ file.fptr % SS # 0 => file.sect = SectorNo(FileChain, Sector)

Seeking ==
  /\ file.fptr % Bcs = 0 /\ file.fptr + ofs = Target
  /\ Target > 0 => ofs > 0 /\ On(FileChain, Sector, file.clust)

AtSector == file.fptr % SS = 0 /\ On(FileChain, Sector, file.clust)

Merging ==
  /\ file.fptr % SS = 0
  /\ xfer.cc >= 1 /\ SS * xfer.cc <= btr
  /\ xfer.ccsize >= 1 /\ xfer.cc > xfer.ccsize - CSize
  /\ (Sector + xfer.ccsize) % CSize = 0
  /\ On(FileChain, (Sector + xfer.ccsize) - 1, file.clust)
  /\ \A k \in 0 .. (xfer.ccsize - 1) : SectorNo(FileChain, Sector + k) = xfer.sect + k

PlaceInv ==
  file.open /\ ~file.err =>
    /\ pc \in {"idle", "lseek", "read"} => Resting
    /\ pc = "seek" => Seeking
    /\ pc = "sector" => AtSector /\ btr > 0
    /\ pc = "merge" => Merging
    /\ pc = "copy" => AtSector /\ 0 < btr /\ btr < SS /\ file.sect = SectorNo(FileChain, Sector)

\* The caller's buffer holds the bytes up to the file pointer.
BufferInv ==
  /\ pc \notin Reading \cup {"listed", "panic"} => got = <<>>
  /\ pc \in Reading =>
       /\ Target <= file.fptr
       /\ file.fptr + btr = Target + Min({call.len, file.entry.size - Target})
       /\ got \in Seq(Int \X Int) /\ Len(got) = file.fptr - Target
       /\ \A i \in 1 .. Len(got) : got[i] = Byte(FileChain, (Target + i) - 1)

IInv ==
  /\ Types /\ Synced /\ CallInv /\ OpenInv
  /\ FindInv /\ ListInv /\ PlaceInv /\ BufferInv

-----------------------------------------------------------------------------
(* Arithmetic. *)

\* Division with remainder.
LEMMA DivMod ==
  ASSUME NEW n \in Nat, NEW d \in Nat \ {0}
  PROVE  /\ n = d * (n \div d) + (n % d)
         /\ n \div d \in Nat /\ n % d \in 0 .. (d - 1)
  BY SMT

\* Quotient and remainder are the only ones.
LEMMA DivIs ==
  ASSUME NEW n \in Int, NEW d \in Nat \ {0}, NEW q \in Int, NEW r \in 0 .. (d - 1), n = d * q + r
  PROVE  n \div d = q /\ n % d = r
  BY SMTT(30)

\* Multiples keep the order of their factors.
LEMMA TimesLess ==
  ASSUME NEW d \in Nat \ {0}, NEW a \in Int, NEW b \in Int
  PROVE  (d * a < d * b) <=> (a < b)
  <1>1. a < b => d * a < d * b
    <2> SUFFICES ASSUME a + 1 <= b
                 PROVE  d * a < d * b
      OBVIOUS
    <2>1. d * (a + 1) <= d * b
      BY SMT
    <2>2. d * (a + 1) = d * a + d
      BY SMT
    <2>3. d * a \in Int /\ d * b \in Int
      OBVIOUS
    <2> QED BY <2>1, <2>2, <2>3
  <1>2. b <= a => d * b <= d * a
    BY SMT
  <1> QED BY <1>1, <1>2, SMT

\* The next number is in the same part, or the first of the next part.
LEMMA DivNext ==
  ASSUME NEW n \in Nat, NEW d \in Nat \ {0}
  PROVE  /\ (n + 1) % d = 0 => (n + 1) \div d = (n \div d) + 1
         /\ (n + 1) % d # 0 => (n + 1) \div d = n \div d /\ (n + 1) % d = (n % d) + 1
  <1> DEFINE q == n \div d
             r == n % d
  <1>1. n = d * q + r /\ q \in Nat /\ r \in 0 .. (d - 1)
    BY DivMod
  <1> HIDE DEF q, r
  <1>2. CASE r < d - 1
    <2>1. /\ n + 1 = d * q + (r + 1) /\ r + 1 \in 0 .. (d - 1)
          /\ n + 1 \in Int /\ q \in Int
      BY <1>1, <1>2
    <2>2. (n + 1) \div d = q /\ (n + 1) % d = r + 1
      BY <2>1, DivIs, Zenon
    <2>3. r + 1 # 0
      BY <1>1
    <2> QED BY <2>2, <2>3, Zenon DEF q, r
  <1>3. CASE r = d - 1
    <2>1. d * (q + 1) = d * q + d
      BY <1>1, SMT
    <2>2. /\ n + 1 = d * (q + 1) + 0 /\ 0 \in 0 .. (d - 1)
          /\ n + 1 \in Int /\ q + 1 \in Int
      BY <1>1, <1>3, <2>1
    <2>3. (n + 1) \div d = q + 1 /\ (n + 1) % d = 0
      BY <2>2, DivIs, Zenon
    <2> QED BY <2>3 DEF q, r
  <1> QED BY <1>1, <1>2, <1>3

\* Going on by a number of whole parts and some more.
LEMMA DivPlus ==
  ASSUME NEW d \in Nat \ {0}, NEW n \in Nat, NEW j \in Nat, n % d = 0
  PROVE  (n + j) \div d = (n \div d) + (j \div d) /\ (n + j) % d = j % d
  <1> DEFINE q == n \div d
             u == j \div d
             r == j % d
  <1>1. n = d * q /\ q \in Nat
    BY DivMod
  <1>2. j = d * u + r /\ u \in Nat /\ r \in 0 .. (d - 1)
    BY DivMod
  <1> HIDE DEF q, u, r
  <1>3. d * (q + u) = d * q + d * u
    BY <1>1, <1>2, SMT
  <1>4. n + j = d * (q + u) + r /\ q + u \in Int /\ n + j \in Int
    BY <1>1, <1>2, <1>3
  <1>5. (n + j) \div d = q + u /\ (n + j) % d = r
    BY <1>2, <1>4, DivIs, Zenon
  <1> QED BY <1>5 DEF q, u, r

\* Staying within a part.
LEMMA DivWithin ==
  ASSUME NEW d \in Nat \ {0}, NEW n \in Nat, NEW j \in Nat, (n % d) + j < d
  PROVE  (n + j) \div d = n \div d /\ (n + j) % d = (n % d) + j
  <1> DEFINE q == n \div d
             r == n % d
  <1>1. n = d * q + r /\ q \in Nat /\ r \in 0 .. (d - 1)
    BY DivMod
  <1>2. r + j < d
    OBVIOUS
  <1> HIDE DEF q, r
  <1>3. n + j = d * q + (r + j) /\ r + j \in 0 .. (d - 1) /\ q \in Int /\ n + j \in Int
    BY <1>1, <1>2
  <1>4. (n + j) \div d = q /\ (n + j) % d = r + j
    BY <1>3, DivIs, Zenon
  <1> QED BY <1>4 DEF q, r

\* Parts of parts: clusters of sectors of bytes, or of directory entries.
LEMMA DivDiv ==
  ASSUME NEW a \in Nat \ {0}, NEW b \in Nat \ {0}, NEW n \in Nat
  PROVE  /\ n \div (a * b) = (n \div a) \div b
         /\ n % (a * b) = a * ((n \div a) % b) + (n % a)
         /\ (n % (a * b)) \div a = (n \div a) % b
         /\ n % (a * b) = 0 <=> n % a = 0 /\ (n \div a) % b = 0
  <1> DEFINE t == n \div a
             s == n % a
             q == t \div b
             r == t % b
  <1>1. n = a * t + s /\ t \in Nat /\ s \in 0 .. (a - 1)
    BY DivMod
  <1> HIDE DEF t, s
  <1>2. t = b * q + r /\ q \in Nat /\ r \in 0 .. (b - 1)
    BY <1>1, DivMod
  <1> HIDE DEF q, r
  <1>3. a * b \in Nat \ {0}
    BY SMT
  <1>4. a * t = (a * b) * q + a * r
    <2>1. a * t = a * (b * q) + a * r
      BY <1>1, <1>2, SMT
    <2>2. a * (b * q) = (a * b) * q
      BY <1>2, SMT
    <2> QED BY <2>1, <2>2
  <1>5. a * r + s \in 0 .. (a * b - 1)
    <2>1. a * (r + 1) <= a * b
      BY <1>2, SMT
    <2>2. a * (r + 1) = a * r + a /\ a * r \in Nat
      BY <1>2, SMT
    <2> QED BY <1>1, <1>3, <2>1, <2>2
  <1>6. n = (a * b) * q + (a * r + s)
    <2>1. (a * b) * q \in Int /\ a * r \in Int /\ a * t \in Int
      BY <1>1, <1>2, <1>3
    <2> QED BY <1>1, <1>4, <2>1
  <1>7. n \div (a * b) = q /\ n % (a * b) = a * r + s
    <2> DEFINE d == a * b
               x == a * r + s
    <2>1. d \in Nat \ {0} /\ x \in 0 .. (d - 1) /\ n = d * q + x
      BY <1>3, <1>5, <1>6
    <2> HIDE DEF d, x
    <2>2. n \div d = q /\ n % d = x
      BY <1>2, <2>1, DivIs
    <2> QED BY <2>2 DEF d, x
  <1>8. (a * r + s) \div a = r
    BY <1>1, <1>2, DivIs
  <1>9. a * r + s = 0 <=> s = 0 /\ r = 0
    <2>1. r > 0 => a * r > 0
      BY <1>2, SMT
    <2>2. a * r \in Nat
      BY <1>2, SMT
    <2>3. r = 0 => a * r = 0
      BY <1>2, SMT
    <2> QED BY <1>1, <1>2, <2>1, <2>2, <2>3
  <1> QED BY <1>7, <1>8, <1>9 DEF t, s, q, r

-----------------------------------------------------------------------------
(* Least and greatest. *)

LEMMA MinIs ==
  ASSUME NEW S, S \subseteq Int, NEW m \in S, \A k \in S : m <= k
  PROVE  Min(S) = m
  <1>1. \A x \in S : (\A y \in S : x <= y) => x = m
    OBVIOUS
  <1> QED BY <1>1 DEF Min

LEMMA MinOfTwo ==
  ASSUME NEW a \in Int, NEW b \in Int
  PROVE  Min({a, b}) = IF a <= b THEN a ELSE b
  <1> DEFINE S == {a, b}
             m == IF a <= b THEN a ELSE b
  <1>1. S \subseteq Int /\ m \in S /\ \A k \in S : m <= k
    OBVIOUS
  <1> HIDE DEF S, m
  <1>2. Min(S) = m
    BY <1>1, MinIs
  <1> QED BY <1>2 DEF S, m

\* A set of numbers has a least one: induction, for the provers.
LEMMA LeastNumber ==
  ASSUME NEW S, S \subseteq Nat, S # {}
  PROVE  \E m \in S : \A k \in S : m <= k
  <1> DEFINE L == OpToRel(<, Nat)
  <1>1. IsWellFoundedOn(L, Nat)
    BY NatLessThanWellFounded
  <1>2. \A k, m \in Nat : k < m => <<k, m>> \in L
    BY DEF OpToRel
  <1> HIDE DEF L
  <1>3. PICK m \in S : \A k \in S : ~(<<k, m>> \in L)
    BY <1>1, WFMin
  <1>4. ASSUME NEW k \in S
        PROVE  m <= k
    <2>1. k \in Nat /\ m \in Nat
      OBVIOUS
    <2>2. ~(k < m)
      BY <1>2, <1>3, <2>1
    <2> QED BY <2>1, <2>2
  <1> QED BY <1>4

\* Max({0} \cup S), where S is bounded by n: below it lies what of S does.
LEMMA MaxBelow ==
  ASSUME NEW n \in Nat, NEW S, S \subseteq 1 .. n
  PROVE  /\ Max({0} \cup S) \in {0} \cup S
         /\ \A p \in {0} \cup S : p <= Max({0} \cup S)
  <1> DEFINE A == {0} \cup S
             U == {n - a : a \in A}
  <1>1. A \subseteq 0 .. n /\ 0 \in A
    OBVIOUS
  <1> HIDE DEF A
  <1>2. U \subseteq Nat /\ U # {}
    BY <1>1
  <1> HIDE DEF U
  <1>3. PICK u \in U : \A w \in U : u <= w
    BY <1>2, LeastNumber
  <1>4. PICK a \in A : u = n - a
    BY DEF U
  <1>5. ASSUME NEW b \in A
        PROVE  a >= b
    <2>1. n - b \in U
      BY DEF U
    <2>2. n - a <= n - b
      BY <1>3, <1>4, <2>1
    <2> QED BY <1>1, <2>2
  <1>6. Max(A) \in A /\ \A b \in A : Max(A) >= b
    BY <1>5 DEF Max
  <1>7. \A b \in A : b <= Max(A)
    BY <1>1, <1>6
  <1> QED BY <1>6, <1>7 DEF A

-----------------------------------------------------------------------------
(* The volume. *)

LEMMA Geometry ==
  /\ SS \in Nat \ {0} /\ CSize \in Nat \ {0} /\ DirPerSector \in Nat \ {0}
  /\ NFat \in Nat /\ Bcs \in Nat \ {0}
  /\ EOC = NFat + 1 /\ DiskErr = NFat + 2
  /\ Database \in Nat \ {0} /\ \A c \in Nat : FatSector(c) \in Nat
  <1>1. /\ SS \in Nat \ {0} /\ CSize \in Nat \ {0} /\ DirPerSector \in Nat \ {0}
        /\ FatPerSector \in Nat \ {0} /\ NFat \in Nat
    BY GeometryAssumption
  <1>2. \A c \in Nat : c \div FatPerSector \in Nat
    BY <1>1, DivMod
  <1>3. \A c \in Nat : FatSector(c) \in Nat
    BY <1>2 DEF FatSector, FatBase
  <1>4. Database \in Nat \ {0}
    BY <1>1, <1>3 DEF Database
  <1>5. SS * CSize \in Nat \ {0}
    BY <1>1, SMT
  <1> QED BY <1>1, <1>3, <1>4, <1>5 DEF Bcs, EOC, DiskErr

LEMMA InOrder ==
  ASSUME NEW v \in Volumes
  PROVE  WellFormed(v)
  BY VolumeAssumption

LEMMA ChainOf ==
  ASSUME NEW v \in Volumes, NEW o \in Objects(v)
  PROVE  /\ v.chain[o] \in Seq(2 .. (NFat - 1)) /\ Len(v.chain[o]) \in 0 .. NFat
         /\ \A k \in 1 .. Len(v.chain[o]) : v.chain[o][k] \in 2 .. (NFat - 1)
  <1>1. v.chain[o] \in Seq(2 .. (NFat - 1)) /\ Len(v.chain[o]) <= NFat
    BY InOrder DEF WellFormed
  <1> DEFINE c == v.chain[o]
  <1>2. Len(c) \in Nat
    BY <1>1, LenProperties
  <1>3. \A k \in 1 .. Len(c) : c[k] \in 2 .. (NFat - 1)
    BY <1>1, ElementOfSeq
  <1> QED BY <1>1, <1>2, <1>3, Geometry, SMTT(30)

\* Chains do not meet.
LEMMA Apart ==
  ASSUME NEW v \in Volumes, NEW o \in Objects(v), NEW p \in Objects(v),
         NEW j \in 1 .. Len(v.chain[o]), NEW k \in 1 .. Len(v.chain[p]),
         v.chain[o][j] = v.chain[p][k]
  PROVE  o = p /\ j = k
  BY InOrder DEF WellFormed

\* A sector of a chain: where it lies, and the cluster it is in.
LEMMA SectorIs ==
  ASSUME NEW chain \in Seq(2 .. (NFat - 1)), NEW t \in Nat, NEW k, On(chain, t, k)
  PROVE  /\ k \in 2 .. (NFat - 1) /\ 1 + (t \div CSize) \in 1 .. Len(chain)
         /\ Clst2Sect(k) = Database + CSize * (k - 2) /\ Clst2Sect(k) \in Nat
         /\ SectorNo(chain, t) = Clst2Sect(k) + (t % CSize)
         /\ SectorNo(chain, t) \in Nat \ {0}
         /\ ClusterAt(SectorNo(chain, t)) = k
         /\ SectorNo(chain, t) - Clst2Sect(k) = t % CSize
  <1> DEFINE q == t \div CSize
             r == t % CSize
  <1>1. q \in Nat /\ r \in 0 .. (CSize - 1)
    BY Geometry, DivMod
  <1>2. Len(chain) \in Nat /\ 1 + q \in 1 .. Len(chain) /\ k = chain[1 + q]
    BY <1>1, LenProperties DEF On
  <1>3. k \in 2 .. (NFat - 1)
    BY <1>2, ElementOfSeq
  <1>4. Clst2Sect(k) = Database + CSize * (k - 2)
    BY <1>3 DEF Clst2Sect
  <1>5. SectorNo(chain, t) = Clst2Sect(k) + r
    BY <1>2 DEF SectorNo
  <1> HIDE DEF q, r
  <1> DEFINE m == CSize * (k - 2)
  <1>6. m \in Nat
    BY <1>3, Geometry, SMT
  <1>7. /\ SectorNo(chain, t) \in Nat \ {0} /\ Clst2Sect(k) \in Nat
        /\ SectorNo(chain, t) - Clst2Sect(k) = r
        /\ SectorNo(chain, t) - Database = m + r
    <2> HIDE DEF m
    <2>1. Clst2Sect(k) = Database + m
      BY <1>4 DEF m
    <2> QED BY <1>1, <1>5, <1>6, <2>1, Geometry
  <1>8. (m + r) \div CSize = k - 2
    <2>1. k - 2 \in Int /\ m + r \in Int /\ m + r = CSize * (k - 2) + r
      BY <1>1, <1>3, <1>6
    <2> QED BY <1>1, <2>1, DivIs, Geometry, Zenon
  <1>9. ClusterAt(SectorNo(chain, t)) = k
    <2> HIDE DEF m
    <2> QED BY <1>3, <1>7, <1>8 DEF ClusterAt
  <1> QED BY <1>2, <1>3, <1>4, <1>5, <1>7, <1>9 DEF q, r

NextIn(chain, k) == IF k < Len(chain) THEN chain[k + 1] ELSE EOC

\* The FAT links the clusters of a chain.
LEMMA FatIs ==
  ASSUME NEW v \in Volumes, NEW o \in Objects(v) \ Unchained(v), NEW k \in 1 .. Len(v.chain[o])
  PROVE  Fat(v, v.chain[o][k]) = NextIn(v.chain[o], k)
  <1> DEFINE c == v.chain[o][k]
             held == {h \in (Objects(v) \ Unchained(v)) \X (1 .. NFat) :
                        h[2] <= Len(v.chain[h[1]]) /\ v.chain[h[1]][h[2]] = c}
  <1>1. k \in 1 .. NFat
    <2>1. Len(v.chain[o]) \in 0 .. NFat
      BY ChainOf
    <2> QED BY <2>1, Geometry
  <1>2. <<o, k>> \in held
    BY <1>1
  <1>3. ASSUME NEW h \in held
        PROVE  h[1] = o /\ h[2] = k
    <2>1. h[1] \in Objects(v) /\ h[2] \in 1 .. NFat /\ h[2] <= Len(v.chain[h[1]])
          /\ v.chain[h[1]][h[2]] = v.chain[o][k]
      OBVIOUS
    <2>2. h[2] \in 1 .. Len(v.chain[h[1]])
      BY <2>1, ChainOf
    <2> QED BY <2>1, <2>2, Apart
  <1> DEFINE x == CHOOSE h \in held : TRUE
  <1>4. x \in held
    BY <1>2
  <1>5. x[1] = o /\ x[2] = k
    BY <1>3, <1>4
  <1>6. Fat(v, c) = IF held = {} THEN 0
                    ELSE IF x[2] < Len(v.chain[x[1]]) THEN v.chain[x[1]][x[2] + 1] ELSE EOC
    BY DEF Fat
  <1> HIDE DEF held, x
  <1> QED BY <1>2, <1>5, <1>6 DEF NextIn

\* A directory is an object with a chain.
LEMMA DirOf ==
  ASSUME NEW v \in Volumes, NEW d \in Dirs(v)
  PROVE  /\ d \in Objects(v) /\ v.table[d] \in Seq(Entries) /\ Len(v.table[d]) \in Nat
         /\ \A p \in 1 .. Len(v.table[d]) : v.table[d][p] \in Entries /\ Sound(v, v.table[d][p])
         /\ v.chain[d] # <<>> /\ Len(v.chain[d]) > 0
         /\ Len(v.table[d]) <= (DirPerSector * CSize) * Len(v.chain[d])
  <1>1. WellFormed(v)
    BY InOrder
  <1>2. /\ d \in Objects(v) /\ v.table[d] \in Seq(Entries) /\ v.chain[d] # <<>>
        /\ Len(v.table[d]) <= (DirPerSector * CSize) * Len(v.chain[d])
        /\ \A p \in 1 .. Len(v.table[d]) : Sound(v, v.table[d][p])
    BY <1>1 DEF WellFormed
  <1> DEFINE tab == v.table[d]
             ch == v.chain[d]
  <1>3. Len(tab) \in Nat /\ \A p \in 1 .. Len(tab) : tab[p] \in Entries
    BY <1>2, LenProperties, ElementOfSeq
  <1>4. ch \in Seq(2 .. (NFat - 1))
    BY <1>2, ChainOf
  <1>5. Len(ch) > 0
    <2> HIDE DEF ch
    <2>1. ch # <<>>
      BY <1>2 DEF ch
    <2> QED BY <1>4, <2>1, EmptySeq, LenProperties
  <1> QED BY <1>2, <1>3, <1>5

\* The entry read at an index of a directory, from the sector and the place in it.
LEMMA EntryIs ==
  ASSUME NEW v \in Volumes, NEW d \in Dirs(v), NEW n \in Nat, NEW c,
         On(v.chain[d], n \div DirPerSector, c)
  PROVE  EntryIn(v, SectorNo(v.chain[d], n \div DirPerSector), n % DirPerSector)
           = IF n + 1 <= Len(v.table[d]) THEN v.table[d][n + 1] ELSE EndEntry
  <1> DEFINE chain == v.chain[d]
             t == n \div DirPerSector
             k == n % DirPerSector
             q == t \div CSize
             r == t % CSize
             s == SectorNo(chain, t)
  <1>1. n = DirPerSector * t + k /\ t \in Nat /\ k \in 0 .. (DirPerSector - 1)
    BY Geometry, DivMod
  <1>2. t = CSize * q + r /\ q \in Nat /\ r \in 0 .. (CSize - 1)
    BY <1>1, Geometry, DivMod
  <1>3. d \in Objects(v) /\ chain \in Seq(2 .. (NFat - 1)) /\ Len(chain) \in Nat
    BY DirOf, ChainOf
  <1>4. /\ c \in 2 .. (NFat - 1) /\ 1 + q \in 1 .. Len(chain) /\ c = chain[1 + q]
        /\ ClusterAt(s) = c /\ s - Clst2Sect(c) = r
    <2> HIDE DEF t, chain
    <2>1. chain \in Seq(2 .. (NFat - 1)) /\ t \in Nat /\ On(chain, t, c)
      BY <1>1, <1>3 DEF t, chain
    <2>2. c = chain[1 + q]
      BY <2>1 DEF On
    <2> QED BY <2>1, <2>2, SectorIs
  <1> DEFINE dd == CHOOSE x \in Dirs(v) : c \in ToSet(v.chain[x])
  <1>5. dd = d
    <2>1. c \in ToSet(v.chain[d])
      <3>1. DOMAIN chain = 1 .. Len(chain)
        BY <1>3, LenProperties
      <3> QED BY <1>4, <3>1 DEF ToSet
    <2>2. dd \in Dirs(v) /\ c \in ToSet(v.chain[dd])
      BY <2>1
    <2> HIDE DEF dd
    <2>3. dd \in Objects(v) /\ v.chain[dd] \in Seq(2 .. (NFat - 1))
      BY <2>2, DirOf, ChainOf
    <2>4. PICK j \in DOMAIN v.chain[dd] : c = v.chain[dd][j]
      BY <2>2 DEF ToSet
    <2>5. j \in 1 .. Len(v.chain[dd])
      BY <2>3, <2>4, LenProperties
    <2> HIDE DEF q
    <2>6. 1 + q \in 1 .. Len(v.chain[d]) /\ c = v.chain[d][1 + q]
      BY <1>4
    <2> QED BY <1>3, <2>3, <2>4, <2>5, <2>6, Apart
  <1> DEFINE i == CHOOSE j \in 1 .. Len(v.chain[d]) : v.chain[d][j] = c
  <1>6. i = 1 + q
    <2>1. i \in 1 .. Len(chain) /\ chain[i] = c
      BY <1>4
    <2> HIDE DEF i, q
    <2>2. 1 + q \in 1 .. Len(v.chain[d]) /\ c = v.chain[d][1 + q]
      BY <1>4
    <2> QED BY <1>3, <2>1, <2>2, Apart
  <1>7. EntryIn(v, s, k) =
          LET m == ((i - 1) * CSize + (s - Clst2Sect(c))) * DirPerSector + k + 1
          IN  IF m <= Len(v.table[d]) THEN v.table[d][m] ELSE EndEntry
    <2> HIDE DEF s, k
    <2>1. EntryIn(v, s, k) =
            LET ii == CHOOSE j \in 1 .. Len(v.chain[dd]) : v.chain[dd][j] = c
                m == ((ii - 1) * CSize + (s - Clst2Sect(c))) * DirPerSector + k + 1
            IN  IF m <= Len(v.table[dd]) THEN v.table[dd][m] ELSE EndEntry
      BY <1>4 DEF EntryIn
    <2> HIDE DEF dd
    <2> QED BY <1>5, <2>1
  <1>8. ((i - 1) * CSize + (s - Clst2Sect(c))) * DirPerSector + k + 1 = n + 1
    <2> HIDE DEF s, i, q, r, t, k, chain
    <2>1. i - 1 = q /\ s - Clst2Sect(c) = r
      BY <1>2, <1>4, <1>6
    <2>2. q * CSize + r = t
      BY <1>2, Geometry, SMT
    <2>3. t * DirPerSector = DirPerSector * t
      BY <1>1, Geometry, SMT
    <2>4. DirPerSector * t \in Int
      BY <1>1, Geometry
    <2> QED BY <1>1, <2>1, <2>2, <2>3, <2>4
  <1> HIDE DEF s, i, q, r
  <1> QED BY <1>7, <1>8 DEF s

-----------------------------------------------------------------------------
(* The window. *)

LEMMA DiskReadIs ==
  ASSUME NEW ok \in BOOLEAN, DiskRead(ok), faults \in Nat
  PROVE  /\ ok => hurt' = hurt
         /\ ~ok => hurt' = TRUE
         /\ faults' \in Nat
  BY DEF DiskRead

LEMMA MoveWindowIs ==
  ASSUME NEW s, NEW ok \in BOOLEAN, MoveWindow(s, ok), Synced, faults \in Nat
  PROVE  /\ Synced' /\ faults' \in Nat
         /\ ok => win' = s /\ hurt' = hurt
         /\ ~ok => hurt' = TRUE
  BY DEF MoveWindow, Synced, window, DiskRead

\* An open object, or the directory f_open walks through.
Named(e) == e.kind \in {"file", "dir"} /\ e \in Entries /\ Sound(vol, e)

LEMMA NamedIs ==
  ASSUME vol \in Volumes, NEW e, Named(e)
  PROVE  /\ e.id \in Objects(vol) /\ e.size \in Nat /\ vol.chain[e.id] \in Seq(2 .. (NFat - 1))
         /\ Len(vol.chain[e.id]) \in 0 .. NFat
         /\ e.size > 0 => Len(vol.chain[e.id]) > 0
         /\ e.kind = "dir" => e.id \in Dirs(vol)
  <1>1. /\ e.id \in Objects(vol) /\ e.size \in Nat /\ (e.size > 0 => vol.chain[e.id] # <<>>)
        /\ (e.kind = "dir" => e.id \in Dirs(vol))
    BY DEF Named, Sound, Entries
  <1> DEFINE c == vol.chain[e.id]
  <1>2. c \in Seq(2 .. (NFat - 1)) /\ Len(c) \in 0 .. NFat
    BY <1>1, ChainOf
  <1>3. c # <<>> => Len(c) > 0
    <2> HIDE DEF c
    <2> QED BY <1>2, EmptySeq, LenProperties
  <1> QED BY <1>1, <1>2, <1>3

\* The generated entry of an object that lies in one piece is the one the FAT would hold.
LEMMA ContiguousIs ==
  ASSUME vol \in Volumes, NEW e, Named(e), e.stat = 2, NEW k \in 1 .. Len(vol.chain[e.id])
  PROVE  Contiguous(e, vol.chain[e.id][k]) = NextIn(vol.chain[e.id], k)
  <1> DEFINE chain == vol.chain[e.id]
             n == Len(chain)
             f == chain[1]
  <1>1. e.size \in Nat /\ chain \in Seq(2 .. (NFat - 1)) /\ n \in Nat /\ n > 0 /\ k \in 1 .. n
    BY NamedIs
  <1>2. f \in Int /\ First(vol, e.id) = f
    <2>1. 1 \in 1 .. n
      BY <1>1
    <2>2. f \in 2 .. (NFat - 1)
      BY <1>1, <2>1, ElementOfSeq
    <2>3. chain # <<>>
      <3> HIDE DEF chain
      <3> QED BY <1>1
    <2> QED BY <2>2, <2>3 DEF First
  <1>3. /\ Bcs * (n - 1) < e.size /\ e.size <= Bcs * n
        /\ \A j \in 1 .. n : chain[j] = f + j - 1
    BY DEF Named, Sound
  <1> HIDE DEF n, f
  <1>4. chain[k] = f + k - 1 /\ chain[k] - f = k - 1 /\ f <= chain[k]
    BY <1>1, <1>2, <1>3, SMTT(30)
  <1>5. (chain[k] - f) * Bcs = Bcs * (k - 1) /\ (chain[k] - f + 1) * Bcs = Bcs * k
    <2>1. chain[k] - f + 1 = k
      BY <1>1, <1>2, <1>4
    <2>2. (k - 1) * Bcs = Bcs * (k - 1) /\ k * Bcs = Bcs * k
      BY <1>1, Geometry, SMT
    <2> QED BY <1>4, <2>1, <2>2
  <1>6. Bcs * (k - 1) < e.size
    <2>1. k - 1 \in Int /\ n - 1 \in Int /\ ~(n - 1 < k - 1)
      BY <1>1
    <2>2. ~(Bcs * (n - 1) < Bcs * (k - 1))
      BY <2>1, TimesLess, Geometry
    <2>3. Bcs * (n - 1) \in Int /\ Bcs * (k - 1) \in Int
      BY <2>1, Geometry
    <2> QED BY <1>1, <1>3, <2>2, <2>3
  <1>7. Bcs * k < e.size <=> k < n
    <2>1. k \in Int /\ n \in Int /\ n - 1 \in Int /\ Bcs * n \in Int /\ Bcs * k \in Int /\ Bcs * (n - 1) \in Int
      BY <1>1, Geometry
    <2>2. CASE k < n
      <3>1. ~(n - 1 < k)
        BY <1>1, <2>2
      <3>2. ~(Bcs * (n - 1) < Bcs * k)
        BY <2>1, <3>1, TimesLess, Geometry
      <3> QED BY <1>1, <1>3, <2>1, <2>2, <3>2
    <2>3. CASE ~(k < n)
      <3>1. k = n
        BY <1>1, <2>3
      <3> QED BY <1>1, <1>3, <2>1, <3>1
    <2> QED BY <2>2, <2>3
  <1>8. chain[k] + 1 = f + k /\ (k < n => chain[k + 1] = f + k)
    <2> DEFINE c == chain[k]
    <2>1. k < n => k + 1 \in 1 .. n
      BY <1>1
    <2>2. k < n => chain[k + 1] = f + ((k + 1) - 1)
      BY <1>3, <2>1, Zenon
    <2>3. c = f + (k - 1) /\ k \in Int
      BY <1>1, <1>4
    <2> HIDE DEF c, chain
    <2>4. (k + 1) - 1 = k /\ c + 1 = f + k
      BY <1>2, <2>3
    <2> QED BY <2>2, <2>4, Zenon DEF c
  <1>9. Contiguous(e, chain[k]) = IF k < n THEN chain[k] + 1 ELSE EOC
    <2> HIDE DEF chain
    <2>1. First(vol, e.id) <= chain[k] /\ (chain[k] - First(vol, e.id)) * Bcs < e.size
      BY <1>2, <1>4, <1>5, <1>6
    <2>2. (chain[k] - First(vol, e.id) + 1) * Bcs < e.size <=> k < n
      BY <1>2, <1>5, <1>7
    <2> QED BY <2>1, <2>2 DEF Contiguous
  <1> QED BY <1>8, <1>9 DEF NextIn, n

\* get_fat on the cluster of sector t: the next one, the end, or a failed read.
FatGives(chain, t, x) ==
  /\ Synced' /\ faults' \in Nat /\ x \in 2 .. DiskErr /\ hurt' \in {hurt, TRUE}
  /\ \/ /\ hurt' = hurt /\ x \in 2 .. (NFat - 1)
        /\ (t \div CSize) + 1 < Len(chain) /\ x = chain[(t \div CSize) + 2]
     \/ hurt' = hurt /\ x = EOC /\ (t \div CSize) + 1 = Len(chain)
     \/ hurt' = TRUE /\ x = DiskErr

LEMMA GetFatIs ==
  ASSUME vol \in Volumes, Synced, faults \in Nat, NEW e, Named(e),
         NEW t \in Nat, NEW c, On(vol.chain[e.id], t, c), NEW x, GetFat(e, c, x)
  PROVE  FatGives(vol.chain[e.id], t, x)
  <1> DEFINE chain == vol.chain[e.id]
             k == 1 + (t \div CSize)
  <1>1. e.id \in Objects(vol) /\ chain \in Seq(2 .. (NFat - 1)) /\ Len(chain) \in 0 .. NFat
    BY NamedIs
  <1>2. c \in 2 .. (NFat - 1) /\ k \in 1 .. Len(chain) /\ c = chain[k]
    <2>1. On(chain, t, c)
      OBVIOUS
    <2> HIDE DEF chain
    <2> QED BY <1>1, <2>1, SectorIs DEF On
  <1> HIDE DEF k
  <1>3. \/ x = NextIn(chain, k) /\ hurt' = hurt /\ Synced' /\ faults' \in Nat
        \/ x = DiskErr /\ hurt' = TRUE /\ Synced' /\ faults' \in Nat
    <2>1. CASE e.stat = 2
      <3>1. Contiguous(e, c) = NextIn(chain, k)
        BY <1>2, <2>1, ContiguousIs
      <3>2. x = Contiguous(e, c) /\ UNCHANGED window
        BY <1>2, <2>1 DEF GetFat
      <3> QED BY <3>1, <3>2 DEF window, Synced
    <2>2. CASE e.stat # 2
      <3>1. PICK ok \in BOOLEAN :
              /\ MoveWindow(FatSector(c), ok)
              /\ x = IF ~ok THEN DiskErr ELSE IF win' = FatSector(c) THEN Fat(vol, c) ELSE 1
        BY <1>2, <2>2 DEF GetFat
      <3>2. /\ Synced' /\ faults' \in Nat /\ (ok => win' = FatSector(c) /\ hurt' = hurt)
            /\ (~ok => hurt' = TRUE)
        BY <3>1, MoveWindowIs
      <3>3. e.id \notin Unchained(vol)
        BY <2>2 DEF Named, Sound
      <3>4. Fat(vol, c) = NextIn(chain, k)
        BY <1>1, <1>2, <3>3, FatIs
      <3> QED BY <3>1, <3>2, <3>4
    <2> QED BY <2>1, <2>2
  <1>4. k < Len(chain) => k + 1 \in 1 .. Len(chain) /\ chain[k + 1] \in 2 .. (NFat - 1)
    <2>1. k < Len(chain) => k + 1 \in 1 .. Len(chain)
      BY <1>1, <1>2
    <2> HIDE DEF chain
    <2> QED BY <1>1, <2>1, ElementOfSeq
  <1>5. k < Len(chain) \/ k = Len(chain)
    BY <1>1, <1>2
  <1>6. NextIn(chain, k) = IF k < Len(chain) THEN chain[k + 1] ELSE EOC
    BY DEF NextIn
  <1>7. k = (t \div CSize) + 1 /\ k + 1 = (t \div CSize) + 2
    BY Geometry, DivMod DEF k
  <1>8. x \in 2 .. DiskErr
    <2>1. NFat \in Nat /\ EOC = NFat + 1 /\ DiskErr = NFat + 2
      BY Geometry
    <2>2. EOC \in 2 .. DiskErr /\ DiskErr \in 2 .. DiskErr /\ 2 .. (NFat - 1) \subseteq 2 .. DiskErr
      BY <1>2, <2>1
    <2> HIDE DEF chain
    <2>3. NextIn(chain, k) \in 2 .. DiskErr
      BY <1>4, <1>6, <2>2
    <2> QED BY <1>3, <2>2, <2>3
  <1>9. CASE x = DiskErr /\ hurt' = TRUE
    BY <1>3, <1>8, <1>9 DEF FatGives
  <1>10. CASE x = NextIn(chain, k) /\ hurt' = hurt /\ k < Len(chain)
    BY <1>3, <1>4, <1>6, <1>7, <1>8, <1>10 DEF FatGives
  <1>11. CASE x = NextIn(chain, k) /\ hurt' = hurt /\ k = Len(chain)
    <2> HIDE DEF chain
    <2>1. x = EOC
      BY <1>1, <1>6, <1>11
    <2> QED BY <1>3, <1>7, <1>8, <1>11, <2>1 DEF chain, FatGives
  <1> QED BY <1>3, <1>5, <1>9, <1>10, <1>11

-----------------------------------------------------------------------------
(* Places in a file. *)

LEMMA DivPrev ==
  ASSUME NEW n \in Nat \ {0}, NEW d \in Nat \ {0}
  PROVE  /\ n % d = 0 => ((n - 1) \div d) + 1 = n \div d
         /\ n % d # 0 => (n - 1) \div d = n \div d
         /\ (n - 1) \div d \in Nat
  <1>1. n - 1 \in Nat /\ (n - 1) + 1 = n
    OBVIOUS
  <1> DEFINE m == n - 1
  <1>2. m \in Nat /\ m + 1 = n
    BY <1>1
  <1> HIDE DEF m
  <1>3. /\ (m + 1) % d = 0 => (m + 1) \div d = (m \div d) + 1
        /\ (m + 1) % d # 0 => (m + 1) \div d = m \div d
        /\ m \div d \in Nat
    BY <1>2, DivNext, DivMod
  <1> QED BY <1>2, <1>3, Zenon DEF m

\* A byte's sector, and its cluster.
LEMMA BytePlace ==
  ASSUME NEW n \in Nat
  PROVE  /\ n \div SS \in Nat /\ n % SS \in 0 .. (SS - 1)
         /\ n \div Bcs = (n \div SS) \div CSize /\ n \div Bcs \in Nat
         /\ n % Bcs = 0 <=> n % SS = 0 /\ (n \div SS) % CSize = 0
  <1>1. SS \in Nat \ {0} /\ CSize \in Nat \ {0} /\ Bcs \in Nat \ {0}
    BY Geometry
  <1>2. n \div SS \in Nat /\ n % SS \in 0 .. (SS - 1) /\ n \div Bcs \in Nat
    BY <1>1, DivMod
  <1>3. /\ n \div Bcs = (n \div SS) \div CSize
        /\ n % Bcs = 0 <=> n % SS = 0 /\ (n \div SS) % CSize = 0
    BY <1>1, DivDiv, ZenonT(40) DEF Bcs
  <1> QED BY <1>2, <1>3

LEMMA BcsParts == Bcs % SS = 0 /\ Bcs \div SS = CSize /\ Bcs \div Bcs = 1 /\ Bcs % Bcs = 0
  <1>1. SS \in Nat \ {0} /\ CSize \in Int /\ Bcs \in Nat \ {0} /\ Bcs \in Int
    BY Geometry
  <1>2. 0 \in 0 .. (SS - 1) /\ 0 \in 0 .. (Bcs - 1) /\ 1 \in Int
    BY <1>1
  <1>3. Bcs = SS * CSize + 0
    BY <1>1, Geometry DEF Bcs
  <1>4. Bcs = Bcs * 1 + 0
    BY <1>1
  <1>5. Bcs \div SS = CSize /\ Bcs % SS = 0
    BY <1>1, <1>2, <1>3, DivIs, Zenon
  <1>6. Bcs \div Bcs = 1 /\ Bcs % Bcs = 0
    BY <1>1, <1>2, <1>4, DivIs, Zenon
  <1> QED BY <1>5, <1>6

\* f_lseek from the current cluster: its first byte.
LEMMA SeekBase ==
  ASSUME NEW p \in Nat \ {0}, NEW g \in Nat \ {0}, (g - 1) \div Bcs >= (p - 1) \div Bcs,
         NEW base, base = ((p - 1) \div Bcs) * Bcs
  PROVE  /\ base \in Nat /\ base % Bcs = 0 /\ g - base \in Nat \ {0} /\ base < p
         /\ (base \div SS) \div CSize = ((p - 1) \div SS) \div CSize
  <1> DEFINE q == (p - 1) \div Bcs
             u == (g - 1) \div Bcs
             r == (p - 1) % Bcs
             w == (g - 1) % Bcs
  <1>1. p - 1 \in Nat /\ g - 1 \in Nat /\ Bcs \in Nat \ {0}
    BY Geometry
  <1>2. /\ p - 1 = Bcs * q + r /\ q \in Nat /\ r \in Nat
        /\ g - 1 = Bcs * u + w /\ u \in Nat /\ w \in Nat /\ u >= q
    <2>1. p - 1 = Bcs * q + r /\ q \in Nat /\ r \in 0 .. (Bcs - 1)
      BY <1>1, DivMod, Zenon
    <2>2. g - 1 = Bcs * u + w /\ u \in Nat /\ w \in 0 .. (Bcs - 1)
      BY <1>1, DivMod, Zenon
    <2>3. u >= q
      OBVIOUS
    <2> HIDE DEF q, u, r, w
    <2> QED BY <1>1, <2>1, <2>2, <2>3
  <1>3. q = ((p - 1) \div SS) \div CSize
    BY <1>1, BytePlace
  <1> HIDE DEF q, u, r, w
  <1>4. base = Bcs * q + 0 /\ base \in Nat
    <2>1. q * Bcs = Bcs * q /\ Bcs * q \in Nat
      BY <1>1, <1>2, SMT
    <2> QED BY <2>1 DEF q
  <1>5. base % Bcs = 0 /\ base \div Bcs = q
    <2>1. q \in Int /\ base \in Int /\ 0 \in 0 .. (Bcs - 1)
      BY <1>1, <1>2, <1>4
    <2> QED BY <1>1, <1>4, <2>1, DivIs, Zenon
  <1>6. Bcs * q <= Bcs * u
    BY <1>1, <1>2, SMT
  <1>7. g - base \in Nat \ {0} /\ base < p
    <2>1. Bcs * q \in Nat /\ Bcs * u \in Nat
      BY <1>1, <1>2, SMT
    <2> DEFINE x == Bcs * q
               y == Bcs * u
    <2>2. x \in Nat /\ y \in Nat /\ x <= y /\ base = x /\ p - 1 = x + r /\ g - 1 = y + w
      BY <1>2, <1>4, <1>6, <2>1
    <2> HIDE DEF x, y
    <2> QED BY <1>2, <2>2
  <1>8. base \div Bcs = (base \div SS) \div CSize
    BY <1>4, BytePlace
  <1> QED BY <1>3, <1>4, <1>5, <1>7, <1>8

\* The cluster following loop goes on by a cluster.
LEMMA SeekOn ==
  ASSUME NEW p \in Nat, p % Bcs = 0
  PROVE  /\ (p + Bcs) % Bcs = 0
         /\ ((p + Bcs) \div SS) \div CSize = ((p \div SS) \div CSize) + 1
  <1>1. Bcs \in Nat \ {0} /\ p + Bcs \in Nat
    BY Geometry
  <1>2. (p + Bcs) \div Bcs = (p \div Bcs) + 1 /\ (p + Bcs) % Bcs = 0
    <2>1. (p + Bcs) \div Bcs = (p \div Bcs) + (Bcs \div Bcs) /\ (p + Bcs) % Bcs = Bcs % Bcs
      <3>1. Bcs \in Nat
        BY <1>1
      <3> QED BY <1>1, <3>1, DivPlus, Zenon
    <2> QED BY <2>1, BcsParts, Zenon
  <1> QED BY <1>1, <1>2, BytePlace

\* f_lseek arrives within a cluster, or at its end.
LEMMA SeekLands ==
  ASSUME NEW p \in Nat, p % Bcs = 0, NEW o \in 1 .. Bcs
  PROVE  /\ (((p + o) - 1) \div SS) \div CSize = (p \div SS) \div CSize
         /\ (p + o) % SS = o % SS
         /\ o % SS # 0 => /\ ((p + o) \div SS) \div CSize = (p \div SS) \div CSize
                          /\ ((p + o) \div SS) % CSize = o \div SS
  <1>1. /\ SS \in Nat \ {0} /\ CSize \in Nat \ {0} /\ Bcs \in Nat \ {0}
        /\ o \in Nat /\ o - 1 \in Nat /\ p + o = p + o /\ (p + o) - 1 = p + (o - 1)
        /\ p + (o - 1) \in Nat /\ o - 1 < Bcs
    BY Geometry
  <1>2. p % SS = 0 /\ (p \div SS) % CSize = 0 /\ p \div SS \in Nat
    BY BytePlace
  <1>3. (p + (o - 1)) \div Bcs = p \div Bcs
    <2>1. (p % Bcs) + (o - 1) < Bcs
      BY <1>1
    <2> QED BY <1>1, <2>1, DivWithin
  <1>4. ((p + (o - 1)) \div SS) \div CSize = (p \div SS) \div CSize
    <2>1. /\ (p + (o - 1)) \div Bcs = ((p + (o - 1)) \div SS) \div CSize
          /\ p \div Bcs = (p \div SS) \div CSize
      BY <1>1, BytePlace, Zenon
    <2> QED BY <1>3, <2>1, Zenon
  <1>5. (p + o) \div SS = (p \div SS) + (o \div SS) /\ (p + o) % SS = o % SS
    BY <1>1, <1>2, DivPlus, Zenon
  <1>6. ASSUME o % SS # 0
        PROVE  /\ ((p + o) \div SS) \div CSize = (p \div SS) \div CSize
               /\ ((p + o) \div SS) % CSize = o \div SS
    <2> DEFINE u == o \div SS
               t == p \div SS
    <2>1. o = SS * u + (o % SS) /\ u \in Nat /\ o % SS \in 0 .. (SS - 1)
      BY <1>1, DivMod
    <2>2. u < CSize
      <3> HIDE DEF u
      <3>1. o < Bcs
        BY <1>6, BcsParts, Geometry
      <3>2. SS * u < SS * CSize
        <4> DEFINE x == SS * u
        <4>1. x \in Int /\ o = x + (o % SS)
          BY <1>1, <2>1
        <4>2. Bcs = SS * CSize
          BY DEF Bcs
        <4> HIDE DEF x
        <4>3. x < Bcs
          BY <1>1, <2>1, <3>1, <4>1
        <4> QED BY <4>2, <4>3 DEF x
      <3> QED BY <1>1, <2>1, <3>2, TimesLess
    <2>3. t \in Nat /\ t % CSize = 0
      BY <1>2
    <2> HIDE DEF u, t
    <2>4. (t % CSize) + u < CSize
      BY <2>1, <2>2, <2>3
    <2>5. (t + u) \div CSize = t \div CSize /\ (t + u) % CSize = (t % CSize) + u
      BY <1>1, <2>1, <2>3, <2>4, DivWithin, ZenonT(40)
    <2>6. (t % CSize) + u = u
      BY <2>1, <2>3
    <2> QED BY <1>5, <2>5, <2>6 DEF u, t
  <1> QED BY <1>1, <1>4, <1>5, <1>6

LEMMA LastOfPart ==
  ASSUME NEW n \in Nat \ {0}, NEW d \in Nat \ {0}, n % d = 0
  PROVE  /\ (n - 1) % d = d - 1 /\ n = d * ((n - 1) \div d) + d
         /\ \A j \in 0 .. (d - 1) : (n + j) \div d = ((n - 1) \div d) + 1 /\ (n + j) % d = j
  <1> DEFINE q == (n - 1) \div d
             r == (n - 1) % d
             k == n \div d
  <1>1. n - 1 \in Nat /\ q + 1 = k
    <2>1. q + 1 = k
      BY DivPrev, Zenon
    <2> QED BY <2>1
  <1>2. n - 1 = d * q + r /\ q \in Nat /\ r \in 0 .. (d - 1)
    BY <1>1, DivMod, Zenon
  <1>3. n = d * k + (n % d) /\ k \in Nat
    BY DivMod
  <1> HIDE DEF q, r, k
  <1>4. d * k = d * q + d
    <2>1. d * (q + 1) = d * q + d
      BY <1>2, SMT
    <2> QED BY <1>1, <2>1
  <1>5. r = d - 1 /\ n = d * q + d
    <2> DEFINE x == d * q
    <2>1. x \in Int /\ n - 1 = x + r /\ n = x + d
      BY <1>2, <1>3, <1>4
    <2> HIDE DEF x
    <2>2. r = d - 1 /\ n = x + d
      BY <1>2, <2>1
    <2> QED BY <2>2 DEF x
  <1>6. ASSUME NEW j \in 0 .. (d - 1)
        PROVE  (n + j) \div d = q + 1 /\ (n + j) % d = j
    <2>1. j \in Nat /\ (n % d) + j < d
      OBVIOUS
    <2>2. (n + j) \div d = n \div d /\ (n + j) % d = (n % d) + j
      BY <2>1, DivWithin
    <2>3. (n % d) + j = j
      BY <2>1
    <2> QED BY <1>1, <2>2, <2>3 DEF k
  <1> QED BY <1>5, <1>6 DEF q, r

\* The n sectors from sector t on lie in one piece, up to the end of cluster c.
OnePiece(chain, t, n, c, sect) ==
  /\ (t + n) % CSize = 0
  /\ On(chain, (t + n) - 1, c)
  /\ \A k \in 0 .. (n - 1) : SectorNo(chain, t + k) = sect + k

\* A cluster that follows on the disk goes on with the transfer.
LEMMA MergeNext ==
  ASSUME NEW chain \in Seq(2 .. (NFat - 1)), NEW t \in Nat, NEW n \in Nat \ {0},
         NEW c, NEW sect \in Int, OnePiece(chain, t, n, c, sect),
         NEW q, q = ((t + n) - 1) \div CSize, q + 1 < Len(chain), c + 1 = chain[q + 2]
  PROVE  OnePiece(chain, t, n + CSize, c + 1, sect)
  <1>0. /\ (t + n) % CSize = 0 /\ On(chain, (t + n) - 1, c)
        /\ \A k \in 0 .. (n - 1) : SectorNo(chain, t + k) = sect + k
    BY DEF OnePiece
  <1> DEFINE m == t + n
  <1>1. m \in Nat \ {0} /\ m % CSize = 0 /\ CSize \in Nat \ {0} /\ m - 1 \in Nat
    <2>1. m % CSize = 0
      BY <1>0
    <2>2. m \in Nat \ {0} /\ m - 1 \in Nat
      OBVIOUS
    <2> QED BY <2>1, <2>2, Geometry
  <1>2. /\ (m - 1) % CSize = CSize - 1
        /\ \A j \in 0 .. (CSize - 1) : (m + j) \div CSize = q + 1 /\ (m + j) % CSize = j
    <2>1. q = (m - 1) \div CSize
      OBVIOUS
    <2> HIDE DEF m
    <2>2. /\ (m - 1) % CSize = CSize - 1 /\ m = CSize * ((m - 1) \div CSize) + CSize
          /\ \A j \in 0 .. (CSize - 1) : (m + j) \div CSize = ((m - 1) \div CSize) + 1 /\ (m + j) % CSize = j
      BY <1>1, LastOfPart, ZenonT(40)
    <2> QED BY <2>1, <2>2, Zenon
  <1>3. q \in Nat /\ q + 1 < Len(chain) /\ c + 1 = chain[1 + (q + 1)] /\ On(chain, m - 1, c)
    <2>1. q \in Nat
      BY <1>1, DivMod
    <2>2. q + 1 < Len(chain) /\ c + 1 = chain[q + 2] /\ On(chain, m - 1, c)
      BY <1>0
    <2>3. q + 2 = 1 + (q + 1)
      BY <2>1
    <2> QED BY <2>1, <2>2, <2>3, Zenon
  <1>4. ASSUME NEW j \in 0 .. (CSize - 1)
        PROVE  On(chain, m + j, c + 1) /\ m + j \in Nat /\ (m + j) % CSize = j
    <2>1. (m + j) \div CSize = q + 1 /\ (m + j) % CSize = j
      BY <1>2, Zenon
    <2>2. m + j \in Nat
      BY <1>1
    <2> QED BY <1>3, <2>1, <2>2, Zenon DEF On
  <1>5. /\ c \in 2 .. (NFat - 1) /\ Clst2Sect(c) = Database + CSize * (c - 2)
        /\ SectorNo(chain, m - 1) = Clst2Sect(c) + (CSize - 1)
    <2>1. /\ c \in 2 .. (NFat - 1) /\ Clst2Sect(c) = Database + CSize * (c - 2)
          /\ SectorNo(chain, m - 1) = Clst2Sect(c) + ((m - 1) % CSize)
      <3> DEFINE z == m - 1
      <3>1. z \in Nat /\ On(chain, z, c)
        BY <1>1, <1>3
      <3> HIDE DEF z
      <3>2. /\ c \in 2 .. (NFat - 1) /\ Clst2Sect(c) = Database + CSize * (c - 2)
            /\ SectorNo(chain, z) = Clst2Sect(c) + (z % CSize)
        BY <3>1, SectorIs
      <3> QED BY <3>2 DEF z
    <2> QED BY <1>2, <2>1, Zenon
  <1>6. SectorNo(chain, m - 1) = sect + (n - 1)
    <2>1. n - 1 \in 0 .. (n - 1) /\ t + (n - 1) = m - 1
      OBVIOUS
    <2> QED BY <1>0, <2>1
  <1>7. Clst2Sect(c) \in Int /\ CSize * (c - 2) \in Int /\ Database \in Int
    BY <1>5, Geometry
  <1>8. ASSUME NEW j \in 0 .. (CSize - 1)
        PROVE  SectorNo(chain, m + j) = sect + (n + j)
    <2>1. /\ SectorNo(chain, m + j) = Clst2Sect(c + 1) + j
          /\ Clst2Sect(c + 1) = Database + CSize * ((c + 1) - 2)
      BY <1>4, SectorIs
    <2>2. CSize * ((c + 1) - 2) = CSize * (c - 2) + CSize
      BY <1>1, <1>5, SMT
    <2> DEFINE x == CSize * (c - 2)
    <2>3. x \in Int /\ CSize * ((c + 1) - 2) = x + CSize /\ Clst2Sect(c) = Database + x
      BY <1>5, <1>7, <2>2
    <2> HIDE DEF x
    <2>4. SectorNo(chain, m + j) = Database + (x + CSize) + j
      BY <2>1, <2>3, Zenon
    <2>5. Database + x + (CSize - 1) = sect + (n - 1)
      BY <1>5, <1>6, <2>3, Zenon
    <2> HIDE DEF m
    <2>6. Database \in Int /\ CSize \in Int
      BY <1>1, <1>7
    <2>7. Database + (x + CSize) + j = sect + (n + j)
      BY <2>3, <2>5, <2>6
    <2> QED BY <2>4, <2>7, Zenon
  <1>9. ASSUME NEW k \in 0 .. ((n + CSize) - 1)
        PROVE  SectorNo(chain, t + k) = sect + k
    <2>1. CASE k < n
      <3>1. k \in 0 .. (n - 1)
        BY <2>1
      <3> QED BY <1>0, <3>1
    <2>2. CASE ~(k < n)
      <3>1. k - n \in 0 .. (CSize - 1) /\ m + (k - n) = t + k /\ n + (k - n) = k
        BY <1>1, <2>2
      <3> QED BY <1>8, <3>1
    <2> QED BY <2>1, <2>2
  <1>10. On(chain, (t + (n + CSize)) - 1, c + 1)
    <2>1. CSize - 1 \in 0 .. (CSize - 1) /\ m + (CSize - 1) = (t + (n + CSize)) - 1
      BY <1>1
    <2> QED BY <1>4, <2>1
  <1>11. (t + (n + CSize)) % CSize = 0
    <2>1. CSize \in Nat /\ m \in Nat /\ t + (n + CSize) = m + CSize
      BY <1>1
    <2>2. CSize % CSize = 0
      BY <1>1, SMT
    <2> HIDE DEF m
    <2>3. (m + CSize) % CSize = CSize % CSize
      BY <1>1, <2>1, DivPlus, Zenon
    <2> QED BY <2>1, <2>2, <2>3, Zenon
  <1> QED BY <1>9, <1>10, <1>11 DEF OnePiece

\* The bytes of whole sectors.
LEMMA XferBytes ==
  ASSUME NEW p \in Nat, p % SS = 0, NEW n \in Nat \ {0}
  PROVE  /\ SS * n \in Nat \ {0}
         /\ \A j \in 0 .. (SS * n - 1) :
              /\ (p + j) \div SS = (p \div SS) + (j \div SS) /\ (p + j) % SS = j % SS
              /\ j \div SS \in 0 .. (n - 1)
         /\ (p + SS * n) % SS = 0 /\ ((p + SS * n) - 1) \div SS = (p \div SS) + n - 1
         /\ p \div SS \in Nat
  <1>1. SS \in Nat \ {0} /\ p \div SS \in Nat
    BY Geometry, BytePlace
  <1> DEFINE x == SS * n
  <1>2. x \in Nat \ {0}
    BY <1>1, SMT
  <1>3. ASSUME NEW j \in 0 .. (x - 1)
        PROVE  /\ (p + j) \div SS = (p \div SS) + (j \div SS) /\ (p + j) % SS = j % SS
               /\ j \div SS \in 0 .. (n - 1)
    <2>1. j \in Nat
      BY <1>2
    <2> DEFINE u == j \div SS
    <2>2. j = SS * u + (j % SS) /\ u \in Nat /\ j % SS \in 0 .. (SS - 1)
      BY <1>1, <2>1, DivMod
    <2> HIDE DEF u
    <2>3. SS * u < SS * n
      <3> DEFINE y == SS * u
      <3>1. y \in Int /\ j = y + (j % SS)
        BY <1>1, <2>2
      <3> HIDE DEF x, y
      <3>2. y < x
        BY <1>2, <2>2, <3>1
      <3> QED BY <3>2 DEF x, y
    <2>4. u < n
      BY <1>1, <2>2, <2>3, TimesLess
    <2>5. (p + j) \div SS = (p \div SS) + (j \div SS) /\ (p + j) % SS = j % SS
      BY <1>1, <2>1, DivPlus
    <2>6. u \in 0 .. (n - 1)
      BY <2>2, <2>4
    <2> QED BY <2>5, <2>6 DEF u
  <1>4. x = SS * n + 0 /\ 0 \in 0 .. (SS - 1) /\ n \in Int /\ x \in Int
    BY <1>1, <1>2
  <1>5. x % SS = 0 /\ x \div SS = n
    <2> HIDE DEF x
    <2> QED BY <1>1, <1>4, DivIs, Zenon
  <1> HIDE DEF x
  <1>6. (p + x) % SS = 0 /\ (p + x) \div SS = (p \div SS) + n
    <2>1. (p + x) % SS = x % SS /\ (p + x) \div SS = (p \div SS) + (x \div SS)
      BY <1>1, <1>2, DivPlus, Zenon
    <2> QED BY <1>5, <2>1
  <1>7. p + x \in Nat \ {0}
    BY <1>2
  <1>8. (((p + x) - 1) \div SS) + 1 = (p + x) \div SS /\ ((p + x) - 1) \div SS \in Nat
    <2> DEFINE z == p + x
    <2>1. z \in Nat \ {0} /\ z % SS = 0
      BY <1>6, <1>7
    <2> HIDE DEF z
    <2>2. ((z - 1) \div SS) + 1 = z \div SS /\ (z - 1) \div SS \in Nat
      BY <1>1, <2>1, DivPrev
    <2> QED BY <2>2, Zenon DEF z
  <1>9. ((p + x) - 1) \div SS = (p \div SS) + n - 1
    BY <1>1, <1>6, <1>8
  <1> QED BY <1>1, <1>2, <1>3, <1>6, <1>9 DEF x

\* The current cluster of a merged transfer holds its last byte.
LEMMA XferCluster ==
  ASSUME NEW t \in Nat, NEW n \in Nat \ {0}, NEW m \in Nat \ {0}, m <= n, m > n - CSize,
         (t + n) % CSize = 0
  PROVE  ((t + m) - 1) \div CSize = ((t + n) - 1) \div CSize
  <1> DEFINE s == t + n
             q == (s - 1) \div CSize
  <1>1. s \in Nat \ {0} /\ CSize \in Nat \ {0} /\ s - 1 \in Nat
    BY Geometry
  <1>2. s = CSize * q + CSize /\ q \in Nat
    <2>1. s = CSize * q + CSize
      BY <1>1, LastOfPart, ZenonT(40)
    <2>2. q \in Nat
      BY <1>1, DivMod, Zenon
    <2> QED BY <2>1, <2>2, Zenon
  <1>3. CSize * q \in Int
    BY <1>1, <1>2
  <1> HIDE DEF q
  <1>4. /\ (t + m) - 1 = CSize * q + (CSize - 1 - (n - m)) /\ (t + m) - 1 \in Int /\ q \in Int
        /\ CSize - 1 - (n - m) \in 0 .. (CSize - 1)
    <2> DEFINE x == CSize * q
    <2>1. x \in Int /\ t + n = x + CSize
      BY <1>2, <1>3
    <2> HIDE DEF x
    <2>2. (t + m) - 1 = x + (CSize - 1 - (n - m)) /\ CSize - 1 - (n - m) \in 0 .. (CSize - 1)
      BY <1>1, <2>1
    <2> QED BY <1>2, <2>2 DEF x
  <1>5. ((t + m) - 1) \div CSize = q
    BY <1>1, <1>4, DivIs, ZenonT(40)
  <1> QED BY <1>5 DEF q

\* The bytes of a part of a sector.
LEMMA CopyBytes ==
  ASSUME NEW p \in Nat, NEW n \in Nat \ {0}, n <= SS - (p % SS)
  PROVE  /\ \A j \in 0 .. (n - 1) : (p + j) \div SS = p \div SS /\ (p + j) % SS = (p % SS) + j
         /\ (p + n) % SS # 0 => (p + n) \div SS = p \div SS
  <1>1. SS \in Nat \ {0} /\ p \div SS \in Nat /\ p % SS \in 0 .. (SS - 1)
    BY Geometry, BytePlace
  <1>2. ASSUME NEW j \in 0 .. (n - 1)
        PROVE  (p + j) \div SS = p \div SS /\ (p + j) % SS = (p % SS) + j
    <2>1. j \in Nat /\ (p % SS) + j < SS
      BY <1>1
    <2> QED BY <1>1, <2>1, DivWithin
  <1>3. (p + n) % SS # 0 => (p + n) \div SS = p \div SS
    <2>1. n - 1 \in 0 .. (n - 1) /\ p + (n - 1) = (p + n) - 1
      OBVIOUS
    <2>2. ((p + n) - 1) \div SS = p \div SS
      BY <1>2, <2>1
    <2>3. p + n \in Nat \ {0}
      OBVIOUS
    <2>4. (p + n) % SS # 0 => ((p + n) - 1) \div SS = (p + n) \div SS
      <3> DEFINE z == p + n
      <3>1. z \in Nat \ {0}
        BY <2>3
      <3> HIDE DEF z
      <3>2. z % SS # 0 => (z - 1) \div SS = z \div SS
        BY <1>1, <3>1, DivPrev
      <3> QED BY <3>2 DEF z
    <2> QED BY <2>2, <2>4
  <1> QED BY <1>2, <1>3

-----------------------------------------------------------------------------
(* Facts of the invariant. *)

LEMMA TypeFacts ==
  ASSUME Types
  PROVE  /\ vol \in Volumes /\ pc \in Pcs /\ ofs \in Nat /\ btr \in Nat
         /\ faults \in Nat /\ hurt \in BOOLEAN
         /\ file.open \in BOOLEAN /\ file.entry \in Entries /\ file.err \in BOOLEAN
         /\ file.fptr \in Nat /\ file.clust \in Int /\ file.sect \in Int
         /\ dir.open \in BOOLEAN /\ dir.entry \in Entries
         /\ dir.clust \in Int /\ dir.sect \in Int /\ dir.dptr \in Nat
         /\ xfer.sect \in Int /\ xfer.cc \in Int /\ xfer.ccsize \in Int
  BY DEF Types, FIL, FFDIR, Transfers

LEMMA CallFacts ==
  ASSUME NEW c \in Calls
  PROVE  /\ c # NoCall
         /\ c.op = "open" =>
              /\ c.kind \in {"file", "dir"} /\ c.paths \in Seq(Seq(Names)) /\ Len(c.paths) \in Nat \ {0}
              /\ \A k \in 1 .. Len(c.paths) : c.paths[k] \in Seq(Names) /\ Len(c.paths[k]) <= 2
         /\ c.op = "read" => c.off \in Nat /\ c.len \in Nat
         /\ c.op \in {"open", "read", "readdir"}
  <1>1. c # NoCall /\ c.op \in {"open", "read", "readdir"}
    BY CallAssumption
  <1>2. c.op = "read" => c.off \in Nat /\ c.len \in Nat
    BY CallAssumption
  <1>3. ASSUME c.op = "open"
        PROVE  /\ c.kind \in {"file", "dir"} /\ c.paths \in Seq(Seq(Names)) /\ Len(c.paths) \in Nat \ {0}
               /\ \A k \in 1 .. Len(c.paths) : c.paths[k] \in Seq(Names) /\ Len(c.paths[k]) <= 2
    <2>1. /\ c.kind \in {"file", "dir"} /\ c.paths \in Seq(Seq(Names)) /\ c.paths # <<>>
          /\ \A k \in 1 .. Len(c.paths) : Len(c.paths[k]) <= 2
      BY <1>3, CallAssumption
    <2> DEFINE q == c.paths
               T == Seq(Names)
    <2>2. q \in Seq(T) /\ q # <<>>
      BY <2>1
    <2> HIDE DEF q, T
    <2>3. Len(q) \in Nat \ {0}
      BY <2>2, EmptySeq, LenProperties
    <2>4. \A k \in 1 .. Len(q) : q[k] \in T
      BY <2>2, ElementOfSeq
    <2> QED BY <2>1, <2>3, <2>4 DEF q, T
  <1> QED BY <1>1, <1>2, <1>3

\* What a read call works on.
LEMMA ReadFacts ==
  ASSUME IInv, pc \in {"lseek", "seek"} \cup Reading, file.open
  PROVE  /\ call \in Calls /\ call # NoCall /\ call.op = "read"
         /\ call.off \in Nat /\ call.len \in Nat /\ ~dir.open
         /\ Named(file.entry) /\ file.entry.kind = "file" /\ file.entry.size \in Nat
         /\ FileChain \in Seq(2 .. (NFat - 1)) /\ Len(FileChain) \in 0 .. NFat
         /\ file.entry.size > 0 => Len(FileChain) > 0
         /\ Target \in Nat /\ Target <= file.entry.size /\ Target <= call.off
         /\ Target = (IF call.off <= file.entry.size THEN call.off ELSE file.entry.size)
  <1>1. call \in Calls /\ call.op = "read"
    BY DEF IInv, CallInv, Reading
  <1>2. call # NoCall /\ call.off \in Nat /\ call.len \in Nat
    BY <1>1, CallFacts
  <1>3. ~dir.open /\ file.entry.kind = "file" /\ Sound(vol, file.entry)
    BY DEF IInv, OpenInv
  <1>4. vol \in Volumes /\ file.entry \in Entries
    BY TypeFacts DEF IInv
  <1>5. Named(file.entry)
    BY <1>3, <1>4 DEF Named
  <1>6. /\ file.entry.size \in Nat
        /\ FileChain \in Seq(2 .. (NFat - 1)) /\ Len(FileChain) \in 0 .. NFat
        /\ file.entry.size > 0 => Len(FileChain) > 0
    BY <1>4, <1>5, NamedIs DEF FileChain
  <1>7. Target = IF call.off <= file.entry.size THEN call.off ELSE file.entry.size
    BY <1>2, <1>6, MinOfTwo DEF Target
  <1>8. Target \in Nat /\ Target <= file.entry.size /\ Target <= call.off
    BY <1>2, <1>6, <1>7
  <1> QED BY <1>1, <1>2, <1>3, <1>5, <1>6, <1>7, <1>8

-----------------------------------------------------------------------------
(* The abstract file API, as the mapping gives it. *)

Opened == IF file.open THEN file.entry ELSE IF dir.open THEN dir.entry ELSE NoEntry

Seen == IF dir.sect = 0 /\ pc # "panic" THEN Len(vol.table[dir.entry.id]) ELSE dir.dptr
Position ==
  IF ~dir.open THEN 0 ELSE Max({0} \cup {p \in Live(vol, dir.entry.id) : p <= Seen})

Failed == pc = "panic" \/ file.err

AbsStep == Abstract!Next \/ UNCHANGED Abstract!vars

\* The abstract API speaks of the same volume.
LEMMA SameMin == \A S : Abstract!Min(S) = Min(S)
  BY Zenon DEF Min, Abstract!Min

LEMMA SameContent == \A v, e : Abstract!Content(v, e) = Content(v, e)
  <1>1. Abstract!Bcs = Bcs /\ Abstract!Database = Database
    BY Zenon DEF Bcs, Abstract!Bcs, Database, Abstract!Database, FatSector, Abstract!FatSector,
                 FatBase, Abstract!FatBase
  <1>2. \A c : Abstract!Clst2Sect(c) = Clst2Sect(c)
    BY <1>1, Zenon DEF Clst2Sect, Abstract!Clst2Sect
  <1> QED BY <1>1, <1>2, SameMin, Zenon DEF Content, Abstract!Content

LEMMA SameLookup ==
  /\ \A v, d : Abstract!Live(v, d) = Live(v, d)
  /\ \A v, p : Abstract!Lookup(v, p) = Lookup(v, p)
  /\ Abstract!NoEntry = NoEntry /\ Abstract!EndEntry = EndEntry
  <1>1. \A v, d : Abstract!Live(v, d) = Live(v, d)
    BY Zenon DEF Live, Abstract!Live
  <1>2. Abstract!NoEntry = NoEntry /\ Abstract!EndEntry = EndEntry
        /\ Abstract!RootEntry = RootEntry /\ Abstract!Root = Root
    BY Zenon DEF NoEntry, Abstract!NoEntry, EndEntry, Abstract!EndEntry,
                 RootEntry, Abstract!RootEntry, Root, Abstract!Root, NoName, Abstract!NoName
  <1>3. \A v, d, n : Abstract!Child(v, d, n) = Child(v, d, n)
    BY <1>1, <1>2, SameMin, Zenon DEF Child, Abstract!Child
  <1>4. \A v, p : Abstract!Lookup(v, p) = Lookup(v, p)
    BY <1>2, <1>3, Zenon DEF Lookup, Abstract!Lookup
  <1> QED BY <1>1, <1>2, <1>4

\* A step inside a call changes nothing a caller sees, but the disk may have failed.
LEMMA InsideCall ==
  ASSUME call # NoCall, UNCHANGED <<vol, call, ret>>, hurt' \in {hurt, TRUE},
         Opened' = Opened, Position' = Position, Failed' = Failed
  PROVE  AbsStep
  <1>1. CASE hurt' = hurt
    BY <1>1 DEF AbsStep, Abstract!vars, Opened, Position, Seen, Failed
  <1>2. CASE hurt' = TRUE
    <2>1. Abstract!DiskFails
      BY <1>2 DEF Abstract!DiskFails, Opened, Position, Seen, Failed
    <2> QED BY <2>1 DEF AbsStep, Abstract!Next
  <1> QED BY <1>1, <1>2

\* A step of f_lseek or f_read that does not end the call.
LEMMA FileStep ==
  ASSUME IInv, pc \in {"lseek", "seek"} \cup Reading, file.open, ~file.err,
         UNCHANGED <<vol, call, ret, dirvars>>,
         file' \in FIL, file'.open = TRUE, file'.err = FALSE, file'.entry = file.entry,
         pc' \in {"seek"} \cup Reading,
         Synced', faults' \in Nat, hurt' \in {hurt, TRUE},
         ofs' \in Nat, btr' \in Nat, xfer' \in Transfers,
         PlaceInv', BufferInv'
  PROVE  IInv' /\ AbsStep
  <1>1. /\ call \in Calls /\ call # NoCall /\ call.op = "read" /\ ~dir.open
        /\ Named(file.entry) /\ file.entry.kind = "file"
    BY ReadFacts
  <1>2. /\ vol \in Volumes /\ dir \in FFDIR /\ hurt \in BOOLEAN
    BY DEF IInv, Types
  <1>3. Types'
    BY <1>2 DEF Types, dirvars, Pcs
  <1>4. CallInv'
    BY <1>1 DEF CallInv, Finding, Listing, Reading, dirvars
  <1>5. OpenInv'
    BY <1>1 DEF OpenInv, Finding, Reading, dirvars, Named
  <1>6. FindInv' /\ ListInv'
    BY <1>1 DEF FindInv, ListInv, Finding, Reading, dirvars
  <1>7. Opened' = Opened /\ Position' = Position /\ Failed' = Failed
    BY <1>1 DEF Opened, Position, Failed, dirvars, Reading
  <1> QED BY <1>1, <1>3, <1>4, <1>5, <1>6, <1>7, InsideCall DEF IInv

-----------------------------------------------------------------------------
(* f_lseek and f_read end. *)

LEMMA ReadReturns ==
  ASSUME IInv, pc \in {"lseek", "seek"} \cup Reading, NEW ok, NEW val, Return(ok, val),
         UNCHANGED <<vol, dir>>,
         file' \in FIL, file'.open = file.open, file'.entry = file.entry, ~file.open => file' = file,
         Synced', faults' \in Nat, hurt' \in {hurt, TRUE}, PlaceInv'
  PROVE  IInv' /\ Opened' = Opened /\ Position' = Position /\ Failed' = file'.err
         /\ call # NoCall /\ call.op = "read"
  <1>1. /\ pc' = "idle" /\ call' = NoCall /\ ofs' = 0 /\ btr' = 0 /\ xfer' = NoXfer /\ got' = <<>>
    BY DEF Return
  <1>2. vol \in Volumes /\ dir \in FFDIR /\ hurt \in BOOLEAN
    BY DEF IInv, Types
  <1>3. Types'
    <2>1. vol' \in Volumes /\ dir' \in FFDIR /\ hurt' \in BOOLEAN
      BY <1>2
    <2>2. xfer' \in Transfers /\ ofs' \in Nat /\ btr' \in Nat
      BY <1>1 DEF NoXfer, Transfers
    <2>3. pc' \in Pcs
      BY <1>1 DEF Pcs
    <2> QED BY <2>1, <2>2, <2>3 DEF Types
  <1>4. CallInv'
    BY <1>1 DEF CallInv, Finding, Listing, Reading
  <1>5. OpenInv'
    BY <1>1 DEF IInv, OpenInv, Finding, Reading
  <1>6. FindInv'
    BY <1>1 DEF FindInv, Finding
  <1>7. ListInv'
    <2>1. AtEntry' <=> AtEntry
      BY DEF AtEntry, Stands
    <2> QED BY <1>1, <2>1 DEF IInv, ListInv, Reading
  <1>8. BufferInv'
    BY <1>1 DEF BufferInv, Reading
  <1>9. Opened' = Opened /\ Position' = Position /\ Failed' = file'.err
    BY <1>1, <1>2 DEF Opened, Position, Seen, Failed, Reading, FIL
  <1>10. call # NoCall /\ call.op = "read"
    BY CallFacts DEF IInv, CallInv, Reading
  <1> QED BY <1>3, <1>4, <1>5, <1>6, <1>7, <1>8, <1>9, <1>10 DEF IInv

\* The bytes of a file.
LEMMA ContentIs ==
  ASSUME vol \in Volumes, NEW e, Named(e)
  PROVE  LET chain == vol.chain[e.id]
             n == IF e.size <= Bcs * Len(chain) THEN e.size ELSE Bcs * Len(chain)
         IN  /\ n \in Nat /\ Bcs * Len(chain) \in Nat
             /\ Len(Content(vol, e)) = n /\ DOMAIN Content(vol, e) = 1 .. n
             /\ \A b \in 1 .. n : Content(vol, e)[b] = Byte(chain, b - 1)
  <1> DEFINE chain == vol.chain[e.id]
             x == Bcs * Len(chain)
             n == IF e.size <= x THEN e.size ELSE x
             C == Content(vol, e)
  <1>1. e.size \in Nat /\ Len(chain) \in Nat
    BY NamedIs
  <1>2. x \in Nat
    <2> DEFINE k == Len(chain)
    <2>1. k \in Nat /\ Bcs \in Nat
      BY <1>1, Geometry
    <2> HIDE DEF k
    <2>2. Bcs * k \in Nat
      BY <2>1
    <2> QED BY <2>2 DEF k
  <1>3. Min({e.size, x}) = n
    <2> HIDE DEF x
    <2> QED BY <1>1, <1>2, MinOfTwo
  <1>4. C = [b \in 1 .. n |-> <<Clst2Sect(chain[1 + ((b - 1) \div Bcs)])
                                + (((b - 1) % Bcs) \div SS), (b - 1) % SS>>]
    BY <1>3 DEF Content
  <1>5. n \in Nat
    BY <1>1, <1>2
  <1> HIDE DEF n, x
  <1>6. DOMAIN C = 1 .. n /\ Len(C) = n
    BY <1>4, <1>5
  <1>7. ASSUME NEW b \in 1 .. n
        PROVE  C[b] = Byte(chain, b - 1)
    <2>1. b - 1 \in Nat
      BY <1>5
    <2> DEFINE m == b - 1
    <2>2. C[b] = <<Clst2Sect(chain[1 + (m \div Bcs)]) + ((m % Bcs) \div SS), m % SS>>
      BY <1>4
    <2> HIDE DEF m
    <2>3. m \div Bcs = (m \div SS) \div CSize /\ (m % Bcs) \div SS = (m \div SS) % CSize
      <3>1. m \in Nat /\ SS \in Nat \ {0} /\ CSize \in Nat \ {0}
        BY <2>1, Geometry DEF m
      <3> QED BY <3>1, DivDiv, ZenonT(40) DEF Bcs
    <2>4. C[b] = Byte(chain, m)
      BY <2>2, <2>3, Zenon DEF Byte, SectorNo
    <2> QED BY <2>4 DEF m
  <1> QED BY <1>2, <1>5, <1>6, <1>7 DEF n, x

\* A byte that was asked for is beyond the end of the chain.
Missing ==
  \/ \E b \in (call.off + 1) .. (call.off + call.len) :
       b <= file.entry.size /\ b > Len(Content(vol, file.entry))
  \/ Target > Len(Content(vol, file.entry))

\* ABORT, for a reason.
LEMMA Aborts ==
  ASSUME IInv, pc \in {"seek"} \cup Reading, Abort, UNCHANGED <<vol, dir>>,
         Synced', faults' \in Nat, hurt' \in {hurt, TRUE}, hurt' = TRUE \/ Missing
  PROVE  IInv' /\ AbsStep
  <1>1. file.open /\ ~file.err /\ file \in FIL
    BY DEF IInv, CallInv, Reading, Types
  <1>2. /\ file' \in FIL /\ file'.open = file.open /\ file'.entry = file.entry /\ file'.err = TRUE
        /\ Return(FALSE, NoValue)
    BY <1>1 DEF Abort, FIL
  <1>3. PlaceInv'
    BY <1>2 DEF PlaceInv
  <1>4. IInv' /\ Opened' = Opened /\ Position' = Position /\ Failed' = TRUE
        /\ call # NoCall /\ call.op = "read"
    BY <1>1, <1>2, <1>3, ReadReturns DEF Reading
  <1>5. Opened = file.entry /\ file.entry.kind = "file"
    BY <1>1 DEF Opened, IInv, OpenInv
  <1>6. call' = NoCall /\ ret' = [ok |-> FALSE, val |-> NoValue]
    BY <1>2 DEF Return
  <1>7. hurt' \/ (\E b \in (call.off + 1) .. (call.off + call.len) :
                    b <= Opened.size /\ ~(b <= Len(Content(vol, Opened))))
              \/ Min({call.off, Opened.size}) > Len(Content(vol, Opened))
    <2>1. CASE hurt' = TRUE
      BY <2>1
    <2>2. CASE Missing
      <3>1. call.off \in Nat /\ call.len \in Nat /\ vol \in Volumes /\ Named(file.entry)
        BY <1>1, ReadFacts, TypeFacts DEF IInv, Reading
      <3>2. Len(Content(vol, file.entry)) \in Nat
        BY <3>1, ContentIs
      <3> QED BY <1>5, <2>2, <3>1, <3>2 DEF Missing, Target
    <2> QED BY <2>1, <2>2
  <1>8. Abstract!Ends("read") /\ Abstract!Returns(FALSE, NoValue)
    BY <1>4, <1>6 DEF Abstract!Ends, Abstract!Returns
  <1>9. hurt' \/ ~Abstract!Held(call) \/ Min({call.off, Opened.size}) > Len(Content(vol, Opened))
    <2>1. CASE hurt' \/ Min({call.off, Opened.size}) > Len(Content(vol, Opened))
      BY <2>1
    <2>2. CASE \E b \in (call.off + 1) .. (call.off + call.len) :
                    b <= Opened.size /\ ~(b <= Len(Content(vol, Opened)))
      <3>1. Abstract!Asked(call) = {b \in (call.off + 1) .. (call.off + call.len) : b <= Opened.size}
        BY Zenon DEF Abstract!Asked, Opened
      <3>2. Abstract!Held(call) = \A b \in Abstract!Asked(call) : b <= Len(Content(vol, Opened))
        BY SameContent, Zenon DEF Abstract!Held, Opened
      <3> QED BY <2>2, <3>1, <3>2, Zenon
    <2> QED BY <1>7, <2>1, <2>2
  <1>10. Abstract!ReturnRead
    <2>1. Failed' = (Failed \/ Opened.kind = "file")
      BY <1>4, <1>5
    <2>2. /\ Opened.kind # "file" \/ Failed \/ hurt' \/ ~Abstract!Held(call)
               \/ Min({call.off, Opened.size}) > Len(Content(vol, Opened))
          /\ Abstract!Returns(FALSE, NoValue)
          /\ UNCHANGED <<vol, Opened, Position>>
      BY <1>4, <1>8, <1>9
    <2> QED BY <1>8, <2>1, <2>2, SameContent, SameMin, Zenon
            DEF Abstract!ReturnRead, Opened, Position, Seen, Failed
  <1> QED BY <1>4, <1>10 DEF AbsStep, Abstract!Next

LEMMA LseekRefusedStep ==
  ASSUME IInv, LseekRefused
  PROVE  IInv' /\ AbsStep
  <1>1. /\ pc = "lseek" /\ (~file.open \/ file.err) /\ Return(FALSE, NoValue)
        /\ file' = file /\ UNCHANGED <<vol, dir>> /\ UNCHANGED <<winsect, win, faults, hurt>>
    BY DEF LseekRefused, window
  <1>2. file \in FIL /\ Synced /\ faults \in Nat /\ ~file.open => file = Closed
    BY DEF IInv, Types, OpenInv
  <1>3. file' \in FIL /\ Synced' /\ faults' \in Nat /\ hurt' \in {hurt, TRUE}
    BY <1>1 DEF IInv, Types, Synced
  <1>4. PlaceInv'
    BY <1>1 DEF PlaceInv
  <1>5. IInv' /\ Opened' = Opened /\ Position' = Position /\ Failed' = file'.err
        /\ call # NoCall /\ call.op = "read"
    BY <1>1, <1>3, <1>4, ReadReturns
  <1>6. call' = NoCall /\ ret' = [ok |-> FALSE, val |-> NoValue]
    BY <1>1 DEF Return
  <1>7. Abstract!Ends("read") /\ Abstract!Returns(FALSE, NoValue)
    BY <1>3, <1>5, <1>6 DEF Abstract!Ends, Abstract!Returns
  <1>8. /\ Opened.kind # "file" \/ Failed
        /\ Failed' = (Failed \/ Opened.kind = "file")
    <2>1. CASE file.open
      BY <1>1, <1>5, <2>1 DEF Failed
    <2>2. CASE ~file.open
      <3>1. file = Closed
        BY <2>2 DEF IInv, OpenInv
      <3>2. Opened.kind # "file"
        BY <2>2 DEF IInv, OpenInv, Opened, NoEntry
      <3> QED BY <1>1, <1>5, <3>1, <3>2 DEF Failed, Closed
    <2> QED BY <2>1, <2>2
  <1>9. UNCHANGED <<vol, Opened, Position>>
    BY <1>1, <1>5
  <1>10. Abstract!ReturnRead
    BY <1>7, <1>8, <1>9, Zenon DEF Abstract!ReturnRead, Opened, Position, Seen, Failed
  <1> QED BY <1>5, <1>10 DEF AbsStep, Abstract!Next

LEMMA SubSeqIs ==
  ASSUME NEW S, NEW g \in Seq(S), NEW C, NEW o \in Nat, NEW e \in Int,
         Len(g) = IF o < e THEN e - o ELSE 0,
         \A i \in 1 .. Len(g) : C[o + i] = g[i]
  PROVE  SubSeq(C, o + 1, e) = g
  <1>1. Len(g) \in Nat /\ \A i \in 1 .. Len(g) : g[i] \in S
    BY LenProperties, ElementOfSeq
  <1>2. CASE ~(o < e)
    <2>1. o + 1 \in Int /\ e < o + 1 /\ Len(g) = 0
      BY <1>2
    <2>2. g = <<>>
      BY <2>1, EmptySeq
    <2> QED BY <2>1, <2>2, SubSeqEmpty
  <1>3. CASE o < e
    <2> DEFINE m == o + 1
               h == SubSeq(C, m, e)
    <2>1. m \in Int /\ m <= e /\ Len(g) = e - o
      BY <1>3
    <2>2. ASSUME NEW i \in m .. e
          PROVE  C[i] \in S
      <3>1. i - o \in 1 .. Len(g) /\ o + (i - o) = i
        BY <2>1
      <3> QED BY <1>1, <3>1
    <2>3. /\ h \in Seq(S) /\ Len(h) = (e - m) + 1
          /\ \A i \in 1 .. ((e - m) + 1) : h[i] = C[m + (i - 1)]
      <3> HIDE DEF m
      <3> QED BY <2>1, <2>2, SubSeqProperties
    <2>4. Len(h) = Len(g)
      BY <2>1, <2>3
    <2>5. ASSUME NEW i \in 1 .. Len(h)
          PROVE  h[i] = g[i]
      <3>1. i \in 1 .. ((e - m) + 1) /\ m + (i - 1) = o + i /\ i \in 1 .. Len(g)
        BY <2>1, <2>3, <2>4
      <3> QED BY <2>3, <3>1
    <2> QED BY <2>3, <2>4, <2>5, SeqEqual
  <1> QED BY <1>2, <1>3

LEMMA ReadDoneStep ==
  ASSUME IInv, ReadDone
  PROVE  IInv' /\ AbsStep
  <1>1. /\ pc = "read" /\ btr = 0 /\ Return(TRUE, got)
        /\ file' = file /\ UNCHANGED <<vol, dir>> /\ UNCHANGED <<winsect, win, faults, hurt>>
    BY DEF ReadDone, window
  <1>2. file.open /\ ~file.err
    BY <1>1 DEF IInv, CallInv, Reading
  <1>3. file' \in FIL /\ Synced' /\ faults' \in Nat /\ hurt' \in {hurt, TRUE}
    BY <1>1 DEF IInv, Types, Synced
  <1>4. Resting
    BY <1>1, <1>2 DEF IInv, PlaceInv
  <1>5. PlaceInv'
    <2>1. pc' = "idle"
      BY <1>1 DEF Return
    <2>2. Resting'
      BY <1>1, <1>4 DEF Resting, FileChain, Sector
    <2> QED BY <2>1, <2>2 DEF PlaceInv
  <1>6. IInv' /\ Opened' = Opened /\ Position' = Position /\ Failed' = file'.err
        /\ call # NoCall /\ call.op = "read"
    BY <1>1, <1>2, <1>3, <1>5, ReadReturns DEF Reading
  <1>7. call' = NoCall /\ ret' = [ok |-> TRUE, val |-> got]
    BY <1>1 DEF Return
  <1>8. Abstract!Ends("read") /\ Abstract!Returns(TRUE, got)
    BY <1>3, <1>6, <1>7 DEF Abstract!Ends, Abstract!Returns
  <1>9. Opened = file.entry /\ Opened.kind = "file" /\ ~Failed /\ Failed' = Failed
    BY <1>1, <1>2, <1>6 DEF Opened, Failed, IInv, OpenInv
  <1> DEFINE C == Content(vol, file.entry)
             size == file.entry.size
             n == Len(C)
             end == IF call.off + call.len <= size THEN call.off + call.len ELSE size
  <1>10. /\ call.off \in Nat /\ call.len \in Nat /\ Named(file.entry) /\ size \in Nat
         /\ FileChain \in Seq(2 .. (NFat - 1)) /\ Len(FileChain) \in Nat
         /\ Target \in Nat /\ Target <= size
         /\ Target = (IF call.off <= size THEN call.off ELSE size)
         /\ vol \in Volumes /\ file.fptr \in Nat
    BY <1>1, <1>2, ReadFacts, TypeFacts DEF IInv, Reading
  <1>11. n \in Nat /\ DOMAIN C = 1 .. n /\ (\A b \in 1 .. n : C[b] = Byte(FileChain, b - 1))
         /\ n = (IF size <= Bcs * Len(FileChain) THEN size ELSE Bcs * Len(FileChain))
         /\ Bcs * Len(FileChain) \in Nat
    BY <1>10, ContentIs DEF FileChain
  <1>12. /\ Target <= file.fptr /\ got \in Seq(Int \X Int) /\ Len(got) = file.fptr - Target
         /\ \A i \in 1 .. Len(got) : got[i] = Byte(FileChain, (Target + i) - 1)
         /\ file.fptr = Target + (IF call.len <= size - Target THEN call.len ELSE size - Target)
    <2>1. /\ Target <= file.fptr /\ got \in Seq(Int \X Int) /\ Len(got) = file.fptr - Target
          /\ \A i \in 1 .. Len(got) : got[i] = Byte(FileChain, (Target + i) - 1)
          /\ file.fptr + btr = Target + Min({call.len, size - Target})
      BY <1>1 DEF IInv, BufferInv, Reading
    <2>2. Min({call.len, size - Target})
            = IF call.len <= size - Target THEN call.len ELSE size - Target
      BY <1>10, MinOfTwo
    <2> QED BY <1>1, <1>10, <2>1, <2>2
  <1>13. file.fptr <= n
    <2>1. file.fptr <= size
      BY <1>4 DEF Resting
    <2>2. file.fptr <= Bcs * Len(FileChain)
      <3>1. CASE file.fptr = 0
        BY <1>11, <3>1
      <3>2. CASE file.fptr > 0
        <4> DEFINE m == file.fptr - 1
                   q == m \div Bcs
        <4>1. m \in Nat
          BY <1>10, <3>2
        <4>2. q < Len(FileChain)
          BY <1>4, <3>2, <4>1, BytePlace DEF Resting, On
        <4>3. m = Bcs * q + (m % Bcs) /\ q \in Nat /\ m % Bcs \in 0 .. (Bcs - 1)
          BY <4>1, Geometry, DivMod
        <4> HIDE DEF m, q
        <4>4. Bcs * q + Bcs <= Bcs * Len(FileChain)
          <5> DEFINE k == Len(FileChain)
          <5>1. k \in Nat /\ q + 1 <= k
            BY <1>10, <4>2, <4>3
          <5> HIDE DEF k
          <5>2. Bcs * (q + 1) <= Bcs * k
            BY <4>3, <5>1, Geometry, SMT
          <5>3. Bcs * (q + 1) = Bcs * q + Bcs
            BY <4>3, Geometry, SMT
          <5> QED BY <5>2, <5>3 DEF k
        <4>5. m < Bcs * Len(FileChain)
          <5> DEFINE x == Bcs * q
                     y == Bcs * Len(FileChain)
          <5>1. x \in Int /\ y \in Int /\ m = x + (m % Bcs) /\ x + Bcs <= y /\ Bcs \in Nat
            BY <1>11, <4>3, <4>4, Geometry
          <5> HIDE DEF x, y
          <5>2. m < y
            BY <4>3, <5>1
          <5> QED BY <5>2 DEF y
        <4> QED BY <1>10, <1>11, <4>5 DEF m
      <3> QED BY <1>10, <3>1, <3>2
    <2> QED BY <1>10, <1>11, <2>1, <2>2
  <1> HIDE DEF C, n, size
  <1>14. \A b \in (call.off + 1) .. (call.off + call.len) : b <= size => b <= n
    <2> SUFFICES ASSUME NEW b \in (call.off + 1) .. (call.off + call.len), b <= size
                 PROVE  b <= n
      OBVIOUS
    <2>1. b <= file.fptr
      BY <1>10, <1>12
    <2> QED BY <1>10, <1>11, <1>13, <2>1
  <1>15. SubSeq(C, call.off + 1, end) = got
    <2>1. Len(got) \in Nat
      BY <1>12, LenProperties
    <2> DEFINE o == call.off
               l == call.len
               f == file.fptr
               g == Target
               k == Len(got)
    <2>2. /\ o \in Nat /\ l \in Nat /\ size \in Nat /\ f \in Nat /\ g \in Nat /\ k \in Nat /\ n \in Nat
          /\ g = (IF o <= size THEN o ELSE size) /\ g <= f /\ k = f - g /\ f <= n
          /\ f = g + (IF l <= size - g THEN l ELSE size - g)
          /\ end = (IF o + l <= size THEN o + l ELSE size)
      BY <1>10, <1>11, <1>12, <1>13, <2>1
    <2> HIDE DEF o, l, f, g, k, end
    <2>3. /\ end \in Int /\ k = (IF o < end THEN end - o ELSE 0)
          /\ k > 0 => g = o
      BY <2>2
    <2>4. ASSUME NEW i \in 1 .. Len(got)
          PROVE  C[call.off + i] = got[i]
      <3>1. Target = call.off
        BY <2>1, <2>3 DEF g, o, k
      <3>2. Target + i \in 1 .. n
        <4>1. i \in 1 .. k
          BY DEF k
        <4>2. g + i \in 1 .. n
          BY <2>2, <4>1
        <4> QED BY <4>2 DEF g
      <3>3. C[Target + i] = Byte(FileChain, (Target + i) - 1)
        BY <1>11, <3>2, Zenon
      <3> QED BY <1>12, <3>1, <3>3, Zenon
    <2>5. got \in Seq(Int \X Int) /\ o \in Nat /\ end \in Int
      BY <1>12, <2>2, <2>3
    <2>6. Len(got) = (IF o < end THEN end - o ELSE 0)
      BY <2>3 DEF k
    <2>7. \A i \in 1 .. Len(got) : C[o + i] = got[i]
      BY <2>4, Zenon DEF o
    <2>8. SubSeq(C, o + 1, end) = got
      BY <2>5, <2>6, <2>7, SubSeqIs
    <2> QED BY <2>8 DEF o
  <1>16. Abstract!Held(call)
    <2>1. Abstract!Asked(call) = {b \in (call.off + 1) .. (call.off + call.len) : b <= Opened.size}
      BY Zenon DEF Abstract!Asked, Opened
    <2>2. Abstract!Held(call) = \A b \in Abstract!Asked(call) : b <= Len(Content(vol, Opened))
      BY SameContent, Zenon DEF Abstract!Held, Opened
    <2> QED BY <1>9, <1>14, <2>1, <2>2, Zenon DEF n, C, size
  <1>17. Min({call.off + call.len, Opened.size}) = end
    <2>1. call.off + call.len \in Int /\ size \in Int /\ Opened.size = size
      BY <1>9, <1>10 DEF size
    <2> QED BY <2>1, MinOfTwo
  <1>18. UNCHANGED <<vol, Opened, Position>>
    BY <1>1, <1>6
  <1>19. Abstract!Returns(TRUE, SubSeq(Content(vol, Opened), call.off + 1,
                                       Min({call.off + call.len, Opened.size})))
    BY <1>8, <1>9, <1>15, <1>17, Zenon DEF C
  <1>20. Abstract!ReturnRead
    BY <1>8, <1>9, <1>16, <1>18, <1>19, SameContent, SameMin, Zenon
       DEF Abstract!ReturnRead, Opened, Position, Seen, Failed
  <1> QED BY <1>6, <1>20 DEF AbsStep, Abstract!Next

-----------------------------------------------------------------------------
(* f_lseek. *)

LEMMA LseekStartStep ==
  ASSUME IInv, LseekStart
  PROVE  IInv' /\ AbsStep
  <1> DEFINE p == file.fptr
             base == ((p - 1) \div Bcs) * Bcs
             near == Target > 0 /\ p > 0 /\ (Target - 1) \div Bcs >= (p - 1) \div Bcs
  <1>1. /\ pc = "lseek" /\ file.open /\ ~file.err /\ pc' = "seek"
        /\ UNCHANGED <<vol, call, ret, btr, xfer, got, dirvars>>
        /\ UNCHANGED <<winsect, win, faults, hurt>>
    BY DEF LseekStart, window
  <1>2. /\ near => file' = [file EXCEPT !.fptr = base] /\ ofs' = Target - base
        /\ ~near => /\ file' = [file EXCEPT !.fptr = 0,
                                  !.clust = IF Target > 0 THEN First(vol, file.entry.id) ELSE file.clust]
                    /\ ofs' = Target
    BY DEF LseekStart
  <1>3. /\ Named(file.entry) /\ file.entry.size \in Nat /\ Target \in Nat /\ Target <= file.entry.size
        /\ FileChain \in Seq(2 .. (NFat - 1)) /\ (file.entry.size > 0 => Len(FileChain) > 0)
        /\ Len(FileChain) \in 0 .. NFat
    BY <1>1, ReadFacts
  <1>4. /\ file \in FIL /\ p \in Nat /\ file.clust \in Int /\ btr \in Nat /\ xfer \in Transfers
        /\ faults \in Nat /\ Synced
    BY TypeFacts DEF IInv, Types
  <1>5. Resting /\ got = <<>>
    BY <1>1 DEF IInv, PlaceInv, BufferInv, Reading
  <1>6. Synced' /\ faults' \in Nat /\ hurt' \in {hurt, TRUE} /\ btr' \in Nat /\ xfer' \in Transfers
    BY <1>1, <1>4 DEF Synced
  <1>7. BufferInv'
    BY <1>1, <1>5 DEF BufferInv, Reading
  <1>8. CASE near
    <2> HIDE DEF near
    <2>1. p \in Nat \ {0} /\ Target \in Nat \ {0} /\ (Target - 1) \div Bcs >= (p - 1) \div Bcs
      BY <1>3, <1>4, <1>8 DEF near
    <2>2. /\ base \in Nat /\ base % Bcs = 0 /\ Target - base \in Nat \ {0}
          /\ (base \div SS) \div CSize = ((p - 1) \div SS) \div CSize
      BY <2>1, SeekBase
    <2> HIDE DEF base
    <2>3. /\ file' \in FIL /\ file'.open = TRUE /\ file'.err = FALSE /\ file'.entry = file.entry
          /\ file'.fptr = base /\ file'.clust = file.clust /\ ofs' = Target - base
      BY <1>1, <1>2, <1>4, <1>8, <2>2 DEF FIL
    <2>4. On(FileChain, (p - 1) \div SS, file.clust)
      BY <1>5, <2>1 DEF Resting
    <2>5. On(FileChain, base \div SS, file.clust)
      BY <2>2, <2>4, Zenon DEF On
    <2>6. FileChain' = FileChain /\ Target' = Target /\ Sector' = base \div SS
      BY <1>1, <2>3 DEF FileChain, Target, Sector
    <2>7. base + (Target - base) = Target
      BY <1>3, <2>2
    <2>8. Seeking'
      BY <2>2, <2>3, <2>5, <2>6, <2>7 DEF Seeking
    <2>9. PlaceInv'
      BY <1>1, <2>8 DEF PlaceInv
    <2> QED BY <1>1, <1>6, <1>7, <2>2, <2>3, <2>9, FileStep
  <1>9. CASE ~near
    <2> HIDE DEF near
    <2> DEFINE c == IF Target > 0 THEN First(vol, file.entry.id) ELSE file.clust
    <2>1. Target > 0 => /\ c = FileChain[1] /\ c \in 2 .. (NFat - 1) /\ Len(FileChain) > 0
      <3> SUFFICES ASSUME Target > 0
                   PROVE  c = FileChain[1] /\ c \in 2 .. (NFat - 1) /\ Len(FileChain) > 0
        OBVIOUS
      <3>1. Len(FileChain) > 0
        BY <1>3
      <3>2. 1 \in 1 .. Len(FileChain) /\ FileChain # <<>>
        BY <1>3, <3>1
      <3>3. FileChain[1] \in 2 .. (NFat - 1)
        BY <1>3, <3>2, ElementOfSeq
      <3>4. First(vol, file.entry.id) = FileChain[1]
        BY <3>2 DEF First, FileChain
      <3> QED BY <3>1, <3>3, <3>4
    <2>2. c \in Int
      BY <1>4, <2>1
    <2>3. /\ file' \in FIL /\ file'.open = TRUE /\ file'.err = FALSE /\ file'.entry = file.entry
          /\ file'.fptr = 0 /\ file'.clust = c /\ ofs' = Target
      <3>1. file' = [file EXCEPT !.fptr = 0, !.clust = c] /\ ofs' = Target
        BY <1>2, <1>9, Zenon
      <3>2. 0 \in Nat
        OBVIOUS
      <3> HIDE DEF c
      <3> QED BY <1>1, <1>4, <2>2, <3>1, <3>2 DEF FIL
    <2> HIDE DEF c
    <2>4. FileChain' = FileChain /\ Target' = Target /\ Sector' = 0 \div SS
      BY <1>1, <2>3 DEF FileChain, Target, Sector
    <2>5. 0 % Bcs = 0 /\ 0 \div SS = 0 /\ 0 \div CSize = 0
      BY Geometry, SMT
    <2>6. Target > 0 => On(FileChain, 0, c)
      BY <2>1, <2>5 DEF On
    <2>7. Seeking'
      BY <1>3, <2>3, <2>4, <2>5, <2>6 DEF Seeking
    <2>8. PlaceInv'
      BY <1>1, <2>7 DEF PlaceInv
    <2> QED BY <1>1, <1>3, <1>6, <1>7, <2>3, <2>8, FileStep
  <1> QED BY <1>8, <1>9

LEMMA SeekClusterStep ==
  ASSUME IInv, SeekCluster
  PROVE  IInv' /\ AbsStep
  <1> DEFINE p == file.fptr
             e == file.entry
             t == p \div SS
             n == Len(FileChain)
  <1>1. /\ pc = "seek" /\ ofs > Bcs /\ UNCHANGED <<vol, dir>>
    BY DEF SeekCluster
  <1>2. PICK v \in FatValues :
          /\ GetFat(e, file.clust, v)
          /\ IF v \in 2 .. (NFat - 1)
             THEN /\ file' = [file EXCEPT !.fptr = @ + Bcs, !.clust = v]
                  /\ ofs' = ofs - Bcs
                  /\ UNCHANGED <<pc, call, ret, btr, xfer, got, path, alts>>
             ELSE Abort
    BY DEF SeekCluster
  <1>3. file.open /\ ~file.err
    BY <1>1 DEF IInv, CallInv
  <1>4. /\ Named(e) /\ e.size \in Nat /\ Target \in Nat /\ Target <= e.size
        /\ FileChain \in Seq(2 .. (NFat - 1)) /\ n \in 0 .. NFat
    BY <1>1, <1>3, ReadFacts
  <1>5. /\ file \in FIL /\ p \in Nat /\ ofs \in Nat /\ btr \in Nat /\ xfer \in Transfers
        /\ faults \in Nat /\ Synced /\ vol \in Volumes
    BY TypeFacts DEF IInv, Types
  <1>6. p % Bcs = 0 /\ p + ofs = Target /\ Bcs \in Nat \ {0} /\ On(FileChain, t, file.clust)
    <2>1. Seeking
      BY <1>1, <1>3 DEF IInv, PlaceInv
    <2>2. Bcs \in Nat \ {0}
      BY Geometry
    <2>3. p + ofs = Target /\ Target > 0
      BY <1>1, <1>5, <2>1, <2>2 DEF Seeking
    <2> QED BY <2>1, <2>2, <2>3, Zenon DEF Seeking, Sector
  <1>7. t \in Nat
    BY <1>5, BytePlace
  <1>8. /\ Synced' /\ faults' \in Nat /\ hurt' \in {hurt, TRUE}
        /\ \/ /\ hurt' = hurt /\ v \in 2 .. (NFat - 1)
              /\ (t \div CSize) + 1 < n /\ v = FileChain[(t \div CSize) + 2]
           \/ hurt' = hurt /\ v = EOC /\ (t \div CSize) + 1 = n
           \/ hurt' = TRUE /\ v = DiskErr
    <2> HIDE DEF t, e
    <2>1. On(vol.chain[e.id], t, file.clust) /\ GetFat(e, file.clust, v) /\ FileChain = vol.chain[e.id]
      BY <1>2, <1>6 DEF FileChain, e
    <2>2. FatGives(vol.chain[e.id], t, v)
      BY <1>4, <1>5, <1>7, <2>1, GetFatIs
    <2> QED BY <2>1, <2>2, Zenon DEF FatGives
  <1>9. EOC \notin 2 .. (NFat - 1) /\ DiskErr \notin 2 .. (NFat - 1)
    BY Geometry
  <1>10. CASE v \in 2 .. (NFat - 1)
    <2>1. (t \div CSize) + 1 < n /\ v = FileChain[(t \div CSize) + 2]
      BY <1>8, <1>9, <1>10
    <2>2. /\ file' = [file EXCEPT !.fptr = @ + Bcs, !.clust = v]
          /\ ofs' = ofs - Bcs
          /\ UNCHANGED <<pc, call, ret, btr, xfer, got, path, alts>>
      BY <1>2, <1>10
    <2>3. /\ file' \in FIL /\ file'.open = TRUE /\ file'.err = FALSE /\ file'.entry = e
          /\ file'.fptr = p + Bcs /\ file'.clust = v
      <3>1. v \in Int /\ p + Bcs \in Nat
        BY <1>5, <1>6, <1>10
      <3>2. file' = [file EXCEPT !.fptr = p + Bcs, !.clust = v]
        BY <2>2
      <3> HIDE DEF p
      <3>3. file'.fptr = p + Bcs
        BY <1>5, <3>2 DEF FIL
      <3> QED BY <1>3, <1>5, <3>1, <3>2, <3>3 DEF FIL
    <2>4. /\ (p + Bcs) % Bcs = 0
          /\ ((p + Bcs) \div SS) \div CSize = (t \div CSize) + 1
      BY <1>5, <1>6, SeekOn
    <2>5. t \div CSize \in Nat
      BY <1>7, Geometry, DivMod
    <2>6. FileChain' = FileChain /\ Target' = Target /\ Sector' = (p + Bcs) \div SS
      BY <1>1, <2>2, <2>3 DEF FileChain, Target, Sector
    <2> HIDE DEF t
    <2>7. On(FileChain, (p + Bcs) \div SS, v)
      <3> DEFINE u == t \div CSize
      <3>1. 1 + (u + 1) = u + 2
        BY <2>5
      <3> HIDE DEF u
      <3>2. u + 1 < n /\ v = FileChain[1 + (u + 1)] /\ ((p + Bcs) \div SS) \div CSize = u + 1
        BY <2>1, <2>4, <3>1, Zenon DEF u
      <3> QED BY <3>2, Zenon DEF On
    <2>8. ofs' \in Nat /\ ofs' > 0 /\ (p + Bcs) + ofs' = Target
      BY <1>1, <1>5, <1>6, <2>2
    <2>9. Seeking'
      BY <2>3, <2>4, <2>6, <2>7, <2>8 DEF Seeking
    <2>10. PlaceInv'
      BY <1>1, <2>2, <2>9 DEF PlaceInv
    <2>11. got = <<>>
      BY <1>1 DEF IInv, BufferInv, Reading
    <2>12. BufferInv'
      BY <1>1, <2>2, <2>11 DEF BufferInv, Reading
    <2>13. UNCHANGED <<vol, call, ret, dirvars>> /\ pc' = "seek" /\ btr' \in Nat /\ xfer' \in Transfers
      BY <1>1, <1>5, <2>2 DEF dirvars
    <2> QED BY <1>1, <1>3, <1>8, <2>3, <2>8, <2>10, <2>12, <2>13, FileStep
  <1>11. CASE ~(v \in 2 .. (NFat - 1))
    <2>1. Abort
      BY <1>2, <1>11
    <2>2. hurt' = TRUE \/ Missing
      <3> SUFFICES ASSUME (t \div CSize) + 1 = n
                   PROVE  Missing
        BY <1>8, <1>11
      <3>1. Len(Content(vol, e)) <= Bcs * n /\ Len(Content(vol, e)) \in Nat /\ Bcs * n \in Nat
        BY <1>4, <1>5, ContentIs DEF FileChain
      <3>2. p \div Bcs = t \div CSize
        BY <1>5, BytePlace
      <3>3. p = Bcs * (p \div Bcs) /\ p \div Bcs \in Nat
        <4>1. p = Bcs * (p \div Bcs) + (p % Bcs) /\ p \div Bcs \in Nat
          BY <1>5, <1>6, DivMod
        <4>2. Bcs * (p \div Bcs) \in Int
          BY <1>6, <4>1
        <4> QED BY <1>6, <4>1, <4>2
      <3>4. p + Bcs = Bcs * n
        <4> DEFINE q == p \div Bcs
        <4>1. q \in Nat /\ p = Bcs * q /\ q + 1 = n
          BY <3>2, <3>3
        <4> HIDE DEF q, n
        <4>2. Bcs * (q + 1) = Bcs * q + Bcs
          BY <1>6, <4>1, SMT
        <4> QED BY <4>1, <4>2
      <3>5. Target > p + Bcs
        BY <1>1, <1>5, <1>6
      <3>6. Target > Len(Content(vol, e))
        BY <1>4, <1>5, <1>6, <3>1, <3>4, <3>5
      <3> QED BY <3>6 DEF Missing
    <2> QED BY <1>1, <1>8, <2>1, <2>2, Aborts
  <1> QED BY <1>10, <1>11

LEMMA SeekEndStep ==
  ASSUME IInv, SeekEnd
  PROVE  IInv' /\ AbsStep
  <1> DEFINE p == file.fptr
             e == file.entry
             s == IF ofs % SS = 0 THEN file.sect ELSE Clst2Sect(file.clust) + (ofs \div SS)
  <1>1. /\ pc = "seek" /\ ofs <= Bcs /\ ofs' = 0 /\ pc' = "read"
        /\ file' = [file EXCEPT !.fptr = p + ofs, !.sect = s]
        /\ btr' = Min({call.len, e.size - file'.fptr})
        /\ UNCHANGED <<vol, call, ret, xfer, got, dirvars>>
        /\ UNCHANGED <<winsect, win, faults, hurt>>
    BY DEF SeekEnd, window
  <1>2. file.open /\ ~file.err
    BY <1>1 DEF IInv, CallInv
  <1>3. /\ Named(e) /\ e.size \in Nat /\ Target \in Nat /\ Target <= e.size /\ call.len \in Nat
        /\ FileChain \in Seq(2 .. (NFat - 1)) /\ Len(FileChain) \in 0 .. NFat
    BY <1>1, <1>2, ReadFacts
  <1>4. /\ file \in FIL /\ p \in Nat /\ ofs \in Nat /\ file.sect \in Int /\ xfer \in Transfers
        /\ faults \in Nat /\ Synced /\ vol \in Volumes
    BY TypeFacts DEF IInv, Types
  <1>5. p % Bcs = 0 /\ p + ofs = Target /\ (Target > 0 => ofs > 0 /\ On(FileChain, p \div SS, file.clust))
    <2>1. Seeking
      BY <1>1, <1>2 DEF IInv, PlaceInv
    <2> QED BY <2>1 DEF Seeking, Sector
  <1>6. Bcs \in Nat \ {0}
    BY Geometry
  <1>7. ofs > 0 =>
          /\ On(FileChain, (Target - 1) \div SS, file.clust)
          /\ Target % SS = ofs % SS
          /\ ofs % SS # 0 => /\ Clst2Sect(file.clust) + (ofs \div SS) = SectorNo(FileChain, Target \div SS)
                             /\ Clst2Sect(file.clust) + (ofs \div SS) \in Int
    <2> SUFFICES ASSUME ofs > 0
                 PROVE  /\ On(FileChain, (Target - 1) \div SS, file.clust)
                        /\ Target % SS = ofs % SS
                        /\ ofs % SS # 0 =>
                             /\ Clst2Sect(file.clust) + (ofs \div SS) = SectorNo(FileChain, Target \div SS)
                             /\ Clst2Sect(file.clust) + (ofs \div SS) \in Int
      OBVIOUS
    <2>1. ofs \in 1 .. Bcs /\ On(FileChain, p \div SS, file.clust)
      BY <1>1, <1>4, <1>5, <1>6
    <2>2. /\ (((p + ofs) - 1) \div SS) \div CSize = (p \div SS) \div CSize
          /\ (p + ofs) % SS = ofs % SS
          /\ ofs % SS # 0 => /\ ((p + ofs) \div SS) \div CSize = (p \div SS) \div CSize
                             /\ ((p + ofs) \div SS) % CSize = ofs \div SS
      BY <1>4, <1>5, <2>1, SeekLands
    <2>3. /\ ((Target - 1) \div SS) \div CSize = (p \div SS) \div CSize
          /\ Target % SS = ofs % SS
          /\ ofs % SS # 0 => /\ (Target \div SS) \div CSize = (p \div SS) \div CSize
                             /\ (Target \div SS) % CSize = ofs \div SS
      BY <1>5, <2>2, Zenon
    <2>4. On(FileChain, (Target - 1) \div SS, file.clust)
      BY <2>1, <2>3, Zenon DEF On
    <2>5. ASSUME ofs % SS # 0
          PROVE  /\ Clst2Sect(file.clust) + (ofs \div SS) = SectorNo(FileChain, Target \div SS)
                 /\ Clst2Sect(file.clust) + (ofs \div SS) \in Int
      <3> DEFINE t == Target \div SS
      <3>1. t \in Nat
        BY <1>3, BytePlace
      <3>2. On(FileChain, t, file.clust) /\ t % CSize = ofs \div SS
        BY <2>1, <2>3, <2>5, Zenon DEF On
      <3> HIDE DEF t
      <3>3. SectorNo(FileChain, t) = Clst2Sect(file.clust) + (t % CSize) /\ SectorNo(FileChain, t) \in Nat
        BY <1>3, <3>1, <3>2, SectorIs
      <3>4. Clst2Sect(file.clust) + (ofs \div SS) = SectorNo(FileChain, t)
        BY <3>2, <3>3, Zenon
      <3>5. Clst2Sect(file.clust) + (ofs \div SS) \in Int
        BY <3>3, <3>4
      <3> QED BY <3>4, <3>5 DEF t
    <2> QED BY <2>3, <2>4, <2>5
  <1>8. ofs = 0 => Target = 0 /\ Target % SS = 0 /\ ofs % SS = 0
    <2>1. 0 % SS = 0
      BY Geometry, SMT
    <2> QED BY <1>3, <1>4, <1>5, <2>1
  <1>9. s \in Int /\ (Target % SS # 0 => s = SectorNo(FileChain, Target \div SS))
    <2>1. CASE ofs > 0
      BY <1>4, <1>7, <2>1
    <2>2. CASE ofs = 0
      BY <1>4, <1>8, <2>2
    <2> QED BY <1>4, <2>1, <2>2
  <1> HIDE DEF s
  <1>10. /\ file' \in FIL /\ file'.open = TRUE /\ file'.err = FALSE /\ file'.entry = e
         /\ file'.fptr = Target /\ file'.clust = file.clust /\ file'.sect = s
    <2>1. file' = [file EXCEPT !.fptr = Target, !.sect = s]
      BY <1>1, <1>5
    <2> QED BY <1>2, <1>3, <1>4, <1>9, <2>1 DEF FIL
  <1>11. FileChain' = FileChain /\ Target' = Target /\ Sector' = Target \div SS
    BY <1>1, <1>10 DEF FileChain, Target, Sector
  <1>12. Target > 0 => On(FileChain, (Target - 1) \div SS, file.clust)
    BY <1>5, <1>7
  <1>13. Resting'
    BY <1>3, <1>9, <1>10, <1>11, <1>12, Zenon DEF Resting
  <1>14. PlaceInv'
    BY <1>1, <1>13 DEF PlaceInv
  <1>15. got = <<>>
    BY <1>1 DEF IInv, BufferInv, Reading
  <1>16. btr' = Min({call.len, e.size - Target}) /\ btr' \in Nat
    <2>1. btr' = Min({call.len, e.size - Target})
      BY <1>1, <1>10
    <2>2. e.size - Target \in Int /\ call.len \in Int
      BY <1>3
    <2>3. Min({call.len, e.size - Target}) = IF call.len <= e.size - Target THEN call.len ELSE e.size - Target
      BY <2>2, MinOfTwo
    <2> QED BY <1>3, <2>1, <2>3
  <1>17. BufferInv'
    <2>1. got' = <<>> /\ Len(got') = 0 /\ got' \in Seq(Int \X Int)
      BY <1>1, <1>15
    <2>2. \A i \in 1 .. Len(got') : got'[i] = Byte(FileChain', (Target' + i) - 1)
      BY <2>1
    <2>3. Target' <= file'.fptr /\ Len(got') = file'.fptr - Target'
      BY <1>3, <1>10, <1>11, <2>1
    <2>4. file'.fptr + btr' = Target' + Min({call'.len, file'.entry.size - Target'})
      BY <1>1, <1>10, <1>11, <1>16
    <2> QED BY <1>1, <2>1, <2>2, <2>3, <2>4 DEF BufferInv, Reading
  <1>18. Synced' /\ faults' \in Nat /\ hurt' \in {hurt, TRUE} /\ ofs' \in Nat /\ xfer' \in Transfers
    BY <1>1, <1>4 DEF Synced
  <1> QED BY <1>1, <1>2, <1>10, <1>14, <1>16, <1>17, <1>18, FileStep DEF Reading

-----------------------------------------------------------------------------
(* f_read. *)

\* What f_read works on.
LEMMA ReadingFacts ==
  ASSUME IInv, pc \in Reading
  PROVE  /\ file.open /\ ~file.err /\ file \in FIL /\ file.open = TRUE /\ file.err = FALSE
         /\ Named(file.entry) /\ file.entry.size \in Nat /\ vol \in Volumes
         /\ FileChain \in Seq(2 .. (NFat - 1)) /\ Len(FileChain) \in Nat
         /\ file.entry.size > 0 => Len(FileChain) > 0
         /\ call.off \in Nat /\ call.len \in Nat
         /\ Target \in Nat /\ Target <= file.fptr /\ file.fptr \in Nat /\ btr \in Nat /\ ofs \in Nat
         /\ file.fptr + btr <= file.entry.size
         /\ btr > 0 => file.fptr + btr <= call.off + call.len /\ Target = call.off
         /\ xfer \in Transfers /\ faults \in Nat /\ Synced
         /\ Sector \in Nat /\ file.clust \in Int /\ file.sect \in Int
         /\ got \in Seq(Int \X Int) /\ Len(got) = file.fptr - Target
         /\ \A i \in 1 .. Len(got) : got[i] = Byte(FileChain, (Target + i) - 1)
  <1>1. file.open /\ ~file.err
    BY DEF IInv, CallInv
  <1>2. /\ Named(file.entry) /\ file.entry.size \in Nat
        /\ FileChain \in Seq(2 .. (NFat - 1)) /\ Len(FileChain) \in 0 .. NFat
        /\ file.entry.size > 0 => Len(FileChain) > 0
        /\ Target \in Nat /\ Target <= file.entry.size
        /\ call.off \in Nat /\ call.len \in Nat
        /\ Target = (IF call.off <= file.entry.size THEN call.off ELSE file.entry.size)
    BY <1>1, ReadFacts
  <1>3. /\ file \in FIL /\ file.fptr \in Nat /\ btr \in Nat /\ ofs \in Nat /\ xfer \in Transfers
        /\ faults \in Nat /\ Synced /\ vol \in Volumes /\ file.clust \in Int /\ file.sect \in Int
        /\ file.open \in BOOLEAN /\ file.err \in BOOLEAN
    BY TypeFacts DEF IInv, Types
  <1>4. /\ Target <= file.fptr
        /\ file.fptr + btr = Target + Min({call.len, file.entry.size - Target})
        /\ got \in Seq(Int \X Int) /\ Len(got) = file.fptr - Target
        /\ \A i \in 1 .. Len(got) : got[i] = Byte(FileChain, (Target + i) - 1)
    BY DEF IInv, BufferInv
  <1>5. Min({call.len, file.entry.size - Target})
          = IF call.len <= file.entry.size - Target THEN call.len ELSE file.entry.size - Target
    BY <1>2, MinOfTwo
  <1>6. /\ file.fptr + btr <= file.entry.size
        /\ btr > 0 => file.fptr + btr <= call.off + call.len /\ Target = call.off
    <2> DEFINE f == file.fptr
               z == file.entry.size
               l == call.len
               o == call.off
               g == Target
               m == IF l <= z - g THEN l ELSE z - g
    <2>1. /\ f \in Nat /\ z \in Nat /\ l \in Nat /\ o \in Nat /\ g \in Nat /\ btr \in Nat /\ g <= z
          /\ g = (IF o <= z THEN o ELSE z) /\ f + btr = g + m /\ g <= f
      BY <1>2, <1>3, <1>4, <1>5
    <2> HIDE DEF f, z, l, o, g
    <2>2. f + btr <= z /\ (btr > 0 => f + btr <= o + l /\ g = o)
      BY <2>1
    <2> QED BY <2>2 DEF f, z, l, o, g
  <1>7. Sector \in Nat
    BY <1>3, BytePlace DEF Sector
  <1>8. Len(FileChain) \in Nat
    BY <1>2, LenProperties
  <1> QED BY <1>1, <1>2, <1>3, <1>4, <1>6, <1>7, <1>8

LEMMA FileFat ==
  ASSUME IInv, pc \in Reading, NEW t \in Nat, On(FileChain, t, file.clust),
         NEW v, GetFat(file.entry, file.clust, v)
  PROVE  FatGives(FileChain, t, v)
  <1> DEFINE e == file.entry
  <1>1. vol \in Volumes /\ Synced /\ faults \in Nat /\ Named(e)
    BY ReadingFacts
  <1>2. On(vol.chain[e.id], t, file.clust) /\ FileChain = vol.chain[e.id]
    BY DEF FileChain
  <1> HIDE DEF e
  <1>3. FatGives(vol.chain[e.id], t, v)
    BY <1>1, <1>2, GetFatIs DEF e
  <1> QED BY <1>2, <1>3

\* A step of f_read that copies nothing.
LEMMA ReadMoves ==
  ASSUME IInv, pc \in Reading, pc' \in Reading, UNCHANGED <<vol, call, ret, ofs, btr, got, dirvars>>,
         NEW c \in Int, NEW s \in Int, file' = [file EXCEPT !.clust = c, !.sect = s],
         Synced', faults' \in Nat, hurt' \in {hurt, TRUE}, xfer' \in Transfers,
         PlaceInv'
  PROVE  IInv' /\ AbsStep
  <1>1. /\ file \in FIL /\ file.open = TRUE /\ file.err = FALSE /\ btr \in Nat /\ ofs \in Nat
        /\ file.open /\ ~file.err
    BY ReadingFacts
  <1>2. /\ file' \in FIL /\ file'.open = TRUE /\ file'.err = FALSE /\ file'.entry = file.entry
        /\ file'.fptr = file.fptr
    BY <1>1 DEF FIL
  <1>3. FileChain' = FileChain /\ Target' = Target
    BY <1>2 DEF FileChain, Target
  <1>4. BufferInv'
    <2>1. /\ Target <= file.fptr
          /\ file.fptr + btr = Target + Min({call.len, file.entry.size - Target})
          /\ got \in Seq(Int \X Int) /\ Len(got) = file.fptr - Target
          /\ \A i \in 1 .. Len(got) : got[i] = Byte(FileChain, (Target + i) - 1)
      BY DEF IInv, BufferInv
    <2>2. /\ Target' <= file'.fptr
          /\ file'.fptr + btr' = Target' + Min({call'.len, file'.entry.size - Target'})
          /\ got' \in Seq(Int \X Int) /\ Len(got') = file'.fptr - Target'
          /\ \A i \in 1 .. Len(got') : got'[i] = Byte(FileChain', (Target' + i) - 1)
      BY <1>2, <1>3, <2>1, Zenon
    <2> QED BY <2>2 DEF BufferInv, Reading
  <1>5. btr' \in Nat /\ ofs' \in Nat
    BY <1>1
  <1> QED BY <1>1, <1>2, <1>4, <1>5, FileStep

\* The bytes that come next are appended.
LEMMA ReadAppends ==
  ASSUME IInv, pc \in Reading, pc' = "read", UNCHANGED <<vol, call, ret, ofs, dirvars>>,
         NEW k \in Nat, k <= btr, NEW x \in Seq(Int \X Int), Len(x) = k, got' = got \o x,
         \A i \in 1 .. k : x[i] = Byte(FileChain, (file.fptr + i) - 1),
         file' = [file EXCEPT !.fptr = file.fptr + k], btr' = btr - k,
         Synced', faults' \in Nat, hurt' \in {hurt, TRUE}, xfer' \in Transfers,
         On(FileChain, ((file.fptr + k) - 1) \div SS, file.clust),
         (file.fptr + k) % SS # 0 => file.sect = SectorNo(FileChain, (file.fptr + k) \div SS)
  PROVE  IInv' /\ AbsStep
  <1> DEFINE p == file.fptr
             g == Target
             n == Len(got)
             W == Int \X Int
  <1>1. /\ file \in FIL /\ file.open = TRUE /\ file.err = FALSE /\ file.open /\ ~file.err
        /\ p \in Nat /\ btr \in Nat /\ ofs \in Nat /\ p + btr <= file.entry.size
        /\ g \in Nat /\ g <= p /\ file.entry.size \in Nat
        /\ got \in Seq(W) /\ n = p - g
        /\ \A i \in 1 .. n : got[i] = Byte(FileChain, (g + i) - 1)
    BY ReadingFacts
  <1>2. /\ file' \in FIL /\ file'.open = TRUE /\ file'.err = FALSE /\ file'.entry = file.entry
        /\ file'.fptr = p + k /\ file'.clust = file.clust /\ file'.sect = file.sect
    <2>1. p + k \in Nat
      BY <1>1, SMTT(30)
    <2> QED BY <1>1, <2>1 DEF FIL
  <1>3. FileChain' = FileChain /\ Target' = Target /\ Sector' = (p + k) \div SS
    BY <1>2 DEF FileChain, Target, Sector
  <1>4. p + k <= file.entry.size
    BY <1>1, SMTT(30)
  <1>5. Resting'
    BY <1>2, <1>3, <1>4, Zenon DEF Resting
  <1>6. PlaceInv'
    BY <1>5 DEF PlaceInv
  <1>7. /\ got' \in Seq(W) /\ Len(got') = n + k
        /\ \A i \in 1 .. (n + k) : got'[i] = IF i <= n THEN got[i] ELSE x[i - n]
    <2> HIDE DEF W
    <2>1. x \in Seq(W)
      BY DEF W
    <2> QED BY <1>1, <2>1, ConcatProperties
  <1>8. n \in Nat /\ p \in Nat /\ g \in Nat /\ n = p - g /\ g <= p /\ btr \in Nat /\ btr' = btr - k
    BY <1>1
  <1>9. ASSUME NEW i \in 1 .. (n + k)
        PROVE  got'[i] = Byte(FileChain, (g + i) - 1)
    <2>1. CASE i <= n
      <3>1. i \in 1 .. n
        <4>1. n \in Nat
          BY <1>8
        <4> QED BY <2>1, <4>1
      <3> QED BY <1>1, <1>7, <2>1, <3>1
    <2>2. CASE ~(i <= n)
      <3>1. i - n \in 1 .. k
        <4>1. n \in Nat
          BY <1>8
        <4> QED BY <2>2, <4>1
      <3>2. (p + (i - n)) - 1 = (g + i) - 1
        <4> HIDE DEF p, g, n
        <4> QED BY <1>8
      <3>3. x[i - n] = Byte(FileChain, (p + (i - n)) - 1)
        BY <3>1
      <3> QED BY <1>7, <2>2, <3>2, <3>3
    <2> QED BY <2>1, <2>2
  <1>10. BufferInv'
    <2>1. p + btr = g + Min({call.len, file.entry.size - g})
      BY DEF IInv, BufferInv
    <2>2. (p + k) + btr' = p + btr /\ g <= p + k /\ n + k = (p + k) - g
      <3> HIDE DEF p, g, n
      <3> QED BY <1>8
    <2>3. /\ Target' <= file'.fptr
          /\ file'.fptr + btr' = Target' + Min({call'.len, file'.entry.size - Target'})
          /\ got' \in Seq(Int \X Int) /\ Len(got') = file'.fptr - Target'
      BY <1>2, <1>3, <1>7, <2>1, <2>2
    <2>4. \A i \in 1 .. Len(got') : got'[i] = Byte(FileChain', (Target' + i) - 1)
      BY <1>3, <1>7, <1>9, Zenon
    <2> QED BY <2>3, <2>4 DEF BufferInv, Reading
  <1>11. btr' \in Nat /\ ofs' \in Nat /\ pc' \in Reading
    BY <1>1 DEF Reading
  <1> QED BY <1>1, <1>2, <1>6, <1>10, <1>11, FileStep

LEMMA ReadClusterStep ==
  ASSUME IInv, ReadCluster
  PROVE  IInv' /\ AbsStep
  <1> DEFINE p == file.fptr
             e == file.entry
             n == Len(FileChain)
             t == (p - 1) \div SS
  <1>1. pc = "read" /\ btr > 0 /\ p % Bcs = 0 /\ UNCHANGED <<vol, dir>> /\ pc \in Reading
    BY DEF ReadCluster, Reading
  <1>2. PICK v \in FatValues :
          /\ IF p = 0 THEN v = First(vol, e.id) /\ UNCHANGED window ELSE GetFat(e, file.clust, v)
          /\ IF v \in 2 .. (NFat - 1)
             THEN /\ file' = [file EXCEPT !.clust = v] /\ pc' = "sector"
                  /\ UNCHANGED <<call, ret, ofs, btr, xfer, got, path, alts>>
             ELSE Abort
    BY DEF ReadCluster
  <1>3. /\ file.open /\ ~file.err /\ file \in FIL /\ Named(e) /\ e.size \in Nat /\ vol \in Volumes
        /\ FileChain \in Seq(2 .. (NFat - 1)) /\ n \in Nat /\ (e.size > 0 => n > 0)
        /\ p \in Nat /\ btr \in Nat /\ p + btr <= e.size /\ Target \in Nat /\ Target <= p
        /\ call.off \in Nat /\ call.len \in Nat /\ p + btr <= call.off + call.len /\ Target = call.off
        /\ xfer \in Transfers /\ faults \in Nat /\ Synced /\ file.sect \in Int
    BY <1>1, ReadingFacts
  <1>4. Bcs \in Nat \ {0} /\ EOC \notin 2 .. (NFat - 1) /\ DiskErr \notin 2 .. (NFat - 1)
    BY Geometry
  <1>5. p % SS = 0 /\ p \div SS \in Nat /\ (p \div SS) \div CSize = p \div Bcs /\ p \div Bcs \in Nat
    BY <1>1, <1>3, BytePlace
  <1>6. p > 0 => t \in Nat /\ (t \div CSize) + 1 = p \div Bcs /\ On(FileChain, t, file.clust)
    <2> SUFFICES ASSUME p > 0
                 PROVE  t \in Nat /\ (t \div CSize) + 1 = p \div Bcs /\ On(FileChain, t, file.clust)
      OBVIOUS
    <2>1. p \in Nat \ {0} /\ p - 1 \in Nat
      BY <1>3
    <2>2. t \in Nat /\ t \div CSize = (p - 1) \div Bcs
      BY <2>1, BytePlace
    <2>3. ((p - 1) \div Bcs) + 1 = p \div Bcs
      BY <1>1, <1>4, <2>1, DivPrev
    <2>4. Resting
      BY <1>1, <1>3 DEF IInv, PlaceInv
    <2>5. On(FileChain, t, file.clust)
      BY <2>4 DEF Resting
    <2> QED BY <2>2, <2>3, <2>5
  <1>7. /\ Synced' /\ faults' \in Nat /\ hurt' \in {hurt, TRUE}
        /\ \/ v \in 2 .. (NFat - 1) /\ On(FileChain, p \div SS, v)
           \/ v \notin 2 .. (NFat - 1) /\ p \div Bcs = n
           \/ v \notin 2 .. (NFat - 1) /\ hurt' = TRUE
    <2>1. CASE p = 0
      <3>1. 1 \in 1 .. n /\ FileChain # <<>>
        BY <1>1, <1>3
      <3>2. v = FileChain[1] /\ UNCHANGED <<winsect, win, faults, hurt>>
        BY <1>2, <2>1, <3>1 DEF First, FileChain, window
      <3>3. v \in 2 .. (NFat - 1)
        BY <1>3, <3>1, <3>2, ElementOfSeq
      <3>4. 0 \div SS = 0 /\ 0 \div CSize = 0
        BY Geometry, SMT
      <3>5. On(FileChain, p \div SS, v)
        BY <2>1, <3>1, <3>2, <3>4 DEF On
      <3> QED BY <1>3, <3>2, <3>3, <3>5 DEF Synced
    <2>2. CASE p # 0
      <3> DEFINE q == t \div CSize
      <3>1. t \in Nat /\ q + 1 = p \div Bcs /\ On(FileChain, t, file.clust) /\ GetFat(e, file.clust, v)
        BY <1>2, <1>3, <1>6, <2>2
      <3> HIDE DEF t
      <3>2. FatGives(FileChain, t, v)
        BY <1>1, <3>1, FileFat
      <3>3. q \in Nat
        BY <3>1, Geometry, DivMod
      <3>4. /\ Synced' /\ faults' \in Nat /\ hurt' \in {hurt, TRUE}
            /\ \/ v \in 2 .. (NFat - 1) /\ q + 1 < n /\ v = FileChain[q + 2]
               \/ v = EOC /\ q + 1 = n
               \/ hurt' = TRUE /\ v = DiskErr
        BY <3>2, Zenon DEF FatGives
      <3> HIDE DEF q
      <3>5. q + 1 < n /\ v = FileChain[q + 2] => On(FileChain, p \div SS, v)
        <4>1. (p \div SS) \div CSize = q + 1 /\ q + 2 = 1 + (q + 1)
          BY <1>5, <3>1, <3>3
        <4> QED BY <4>1, Zenon DEF On
      <3> QED BY <1>4, <3>1, <3>4, <3>5, Zenon
    <2> QED BY <2>1, <2>2
  <1>8. CASE v \in 2 .. (NFat - 1)
    <2>1. On(FileChain, p \div SS, v) \/ hurt' = TRUE
      BY <1>7, <1>8
    <2>2. On(FileChain, p \div SS, v)
      BY <1>7, <1>8
    <2>3. /\ file' = [file EXCEPT !.clust = v] /\ pc' = "sector"
          /\ UNCHANGED <<call, ret, ofs, btr, xfer, got, path, alts>>
      BY <1>2, <1>8
    <2>4. v \in Int /\ file' = [file EXCEPT !.clust = v, !.sect = file.sect]
      <3>1. v \in Int
        BY <1>8
      <3> QED BY <1>3, <2>3, <3>1 DEF FIL
    <2>5. file'.fptr = p /\ file'.clust = v /\ file'.entry = e
      BY <1>3, <2>3 DEF FIL
    <2>6. FileChain' = FileChain /\ Sector' = p \div SS
      BY <1>1, <2>5 DEF FileChain, Sector
    <2>7. AtSector'
      BY <1>5, <2>2, <2>5, <2>6 DEF AtSector
    <2>8. PlaceInv'
      BY <1>1, <2>3, <2>7 DEF PlaceInv
    <2>9. /\ UNCHANGED <<vol, call, ret, ofs, btr, got, dirvars>> /\ xfer' \in Transfers
          /\ pc' \in Reading
      BY <1>1, <1>3, <2>3 DEF dirvars, Reading
    <2> QED BY <1>1, <1>3, <1>7, <2>4, <2>8, <2>9, ReadMoves
  <1>9. CASE ~(v \in 2 .. (NFat - 1))
    <2>1. Abort
      BY <1>2, <1>9
    <2>2. hurt' = TRUE \/ Missing
      <3> SUFFICES ASSUME p \div Bcs = n
                   PROVE  Missing
        BY <1>7, <1>9
      <3>1. Len(Content(vol, e)) <= Bcs * n /\ Len(Content(vol, e)) \in Nat /\ Bcs * n \in Nat
        BY <1>3, ContentIs DEF FileChain
      <3>2. p = Bcs * n
        <4>1. p = Bcs * (p \div Bcs) + (p % Bcs)
          BY <1>3, <1>4, DivMod
        <4>2. p = Bcs * n + 0
          BY <1>1, <4>1
        <4> QED BY <3>1, <4>2
      <3> DEFINE b == p + 1
                 l == Len(Content(vol, e))
      <3>3. b \in (call.off + 1) .. (call.off + call.len) /\ b <= e.size
        <4> DEFINE o == call.off
                   m == call.len
                   z == e.size
        <4>1. /\ o \in Nat /\ m \in Nat /\ z \in Nat /\ p \in Nat /\ btr \in Nat /\ btr > 0
              /\ o <= p /\ p + btr <= o + m /\ p + btr <= z
          BY <1>1, <1>3
        <4> HIDE DEF o, m, z, p
        <4>2. p + 1 \in (o + 1) .. (o + m) /\ p + 1 <= z
          BY <4>1
        <4> QED BY <4>2 DEF o, m, z
      <3>4. b > l
        <4> DEFINE y == Bcs * n
        <4>1. l \in Nat /\ y \in Nat /\ l <= y /\ p = y
          BY <3>1, <3>2
        <4> HIDE DEF l, y
        <4> QED BY <4>1
      <3> HIDE DEF b
      <3> QED BY <3>3, <3>4 DEF Missing
    <2>3. pc \in {"seek"} \cup Reading
      BY <1>1
    <2> QED BY <1>1, <1>7, <2>1, <2>2, <2>3, Aborts
  <1> QED BY <1>8, <1>9

LEMMA ReadSectorStep ==
  ASSUME IInv, ReadSector
  PROVE  IInv' /\ AbsStep
  <1> DEFINE p == file.fptr
             t == p \div SS
             cs == t % CSize
             sect == Clst2Sect(file.clust) + cs
  <1>1. /\ btr > 0 /\ pc \in Reading
        /\ pc = "sector" \/ (pc = "read" /\ p % SS = 0 /\ p % Bcs # 0)
        /\ IF btr >= SS
           THEN /\ xfer' = [sect |-> sect, cc |-> btr \div SS, ccsize |-> CSize - cs]
                /\ pc' = "merge" /\ UNCHANGED file
           ELSE file' = [file EXCEPT !.sect = sect] /\ pc' = "copy" /\ UNCHANGED xfer
        /\ UNCHANGED <<vol, call, ret, ofs, btr, got, dirvars>>
        /\ UNCHANGED <<winsect, win, faults, hurt>>
    BY DEF ReadSector, Reading, window
  <1>2. /\ file.open /\ ~file.err /\ file \in FIL /\ file.clust \in Int /\ file.sect \in Int
        /\ FileChain \in Seq(2 .. (NFat - 1)) /\ p \in Nat /\ btr \in Nat
        /\ xfer \in Transfers /\ faults \in Nat /\ Synced
    BY <1>1, ReadingFacts
  <1>3. t \in Nat /\ CSize \in Nat \ {0} /\ SS \in Nat \ {0}
    BY <1>2, BytePlace, Geometry
  <1>4. p % SS = 0 /\ On(FileChain, t, file.clust)
    <2>1. CASE pc = "sector"
      BY <1>2, <2>1 DEF IInv, PlaceInv, AtSector, Sector
    <2>2. CASE pc = "read" /\ p % SS = 0 /\ p % Bcs # 0
      <3>1. t % CSize # 0
        BY <1>2, <2>2, BytePlace
      <3>2. p # 0
        <4>1. 0 % Bcs = 0
          BY Geometry, SMT
        <4> QED BY <2>2, <4>1
      <3>3. p \in Nat \ {0}
        BY <1>2, <3>2
      <3>4. ((p - 1) \div SS) + 1 = t /\ (p - 1) \div SS \in Nat
        BY <1>3, <2>2, <3>3, DivPrev
      <3>5. t \in Nat \ {0} /\ t - 1 = (p - 1) \div SS
        BY <1>3, <3>4
      <3> HIDE DEF t
      <3>6. (t - 1) \div CSize = t \div CSize
        BY <1>3, <3>1, <3>5, DivPrev
      <3>7. Resting
        BY <1>2, <2>2 DEF IInv, PlaceInv
      <3>8. On(FileChain, t - 1, file.clust)
        <4>1. p > 0
          BY <3>3
        <4> QED BY <3>5, <3>7, <4>1 DEF Resting
      <3>9. On(FileChain, t, file.clust)
        BY <3>6, <3>8, Zenon DEF On
      <3> QED BY <2>2, <3>9
    <2> QED BY <1>1, <2>1, <2>2
  <1> HIDE DEF t
  <1>5. cs \in 0 .. (CSize - 1)
    BY <1>3, DivMod
  <1>6. sect = SectorNo(FileChain, t) /\ sect \in Int
    BY <1>2, <1>3, <1>4, SectorIs
  <1> HIDE DEF sect
  <1>7. Synced' /\ faults' \in Nat /\ hurt' \in {hurt, TRUE}
    BY <1>1, <1>2 DEF Synced
  <1>8. CASE btr >= SS
    <2> DEFINE cc == btr \div SS
               cz == CSize - cs
    <2>1. xfer' = [sect |-> sect, cc |-> cc, ccsize |-> cz] /\ pc' = "merge" /\ file' = file
      BY <1>1, <1>8
    <2>2. btr = SS * cc + (btr % SS) /\ cc \in Nat /\ btr % SS \in 0 .. (SS - 1)
      BY <1>2, <1>3, DivMod
    <2> HIDE DEF cc
    <2>3. cc >= 1 /\ SS * cc <= btr
      <3>1. SS * cc \in Int
        BY <1>3, <2>2
      <3>2. SS * cc <= btr
        BY <1>2, <2>2, <3>1
      <3>3. cc # 0
        <4> SUFFICES ASSUME cc = 0
                     PROVE  FALSE
          OBVIOUS
        <4>1. SS * cc = 0
          BY <1>3
        <4> QED BY <1>2, <1>3, <1>8, <2>2, <4>1
      <3> QED BY <2>2, <3>2, <3>3
    <2>4. cz \in 1 .. CSize /\ (t + cz) = (t - cs) + CSize
      BY <1>3, <1>5
    <2>5. t = CSize * (t \div CSize) + cs /\ t \div CSize \in Nat
      BY <1>3, DivMod
    <2> DEFINE q == t \div CSize
    <2>6. ASSUME NEW k \in 0 .. (cz - 1)
          PROVE  /\ (t + k) \div CSize = q /\ (t + k) % CSize = cs + k
                 /\ SectorNo(FileChain, t + k) = sect + k
      <3>1. k \in Nat /\ cs + k < CSize /\ t + k \in Nat
        BY <1>3, <1>5, <2>4
      <3>2. (t + k) \div CSize = q /\ (t + k) % CSize = cs + k
        BY <1>3, <3>1, DivWithin
      <3>3. On(FileChain, t + k, file.clust)
        BY <1>4, <3>2, Zenon DEF On
      <3>4. SectorNo(FileChain, t + k) = Clst2Sect(file.clust) + ((t + k) % CSize)
        BY <1>2, <3>1, <3>3, SectorIs
      <3>5. /\ SectorNo(FileChain, t) = Clst2Sect(file.clust) + cs
            /\ SectorNo(FileChain, t) \in Nat /\ SectorNo(FileChain, t) - Clst2Sect(file.clust) = cs
            /\ Clst2Sect(file.clust) \in Nat
        BY <1>2, <1>3, <1>4, SectorIs
      <3>6. Clst2Sect(file.clust) \in Int
        BY <3>5
      <3>7. Clst2Sect(file.clust) + (cs + k) = (Clst2Sect(file.clust) + cs) + k
        BY <1>5, <3>1, <3>6
      <3> QED BY <1>6, <3>2, <3>4, <3>5, <3>7, Zenon
    <2> HIDE DEF q
    <2>7. (t + cz) % CSize = 0
      <3>1. CSize * (q + 1) = CSize * q + CSize
        BY <1>3, <2>5, SMT DEF q
      <3> DEFINE x == CSize * q
      <3>2. x \in Int /\ t = x + cs
        BY <1>3, <2>5 DEF q
      <3> HIDE DEF x
      <3>3. t + cz = x + CSize
        BY <1>3, <1>5, <3>2
      <3>4. t + cz = CSize * (q + 1) + 0 /\ q + 1 \in Int /\ t + cz \in Int /\ 0 \in 0 .. (CSize - 1)
        BY <1>3, <1>5, <2>4, <2>5, <3>1, <3>3 DEF x, q
      <3> HIDE DEF cz
      <3> QED BY <1>3, <3>4, DivIs, Zenon
    <2>8. On(FileChain, (t + cz) - 1, file.clust)
      <3>1. cz - 1 \in 0 .. (cz - 1) /\ t + (cz - 1) = (t + cz) - 1
        BY <1>3, <2>4
      <3>2. ((t + cz) - 1) \div CSize = q
        BY <2>6, <3>1
      <3> QED BY <1>4, <3>2, Zenon DEF On, q
    <2> HIDE DEF cz
    <2>9. xfer' \in Transfers /\ xfer'.cc = cc /\ xfer'.ccsize = cz /\ xfer'.sect = sect
      BY <1>3, <1>6, <2>1, <2>2, <2>4 DEF Transfers
    <2>10. FileChain' = FileChain /\ Sector' = t /\ btr' = btr
      BY <1>1, <2>1 DEF FileChain, Sector, t
    <2>11. Merging'
      <3>1. cc > cz - CSize /\ cz >= 1
        BY <1>3, <2>2, <2>3, <2>4
      <3>2. \A k \in 0 .. (xfer'.ccsize - 1) : SectorNo(FileChain', Sector' + k) = xfer'.sect + k
        BY <2>6, <2>9, <2>10
      <3> QED BY <1>4, <2>1, <2>3, <2>7, <2>8, <2>9, <2>10, <3>1, <3>2 DEF Merging
    <2>12. PlaceInv'
      BY <2>1, <2>11 DEF PlaceInv
    <2>13. file' = [file EXCEPT !.clust = file.clust, !.sect = file.sect]
      BY <1>2, <2>1 DEF FIL
    <2>14. pc' \in Reading
      BY <2>1 DEF Reading
    <2>15. /\ UNCHANGED <<vol, call, ret, ofs, btr, got, dirvars>> /\ pc \in Reading
           /\ file.clust \in Int /\ file.sect \in Int
      BY <1>1, <1>2
    <2> QED BY <1>7, <2>9, <2>12, <2>13, <2>14, <2>15, ReadMoves, Zenon
  <1>9. CASE ~(btr >= SS)
    <2>1. file' = [file EXCEPT !.sect = sect] /\ pc' = "copy" /\ xfer' = xfer
      BY <1>1, <1>9
    <2>2. file'.fptr = p /\ file'.clust = file.clust /\ file'.entry = file.entry /\ file'.sect = sect
      BY <1>2, <2>1 DEF FIL
    <2>3. FileChain' = FileChain /\ Sector' = t /\ btr' = btr
      BY <1>1, <2>2 DEF FileChain, Sector, t
    <2>4. 0 < btr /\ btr < SS
      BY <1>1, <1>2, <1>3, <1>9
    <2>5. PlaceInv'
      BY <1>4, <1>6, <2>1, <2>2, <2>3, <2>4 DEF PlaceInv, AtSector
    <2>6. file' = [file EXCEPT !.clust = file.clust, !.sect = sect] /\ pc' \in Reading /\ xfer' \in Transfers
      BY <1>2, <2>1 DEF FIL, Reading
    <2>7. /\ UNCHANGED <<vol, call, ret, ofs, btr, got, dirvars>> /\ pc \in Reading
          /\ file.clust \in Int /\ sect \in Int
      BY <1>1, <1>2, <1>6
    <2> QED BY <1>7, <2>5, <2>6, <2>7, ReadMoves, Zenon
  <1> QED BY <1>8, <1>9

LEMMA MergeClusterStep ==
  ASSUME IInv, MergeCluster
  PROVE  IInv' /\ AbsStep
  <1> DEFINE t == Sector
             n == xfer.ccsize
             m == xfer.cc
             u == (t + n) - 1
             q == u \div CSize
             c == file.clust
  <1>1. pc = "merge" /\ m > n /\ UNCHANGED <<vol, dir>> /\ pc \in Reading
    BY DEF MergeCluster, Reading
  <1>2. PICK v \in FatValues :
          /\ GetFat(file.entry, c, v)
          /\ IF v < 2 \/ v = DiskErr THEN Abort
             ELSE /\ IF v = c + 1
                     THEN /\ file' = [file EXCEPT !.clust = v]
                          /\ xfer' = [xfer EXCEPT !.ccsize = @ + CSize]
                     ELSE xfer' = [xfer EXCEPT !.cc = xfer.ccsize] /\ UNCHANGED file
                  /\ UNCHANGED <<pc, call, ret, ofs, btr, got, path, alts>>
    BY DEF MergeCluster
  <1>3. /\ file.open /\ ~file.err /\ file \in FIL /\ file.clust \in Int /\ file.sect \in Int
        /\ FileChain \in Seq(2 .. (NFat - 1)) /\ btr \in Nat /\ t \in Nat
        /\ xfer \in Transfers /\ faults \in Nat /\ Synced
    BY <1>1, ReadingFacts
  <1>4. /\ n \in Int /\ m \in Int /\ xfer.sect \in Int
        /\ CSize \in Nat \ {0} /\ SS \in Nat \ {0} /\ NFat \in Nat
        /\ EOC = NFat + 1 /\ DiskErr = NFat + 2
    BY <1>3, Geometry DEF Transfers
  <1>5. Merging
    BY <1>1, <1>3 DEF IInv, PlaceInv
  <1>6. /\ file.fptr % SS = 0 /\ SS * m <= btr /\ n >= 1 /\ m > n - CSize
        /\ (t + n) % CSize = 0 /\ On(FileChain, u, c)
        /\ \A k \in 0 .. (n - 1) : SectorNo(FileChain, t + k) = xfer.sect + k
    BY <1>5 DEF Merging
  <1> HIDE DEF t, n, m
  <1>7. n \in Nat \ {0} /\ u \in Nat
    <2>1. t \in Nat /\ n \in Int /\ n >= 1
      BY <1>3, <1>4, <1>6
    <2> QED BY <2>1
  <1> HIDE DEF u
  <1>0. c \in 2 .. (NFat - 1)
    BY <1>3, <1>6, <1>7, SectorIs
  <1>8. FatGives(FileChain, u, v)
    <2>1. /\ pc \in Reading /\ On(FileChain, u, file.clust) /\ GetFat(file.entry, file.clust, v)
      BY <1>1, <1>2, <1>6
    <2> HIDE DEF c
    <2> QED BY <1>7, <2>1, FileFat, Zenon
  <1> HIDE DEF q
  <1>9. /\ Synced' /\ faults' \in Nat /\ hurt' \in {hurt, TRUE}
        /\ \/ v \in 2 .. (NFat - 1) /\ q + 1 < Len(FileChain) /\ v = FileChain[q + 2]
           \/ v = EOC /\ q + 1 = Len(FileChain)
           \/ hurt' = TRUE /\ v = DiskErr
    BY <1>8, Zenon DEF FatGives, q
  <1>10. CASE v < 2 \/ v = DiskErr
    <2>1. Abort
      BY <1>2, <1>10
    <2>2. hurt' = TRUE
      <3>1. v \in 2 .. (NFat - 1) => ~(v < 2 \/ v = DiskErr)
        BY <1>4
      <3>2. v = EOC => ~(v < 2 \/ v = DiskErr)
        BY <1>0, <1>4
      <3> QED BY <1>9, <1>10, <3>1, <3>2, Zenon
    <2>3. pc \in {"seek"} \cup Reading
      BY <1>1
    <2> QED BY <1>1, <1>9, <2>1, <2>2, <2>3, Aborts
  <1>11. CASE ~(v < 2 \/ v = DiskErr)
    <2>1. /\ UNCHANGED <<pc, call, ret, ofs, btr, got, path, alts>>
          /\ v = c + 1 => /\ file' = [file EXCEPT !.clust = v]
                          /\ xfer' = [xfer EXCEPT !.ccsize = @ + CSize]
          /\ v # c + 1 => xfer' = [xfer EXCEPT !.cc = xfer.ccsize] /\ UNCHANGED file
      BY <1>2, <1>11, Zenon
    <2>2. UNCHANGED <<vol, call, ret, ofs, btr, got, dirvars>> /\ pc' \in Reading /\ pc' = "merge"
      BY <1>1, <2>1 DEF dirvars
    <2>3. CASE v = c + 1
      <3>2. q + 1 < Len(FileChain) /\ v = FileChain[q + 2]
        BY <1>0, <1>4, <1>9, <1>11, <2>3
      <3>3. v \in Int
        BY <1>0, <2>3
      <3>4. /\ file' = [file EXCEPT !.clust = v, !.sect = file.sect]
            /\ file'.fptr = file.fptr /\ file'.clust = c + 1 /\ file'.entry = file.entry
        <4>1. file' = [file EXCEPT !.clust = v] /\ file \in FIL /\ v = c + 1
          BY <1>3, <2>1, <2>3
        <4> QED BY <3>3, <4>1 DEF FIL
      <3>5. /\ xfer' \in Transfers /\ xfer'.ccsize = n + CSize /\ xfer'.cc = m /\ xfer'.sect = xfer.sect
        <4>1. xfer' = [xfer EXCEPT !.ccsize = @ + CSize] /\ xfer \in Transfers
          BY <1>3, <2>1, <2>3
        <4> QED BY <1>4, <4>1 DEF Transfers, m, n
      <3>6. FileChain' = FileChain /\ Sector' = t /\ btr' = btr
        <4>1. vol' = vol /\ btr' = btr
          BY <1>1, <2>1
        <4> QED BY <3>4, <4>1, Zenon DEF FileChain, Sector, t
      <3>7. /\ (t + (n + CSize)) % CSize = 0
            /\ On(FileChain, (t + (n + CSize)) - 1, c + 1)
            /\ \A k \in 0 .. ((n + CSize) - 1) : SectorNo(FileChain, t + k) = xfer.sect + k
        <4>1. c + 1 = FileChain[q + 2]
          BY <2>3, <3>2
        <4>2. OnePiece(FileChain, t, n, c, xfer.sect) /\ q = ((t + n) - 1) \div CSize
          BY <1>6, Zenon DEF OnePiece, q, u
        <4>3. OnePiece(FileChain, t, n + CSize, c + 1, xfer.sect)
          BY <1>3, <1>4, <1>7, <3>2, <4>1, <4>2, MergeNext, Zenon
        <4> QED BY <4>3, Zenon DEF OnePiece
      <3>8. m > (n + CSize) - CSize /\ n + CSize >= 1 /\ m >= 1
        BY <1>1, <1>4, <1>7
      <3>9. Merging'
        BY <1>6, <3>4, <3>5, <3>6, <3>7, <3>8, Zenon DEF Merging
      <3>10. PlaceInv'
        BY <2>2, <3>9 DEF PlaceInv
      <3>11. file' = [file EXCEPT !.clust = v, !.sect = file.sect] /\ file.sect \in Int /\ pc \in Reading
        BY <1>1, <1>3, <3>4
      <3>12. Synced' /\ faults' \in Nat /\ hurt' \in {hurt, TRUE} /\ xfer' \in Transfers
        BY <1>9, <3>5, Zenon
      <3> QED BY <2>2, <3>3, <3>10, <3>11, <3>12, ReadMoves, Zenon
    <2>4. CASE v # c + 1
      <3>1. file' = file /\ file' = [file EXCEPT !.clust = file.clust, !.sect = file.sect]
        BY <1>3, <2>1, <2>4 DEF FIL
      <3>2. xfer' \in Transfers /\ xfer'.ccsize = n /\ xfer'.cc = n /\ xfer'.sect = xfer.sect
        BY <1>3, <1>4, <2>1, <2>4 DEF Transfers, n
      <3>3. FileChain' = FileChain /\ Sector' = t /\ btr' = btr
        BY <1>1, <2>1, <3>1 DEF FileChain, Sector, t
      <3>4. SS * n <= btr
        <4> DEFINE a == SS * n
                   b == SS * m
        <4>1. a < b
          BY <1>1, <1>4, TimesLess
        <4>2. a \in Int /\ b \in Int /\ b <= btr
          BY <1>4, <1>6
        <4> HIDE DEF a, b
        <4>3. a <= btr
          BY <1>3, <4>1, <4>2
        <4> QED BY <4>3 DEF a
      <3>5. n >= 1 /\ n > n - CSize
        BY <1>4, <1>7
      <3>6. Merging'
        BY <1>6, <3>1, <3>2, <3>3, <3>4, <3>5, Zenon DEF Merging, u
      <3>7. PlaceInv'
        BY <2>2, <3>6 DEF PlaceInv
      <3>8. file.clust \in Int /\ file.sect \in Int /\ pc \in Reading
        BY <1>1, <1>3
      <3>9. Synced' /\ faults' \in Nat /\ hurt' \in {hurt, TRUE} /\ xfer' \in Transfers
        BY <1>9, <3>2, Zenon
      <3> QED BY <2>2, <3>1, <3>7, <3>8, <3>9, ReadMoves, Zenon
    <2> QED BY <2>3, <2>4
  <1> QED BY <1>10, <1>11

LEMMA ReadXferStep ==
  ASSUME IInv, ReadXfer
  PROVE  IInv' /\ AbsStep
  <1> DEFINE p == file.fptr
             t == Sector
             n == xfer.ccsize
             m == xfer.cc
             k == SS * m
             x == [b \in 1 .. k |-> <<xfer.sect + ((b - 1) \div SS), (b - 1) % SS>>]
  <1>1. pc = "merge" /\ m <= n /\ UNCHANGED <<vol, dir, winsect, win>> /\ pc \in Reading
    BY DEF ReadXfer, Reading
  <1>2. PICK ok \in BOOLEAN :
          /\ DiskRead(ok)
          /\ IF ~ok THEN Abort
             ELSE /\ got' = got \o x
                  /\ file' = [file EXCEPT !.fptr = @ + k]
                  /\ btr' = btr - k
                  /\ pc' = "read" /\ xfer' = NoXfer
                  /\ UNCHANGED <<call, ret, ofs, path, alts>>
    BY DEF ReadXfer
  <1>3. /\ file.open /\ ~file.err /\ p \in Nat /\ btr \in Nat /\ t \in Nat
        /\ FileChain \in Seq(2 .. (NFat - 1))
        /\ xfer \in Transfers /\ faults \in Nat /\ Synced
    BY <1>1, ReadingFacts
  <1>4. /\ n \in Int /\ m \in Int /\ xfer.sect \in Int /\ CSize \in Nat \ {0} /\ SS \in Nat \ {0}
    BY <1>3, Geometry DEF Transfers
  <1>5. Synced' /\ faults' \in Nat /\ hurt' \in {hurt, TRUE} /\ (~ok => hurt' = TRUE)
    <2>1. Synced'
      BY <1>1, <1>3 DEF Synced
    <2>2. faults' \in Nat /\ (ok => hurt' = hurt) /\ (~ok => hurt' = TRUE)
      BY <1>2, <1>3, DiskReadIs
    <2> QED BY <2>1, <2>2
  <1>6. CASE ~ok
    <2>1. Abort /\ hurt' = TRUE /\ UNCHANGED <<vol, dir>> /\ pc \in {"seek"} \cup Reading
      BY <1>1, <1>2, <1>5, <1>6
    <2> QED BY <1>5, <2>1, Aborts
  <1>7. CASE ok
    <2>1. Merging
      BY <1>1, <1>3 DEF IInv, PlaceInv
    <2>2. /\ p % SS = 0 /\ m >= 1 /\ k <= btr /\ n >= 1 /\ m > n - CSize
          /\ (t + n) % CSize = 0 /\ On(FileChain, (t + n) - 1, file.clust)
          /\ \A i \in 0 .. (n - 1) : SectorNo(FileChain, t + i) = xfer.sect + i
      BY <2>1 DEF Merging
    <2>3. m \in Nat \ {0} /\ n \in Nat \ {0} /\ 0 .. (m - 1) \subseteq 0 .. (n - 1)
      <3> HIDE DEF m, n
      <3> QED BY <1>1, <1>4, <2>2
    <2> HIDE DEF m, n
    <2>4. /\ k \in Nat \ {0}
          /\ \A j \in 0 .. (k - 1) :
               /\ (p + j) \div SS = t + (j \div SS) /\ (p + j) % SS = j % SS
               /\ j \div SS \in 0 .. (m - 1)
          /\ (p + k) % SS = 0 /\ ((p + k) - 1) \div SS = t + m - 1
      BY <1>3, <2>2, <2>3, XferBytes, Zenon DEF Sector
    <2>5. On(FileChain, ((p + k) - 1) \div SS, file.clust)
      <3>1. ((t + m) - 1) \div CSize = ((t + n) - 1) \div CSize
        BY <1>1, <1>3, <2>2, <2>3, XferCluster
      <3>2. t + m - 1 = (t + m) - 1
        BY <1>3, <2>3
      <3> QED BY <2>2, <2>4, <3>1, <3>2, Zenon DEF On
    <2> HIDE DEF k, p, t
    <2>6. ASSUME NEW i \in 1 .. k
          PROVE  /\ x[i] = Byte(FileChain, (p + i) - 1)
                 /\ x[i] \in Int \X Int
      <3> DEFINE j == i - 1
      <3>1. j \in 0 .. (k - 1) /\ (p + i) - 1 = p + j
        BY <1>3, <2>4
      <3>2. x[i] = <<xfer.sect + (j \div SS), j % SS>>
        OBVIOUS
      <3> HIDE DEF x, j
      <3>3. (p + j) \div SS = t + (j \div SS) /\ (p + j) % SS = j % SS /\ j \div SS \in 0 .. (m - 1)
        BY <2>4, <3>1
      <3>4. SectorNo(FileChain, t + (j \div SS)) = xfer.sect + (j \div SS)
        BY <2>2, <2>3, <3>3, Zenon
      <3>5. x[i] = Byte(FileChain, (p + i) - 1)
        BY <3>1, <3>2, <3>3, <3>4, Zenon DEF Byte
      <3>6. j % SS \in Int /\ xfer.sect + (j \div SS) \in Int
        <4>1. j \in Nat
          BY <2>4, <3>1
        <4>2. j % SS \in 0 .. (SS - 1) /\ j \div SS \in Nat
          BY <1>4, <4>1, DivMod
        <4> QED BY <1>4, <4>2
      <3> QED BY <3>2, <3>5, <3>6
    <2>7. DOMAIN x = 1 .. k /\ x = [i \in 1 .. k |-> x[i]]
      OBVIOUS
    <2> HIDE DEF x
    <2>8. x \in Seq(Int \X Int) /\ Len(x) = k
      <3> DEFINE W == Int \X Int
      <3>1. \A i \in 1 .. k : x[i] \in W
        BY <2>6
      <3> HIDE DEF W
      <3>2. x \in Seq(W) /\ Len(x) = k
        BY <2>4, <2>7, <3>1
      <3> QED BY <3>2 DEF W
    <2>9. /\ got' = got \o x /\ file' = [file EXCEPT !.fptr = @ + k] /\ btr' = btr - k
          /\ pc' = "read" /\ xfer' = NoXfer /\ UNCHANGED <<call, ret, ofs, path, alts>>
      BY <1>2, <1>7 DEF k, x, m
    <2>10. file' = [file EXCEPT !.fptr = file.fptr + k]
      BY <2>9
    <2>11. UNCHANGED <<vol, call, ret, ofs, dirvars>> /\ xfer' \in Transfers
      BY <1>1, <2>9 DEF dirvars, NoXfer, Transfers
    <2>12. k \in Nat /\ k <= btr /\ \A i \in 1 .. k : x[i] = Byte(FileChain, (file.fptr + i) - 1)
      BY <2>2, <2>4, <2>6 DEF p
    <2>13. /\ On(FileChain, ((file.fptr + k) - 1) \div SS, file.clust)
           /\ (file.fptr + k) % SS # 0 => file.sect = SectorNo(FileChain, (file.fptr + k) \div SS)
      BY <2>4, <2>5, Zenon DEF p
    <2> QED BY <1>1, <1>5, <2>8, <2>9, <2>10, <2>11, <2>12, <2>13, ReadAppends, Zenon
  <1> QED BY <1>6, <1>7

LEMMA ReadCopyStep ==
  ASSUME IInv, ReadCopy
  PROVE  IInv' /\ AbsStep
  <1> DEFINE p == file.fptr
             t == Sector
             f == p % SS
             k == Min({SS - f, btr})
             x == [b \in 1 .. k |-> <<win', f + b - 1>>]
  <1>1. /\ btr > 0 /\ UNCHANGED <<vol, dir>> /\ pc \in Reading
        /\ pc = "copy" \/ (pc = "read" /\ p % SS # 0)
    BY DEF ReadCopy, Reading
  <1>2. PICK ok \in BOOLEAN :
          /\ MoveWindow(file.sect, ok)
          /\ IF ~ok THEN Abort
             ELSE /\ got' = got \o x
                  /\ file' = [file EXCEPT !.fptr = @ + k]
                  /\ btr' = btr - k
                  /\ pc' = "read"
                  /\ UNCHANGED <<call, ret, ofs, xfer, path, alts>>
    BY DEF ReadCopy
  <1>3. /\ file.open /\ ~file.err /\ p \in Nat /\ btr \in Nat /\ t \in Nat
        /\ FileChain \in Seq(2 .. (NFat - 1)) /\ file.sect \in Int
        /\ xfer \in Transfers /\ faults \in Nat /\ Synced
    BY <1>1, ReadingFacts
  <1>4. CSize \in Nat \ {0} /\ SS \in Nat \ {0}
    BY Geometry
  <1>5. /\ Synced' /\ faults' \in Nat /\ hurt' \in {hurt, TRUE}
        /\ ~ok => hurt' = TRUE
        /\ ok => win' = file.sect
    BY <1>2, <1>3, MoveWindowIs
  <1>6. CASE ~ok
    <2>1. Abort /\ hurt' = TRUE /\ UNCHANGED <<vol, dir>> /\ pc \in {"seek"} \cup Reading
      BY <1>1, <1>2, <1>5, <1>6
    <2> QED BY <1>5, <2>1, Aborts
  <1>7. CASE ok
    <2>1. On(FileChain, t, file.clust) /\ file.sect = SectorNo(FileChain, t)
      <3>1. CASE pc = "copy"
        BY <1>3, <3>1 DEF IInv, PlaceInv, AtSector
      <3>2. CASE pc = "read" /\ p % SS # 0
        <4>1. Resting
          BY <1>3, <3>2 DEF IInv, PlaceInv
        <4>2. p # 0
          <5>1. 0 % SS = 0
            BY <1>4, SMT
          <5> QED BY <3>2, <5>1
        <4>3. p \in Nat \ {0} /\ p > 0
          BY <1>3, <4>2
        <4>4. (p - 1) \div SS = t
          BY <1>4, <3>2, <4>3, DivPrev DEF Sector
        <4> QED BY <3>2, <4>1, <4>3, <4>4, Zenon DEF Resting
      <3> QED BY <1>1, <3>1, <3>2
    <2>2. f \in 0 .. (SS - 1)
      BY <1>3, <1>4, DivMod
    <2> HIDE DEF f
    <2>3. k \in Nat \ {0} /\ k <= SS - f /\ k <= btr
      <3>1. k = IF SS - f <= btr THEN SS - f ELSE btr
        BY <1>3, <1>4, <2>2, MinOfTwo
      <3> HIDE DEF k
      <3>2. btr \in Nat \ {0} /\ SS \in Nat
        BY <1>1, <1>3, <1>4
      <3> QED BY <2>2, <3>1, <3>2
    <2> HIDE DEF k
    <2>4. /\ \A j \in 0 .. (k - 1) : (p + j) \div SS = t /\ (p + j) % SS = f + j
          /\ (p + k) % SS # 0 => (p + k) \div SS = t
      BY <1>3, <2>3, CopyBytes, Zenon DEF f, Sector
    <2>5. On(FileChain, ((p + k) - 1) \div SS, file.clust)
      <3>1. k - 1 \in 0 .. (k - 1) /\ p + (k - 1) = (p + k) - 1
        BY <1>3, <2>3
      <3> QED BY <2>1, <2>4, <3>1
    <2> HIDE DEF p, t
    <2>6. ASSUME NEW i \in 1 .. k
          PROVE  x[i] = Byte(FileChain, (p + i) - 1) /\ x[i] \in Int \X Int
      <3> DEFINE j == i - 1
      <3>1. j \in 0 .. (k - 1) /\ (p + i) - 1 = p + j /\ f + j \in Int
        BY <1>3, <2>2, <2>3
      <3>2. x[i] = <<win', f + j>>
        OBVIOUS
      <3> HIDE DEF x, j
      <3>3. (p + j) \div SS = t /\ (p + j) % SS = f + j
        BY <2>4, <3>1
      <3>4. x[i] = Byte(FileChain, (p + i) - 1)
        BY <1>5, <1>7, <2>1, <3>1, <3>2, <3>3, Zenon DEF Byte
      <3> QED BY <1>3, <1>5, <1>7, <3>1, <3>2, <3>4
    <2>7. DOMAIN x = 1 .. k /\ x = [i \in 1 .. k |-> x[i]]
      OBVIOUS
    <2> HIDE DEF x
    <2>8. x \in Seq(Int \X Int) /\ Len(x) = k
      <3> DEFINE W == Int \X Int
      <3>1. \A i \in 1 .. k : x[i] \in W
        BY <2>6
      <3> HIDE DEF W
      <3>2. x \in Seq(W) /\ Len(x) = k
        BY <2>3, <2>7, <3>1
      <3> QED BY <3>2 DEF W
    <2>9. /\ got' = got \o x /\ file' = [file EXCEPT !.fptr = @ + k] /\ btr' = btr - k
          /\ pc' = "read" /\ UNCHANGED <<call, ret, ofs, xfer, path, alts>>
      BY <1>2, <1>7 DEF k, x, f, p
    <2>10. file' = [file EXCEPT !.fptr = file.fptr + k]
      BY <2>9
    <2>11. UNCHANGED <<vol, call, ret, ofs, dirvars>> /\ xfer' \in Transfers
      BY <1>1, <1>3, <2>9 DEF dirvars
    <2>12. k \in Nat /\ k <= btr /\ \A i \in 1 .. k : x[i] = Byte(FileChain, (file.fptr + i) - 1)
      BY <2>3, <2>6 DEF p
    <2>13. /\ On(FileChain, ((file.fptr + k) - 1) \div SS, file.clust)
           /\ (file.fptr + k) % SS # 0 => file.sect = SectorNo(FileChain, (file.fptr + k) \div SS)
      BY <2>1, <2>4, <2>5, Zenon DEF p
    <2> QED BY <1>1, <1>5, <2>8, <2>9, <2>10, <2>11, <2>12, <2>13, ReadAppends, Zenon
  <1> QED BY <1>6, <1>7

-----------------------------------------------------------------------------
(* Directories. *)

LEMMA RootIs ==
  ASSUME vol \in Volumes
  PROVE  Named(RootEntry) /\ RootEntry.kind = "dir" /\ RootEntry.id = Root
  <1>1. Root \in Dirs(vol) \ Unchained(vol) /\ Dirs(vol) \subseteq Objects(vol)
    BY InOrder DEF WellFormed
  <1>2. /\ RootEntry \in Entries /\ RootEntry.kind = "dir" /\ RootEntry.id = Root
        /\ RootEntry.size = 0 /\ RootEntry.stat = 0
    <2>1. "dir" \in Kinds /\ NoName \in Names /\ Root \in Names
      BY NameAssumption DEF Kinds
    <2> QED BY <2>1 DEF RootEntry, Entries
  <1>3. Sound(vol, RootEntry)
    BY <1>1, <1>2 DEF Sound
  <1> QED BY <1>2, <1>3 DEF Named

\* dir_sdi(dp, 0) leaves the first entry.
LEMMA RewindStands ==
  ASSUME vol \in Volumes, NEW e, Named(e), e.kind = "dir"
  PROVE  /\ Rewind(e) \in FFDIR /\ Rewind(e).entry = e /\ Rewind(e).open = FALSE
         /\ Rewind(e).dptr = 0 /\ Stands(vol, Rewind(e))
  <1> DEFINE chain == vol.chain[e.id]
             c == First(vol, e.id)
             r == Rewind(e)
  <1>1. e.id \in Dirs(vol) /\ e \in Entries /\ chain \in Seq(2 .. (NFat - 1))
    BY NamedIs DEF Named
  <1>2. chain # <<>> /\ Len(chain) > 0
    BY <1>1, DirOf
  <1>3. c = chain[1]
    BY <1>2 DEF First
  <1>4. 0 \div DirPerSector = 0 /\ 0 \div CSize = 0 /\ 0 % CSize = 0
    BY Geometry, SMT
  <1>5. On(chain, 0, c)
    BY <1>2, <1>3, <1>4 DEF On
  <1>6. /\ c \in 2 .. (NFat - 1) /\ SectorNo(chain, 0) = Clst2Sect(c) + (0 % CSize)
        /\ Clst2Sect(c) \in Nat
    BY <1>1, <1>5, SectorIs
  <1>7. SectorNo(chain, 0) = Clst2Sect(c)
    BY <1>4, <1>6
  <1>8. /\ r.entry = e /\ r.open = FALSE /\ r.dptr = 0 /\ r.clust = c /\ r.sect = Clst2Sect(c)
        /\ r \in FFDIR
    BY <1>1, <1>6 DEF Rewind, FFDIR
  <1> HIDE DEF r
  <1>9. Stands(vol, r)
    BY <1>4, <1>5, <1>7, <1>8, Zenon DEF Stands
  <1> QED BY <1>8, <1>9 DEF r

\* What the search and the listing work on.
DirFacts ==
  /\ vol \in Volumes /\ Synced /\ faults \in Nat /\ dir \in FFDIR
  /\ Named(dir.entry) /\ dir.entry.kind = "dir" /\ AtEntry

\* The entry in the window is the current one of the directory.
LEMMA EntryRead ==
  ASSUME DirFacts, win' = dir.sect
  PROVE  EntryInWindow = IF dir.dptr + 1 <= Len(DirTable) THEN DirTable[dir.dptr + 1] ELSE EndEntry
  <1> DEFINE d == dir.entry.id
             n == dir.dptr
             t == n \div DirPerSector
  <1>1. d \in Dirs(vol) /\ n \in Nat
    BY NamedIs DEF DirFacts, FFDIR
  <1>2. On(vol.chain[d], t, dir.clust) /\ dir.sect = SectorNo(vol.chain[d], t)
    BY Zenon DEF DirFacts, AtEntry, Stands
  <1>3. EntryInWindow = EntryIn(vol, SectorNo(vol.chain[d], t), n % DirPerSector)
    BY <1>2 DEF EntryInWindow
  <1>4. vol \in Volumes
    BY DEF DirFacts
  <1> HIDE DEF d, n
  <1>5. EntryIn(vol, SectorNo(vol.chain[d], t), n % DirPerSector)
          = IF n + 1 <= Len(vol.table[d]) THEN vol.table[d][n + 1] ELSE EndEntry
    BY <1>1, <1>2, <1>4, EntryIs
  <1> QED BY <1>3, <1>5, Zenon DEF d, n, DirTable

\* The entries of an open directory.
LEMMA TableIs ==
  ASSUME DirFacts
  PROVE  /\ dir.entry.id \in Dirs(vol) /\ Len(DirTable) \in Nat /\ dir.dptr \in Nat
         /\ \A p \in 1 .. Len(DirTable) :
              /\ DirTable[p].kind \notin {"end", "none"}
              /\ DirTable[p].kind \in {"file", "dir"} => Named(DirTable[p])
         /\ \A p : p \in Live(vol, dir.entry.id) <=>
              p \in 1 .. Len(DirTable) /\ DirTable[p].kind \in {"file", "dir"}
  <1>1. dir.entry.id \in Dirs(vol) /\ dir.dptr \in Nat /\ vol \in Volumes
    BY NamedIs DEF DirFacts, FFDIR
  <1>2. /\ Len(DirTable) \in Nat
        /\ \A p \in 1 .. Len(DirTable) : DirTable[p] \in Entries /\ Sound(vol, DirTable[p])
    BY <1>1, DirOf DEF DirTable
  <1>3. ASSUME NEW p \in 1 .. Len(DirTable)
        PROVE  /\ DirTable[p].kind \notin {"end", "none"}
               /\ DirTable[p].kind \in {"file", "dir"} => Named(DirTable[p])
    BY <1>2 DEF Sound, Named
  <1>4. \A p : p \in Live(vol, dir.entry.id) <=>
          p \in 1 .. Len(DirTable) /\ DirTable[p].kind \in {"file", "dir"}
    BY Zenon DEF Live, DirTable
  <1> QED BY <1>1, <1>2, <1>3, <1>4

\* dir_next: the next entry, the end of the table, or a failed read.
Advances(x) ==
  /\ Synced' /\ faults' \in Nat /\ hurt' \in {hurt, TRUE}
  /\ \/ NextFails(x) /\ hurt' = TRUE
     \/ ~NextFails(x) /\ NextEnds(x) /\ Len(DirTable) <= dir.dptr + 1
     \/ /\ ~NextFails(x) /\ ~NextEnds(x)
        /\ Advanced(x) \in FFDIR /\ Advanced(x).entry = dir.entry /\ Advanced(x).open = dir.open
        /\ Advanced(x).dptr = dir.dptr + 1 /\ Stands(vol, Advanced(x))

\* The next index: in the same sector, the same cluster, or the next one.
LEMMA NextPlace ==
  ASSUME NEW n \in Nat, NEW t, t = n \div DirPerSector, NEW u, u = (n + 1) \div DirPerSector,
         NEW d, d = DirPerSector * CSize
  PROVE  /\ t \in Nat /\ u \in Nat /\ d \in Nat \ {0}
         /\ (n + 1) % d = 0 =>
              /\ u \div CSize = (t \div CSize) + 1 /\ u % CSize = 0
              /\ n + 1 = d * ((t \div CSize) + 1)
         /\ (n + 1) % d # 0 =>
              /\ u \div CSize = t \div CSize
              /\ (n + 1) % DirPerSector = 0 => u % CSize = (t % CSize) + 1
              /\ (n + 1) % DirPerSector # 0 => u % CSize = t % CSize
  <1> DEFINE a == DirPerSector
             b == CSize
             m == n + 1
  <1>1. a \in Nat \ {0} /\ b \in Nat \ {0} /\ m \in Nat /\ n \in Nat
    BY Geometry
  <1>0. d = a * b
    OBVIOUS
  <1> HIDE DEF a, b
  <1>2. d \in Nat \ {0}
    <2>1. a * b \in Nat \ {0}
      BY <1>1, SMT
    <2> QED BY <1>0, <2>1, Zenon
  <1>3. /\ m \div d = (m \div a) \div b
        /\ m % d = 0 <=> m % a = 0 /\ (m \div a) % b = 0
    <2> HIDE DEF m
    <2>1. /\ m \div (a * b) = (m \div a) \div b
          /\ m % (a * b) = 0 <=> m % a = 0 /\ (m \div a) % b = 0
      BY <1>1, DivDiv, ZenonT(40)
    <2> QED BY <1>0, <2>1, Zenon
  <1>4. n \div d = (n \div a) \div b
    <2>1. n \div (a * b) = (n \div a) \div b
      BY <1>1, DivDiv, ZenonT(40)
    <2> QED BY <1>0, <2>1, Zenon
  <1>5. /\ m % d = 0 => m \div d = (n \div d) + 1
        /\ m % d # 0 => m \div d = n \div d
    BY <1>1, <1>2, DivNext
  <1>6. /\ m % a = 0 => m \div a = (n \div a) + 1
        /\ m % a # 0 => m \div a = n \div a
    BY <1>1, DivNext
  <1>7. t = n \div a /\ u = m \div a
    BY DEF a
  <1>8. t \in Nat /\ u \in Nat
    BY <1>1, <1>7, DivMod
  <1>9. ASSUME m % d = 0
        PROVE  u \div b = (t \div b) + 1 /\ u % b = 0 /\ m = d * ((t \div b) + 1)
    <2>1. u \div b = (t \div b) + 1 /\ u % b = 0
      BY <1>3, <1>4, <1>5, <1>7, <1>9, Zenon
    <2>2. m = d * (m \div d) + (m % d) /\ m \div d \in Nat
      BY <1>1, <1>2, DivMod
    <2>3. m \div d = (t \div b) + 1
      BY <1>4, <1>5, <1>7, <1>9, Zenon
    <2> DEFINE z == m \div d
    <2>4. z \in Nat /\ m = d * z + 0
      BY <1>9, <2>2
    <2> HIDE DEF z
    <2>5. m = d * z
      <3>1. d * z \in Nat
        BY <1>2, <2>4
      <3> QED BY <2>4, <3>1
    <2> QED BY <2>1, <2>3, <2>5, Zenon DEF z
  <1>10. ASSUME m % d # 0
         PROVE  /\ u \div b = t \div b
                /\ m % a = 0 => u % b = (t % b) + 1
                /\ m % a # 0 => u % b = t % b
    <2>1. u \div b = t \div b
      BY <1>3, <1>4, <1>5, <1>7, <1>10, Zenon
    <2>2. CASE m % a = 0
      <3>1. u = t + 1 /\ u % b # 0
        BY <1>3, <1>6, <1>7, <1>10, <2>2, Zenon
      <3>2. (t + 1) % b # 0 => (t + 1) % b = (t % b) + 1
        BY <1>1, <1>8, DivNext, Zenon
      <3> QED BY <2>1, <2>2, <3>1, <3>2, Zenon
    <2>3. CASE m % a # 0
      <3>1. u = t
        BY <1>6, <1>7, <2>3, Zenon
      <3> QED BY <2>1, <2>3, <3>1, Zenon
    <2> QED BY <2>2, <2>3
  <1> QED BY <1>2, <1>8, <1>9, <1>10 DEF a, b

LEMMA AdvanceIs ==
  ASSUME DirFacts, NEW x \in FatValues, NextCluster(x)
  PROVE  Advances(x)
  <1> DEFINE e == dir.entry
             chain == vol.chain[e.id]
             n == dir.dptr
             t == n \div DirPerSector
             u == (n + 1) \div DirPerSector
             q == t \div CSize
             r == Advanced(x)
             D == DirPerSector * CSize
  <1>1. /\ vol \in Volumes /\ Synced /\ faults \in Nat /\ dir \in FFDIR /\ Named(e)
        /\ n \in Nat /\ dir.clust \in Int /\ dir.sect \in Int /\ dir.open \in BOOLEAN /\ e \in Entries
        /\ e.id \in Dirs(vol) /\ Len(DirTable) \in Nat
    BY TableIs DEF DirFacts, FFDIR
  <1>2. chain \in Seq(2 .. (NFat - 1)) /\ Len(DirTable) <= D * Len(chain) /\ Len(chain) \in Nat
    <2>1. chain \in Seq(2 .. (NFat - 1)) /\ Len(chain) \in 0 .. NFat
      BY <1>1, NamedIs, Zenon
    <2>2. Len(DirTable) <= D * Len(chain)
      BY <1>1, DirOf, Zenon DEF DirTable
    <2>3. Len(chain) \in Nat
      BY <2>1, LenProperties
    <2> QED BY <2>1, <2>2, <2>3
  <1>3. On(chain, t, dir.clust) /\ dir.sect = SectorNo(chain, t)
    BY Zenon DEF DirFacts, AtEntry, Stands
  <1>4. /\ t \in Nat /\ u \in Nat /\ D \in Nat \ {0}
        /\ (n + 1) % D = 0 => u \div CSize = q + 1 /\ u % CSize = 0 /\ n + 1 = D * (q + 1)
        /\ (n + 1) % D # 0 =>
              /\ u \div CSize = q
              /\ (n + 1) % DirPerSector = 0 => u % CSize = (t % CSize) + 1
              /\ (n + 1) % DirPerSector # 0 => u % CSize = t % CSize
    <2>1. t = n \div DirPerSector /\ u = (n + 1) \div DirPerSector /\ D = DirPerSector * CSize
      OBVIOUS
    <2> HIDE DEF t, u, n, D
    <2>2. t \in Nat /\ u \in Nat /\ D \in Nat \ {0}
      BY <1>1, <2>1, NextPlace
    <2>3. (n + 1) % D = 0 => u \div CSize = q + 1 /\ u % CSize = 0 /\ n + 1 = D * (q + 1)
      BY <1>1, <2>1, NextPlace
    <2>4. (n + 1) % D # 0 =>
              /\ u \div CSize = q
              /\ (n + 1) % DirPerSector = 0 => u % CSize = (t % CSize) + 1
              /\ (n + 1) % DirPerSector # 0 => u % CSize = t % CSize
      <3>1. n \in Nat
        BY <1>1
      <3>2. (n + 1) % D # 0 => u \div CSize = q
        BY <2>1, <3>1, NextPlace
      <3>3. (n + 1) % D # 0 => ((n + 1) % DirPerSector = 0 => u % CSize = (t % CSize) + 1)
        BY <2>1, <3>1, NextPlace
      <3>4. (n + 1) % D # 0 => ((n + 1) % DirPerSector # 0 => u % CSize = t % CSize)
        BY <2>1, <3>1, NextPlace
      <3> QED BY <3>2, <3>3, <3>4, Zenon
    <2> QED BY <2>2, <2>3, <2>4, Zenon
  <1>5. /\ NextIndex = n + 1 /\ (EndOfCluster <=> (n + 1) % D = 0)
    BY DEF NextIndex, EndOfCluster
  <1>6. NFat \in Nat /\ EOC = NFat + 1 /\ DiskErr = NFat + 2 /\ CSize \in Nat \ {0}
    BY Geometry
  <1> HIDE DEF t, u, D, n, chain, e
  <1>7. /\ dir.clust \in 2 .. (NFat - 1) /\ SectorNo(chain, t) = Clst2Sect(dir.clust) + (t % CSize)
        /\ Clst2Sect(dir.clust) \in Nat
    BY <1>2, <1>3, <1>4, SectorIs
  <1>8. CASE EndOfCluster
    <2>1. GetFat(e, dir.clust, x)
      BY <1>8 DEF NextCluster, e
    <2>2. FatGives(chain, t, x)
      BY <1>1, <1>3, <1>4, <2>1, GetFatIs, Zenon DEF chain
    <2>3. q \in Nat
      BY <1>4, <1>6, DivMod
    <2> HIDE DEF q
    <2>4. /\ Synced' /\ faults' \in Nat /\ hurt' \in {hurt, TRUE}
          /\ \/ x \in 2 .. (NFat - 1) /\ q + 1 < Len(chain) /\ x = chain[q + 2]
             \/ x = EOC /\ q + 1 = Len(chain)
             \/ hurt' = TRUE /\ x = DiskErr
      BY <2>2, Zenon DEF FatGives, q
    <2>5. u \div CSize = q + 1 /\ u % CSize = 0 /\ n + 1 = D * (q + 1)
      BY <1>4, <1>5, <1>8, Zenon
    <2>6. CASE x \in 2 .. (NFat - 1) /\ q + 1 < Len(chain) /\ x = chain[q + 2]
      <3>1. ~NextFails(x) /\ ~NextEnds(x)
        BY <1>6, <2>6 DEF NextFails, NextEnds
      <3>2. r = [dir EXCEPT !.dptr = n + 1, !.clust = x, !.sect = Clst2Sect(x)]
        BY <1>5, <1>8, <3>1 DEF Advanced
      <3>3. On(chain, u, x)
        <4>1. q + 2 = 1 + (q + 1)
          BY <2>3
        <4> QED BY <2>5, <2>6, <4>1, Zenon DEF On
      <3>4. SectorNo(chain, u) = Clst2Sect(x) + (u % CSize) /\ Clst2Sect(x) \in Nat
        BY <1>2, <1>4, <3>3, SectorIs
      <3>5. SectorNo(chain, u) = Clst2Sect(x)
        BY <2>5, <3>4
      <3>6. x \in Int /\ n + 1 \in Nat
        BY <1>1, <2>6
      <3>7. /\ r \in FFDIR /\ r.entry = e /\ r.open = dir.open /\ r.dptr = n + 1
            /\ r.clust = x /\ r.sect = Clst2Sect(x)
        <4> HIDE DEF r
        <4>1. Clst2Sect(x) \in Int /\ dir \in FFDIR
          BY <1>1, <3>4
        <4> QED BY <3>2, <3>6, <4>1 DEF FFDIR, e
      <3> HIDE DEF r
      <3>8. Stands(vol, r)
        BY <3>3, <3>5, <3>7, Zenon DEF Stands, chain, u
      <3>9. /\ Advanced(x) \in FFDIR /\ Advanced(x).entry = dir.entry /\ Advanced(x).open = dir.open
            /\ Advanced(x).dptr = dir.dptr + 1 /\ Stands(vol, Advanced(x))
        BY <3>7, <3>8, Zenon DEF r, n, e
      <3>10. Synced' /\ faults' \in Nat /\ hurt' \in {hurt, TRUE}
        BY <2>4, Zenon
      <3> QED BY <3>1, <3>9, <3>10, Zenon DEF Advances
    <2>7. CASE x = EOC /\ q + 1 = Len(chain)
      <3>1. ~NextFails(x) /\ NextEnds(x)
        BY <1>6, <1>7, <2>7 DEF NextFails, NextEnds
      <3>2. Len(DirTable) <= n + 1
        BY <1>2, <2>5, <2>7
      <3> QED BY <2>4, <3>1, <3>2 DEF Advances, n
    <2>8. CASE hurt' = TRUE /\ x = DiskErr
      BY <2>4, <2>8 DEF Advances, NextFails
    <2> QED BY <2>4, <2>6, <2>7, <2>8
  <1>9. CASE ~EndOfCluster
    <2>1. x = dir.clust /\ UNCHANGED <<winsect, win, faults, hurt>>
      BY <1>9 DEF NextCluster, window
    <2>2. ~NextFails(x) /\ ~NextEnds(x)
      BY <1>6, <1>7, <2>1 DEF NextFails, NextEnds
    <2> DEFINE s == IF (n + 1) % DirPerSector = 0 THEN dir.sect + 1 ELSE dir.sect
    <2>3. r = [dir EXCEPT !.dptr = n + 1, !.sect = s]
      BY <1>5, <1>9, <2>2 DEF Advanced
    <2>4. /\ u \div CSize = q
          /\ (n + 1) % DirPerSector = 0 => u % CSize = (t % CSize) + 1
          /\ (n + 1) % DirPerSector # 0 => u % CSize = t % CSize
      BY <1>4, <1>5, <1>9, Zenon
    <2>5. On(chain, u, dir.clust)
      BY <1>3, <2>4, Zenon DEF On
    <2>6. SectorNo(chain, u) = Clst2Sect(dir.clust) + (u % CSize)
      BY <1>2, <1>4, <2>5, SectorIs
    <2>7. SectorNo(chain, u) = s
      <3> DEFINE w == t % CSize
                 k == Clst2Sect(dir.clust)
      <3>1. w \in Int /\ k \in Int /\ dir.sect = k + w
        <4>1. w \in 0 .. (CSize - 1)
          BY <1>4, <1>6, DivMod
        <4> QED BY <1>3, <1>7, <4>1
      <3>2. /\ (n + 1) % DirPerSector = 0 => SectorNo(chain, u) = k + (w + 1)
            /\ (n + 1) % DirPerSector # 0 => SectorNo(chain, u) = k + w
        BY <2>4, <2>6, Zenon
      <3> HIDE DEF w, k
      <3>3. CASE (n + 1) % DirPerSector = 0
        BY <3>1, <3>2, <3>3
      <3>4. CASE (n + 1) % DirPerSector # 0
        BY <3>1, <3>2, <3>4
      <3> QED BY <3>3, <3>4
    <2>8. s \in Int /\ n + 1 \in Nat
      BY <1>1
    <2> HIDE DEF s, r
    <2>9. /\ r \in FFDIR /\ r.entry = e /\ r.open = dir.open /\ r.dptr = n + 1
          /\ r.clust = dir.clust /\ r.sect = s
      BY <1>1, <2>3, <2>8 DEF FFDIR, e
    <2>10. Stands(vol, r)
      BY <2>5, <2>7, <2>9, Zenon DEF Stands, chain, u
    <2>11. Synced' /\ faults' \in Nat /\ hurt' \in {hurt, TRUE}
      BY <1>1, <2>1 DEF Synced
    <2> QED BY <2>2, <2>9, <2>10, <2>11 DEF Advances, r, n, e
  <1> QED BY <1>8, <1>9

-----------------------------------------------------------------------------
(* What a search of the current directory finds. *)

LEMMA ChildIs ==
  ASSUME NEW v, NEW d, NEW m, NEW p \in Live(v, d), v.table[d][p].name = m,
         \A j \in Live(v, d) : j < p => v.table[d][j].name # m
  PROVE  Child(v, d, m) = v.table[d][p]
  <1> DEFINE hits == {j \in Live(v, d) : v.table[d][j].name = m}
  <1>1. hits \subseteq Int /\ p \in hits
    BY DEF Live
  <1>2. \A j \in hits : p <= j
    BY <1>1
  <1>3. hits # {} /\ Child(v, d, m) = IF hits = {} THEN NoEntry ELSE v.table[d][Min(hits)]
    BY <1>1 DEF Child
  <1> HIDE DEF hits
  <1>4. Min(hits) = p
    BY <1>1, <1>2, MinIs
  <1> QED BY <1>3, <1>4

LEMMA ChildNone ==
  ASSUME NEW v, NEW d, NEW m, \A j \in Live(v, d) : v.table[d][j].name # m
  PROVE  Child(v, d, m) = NoEntry
  BY DEF Child

\* A search from the root is a lookup.
LEMMA WalkRoot == \A v, p : Walk(v, Root, p) = Lookup(v, p)
  BY Zenon DEF Walk, Lookup

\* The search ends: no entry has the name, or the current one is the first.
LEMMA WalkEnds ==
  ASSUME NEW v, NEW d, NEW p \in Seq(Names), p # <<>>
  PROVE  /\ Child(v, d, p[1]) = NoEntry => Walk(v, d, p) = NoEntry
         /\ Len(p) = 1 => Walk(v, d, p) = Child(v, d, p[1])
         /\ Len(p) # 1 /\ Child(v, d, p[1]).kind # "dir" => Walk(v, d, p) = NoEntry
  <1>1. NoEntry.kind # "dir"
    BY DEF NoEntry
  <1>2. Len(p) = 1 => Walk(v, d, p) = Child(v, d, p[1])
    BY DEF Walk
  <1>3. ASSUME Len(p) # 1, Child(v, d, p[1]).kind # "dir"
        PROVE  Walk(v, d, p) = NoEntry
    BY <1>3 DEF Walk
  <1> QED BY <1>1, <1>2, <1>3

\* follow_path goes down.
LEMMA WalkDown ==
  ASSUME NEW v, NEW d, NEW p \in Seq(Names), Len(p) = 2, Child(v, d, p[1]).kind = "dir"
  PROVE  /\ Tail(p) \in Seq(Names) /\ Len(Tail(p)) = 1 /\ Tail(p) # <<>>
         /\ Walk(v, d, p) = Walk(v, Child(v, d, p[1]).id, Tail(p))
  <1>1. p # <<>>
    <2>1. Len(p) # 0
      OBVIOUS
    <2> QED BY <2>1, EmptySeq, Zenon
  <1>2. Tail(p) \in Seq(Names) /\ Len(Tail(p)) = 1 /\ Tail(p)[1] = p[2]
    <2>1. Tail(p) \in Seq(Names) /\ Len(Tail(p)) = Len(p) - 1
          /\ \A i \in 1 .. Len(Tail(p)) : Tail(p)[i] = p[i + 1]
      BY <1>1, HeadTailProperties
    <2> QED BY <2>1
  <1>3. Tail(p) # <<>>
    <2>1. Len(Tail(p)) # 0
      BY <1>2
    <2> QED BY <1>2, <2>1, EmptySeq, Zenon
  <1>4. Walk(v, d, p) = Child(v, Child(v, d, p[1]).id, p[2])
    BY <1>1 DEF Walk
  <1>5. Walk(v, Child(v, d, p[1]).id, Tail(p)) = Child(v, Child(v, d, p[1]).id, Tail(p)[1])
    BY <1>2, <1>3 DEF Walk
  <1> QED BY <1>2, <1>3, <1>4, <1>5

\* What a path search works on.
LEMMA FindFacts ==
  ASSUME IInv, pc \in Finding
  PROVE  /\ DirFacts /\ dir.open = FALSE /\ file = Closed /\ file.open = FALSE
         /\ call \in Calls /\ call # NoCall /\ call.op = "open" /\ call.kind \in {"file", "dir"}
         /\ call.paths \in Seq(Seq(Names)) /\ Len(call.paths) \in Nat \ {0}
         /\ \A k \in 1 .. Len(call.paths) : call.paths[k] \in Seq(Names) /\ Len(call.paths[k]) <= 2
         /\ path \in Seq(Names) /\ Len(path) \in 0 .. 2 /\ alts \in Seq(Seq(Names))
         /\ path # <<>> => Passed(dir.dptr)
         /\ pc = "findnext" =>
              path # <<>> /\ Passed(dir.dptr + 1) /\ dir.dptr + 1 <= Len(DirTable)
         /\ \E k \in 1 .. Len(call.paths) : Trying(k)
         /\ hurt \in BOOLEAN /\ got = <<>>
  <1>1. /\ pc \notin {"idle", "panic"} /\ pc \notin Reading \cup {"listed", "panic"}
    BY DEF Finding, Reading
  <1>2. call \in Calls /\ call.op = "open" /\ ~file.open /\ ~dir.open
    BY <1>1 DEF IInv, CallInv
  <1>3. /\ call # NoCall /\ call.kind \in {"file", "dir"}
        /\ call.paths \in Seq(Seq(Names)) /\ Len(call.paths) \in Nat \ {0}
        /\ \A k \in 1 .. Len(call.paths) : call.paths[k] \in Seq(Names) /\ Len(call.paths[k]) <= 2
    BY <1>2, CallFacts
  <1>4. /\ vol \in Volumes /\ Synced /\ faults \in Nat /\ dir \in FFDIR /\ hurt \in BOOLEAN
        /\ dir.entry \in Entries /\ dir.open \in BOOLEAN /\ file.open \in BOOLEAN
    BY TypeFacts DEF IInv, Types
  <1>5. dir.entry.kind = "dir" /\ Sound(vol, dir.entry) /\ file = Closed
    BY <1>2 DEF IInv, OpenInv
  <1>6. /\ path \in Seq(Names) /\ Len(path) <= 2 /\ AtEntry /\ alts \in Seq(Seq(Names))
        /\ path # <<>> => Passed(dir.dptr)
        /\ pc = "findnext" => path # <<>> /\ Passed(dir.dptr + 1) /\ dir.dptr + 1 <= Len(DirTable)
        /\ \E k \in 1 .. Len(call.paths) : Trying(k)
    BY DEF IInv, FindInv
  <1>7. DirFacts
    BY <1>4, <1>5, <1>6 DEF DirFacts, Named
  <1>8. Len(path) \in 0 .. 2
    <2> DEFINE n == Len(path)
    <2>1. n \in Nat /\ n <= 2
      BY <1>6, LenProperties
    <2> HIDE DEF n
    <2>2. n \in 0 .. 2
      BY <2>1
    <2> QED BY <2>2 DEF n
  <1>9. got = <<>>
    BY <1>1 DEF IInv, BufferInv
  <1>10. dir.open = FALSE /\ file.open = FALSE
    BY <1>2, <1>4
  <1> QED BY <1>2, <1>3, <1>4, <1>5, <1>6, <1>7, <1>8, <1>9, <1>10

-----------------------------------------------------------------------------
(* f_open and f_opendir. *)

\* The same path is followed further.
LEMMA TryingOn ==
  ASSUME NEW k, Trying(k), UNCHANGED <<vol, call, alts>>, hurt' \in {hurt, TRUE},
         Walk(vol, dir'.entry.id, path') = Walk(vol, dir.entry.id, path)
  PROVE  Trying(k)'
  <1>1. /\ Len(alts) = Len(call.paths) - k
        /\ \A i \in 1 .. Len(alts) : alts[i] = call.paths[k + i]
        /\ ~hurt => \A j \in 1 .. (k - 1) : ~Fits(j)
        /\ Lookup(vol, call.paths[k]) = Walk(vol, dir.entry.id, path)
    BY Zenon DEF Trying
  <1>2. ~hurt' => ~hurt
    OBVIOUS
  <1>3. \A j : Fits(j)' <=> Fits(j)
    BY DEF Fits
  <1>4. /\ Len(alts') = Len(call'.paths) - k
        /\ \A i \in 1 .. Len(alts') : alts'[i] = call'.paths[k + i]
    BY <1>1, Zenon
  <1>5. ~hurt' => \A j \in 1 .. (k - 1) : ~Fits(j)'
    BY <1>1, <1>2, <1>3, Zenon
  <1>6. Lookup(vol', call'.paths[k]) = Walk(vol', dir'.entry.id, path')
    BY <1>1
  <1> QED BY <1>4, <1>5, <1>6, Zenon DEF Trying

LEMMA FindGoesOn ==
  ASSUME IInv, pc \in Finding, pc' \in Finding, UNCHANGED <<vol, call, ret, filevars>>,
         Synced', faults' \in Nat, hurt' \in {hurt, TRUE},
         dir' \in FFDIR, dir'.open = FALSE, Named(dir'.entry), dir'.entry.kind = "dir",
         FindInv'
  PROVE  IInv' /\ AbsStep
  <1>1. /\ dir.open = FALSE /\ file = Closed /\ file.open = FALSE /\ call \in Calls /\ call # NoCall
        /\ call.op = "open" /\ got = <<>> /\ hurt \in BOOLEAN
    BY FindFacts
  <1>2. UNCHANGED <<file, ofs, btr, xfer, got>>
    BY DEF filevars
  <1>3. pc \notin {"idle", "panic"} /\ pc' \notin {"idle", "panic", "lseek", "seek"} \cup Listing \cup Reading
    BY DEF Finding, Listing, Reading
  <1>4. Types'
    <2>1. Types
      BY DEF IInv
    <2>2. pc' \in Pcs
      BY DEF Pcs
    <2> QED BY <1>2, <2>1, <2>2 DEF Types
  <1>5. CallInv'
    BY <1>1, <1>2, <1>3 DEF CallInv
  <1>6. OpenInv'
    BY <1>1, <1>2 DEF OpenInv, Named
  <1>7. ListInv' /\ PlaceInv' /\ BufferInv'
    BY <1>1, <1>2, <1>3 DEF ListInv, PlaceInv, BufferInv, Listing
  <1>8. Opened' = Opened /\ Position' = Position /\ Failed' = Failed
    BY <1>1, <1>2, <1>3 DEF Opened, Position, Failed
  <1> QED BY <1>1, <1>4, <1>5, <1>6, <1>7, <1>8, InsideCall DEF IInv

\* The open returns with object e open, or with none.
LEMMA OpenEnds ==
  ASSUME IInv, pc \in Finding, NEW ok, Return(ok, NoValue), UNCHANGED vol,
         Synced', faults' \in Nat, hurt' \in {hurt, TRUE},
         NEW e, e = NoEntry \/ Named(e),
         file' = IF e.kind = "file" THEN [Closed EXCEPT !.open = TRUE, !.entry = e] ELSE Closed,
         dir' = IF e.kind = "dir" THEN [Rewind(e) EXCEPT !.open = TRUE] ELSE ClosedDir
  PROVE  /\ IInv'
         /\ Opened = NoEntry /\ Position = 0 /\ Failed = FALSE
         /\ Opened' = e /\ Position' = 0 /\ Failed' = FALSE
  <1>1. /\ pc' = "idle" /\ call' = NoCall /\ ofs' = 0 /\ btr' = 0 /\ xfer' = NoXfer /\ got' = <<>>
    BY DEF Return
  <1>2. /\ vol \in Volumes /\ dir.open = FALSE /\ file = Closed /\ hurt \in BOOLEAN
    BY FindFacts DEF DirFacts
  <1>3. NoEntry \in Entries /\ NoEntry.kind = "none"
    <2>1. "none" \in Kinds /\ NoName \in Names
      BY NameAssumption DEF Kinds
    <2> QED BY <2>1 DEF NoEntry, Entries
  <1>4. e \in Entries /\ (e.kind \in {"file", "dir"} => Named(e)) /\ (e.kind \notin {"file", "dir"} => e = NoEntry)
    BY <1>3 DEF Named
  <1>5. /\ Closed \in FIL /\ Closed.open = FALSE /\ Closed.err = FALSE
    BY <1>3 DEF Closed, FIL
  <1>6. ClosedDir \in FFDIR /\ ClosedDir.open = FALSE
    BY <1>3 DEF ClosedDir, FFDIR
  <1>7. e.kind = "file" =>
          /\ file' \in FIL /\ file'.open = TRUE /\ file'.entry = e /\ file'.err = FALSE /\ file'.fptr = 0
          /\ dir' = ClosedDir
    <2> SUFFICES ASSUME e.kind = "file"
                 PROVE  /\ file' \in FIL /\ file'.open = TRUE /\ file'.entry = e /\ file'.err = FALSE
                        /\ file'.fptr = 0 /\ dir' = ClosedDir
      OBVIOUS
    <2>1. file' = [Closed EXCEPT !.open = TRUE, !.entry = e] /\ dir' = ClosedDir
      OBVIOUS
    <2>2. Closed \in FIL /\ Closed.fptr = 0 /\ Closed.err = FALSE
      BY <1>5 DEF Closed
    <2> QED BY <1>4, <2>1, <2>2 DEF FIL
  <1>8. e.kind = "dir" =>
          /\ dir' \in FFDIR /\ dir'.open = TRUE /\ dir'.entry = e /\ dir'.dptr = 0 /\ Stands(vol, dir')
          /\ file' = Closed
    <2> SUFFICES ASSUME e.kind = "dir"
                 PROVE  /\ dir' \in FFDIR /\ dir'.open = TRUE /\ dir'.entry = e /\ dir'.dptr = 0
                        /\ Stands(vol, dir') /\ file' = Closed
      OBVIOUS
    <2>1. /\ Rewind(e) \in FFDIR /\ Rewind(e).entry = e /\ Rewind(e).dptr = 0 /\ Stands(vol, Rewind(e))
      BY <1>2, <1>4, RewindStands
    <2>2. dir' = [Rewind(e) EXCEPT !.open = TRUE] /\ file' = Closed
      OBVIOUS
    <2>3. /\ dir' \in FFDIR /\ dir'.open = TRUE /\ dir'.entry = Rewind(e).entry /\ dir'.dptr = Rewind(e).dptr
          /\ dir'.clust = Rewind(e).clust /\ dir'.sect = Rewind(e).sect
      BY <2>1, <2>2 DEF FFDIR
    <2>4. Stands(vol, dir')
      BY <2>1, <2>3, Zenon DEF Stands
    <2> QED BY <2>1, <2>2, <2>3, <2>4
  <1>9. e.kind \notin {"file", "dir"} => file' = Closed /\ dir' = ClosedDir
    OBVIOUS
  <1>10. Types'
    <2>1. xfer' \in Transfers /\ ofs' \in Nat /\ btr' \in Nat
      BY <1>1 DEF NoXfer, Transfers
    <2>2. pc' \in Pcs
      BY <1>1 DEF Pcs
    <2>3. file' \in FIL /\ dir' \in FFDIR
      BY <1>5, <1>6, <1>7, <1>8, <1>9
    <2> QED BY <1>2, <2>1, <2>2, <2>3 DEF Types
  <1>11. CallInv'
    BY <1>1 DEF CallInv, Finding, Listing, Reading
  <1>12. OpenInv'
    BY <1>1, <1>4, <1>5, <1>6, <1>7, <1>8, <1>9 DEF OpenInv, Finding, Named
  <1>13. FindInv' /\ BufferInv'
    BY <1>1 DEF FindInv, BufferInv, Finding, Reading
  <1>14. ListInv'
    <2>1. dir'.open => Stands(vol', dir')
      BY <1>6, <1>7, <1>8, <1>9
    <2> QED BY <1>1, <2>1 DEF ListInv, AtEntry
  <1>15. PlaceInv'
    <2>1. file'.open => file'.fptr = 0 /\ file'.entry.size \in Nat
      BY <1>4, <1>5, <1>7, <1>8, <1>9 DEF Entries
    <2>2. 0 % SS = 0
      BY Geometry, SMT
    <2>3. file'.open => Resting'
      BY <2>1, <2>2 DEF Resting
    <2> QED BY <1>1, <2>3 DEF PlaceInv
  <1>16. Opened = NoEntry /\ Position = 0 /\ Failed = FALSE
    BY <1>2, <1>5 DEF Opened, Position, Failed, Finding
  <1>17. Opened' = e /\ Failed' = FALSE
    BY <1>1, <1>4, <1>5, <1>6, <1>7, <1>8, <1>9 DEF Opened, Failed
  <1>18. Position' = 0
    <2>1. CASE dir'.open
      <3>1. e.kind = "dir"
        BY <1>4, <1>6, <1>7, <1>9, <2>1
      <3>2. dir'.dptr = 0 /\ dir'.sect # 0
        <4>1. On(vol.chain[e.id], 0 \div DirPerSector, dir'.clust)
              /\ dir'.sect = SectorNo(vol.chain[e.id], 0 \div DirPerSector) /\ dir'.dptr = 0
          BY <1>8, <3>1, Zenon DEF Stands
        <4>2. 0 \div DirPerSector = 0 /\ vol.chain[e.id] \in Seq(2 .. (NFat - 1))
          <5>1. 0 \div DirPerSector = 0
            BY Geometry, SMT
          <5> QED BY <1>2, <1>4, <3>1, <5>1, NamedIs
        <4>3. SectorNo(vol.chain[e.id], 0) \in Nat \ {0}
          BY <4>1, <4>2, SectorIs
        <4> QED BY <4>1, <4>2, <4>3
      <3>3. Position' = Max({0} \cup {p \in Live(vol', dir'.entry.id) : p <= 0})
        BY <2>1, <3>2 DEF Position, Seen
      <3> DEFINE S == {p \in Live(vol', dir'.entry.id) : p <= 0}
      <3>4. S = {}
        BY DEF Live
      <3>5. S \subseteq 1 .. 0
        BY <3>4
      <3> HIDE DEF S
      <3>6. Max({0} \cup S) \in {0} \cup S
        BY <3>5, MaxBelow
      <3> QED BY <3>3, <3>4, <3>6 DEF S
    <2>2. CASE ~dir'.open
      BY <2>2 DEF Position
    <2> QED BY <2>1, <2>2
  <1> QED BY <1>10, <1>11, <1>12, <1>13, <1>14, <1>15, <1>16, <1>17, <1>18 DEF IInv

\* What the abstract open may find.
LEMMA FoundIs ==
  ASSUME IInv, pc \in Finding, NEW k \in 1 .. (Len(call.paths) + 1), UNCHANGED vol, hurt' \in BOOLEAN,
         ~hurt' => \A j \in 1 .. (k - 1) : ~Fits(j),
         k \in 1 .. Len(call.paths) => Fits(k)
  PROVE  /\ DOMAIN call.paths = 1 .. Len(call.paths)
         /\ ~hurt' \/ k \in 1 .. Len(call.paths) => k \in Abstract!Found(call)
         /\ hurt' => 0 \in Abstract!Found(call)
  <1> DEFINE n == Len(call.paths)
             S == {j \in 1 .. n : Fits(j)}
  <1>1. n \in Nat /\ DOMAIN call.paths = 1 .. n
    <2>1. call.paths \in Seq(Seq(Names))
      BY FindFacts
    <2> QED BY <2>1, LenProperties
  <1>2. \A j : Abstract!FitsAt(call, j) <=> Fits(j)
    BY SameLookup DEF Abstract!FitsAt, Fits
  <1>3. {j \in DOMAIN call.paths : Abstract!FitsAt(call, j)} = S
    BY <1>1, <1>2
  <1>4. Abstract!Found(call) = IF hurt' THEN S \cup {0} ELSE {Min(S \cup {n + 1})}
    BY <1>3, SameMin, Zenon DEF Abstract!Found
  <1>5. ASSUME ~hurt'
        PROVE  Min(S \cup {n + 1}) = k
    <2>1. k \in S \cup {n + 1} /\ S \cup {n + 1} \subseteq Int
      <3> HIDE DEF n
      <3>1. k \in 1 .. n \/ k = n + 1
        BY <1>1 DEF n
      <3> QED BY <1>1, <3>1 DEF n
    <2>2. ASSUME NEW j \in S \cup {n + 1}
          PROVE  k <= j
      <3>1. CASE j = n + 1
        <4> HIDE DEF n
        <4> QED BY <1>1, <3>1 DEF n
      <3>2. CASE j \in S
        <4>1. j \in 1 .. n /\ Fits(j)
          BY <3>2
        <4>2. j \notin 1 .. (k - 1)
          BY <1>5, <4>1
        <4> HIDE DEF n
        <4> QED BY <1>1, <4>1, <4>2
      <3> QED BY <2>2, <3>1, <3>2
    <2> HIDE DEF S
    <2> QED BY <2>1, <2>2, MinIs
  <1>6. ~hurt' => k \in Abstract!Found(call)
    BY <1>4, <1>5
  <1>7. hurt' /\ k \in 1 .. n => k \in Abstract!Found(call)
    BY <1>4
  <1>8. hurt' => 0 \in Abstract!Found(call)
    BY <1>4
  <1> QED BY <1>1, <1>6, <1>7, <1>8

\* The object of the first path that fits is open.
LEMMA OpenSucceeds ==
  ASSUME IInv, pc \in Finding, NEW k \in 1 .. Len(call.paths), Trying(k), Fits(k),
         call' = NoCall, UNCHANGED vol, hurt' \in {hurt, TRUE}, ret' = [ok |-> TRUE, val |-> NoValue],
         Opened' = Lookup(vol, call.paths[k]), Position' = Position, Failed' = Failed
  PROVE  AbsStep
  <1>1. call # NoCall /\ call.op = "open" /\ hurt \in BOOLEAN /\ Len(call.paths) \in Nat
    BY FindFacts
  <1>2. ~hurt' => \A j \in 1 .. (k - 1) : ~Fits(j)
    BY <1>1 DEF Trying
  <1>3. hurt' \in BOOLEAN /\ k \in 1 .. (Len(call.paths) + 1)
    <2> DEFINE n == Len(call.paths)
    <2>1. n \in Nat /\ k \in 1 .. n /\ hurt' \in BOOLEAN
      BY <1>1
    <2> HIDE DEF n
    <2>2. k \in 1 .. (n + 1)
      BY <2>1
    <2> QED BY <2>1, <2>2 DEF n
  <1>4. k \in Abstract!Found(call) /\ k \in DOMAIN call.paths
    <2>1. /\ DOMAIN call.paths = 1 .. Len(call.paths)
          /\ ~hurt' \/ k \in 1 .. Len(call.paths) => k \in Abstract!Found(call)
          /\ hurt' => 0 \in Abstract!Found(call)
      BY <1>2, <1>3, FoundIs, Zenon
    <2> QED BY <2>1
  <1>5. Opened' = Abstract!Lookup(vol, call.paths[k])
    BY SameLookup
  <1>6. Abstract!Ends("open")
    BY <1>1 DEF Abstract!Ends
  <1>7. Abstract!Returns(TRUE, NoValue)
    BY DEF Abstract!Returns
  <1>8. Abstract!ReturnOpen
    BY <1>4, <1>5, <1>6, <1>7 DEF Abstract!ReturnOpen, Opened, Position, Seen, Failed
  <1> QED BY <1>8 DEF AbsStep, Abstract!Next

\* No path fits, or a fault hid one that does.
LEMMA OpenFails ==
  ASSUME IInv, pc \in Finding, NEW k \in 1 .. Len(call.paths), k = Len(call.paths), Trying(k),
         hurt' = TRUE \/ ~Fits(k),
         call' = NoCall, UNCHANGED vol, hurt' \in {hurt, TRUE}, ret' = [ok |-> FALSE, val |-> NoValue],
         Opened' = Opened, Position' = Position, Failed' = Failed
  PROVE  AbsStep
  <1> DEFINE n == Len(call.paths)
  <1>1. call # NoCall /\ call.op = "open" /\ hurt \in BOOLEAN /\ n \in Nat
    BY FindFacts
  <1>2. n + 1 \in 1 .. (n + 1) /\ n + 1 \notin 1 .. n /\ 0 \notin 1 .. n
    BY <1>1
  <1>3. ~hurt' => \A j \in 1 .. ((n + 1) - 1) : ~Fits(j)
    <2> SUFFICES ASSUME ~hurt', NEW j \in 1 .. ((n + 1) - 1)
                 PROVE  ~Fits(j)
      OBVIOUS
    <2>1. ~hurt /\ ~Fits(k)
      BY <1>1
    <2>2. j \in 1 .. (k - 1) \/ j = k
      <3> HIDE DEF n
      <3>1. k = n
        BY DEF n
      <3> QED BY <1>1, <3>1
    <2> QED BY <2>1, <2>2 DEF Trying
  <1>4. hurt' \in BOOLEAN
    BY <1>1
  <1>5. PICK z \in Abstract!Found(call) : z \notin DOMAIN call.paths
    <2>1. /\ DOMAIN call.paths = 1 .. n
          /\ ~hurt' => n + 1 \in Abstract!Found(call)
          /\ hurt' => 0 \in Abstract!Found(call)
      <3> DEFINE m == n + 1
      <3>1. m \in 1 .. (n + 1) /\ m \notin 1 .. n /\ (~hurt' => \A j \in 1 .. (m - 1) : ~Fits(j))
        BY <1>2, <1>3
      <3> HIDE DEF m
      <3>2. /\ DOMAIN call.paths = 1 .. n
            /\ ~hurt' \/ m \in 1 .. n => m \in Abstract!Found(call)
            /\ hurt' => 0 \in Abstract!Found(call)
        BY <1>4, <3>1, FoundIs, Zenon
      <3> QED BY <3>2 DEF m
    <2> QED BY <1>2, <1>4, <2>1
  <1>6. Abstract!Ends("open")
    BY <1>1 DEF Abstract!Ends
  <1>7. Abstract!Returns(FALSE, NoValue)
    BY DEF Abstract!Returns
  <1>8. Abstract!ReturnOpen
    BY <1>5, <1>6, <1>7 DEF Abstract!ReturnOpen, Opened, Position, Seen, Failed
  <1> QED BY <1>8 DEF AbsStep, Abstract!Next

\* The next path is followed, from the root.
LEMMA NextPath ==
  ASSUME IInv, pc \in Finding, UNCHANGED <<vol, call, ret, filevars>>,
         Synced', faults' \in Nat, hurt' \in {hurt, TRUE},
         NEW k \in 1 .. Len(call.paths), Trying(k), hurt' = TRUE \/ ~Fits(k), alts # <<>>,
         dir' = Rewind(RootEntry), path' = Head(alts), alts' = Tail(alts), pc' = "find"
  PROVE  IInv' /\ AbsStep
  <1> DEFINE n == Len(call.paths)
             a == Len(alts)
             T == Seq(Names)
  <1>1. /\ vol \in Volumes /\ n \in Nat /\ alts \in Seq(T) /\ hurt \in BOOLEAN
        /\ \A i \in 1 .. n : call.paths[i] \in T /\ Len(call.paths[i]) <= 2
    BY FindFacts DEF DirFacts
  <1>2. /\ a = n - k /\ \A i \in 1 .. a : alts[i] = call.paths[k + i]
        /\ ~hurt => \A j \in 1 .. (k - 1) : ~Fits(j)
    BY Zenon DEF Trying
  <1>3. a \in Nat \ {0} /\ Head(alts) = alts[1] /\ Tail(alts) \in Seq(T) /\ Len(Tail(alts)) = a - 1
        /\ \A i \in 1 .. (a - 1) : Tail(alts)[i] = alts[i + 1]
    <2> HIDE DEF T
    <2>1. a \in Nat /\ a # 0
      <3>1. a \in Nat
        BY <1>1, LenProperties
      <3>2. Len(alts) # 0
        BY <1>1, EmptySeq, Zenon
      <3> QED BY <3>1, <3>2
    <2>2. /\ Tail(alts) \in Seq(T) /\ Len(Tail(alts)) = a - 1
          /\ \A i \in 1 .. Len(Tail(alts)) : Tail(alts)[i] = alts[i + 1]
      BY <1>1, HeadTailProperties, Zenon
    <2>3. Head(alts) = alts[1]
      BY <1>1
    <2> QED BY <2>1, <2>2, <2>3
  <1> HIDE DEF n, a, T
  <1>4. k \in 1 .. n /\ k + 1 \in 1 .. n /\ a - 1 = n - (k + 1) /\ (k + 1) - 1 = k
    <2>1. k \in 1 .. n
      BY DEF n
    <2> QED BY <1>1, <1>2, <1>3, <2>1
  <1>5. path' = call.paths[k + 1] /\ path' \in T /\ Len(path') <= 2
    <2>1. 1 \in 1 .. a
      BY <1>3
    <2>2. path' = call.paths[k + 1]
      BY <1>2, <1>3, <2>1, Zenon
    <2> QED BY <1>1, <1>4, <2>2, Zenon
  <1>6. Named(RootEntry) /\ RootEntry.kind = "dir" /\ RootEntry.id = Root
    BY <1>1, RootIs
  <1>7. dir' \in FFDIR /\ dir'.entry = RootEntry /\ dir'.open = FALSE /\ dir'.dptr = 0 /\ Stands(vol, dir')
    BY <1>1, <1>6, RewindStands, Zenon
  <1>8. Trying(k + 1)'
    <2>1. Len(alts') = Len(call'.paths) - (k + 1)
      BY <1>3, <1>4, Zenon DEF n
    <2>2. ASSUME NEW i \in 1 .. Len(alts')
          PROVE  alts'[i] = call'.paths[(k + 1) + i]
      <3>1. i \in 1 .. (a - 1)
        BY <1>3
      <3>2. i + 1 \in 1 .. a /\ k + (i + 1) = (k + 1) + i
        BY <1>3, <1>4, <3>1
      <3>3. alts'[i] = alts[i + 1] /\ alts[i + 1] = call.paths[k + (i + 1)]
        BY <1>2, <1>3, <3>1, <3>2, Zenon
      <3> QED BY <3>2, <3>3, Zenon
    <2>3. ~hurt' => \A j \in 1 .. ((k + 1) - 1) : ~Fits(j)'
      <3> SUFFICES ASSUME ~hurt', NEW j \in 1 .. k
                   PROVE  ~Fits(j)'
        BY <1>4
      <3>1. ~hurt /\ ~Fits(k)
        BY <1>1
      <3>2. j \in 1 .. (k - 1) \/ j = k
        BY <1>4
      <3>3. ~Fits(j)
        BY <1>2, <3>1, <3>2
      <3> QED BY <3>3 DEF Fits
    <2>4. Lookup(vol', call'.paths[k + 1]) = Walk(vol', dir'.entry.id, path')
      BY <1>5, <1>6, <1>7, WalkRoot, Zenon
    <2> QED BY <2>1, <2>2, <2>3, <2>4, Zenon DEF Trying
  <1>9. Passed(dir.dptr)'
    <2>1. \A p \in Live(vol', dir'.entry.id) : ~(p <= 0)
      BY DEF Live
    <2> QED BY <1>7, <2>1 DEF Passed
  <1>10. FindInv'
    <2>1. AtEntry'
      BY <1>7 DEF AtEntry
    <2>2. \E i \in 1 .. Len(call'.paths) : Trying(i)'
      BY <1>4, <1>8, Zenon DEF n
    <2>3. path' \in Seq(Names) /\ alts' \in Seq(Seq(Names)) /\ Len(path') <= 2
      BY <1>3, <1>5 DEF T
    <2>4. pc' # "findnext"
      OBVIOUS
    <2> QED BY <1>9, <2>1, <2>2, <2>3, <2>4, Zenon DEF FindInv
  <1>11. pc' \in Finding
    BY DEF Finding
  <1> QED BY <1>6, <1>7, <1>10, <1>11, FindGoesOn

LEMMA Resolves ==
  ASSUME IInv, pc \in Finding, NEW e, e = NoEntry \/ Named(e), Resolve(e), UNCHANGED vol,
         Synced', faults' \in Nat, hurt' \in {hurt, TRUE},
         (hurt' = TRUE /\ e = NoEntry) \/ e = Walk(vol, dir.entry.id, path)
  PROVE  IInv' /\ AbsStep
  <1>1. /\ file = Closed /\ call.kind \in {"file", "dir"}
        /\ Len(call.paths) \in Nat /\ alts \in Seq(Seq(Names))
    BY FindFacts
  <1>2. PICK k \in 1 .. Len(call.paths) : Trying(k)
    BY FindFacts
  <1>3. e = Walk(vol, dir.entry.id, path) => e = Lookup(vol, call.paths[k])
    BY <1>2, Zenon DEF Trying
  <1>4. e = Lookup(vol, call.paths[k]) => (Fits(k) <=> e.kind = call.kind)
    BY DEF Fits
  <1>5. NoEntry.kind = "none"
    BY DEF NoEntry
  <1>6. CASE e.kind = call.kind
    <2>1. e # NoEntry /\ Named(e) /\ e = Lookup(vol, call.paths[k]) /\ Fits(k)
      BY <1>1, <1>3, <1>4, <1>5, <1>6
    <2>2. Return(TRUE, NoValue)
      BY <1>6 DEF Resolve
    <2>3. /\ file' = IF e.kind = "file" THEN [Closed EXCEPT !.open = TRUE, !.entry = e] ELSE Closed
          /\ dir' = IF e.kind = "dir" THEN [Rewind(e) EXCEPT !.open = TRUE] ELSE ClosedDir
      <3>1. CASE e.kind = "file"
        BY <1>6, <3>1 DEF Resolve
      <3>2. CASE e.kind = "dir"
        BY <1>1, <1>6, <3>2 DEF Resolve
      <3> QED BY <1>1, <1>6, <3>1, <3>2
    <2>4. /\ IInv' /\ Opened = NoEntry /\ Position = 0 /\ Failed = FALSE
          /\ Opened' = e /\ Position' = 0 /\ Failed' = FALSE
      BY <2>1, <2>2, <2>3, OpenEnds, Zenon
    <2>5. call' = NoCall /\ ret' = [ok |-> TRUE, val |-> NoValue]
      BY <2>2 DEF Return
    <2>6. AbsStep
      BY <1>2, <2>1, <2>4, <2>5, OpenSucceeds
    <2> QED BY <2>4, <2>6
  <1>7. CASE e.kind # call.kind
    <2>1. hurt' = TRUE \/ ~Fits(k)
      BY <1>3, <1>4, <1>7
    <2>2. CASE alts = <<>>
      <3>1. file' = Closed /\ dir' = ClosedDir /\ Return(FALSE, NoValue)
        BY <1>1, <1>7, <2>2 DEF Resolve
      <3>2. /\ IInv' /\ Opened = NoEntry /\ Position = 0 /\ Failed = FALSE
            /\ Opened' = NoEntry /\ Position' = 0 /\ Failed' = FALSE
        <4> DEFINE z == NoEntry
        <4>1. /\ file' = IF z.kind = "file" THEN [Closed EXCEPT !.open = TRUE, !.entry = z] ELSE Closed
              /\ dir' = IF z.kind = "dir" THEN [Rewind(z) EXCEPT !.open = TRUE] ELSE ClosedDir
          BY <1>5, <3>1
        <4>2. z = NoEntry
          OBVIOUS
        <4> HIDE DEF z
        <4>3. /\ IInv' /\ Opened = NoEntry /\ Position = 0 /\ Failed = FALSE
              /\ Opened' = z /\ Position' = 0 /\ Failed' = FALSE
          BY <3>1, <4>1, <4>2, OpenEnds, Zenon
        <4> QED BY <4>2, <4>3
      <3>3. call' = NoCall /\ ret' = [ok |-> FALSE, val |-> NoValue]
        BY <3>1 DEF Return
      <3>4. k = Len(call.paths)
        <4> DEFINE n == Len(call.paths)
        <4>1. Len(alts) = 0 /\ Len(alts) = n - k
          BY <1>2, <2>2 DEF Trying
        <4>2. 0 = n - k /\ n \in Nat /\ k \in 1 .. n
          BY <1>1, <1>2, <4>1
        <4> HIDE DEF n
        <4>3. k = n
          BY <4>2
        <4> QED BY <4>3 DEF n
      <3>5. AbsStep
        BY <1>2, <2>1, <3>2, <3>3, <3>4, OpenFails
      <3> QED BY <3>2, <3>5
    <2>3. CASE alts # <<>>
      <3>1. /\ file' = file /\ dir' = Rewind(RootEntry) /\ path' = Head(alts) /\ alts' = Tail(alts)
            /\ pc' = "find" /\ UNCHANGED <<call, ret, ofs, btr, xfer, got>>
        BY <1>7, <2>3 DEF Resolve
      <3>2. UNCHANGED <<vol, call, ret, filevars>>
        BY <3>1 DEF filevars
      <3> QED BY <1>2, <2>1, <2>3, <3>1, <3>2, NextPath
    <2> QED BY <2>2, <2>3
  <1> QED BY <1>6, <1>7

LEMMA FindRootStep ==
  ASSUME IInv, FindRoot
  PROVE  IInv' /\ AbsStep
  <1>1. /\ pc \in Finding /\ path = <<>> /\ Resolve(RootEntry) /\ UNCHANGED vol
        /\ UNCHANGED <<winsect, win, faults, hurt>>
    BY DEF FindRoot, Finding, window
  <1>2. vol \in Volumes /\ Synced /\ faults \in Nat
    BY <1>1, FindFacts DEF DirFacts
  <1>3. Named(RootEntry)
    BY <1>2, RootIs
  <1>4. Synced' /\ faults' \in Nat /\ hurt' \in {hurt, TRUE}
    BY <1>1, <1>2 DEF Synced
  <1>5. RootEntry = Walk(vol, dir.entry.id, path)
    BY <1>1 DEF Walk
  <1> QED BY <1>1, <1>3, <1>4, <1>5, Resolves, Zenon

\* No entry of the directory has the name.
LEMMA NotThere ==
  ASSUME IInv, pc \in Finding, path # <<>>, NEW n \in Nat, Passed(n), Len(DirTable) <= n
  PROVE  Walk(vol, dir.entry.id, path) = NoEntry
  <1> DEFINE d == dir.entry.id
  <1>1. DirFacts /\ path \in Seq(Names)
    BY FindFacts
  <1>2. Len(DirTable) \in Nat /\ \A p : p \in Live(vol, d) => p \in 1 .. Len(DirTable)
    BY <1>1, TableIs, Zenon
  <1>3. \A p \in Live(vol, d) : vol.table[d][p].name # path[1]
    <2> SUFFICES ASSUME NEW p \in Live(vol, d)
                 PROVE  vol.table[d][p].name # path[1]
      OBVIOUS
    <2> DEFINE m == Len(DirTable)
    <2>1. m \in Nat /\ p \in 1 .. m /\ m <= n
      BY <1>2
    <2> HIDE DEF m
    <2>2. p <= n
      BY <2>1
    <2> QED BY <2>2, Zenon DEF Passed, DirTable
  <1>4. Child(vol, d, path[1]) = NoEntry
    BY <1>3, ChildNone
  <1> QED BY <1>1, <1>4, WalkEnds, Zenon

\* The current entry is the first that has the name.
LEMMA IsThere ==
  ASSUME IInv, pc \in Finding, path # <<>>, dir.dptr + 1 \in Live(vol, dir.entry.id),
         DirTable[dir.dptr + 1].name = path[1]
  PROVE  Child(vol, dir.entry.id, path[1]) = DirTable[dir.dptr + 1]
  <1> DEFINE d == dir.entry.id
             q == dir.dptr + 1
  <1>1. Passed(dir.dptr) /\ DirFacts
    BY FindFacts
  <1>2. dir.dptr \in Nat /\ \A j \in Live(vol, d) : j \in Nat
    BY <1>1, TableIs
  <1>3. \A j \in Live(vol, d) : j < q => vol.table[d][j].name # path[1]
    <2> SUFFICES ASSUME NEW j \in Live(vol, d), j < q
                 PROVE  vol.table[d][j].name # path[1]
      OBVIOUS
    <2>1. j <= dir.dptr
      BY <1>2
    <2> QED BY <1>1, <2>1, Zenon DEF Passed, DirTable
  <1>4. q \in Live(vol, d) /\ vol.table[d][q].name = path[1]
    BY DEF DirTable
  <1> HIDE DEF q, d
  <1>5. Child(vol, d, path[1]) = vol.table[d][q]
    BY <1>3, <1>4, ChildIs
  <1> QED BY <1>5 DEF DirTable, d, q

LEMMA FindEntryStep ==
  ASSUME IInv, FindEntry
  PROVE  IInv' /\ AbsStep
  <1> DEFINE d == dir.entry.id
             n == dir.dptr
             E == EntryInWindow
             W == Walk(vol, d, path)
  <1>1. pc = "find" /\ pc \in Finding /\ path # <<>> /\ UNCHANGED vol
    BY DEF FindEntry, Finding
  <1>2. PICK ok \in BOOLEAN :
          /\ MoveWindow(dir.sect, ok)
          /\ IF ~ok \/ E.kind = "end" THEN Resolve(NoEntry)
             ELSE IF E.kind \in {"file", "dir"} /\ E.name = Head(path)
             THEN IF Len(path) = 1 THEN Resolve(E)
                  ELSE IF E.kind # "dir" THEN Resolve(NoEntry)
                  ELSE /\ dir' = Rewind(E) /\ path' = Tail(path)
                       /\ UNCHANGED <<pc, call, ret, filevars, alts>>
             ELSE pc' = "findnext" /\ UNCHANGED <<call, ret, filevars, dirvars>>
    BY DEF FindEntry
  <1> HIDE DEF E
  <1>3. /\ DirFacts /\ path \in Seq(Names) /\ Len(path) \in 0 .. 2 /\ Passed(n) /\ dir.open = FALSE
        /\ alts \in Seq(Seq(Names)) /\ vol \in Volumes /\ Synced /\ faults \in Nat
        /\ dir \in FFDIR /\ Named(dir.entry) /\ dir.entry.kind = "dir" /\ Stands(vol, dir)
    BY <1>1, FindFacts DEF DirFacts, AtEntry
  <1>4. /\ Synced' /\ faults' \in Nat /\ hurt' \in {hurt, TRUE}
        /\ ~ok => hurt' = TRUE
        /\ ok => win' = dir.sect
    BY <1>2, <1>3, MoveWindowIs
  <1>5. /\ Len(DirTable) \in Nat /\ n \in Nat
        /\ \A p \in 1 .. Len(DirTable) :
              /\ DirTable[p].kind \notin {"end", "none"}
              /\ DirTable[p].kind \in {"file", "dir"} => Named(DirTable[p])
        /\ \A p : p \in Live(vol, d) <=>
              p \in 1 .. Len(DirTable) /\ DirTable[p].kind \in {"file", "dir"}
    BY <1>3, TableIs
  <1>6. ok => E = IF n + 1 <= Len(DirTable) THEN DirTable[n + 1] ELSE EndEntry
    BY <1>3, <1>4, EntryRead DEF E
  <1>7. EndEntry.kind = "end"
    BY DEF EndEntry
  <1>8. Head(path) = path[1]
    BY <1>3
  <1>9. CASE ~ok \/ E.kind = "end"
    <2>1. Resolve(NoEntry)
      BY <1>2, <1>9
    <2>2. (hurt' = TRUE /\ NoEntry = NoEntry) \/ NoEntry = W
      <3>1. CASE ~ok
        BY <1>4, <3>1
      <3>2. CASE ok
        <4> DEFINE m == Len(DirTable)
        <4>1. ~(n + 1 <= m)
          <5> SUFFICES ASSUME n + 1 <= m
                       PROVE  FALSE
            OBVIOUS
          <5>1. E = DirTable[n + 1] /\ n + 1 \in 1 .. m
            BY <1>5, <1>6, <3>2
          <5> QED BY <1>5, <1>9, <3>2, <5>1
        <4>2. m <= n
          <5>1. m \in Nat /\ n \in Nat /\ ~(n + 1 <= m)
            BY <1>5, <4>1
          <5> HIDE DEF m, n
          <5> QED BY <5>1
        <4>3. W = NoEntry
          BY <1>1, <1>3, <1>5, <4>2, NotThere
        <4> QED BY <4>3
      <3> QED BY <3>1, <3>2
    <2> QED BY <1>1, <1>4, <2>1, <2>2, Resolves, Zenon
  <1>10. ASSUME ok, E.kind # "end"
         PROVE  /\ E = DirTable[n + 1] /\ n + 1 \in 1 .. Len(DirTable) /\ n + 1 <= Len(DirTable)
                /\ E.kind \in {"file", "dir"} => Named(E) /\ n + 1 \in Live(vol, d)
    <2> DEFINE m == Len(DirTable)
    <2>1. n + 1 <= m /\ E = DirTable[n + 1]
      BY <1>6, <1>7, <1>10
    <2>2. n + 1 \in 1 .. m
      <3>1. m \in Nat /\ n \in Nat /\ n + 1 <= m
        BY <1>5, <2>1
      <3> HIDE DEF m, n
      <3> QED BY <3>1
    <2> QED BY <1>5, <2>1, <2>2
  <1>11. CASE ok /\ E.kind # "end" /\ E.kind \in {"file", "dir"} /\ E.name = Head(path)
    <2>1. /\ Len(path) = 1 => Resolve(E)
          /\ Len(path) # 1 /\ E.kind # "dir" => Resolve(NoEntry)
          /\ Len(path) # 1 /\ E.kind = "dir" =>
               dir' = Rewind(E) /\ path' = Tail(path) /\ UNCHANGED <<pc, call, ret, filevars, alts>>
      BY <1>2, <1>11
    <2>2. Named(E) /\ Child(vol, d, path[1]) = E
      BY <1>1, <1>8, <1>10, <1>11, IsThere
    <2>3. CASE Len(path) = 1
      <3>1. E = W
        BY <1>1, <1>3, <2>2, <2>3, WalkEnds
      <3> QED BY <1>1, <1>4, <2>1, <2>2, <2>3, <3>1, Resolves, Zenon
    <2>4. CASE Len(path) # 1 /\ E.kind # "dir"
      <3>1. NoEntry = W
        BY <1>1, <1>3, <2>2, <2>4, WalkEnds
      <3> QED BY <1>1, <1>4, <2>1, <2>4, <3>1, Resolves, Zenon
    <2>5. CASE Len(path) # 1 /\ E.kind = "dir"
      <3>1. dir' = Rewind(E) /\ path' = Tail(path) /\ UNCHANGED <<pc, call, ret, filevars, alts>>
        BY <2>1, <2>5
      <3>2. dir' \in FFDIR /\ dir'.entry = E /\ dir'.open = FALSE /\ dir'.dptr = 0 /\ Stands(vol, dir')
        BY <1>3, <2>2, <2>5, <3>1, RewindStands
      <3>3. Len(path) = 2
        <4> DEFINE l == Len(path)
        <4>1. l \in 0 .. 2 /\ l # 1 /\ l # 0
          <5>1. Len(path) # 0
            BY <1>1, <1>3, EmptySeq, Zenon
          <5> QED BY <1>3, <2>5, <5>1
        <4> HIDE DEF l
        <4>2. l = 2
          BY <4>1
        <4> QED BY <4>2 DEF l
      <3>4. Tail(path) \in Seq(Names) /\ Len(Tail(path)) = 1 /\ W = Walk(vol, E.id, Tail(path))
        BY <1>3, <2>2, <2>5, <3>3, WalkDown
      <3>5. PICK k \in 1 .. Len(call.paths) : Trying(k)
        BY <1>1, FindFacts
      <3>6. Trying(k)'
        <4>1. Walk(vol, dir'.entry.id, path') = Walk(vol, dir.entry.id, path)
          BY <3>1, <3>2, <3>4
        <4>2. UNCHANGED <<vol, call, alts>>
          BY <1>1, <3>1
        <4> QED BY <1>4, <3>5, <4>1, <4>2, TryingOn, Zenon
      <3>7. Passed(dir.dptr)'
        <4>1. \A p \in Live(vol', dir'.entry.id) : ~(p <= 0)
          BY DEF Live
        <4> QED BY <3>2, <4>1 DEF Passed
      <3>8. FindInv'
        <4>1. AtEntry'
          BY <1>1, <3>2 DEF AtEntry
        <4>2. \E i \in 1 .. Len(call'.paths) : Trying(i)'
          BY <3>1, <3>5, <3>6
        <4>3. path' \in Seq(Names) /\ alts' \in Seq(Seq(Names)) /\ Len(path') <= 2
          <5>1. path' \in Seq(Names) /\ alts' \in Seq(Seq(Names)) /\ Len(path') = 1
            BY <1>3, <3>1, <3>4, Zenon
          <5>2. Len(path') <= 2
            BY <5>1
          <5> QED BY <5>1, <5>2
        <4>4. pc' # "findnext"
          BY <1>1, <3>1
        <4> QED BY <3>7, <4>1, <4>2, <4>3, <4>4, Zenon DEF FindInv
      <3>9. /\ UNCHANGED <<vol, call, ret, filevars>> /\ pc' \in Finding
            /\ Named(dir'.entry) /\ dir'.entry.kind = "dir"
        BY <1>1, <2>2, <2>5, <3>1, <3>2
      <3> QED BY <1>1, <1>4, <3>2, <3>8, <3>9, FindGoesOn
    <2> QED BY <2>3, <2>4, <2>5
  <1>12. CASE ok /\ E.kind # "end" /\ ~(E.kind \in {"file", "dir"} /\ E.name = Head(path))
    <2>1. pc' = "findnext" /\ UNCHANGED <<call, ret, filevars, dirvars>>
      BY <1>2, <1>12
    <2>2. UNCHANGED <<dir, path, alts>>
      BY <2>1 DEF dirvars
    <2>3. PICK k \in 1 .. Len(call.paths) : Trying(k)
      BY <1>1, FindFacts
    <2>4. Trying(k)'
      <3>1. Walk(vol, dir'.entry.id, path') = Walk(vol, dir.entry.id, path)
        BY <2>2
      <3>2. UNCHANGED <<vol, call, alts>>
        BY <1>1, <2>1, <2>2
      <3> QED BY <1>4, <2>3, <3>1, <3>2, TryingOn, Zenon
    <2>5. Passed(n + 1)
      <3> SUFFICES ASSUME NEW p \in Live(vol, d), p <= n + 1
                   PROVE  DirTable[p].name # path[1]
        BY DEF Passed
      <3>1. CASE p <= n
        BY <1>3, <3>1 DEF Passed
      <3>2. CASE ~(p <= n)
        <4>1. p = n + 1
          <5>1. p \in Nat /\ n \in Nat
            BY <1>5
          <5> HIDE DEF n
          <5> QED BY <3>2, <5>1
        <4>2. DirTable[p].kind \in {"file", "dir"} /\ E = DirTable[p]
          BY <1>5, <1>10, <1>12, <4>1
        <4> QED BY <1>8, <1>12, <4>2
      <3> QED BY <3>1, <3>2
    <2>6. Passed(dir.dptr)' /\ Passed(dir.dptr + 1)' /\ DirTable' = DirTable /\ AtEntry'
      BY <1>1, <1>3, <2>2, <2>5 DEF Passed, DirTable, AtEntry, Stands
    <2>7. FindInv'
      <3>1. \E i \in 1 .. Len(call'.paths) : Trying(i)'
        BY <2>1, <2>3, <2>4
      <3>2. path' \in Seq(Names) /\ alts' \in Seq(Seq(Names)) /\ Len(path') <= 2 /\ path' # <<>>
        <4>1. path' \in Seq(Names) /\ alts' \in Seq(Seq(Names)) /\ path' = path /\ path' # <<>>
          BY <1>1, <1>3, <2>2
        <4>2. Len(path) <= 2
          <5> DEFINE l == Len(path)
          <5>1. l \in 0 .. 2
            BY <1>3
          <5> HIDE DEF l
          <5>2. l <= 2
            BY <5>1
          <5> QED BY <5>2 DEF l
        <4> QED BY <4>1, <4>2, Zenon
      <3>3. dir'.dptr + 1 <= Len(DirTable')
        BY <1>10, <1>12, <2>2, <2>6
      <3> QED BY <2>6, <3>1, <3>2, <3>3, Zenon DEF FindInv
    <2>8. /\ UNCHANGED <<vol, call, ret, filevars>> /\ pc' \in Finding /\ dir' \in FFDIR
          /\ Named(dir'.entry) /\ dir'.entry.kind = "dir" /\ dir'.open = FALSE
      BY <1>1, <1>3, <2>1, <2>2 DEF Finding
    <2> QED BY <1>1, <1>4, <2>7, <2>8, FindGoesOn
  <1> QED BY <1>9, <1>11, <1>12

LEMMA FindNextStep ==
  ASSUME IInv, FindNext
  PROVE  IInv' /\ AbsStep
  <1> DEFINE n == dir.dptr
             W == Walk(vol, dir.entry.id, path)
  <1>1. pc = "findnext" /\ pc \in Finding /\ UNCHANGED vol
    BY DEF FindNext, Finding
  <1>2. PICK v \in FatValues :
          /\ NextCluster(v)
          /\ IF NextFails(v) \/ NextEnds(v) THEN Resolve(NoEntry)
             ELSE /\ dir' = Advanced(v) /\ pc' = "find"
                  /\ UNCHANGED <<call, ret, filevars, path, alts>>
    BY DEF FindNext
  <1>3. /\ DirFacts /\ path \in Seq(Names) /\ Len(path) \in 0 .. 2 /\ dir.open = FALSE
        /\ path # <<>> /\ Passed(n + 1) /\ alts \in Seq(Seq(Names))
        /\ Named(dir.entry) /\ dir.entry.kind = "dir"
    BY <1>1, FindFacts DEF DirFacts
  <1>4. Advances(v)
    BY <1>2, <1>3, AdvanceIs
  <1>5. /\ Synced' /\ faults' \in Nat /\ hurt' \in {hurt, TRUE}
    BY <1>4 DEF Advances
  <1>6. CASE NextFails(v) \/ NextEnds(v)
    <2>1. Resolve(NoEntry)
      BY <1>2, <1>6
    <2>2. (hurt' = TRUE /\ NoEntry = NoEntry) \/ NoEntry = W
      <3>1. hurt' = TRUE \/ Len(DirTable) <= n + 1
        BY <1>4, <1>6 DEF Advances
      <3>2. n + 1 \in Nat
        BY <1>3, TableIs
      <3>3. Len(DirTable) <= n + 1 => W = NoEntry
        BY <1>1, <1>3, <3>2, NotThere
      <3> QED BY <3>1, <3>3
    <2> QED BY <1>1, <1>5, <2>1, <2>2, Resolves, Zenon
  <1>7. CASE ~(NextFails(v) \/ NextEnds(v))
    <2>1. dir' = Advanced(v) /\ pc' = "find" /\ UNCHANGED <<call, ret, filevars, path, alts>>
      BY <1>2, <1>7
    <2>2. /\ dir' \in FFDIR /\ dir'.entry = dir.entry /\ dir'.open = dir.open
          /\ dir'.dptr = n + 1 /\ Stands(vol, dir')
      BY <1>4, <1>7, <2>1, Zenon DEF Advances
    <2>3. PICK k \in 1 .. Len(call.paths) : Trying(k)
      BY <1>1, FindFacts
    <2>4. Trying(k)'
      <3>1. Walk(vol, dir'.entry.id, path') = Walk(vol, dir.entry.id, path)
        BY <2>1, <2>2
      <3>2. UNCHANGED <<vol, call, alts>>
        BY <1>1, <2>1
      <3> QED BY <1>5, <2>3, <3>1, <3>2, TryingOn, Zenon
    <2>5. Passed(dir.dptr)'
      <3>1. dir'.dptr = n + 1 /\ vol' = vol /\ dir'.entry = dir.entry /\ path' = path
        BY <1>1, <2>1, <2>2
      <3> QED BY <1>3, <3>1, Zenon DEF Passed, DirTable
    <2>6. FindInv'
      <3>1. AtEntry'
        BY <1>1, <2>2 DEF AtEntry
      <3>2. \E i \in 1 .. Len(call'.paths) : Trying(i)'
        BY <2>1, <2>3, <2>4
      <3>3. path' \in Seq(Names) /\ alts' \in Seq(Seq(Names)) /\ Len(path') <= 2
        <4>1. path' \in Seq(Names) /\ alts' \in Seq(Seq(Names)) /\ path' = path
          BY <1>3, <2>1
        <4>2. Len(path) <= 2
          <5> DEFINE l == Len(path)
          <5>1. l \in 0 .. 2
            BY <1>3
          <5> HIDE DEF l
          <5>2. l <= 2
            BY <5>1
          <5> QED BY <5>2 DEF l
        <4> QED BY <4>1, <4>2, Zenon
      <3>4. pc' # "findnext"
        BY <2>1
      <3> QED BY <2>5, <3>1, <3>2, <3>3, <3>4, Zenon DEF FindInv
    <2>7. /\ UNCHANGED <<vol, call, ret, filevars>> /\ pc' \in Finding
          /\ Named(dir'.entry) /\ dir'.entry.kind = "dir" /\ dir'.open = FALSE
      BY <1>1, <1>3, <2>1, <2>2 DEF Finding
    <2> QED BY <1>1, <1>5, <2>2, <2>6, <2>7, FindGoesOn
  <1> QED BY <1>6, <1>7

-----------------------------------------------------------------------------
(* f_readdir. *)

\* What a listing works on.
LEMMA ListFacts ==
  ASSUME IInv, pc \in Listing
  PROVE  /\ vol \in Volumes /\ Synced /\ faults \in Nat /\ dir \in FFDIR /\ hurt \in BOOLEAN
         /\ Named(dir.entry) /\ dir.entry.kind = "dir" /\ dir.open = TRUE
         /\ dir.sect # 0 => DirFacts
         /\ pc \in {"listed", "listnext"} => dir.sect # 0
         /\ file = Closed /\ file.open = FALSE /\ file.err = FALSE
         /\ call \in Calls /\ call # NoCall /\ call.op = "readdir"
         /\ dir.entry.id \in Dirs(vol) /\ dir.dptr \in Nat /\ Len(DirTable) \in Nat
         /\ \A p : p \in Live(vol, dir.entry.id) => p \in 1 .. Len(DirTable)
         /\ pc # "panic"
  <1>1. pc \notin {"idle", "panic"}
    BY DEF Listing
  <1>2. call \in Calls /\ call.op = "readdir" /\ dir.open
    BY <1>1 DEF IInv, CallInv
  <1>3. call # NoCall
    BY <1>2, CallFacts
  <1>4. /\ vol \in Volumes /\ Synced /\ faults \in Nat /\ dir \in FFDIR /\ hurt \in BOOLEAN
        /\ dir.entry \in Entries /\ dir.open \in BOOLEAN /\ file.open \in BOOLEAN /\ dir.dptr \in Nat
    BY TypeFacts DEF IInv, Types
  <1>5. dir.entry.kind = "dir" /\ Sound(vol, dir.entry) /\ file = Closed
    BY <1>2 DEF IInv, OpenInv
  <1>6. Named(dir.entry)
    BY <1>4, <1>5 DEF Named
  <1>7. dir.sect # 0 => DirFacts
    BY <1>1, <1>2, <1>4, <1>5, <1>6 DEF IInv, ListInv, DirFacts
  <1>8. file.open = FALSE /\ file.err = FALSE
    BY <1>5 DEF Closed
  <1>9. pc \in {"listed", "listnext"} => dir.sect # 0
    BY DEF IInv, ListInv
  <1>10. dir.entry.id \in Dirs(vol)
    BY <1>4, <1>5, <1>6, NamedIs
  <1>11. Len(DirTable) \in Nat
    BY <1>4, <1>10, DirOf DEF DirTable
  <1>12. \A p : p \in Live(vol, dir.entry.id) => p \in 1 .. Len(DirTable)
    BY DEF Live, DirTable
  <1> QED BY <1>1, <1>2, <1>3, <1>4, <1>5, <1>6, <1>7, <1>8, <1>9, <1>10, <1>11, <1>12

\* A listing goes on.
LEMMA ListGoesOn ==
  ASSUME IInv, pc \in Listing, pc' \in Listing, UNCHANGED <<vol, call, ret, file, ofs, btr, xfer, path, alts>>,
         Synced', faults' \in Nat, hurt' \in {hurt, TRUE},
         dir' \in FFDIR, dir'.open = TRUE, dir'.entry = dir.entry,
         ListInv', pc' # "listed" => got' = <<>>, Position' = Position
  PROVE  IInv' /\ AbsStep
  <1>1. /\ dir.open = TRUE /\ file = Closed /\ file.open = FALSE /\ file.err = FALSE
        /\ call \in Calls /\ call # NoCall /\ call.op = "readdir" /\ hurt \in BOOLEAN
        /\ Named(dir.entry) /\ dir.entry.kind = "dir" /\ pc # "panic"
    BY ListFacts
  <1>2. pc' \notin {"idle", "panic", "lseek", "seek"} \cup Finding \cup Reading
    BY DEF Finding, Listing, Reading
  <1>3. Types'
    <2>1. Types
      BY DEF IInv
    <2>2. pc' \in Pcs
      BY DEF Pcs
    <2> QED BY <2>1, <2>2 DEF Types
  <1>4. CallInv'
    BY <1>1, <1>2 DEF CallInv
  <1>5. OpenInv'
    BY <1>1 DEF OpenInv, Named
  <1>6. FindInv' /\ PlaceInv' /\ BufferInv'
    BY <1>1, <1>2 DEF FindInv, PlaceInv, BufferInv
  <1>7. Opened' = Opened /\ Failed' = Failed
    BY <1>1, <1>2 DEF Opened, Failed
  <1> QED BY <1>1, <1>3, <1>4, <1>5, <1>6, <1>7, InsideCall DEF IInv

\* The last entry that names something, of the first n.
UpTo(n) == Max({0} \cup {p \in Live(vol, dir.entry.id) : p <= n})

LEMMA UpToIs ==
  ASSUME IInv, pc \in Listing, NEW n \in Nat
  PROVE  /\ UpTo(n) \in Nat
         /\ \A p \in Live(vol, dir.entry.id) : p > UpTo(n) <=> p > n
         /\ n \in Live(vol, dir.entry.id) => UpTo(n) = n
         /\ \A m : (\A p \in Live(vol, dir.entry.id) : p <= m <=> p <= n) => UpTo(m) = UpTo(n)
  <1> DEFINE L == Live(vol, dir.entry.id)
             l == Len(DirTable)
             S == {p \in L : p <= n}
             u == Max({0} \cup S)
  <1>1. l \in Nat /\ L \subseteq 1 .. l
    BY ListFacts
  <1> HIDE DEF L, l
  <1>2. S \subseteq 1 .. l
    BY <1>1
  <1>3. u \in {0} \cup S /\ \A p \in {0} \cup S : p <= u
    <2> HIDE DEF S
    <2> QED BY <1>1, <1>2, MaxBelow
  <1>4. UpTo(n) = u
    BY Zenon DEF UpTo, L
  <1> HIDE DEF u
  <1>5. u \in Nat /\ u <= n
    BY <1>1, <1>3
  <1>6. ASSUME NEW p \in L
        PROVE  p > u <=> p > n
    <2>1. p \in Nat /\ (p <= n => p <= u)
      BY <1>1, <1>3
    <2> QED BY <1>5, <2>1
  <1>7. n \in L => u = n
    <2> SUFFICES ASSUME n \in L
                 PROVE  u = n
      OBVIOUS
    <2>1. n <= u
      BY <1>3
    <2> QED BY <1>5, <2>1
  <1>8. ASSUME NEW m, \A p \in L : p <= m <=> p <= n
        PROVE  UpTo(m) = UpTo(n)
    <2>1. {p \in L : p <= m} = {p \in L : p <= n}
      BY <1>8
    <2> QED BY <2>1, Zenon DEF UpTo, L
  <1> QED BY <1>4, <1>5, <1>6, <1>7, <1>8 DEF L

\* Before a step of the listing, and after one that leaves the directory open.
LEMMA PositionIs ==
  ASSUME IInv, pc \in Listing
  PROVE  /\ Seen \in Nat /\ Position = UpTo(Seen)
         /\ dir.sect # 0 => Seen = dir.dptr
         /\ dir.sect = 0 => Seen = Len(DirTable)
         /\ UNCHANGED vol /\ dir'.open = TRUE /\ dir'.entry = dir.entry => Position' = UpTo(Seen')
  <1>1. dir.open = TRUE /\ dir.dptr \in Nat /\ Len(DirTable) \in Nat /\ pc # "panic"
    BY ListFacts
  <1>2. /\ dir.sect # 0 => Seen = dir.dptr
        /\ dir.sect = 0 => Seen = Len(DirTable)
    BY <1>1 DEF Seen, DirTable
  <1>3. Position = UpTo(Seen)
    BY <1>1, Zenon DEF Position, UpTo
  <1>4. UNCHANGED vol /\ dir'.open = TRUE /\ dir'.entry = dir.entry => Position' = UpTo(Seen')
    BY Zenon DEF Position, UpTo
  <1> QED BY <1>1, <1>2, <1>3, <1>4

\* The listing returns; the directory stays open.
LEMMA ListReturns ==
  ASSUME IInv, pc \in Listing, NEW val, Return(TRUE, val), UNCHANGED <<vol, file>>,
         Synced', faults' \in Nat, hurt' \in {hurt, TRUE},
         dir' \in FFDIR, dir'.open = TRUE, dir'.entry = dir.entry, dir'.sect = 0 \/ Stands(vol, dir')
  PROVE  /\ IInv' /\ call # NoCall /\ call.op = "readdir" /\ call' = NoCall
         /\ ret' = [ok |-> TRUE, val |-> val]
         /\ Opened = dir.entry /\ Opened' = dir.entry /\ dir.entry.kind = "dir"
         /\ Failed = FALSE /\ Failed' = FALSE
  <1>1. /\ dir.open = TRUE /\ file = Closed /\ file.open = FALSE /\ file.err = FALSE
        /\ call # NoCall /\ call.op = "readdir" /\ hurt \in BOOLEAN
        /\ Named(dir.entry) /\ dir.entry.kind = "dir" /\ pc # "panic"
    BY ListFacts
  <1>2. /\ pc' = "idle" /\ call' = NoCall /\ ret' = [ok |-> TRUE, val |-> val]
        /\ ofs' = 0 /\ btr' = 0 /\ xfer' = NoXfer /\ got' = <<>>
    BY DEF Return
  <1>3. Types'
    <2>1. Types
      BY DEF IInv
    <2>2. pc' \in Pcs /\ xfer' \in Transfers /\ ofs' \in Nat /\ btr' \in Nat
      BY <1>2 DEF Pcs, NoXfer, Transfers
    <2>3. hurt' \in BOOLEAN
      BY <1>1
    <2> QED BY <2>1, <2>2, <2>3 DEF Types
  <1>4. CallInv'
    BY <1>2 DEF CallInv, Finding, Listing, Reading
  <1>5. OpenInv'
    BY <1>1, <1>2 DEF OpenInv, Finding, Named
  <1>6. FindInv' /\ PlaceInv' /\ BufferInv'
    BY <1>1, <1>2 DEF FindInv, PlaceInv, BufferInv, Finding, Reading
  <1>7. ListInv'
    BY <1>2 DEF ListInv, AtEntry
  <1>8. Opened = dir.entry /\ Opened' = dir.entry /\ Failed = FALSE /\ Failed' = FALSE
    BY <1>1, <1>2 DEF Opened, Failed
  <1> QED BY <1>1, <1>2, <1>3, <1>4, <1>5, <1>6, <1>7, <1>8 DEF IInv

\* It returns the next entry, or the end when there is none.
LEMMA ListReturnsNext ==
  ASSUME IInv, pc \in Listing, UNCHANGED vol, hurt' \in {hurt, TRUE},
         call # NoCall, call.op = "readdir", call' = NoCall,
         Opened = dir.entry, Opened' = dir.entry, dir.entry.kind = "dir",
         Failed = FALSE, Failed' = FALSE,
         NEW left, left = {p \in Live(vol, dir.entry.id) : p > Position},
         \/ /\ left # {} /\ Position' = Min(left)
            /\ ret' = [ok |-> TRUE, val |-> DirTable[Min(left)]]
         \/ left = {} /\ Position' = Position /\ ret' = [ok |-> TRUE, val |-> EndEntry]
  PROVE  AbsStep
  <1> DEFINE out == {p \in Abstract!Live(vol, Opened.id) : p > Position}
  <1>1. out = left
    BY SameLookup, Zenon
  <1>2. IF out # {}
        THEN ret' = [ok |-> TRUE, val |-> vol.table[Opened.id][Abstract!Min(out)]]
             /\ Position' = Abstract!Min(out)
        ELSE ret' = [ok |-> TRUE, val |-> Abstract!EndEntry] /\ Position' = Position
    <2> HIDE DEF out
    <2> QED BY <1>1, SameMin, SameLookup, Zenon DEF DirTable
  <1>3. /\ call # NoCall /\ call.op = "readdir" /\ call' = NoCall /\ hurt' \in {hurt, TRUE}
        /\ Opened.kind = "dir" /\ Failed' = Failed /\ Opened' = Opened /\ vol' = vol
    OBVIOUS
  <1>4. Abstract!ReturnReaddir
    BY <1>2, <1>3, Zenon DEF out, Abstract!ReturnReaddir, Abstract!Ends, Abstract!Returns, Opened, Position, Seen, Failed
  <1> QED BY <1>4 DEF AbsStep, Abstract!Next

\* A read failed: the listing fails, and is not resumed.
LEMMA ListPanics ==
  ASSUME IInv, pc \in Listing, Panic, dir.sect # 0, UNCHANGED vol,
         Synced', faults' \in Nat, hurt' = TRUE,
         dir' \in FFDIR, dir'.open = TRUE, dir'.entry = dir.entry, dir'.dptr = dir.dptr
  PROVE  IInv' /\ AbsStep
  <1>1. /\ dir.open = TRUE /\ file = Closed /\ file.open = FALSE /\ file.err = FALSE
        /\ call # NoCall /\ call.op = "readdir"
        /\ Named(dir.entry) /\ dir.entry.kind = "dir" /\ pc # "panic"
    BY ListFacts
  <1>2. /\ pc' = "panic" /\ call' = NoCall /\ ret' = [ok |-> FALSE, val |-> NoValue]
        /\ UNCHANGED <<file, ofs, btr, xfer, got, path, alts>>
    BY DEF Panic, filevars
  <1>3. Types'
    <2>1. Types
      BY DEF IInv
    <2>2. pc' \in Pcs
      BY <1>2 DEF Pcs
    <2> QED BY <1>2, <2>1, <2>2 DEF Types
  <1>4. CallInv'
    BY <1>2 DEF CallInv, Finding, Listing, Reading
  <1>5. OpenInv'
    BY <1>1, <1>2 DEF OpenInv, Finding, Named
  <1>6. FindInv' /\ PlaceInv' /\ BufferInv' /\ ListInv'
    BY <1>1, <1>2 DEF FindInv, PlaceInv, BufferInv, ListInv, Finding, Reading
  <1>7. Opened = dir.entry /\ Opened' = dir.entry /\ Failed = FALSE /\ Failed' = TRUE
    BY <1>1, <1>2 DEF Opened, Failed
  <1>8. Position' = Position
    <2>1. Seen' = Seen
      BY <1>2, PositionIs DEF Seen
    <2> QED BY <2>1, PositionIs
  <1>9. Abstract!ReturnReaddir
    BY <1>1, <1>2, <1>7, <1>8, Zenon
       DEF Abstract!ReturnReaddir, Abstract!Ends, Abstract!Returns, Opened, Position, Seen, Failed
  <1> QED BY <1>3, <1>4, <1>5, <1>6, <1>9 DEF IInv, AbsStep, Abstract!Next

\* Nothing is left to list.
LEMMA ListIsOver ==
  ASSUME IInv, pc \in Listing, ListEnds, UNCHANGED vol,
         Synced', faults' \in Nat, hurt' \in {hurt, TRUE},
         \A p \in Live(vol, dir.entry.id) : p <= Seen
  PROVE  IInv' /\ AbsStep
  <1> DEFINE L == Live(vol, dir.entry.id)
             left == {p \in L : p > Position}
  <1>1. dir \in FFDIR /\ dir.open = TRUE /\ Len(DirTable) \in Nat /\ L \subseteq 1 .. Len(DirTable)
    BY ListFacts
  <1>2. dir' = [dir EXCEPT !.sect = 0] /\ Return(TRUE, EndEntry) /\ UNCHANGED <<vol, file>>
    BY DEF ListEnds
  <1>3. dir' \in FFDIR /\ dir'.open = TRUE /\ dir'.entry = dir.entry /\ dir'.sect = 0 /\ dir'.dptr = dir.dptr
    BY <1>1, <1>2 DEF FFDIR
  <1>4. /\ IInv' /\ call # NoCall /\ call.op = "readdir" /\ call' = NoCall
        /\ ret' = [ok |-> TRUE, val |-> EndEntry]
        /\ Opened = dir.entry /\ Opened' = dir.entry /\ dir.entry.kind = "dir"
        /\ Failed = FALSE /\ Failed' = FALSE
    BY <1>2, <1>3, ListReturns
  <1>5. Seen \in Nat /\ Position = UpTo(Seen) /\ Position' = UpTo(Seen')
    BY <1>3, PositionIs
  <1>6. Seen' = Len(DirTable)
    <2>1. pc' = "idle"
      BY <1>2 DEF Return
    <2> QED BY <1>3, <2>1 DEF Seen, DirTable
  <1>7. Position' = Position
    <2>1. \A p \in L : p <= Seen' <=> p <= Seen
      <3> SUFFICES ASSUME NEW p \in L
                   PROVE  p <= Seen'
        OBVIOUS
      <3>1. p <= Len(DirTable)
        BY <1>1
      <3> QED BY <1>6, <3>1, Zenon
    <2>2. UpTo(Seen') = UpTo(Seen)
      BY <1>5, <2>1, UpToIs, Zenon
    <2> QED BY <1>5, <2>2
  <1>8. left = {}
    <2>1. \A p \in L : p > UpTo(Seen) <=> p > Seen
      BY <1>5, UpToIs, Zenon
    <2>2. \A p \in L : p \in Nat /\ p <= Seen
      BY <1>1
    <2> QED BY <1>5, <2>1, <2>2
  <1> HIDE DEF left
  <1>9. left = {p \in Live(vol, dir.entry.id) : p > Position}
    BY DEF left
  <1>10. AbsStep
    BY <1>4, <1>7, <1>8, <1>9, ListReturnsNext, Zenon
  <1> QED BY <1>4, <1>10

LEMMA ListPastEndStep ==
  ASSUME IInv, ListPastEnd
  PROVE  IInv' /\ AbsStep
  <1>1. pc \in Listing /\ dir.sect = 0 /\ ListEnds /\ UNCHANGED <<vol, window>>
    BY DEF ListPastEnd, Listing
  <1>2. Synced' /\ faults' \in Nat /\ hurt' \in {hurt, TRUE}
    <2>1. Synced /\ faults \in Nat
      BY <1>1, ListFacts
    <2> QED BY <1>1, <2>1 DEF Synced, window
  <1>3. \A p \in Live(vol, dir.entry.id) : p <= Seen
    <2>1. Seen = Len(DirTable)
      BY <1>1, PositionIs
    <2>2. Len(DirTable) \in Nat /\ \A p \in Live(vol, dir.entry.id) : p \in 1 .. Len(DirTable)
      BY <1>1, ListFacts
    <2> QED BY <2>1, <2>2
  <1> QED BY <1>1, <1>2, <1>3, ListIsOver

\* A directory object that stands at an entry has a sector.
LEMMA StandsSomewhere ==
  ASSUME DirFacts, NEW d \in FFDIR, d.entry = dir.entry, Stands(vol, d)
  PROVE  d.sect # 0
  <1> DEFINE t == d.dptr \div DirPerSector
             chain == vol.chain[dir.entry.id]
  <1>1. d.dptr \in Nat
    BY DEF FFDIR
  <1>2. t \in Nat
    BY <1>1, Geometry, DivMod
  <1>3. chain \in Seq(2 .. (NFat - 1))
    BY NamedIs DEF DirFacts
  <1>4. On(chain, t, d.clust) /\ d.sect = SectorNo(chain, t)
    BY Zenon DEF Stands
  <1> HIDE DEF t, chain
  <1>5. SectorNo(chain, t) \in Nat \ {0}
    BY <1>2, <1>3, <1>4, SectorIs
  <1> QED BY <1>4, <1>5

LEMMA ListEntryStep ==
  ASSUME IInv, ListEntry
  PROVE  IInv' /\ AbsStep
  <1> DEFINE n == dir.dptr
             L == Live(vol, dir.entry.id)
             E == EntryInWindow
  <1>1. pc = "list" /\ pc \in Listing /\ dir.sect # 0 /\ UNCHANGED vol
    BY DEF ListEntry, Listing
  <1>2. PICK ok \in BOOLEAN :
          /\ MoveWindow(dir.sect, ok)
          /\ IF ~ok THEN dir' = [dir EXCEPT !.sect = 0] /\ Panic
             ELSE IF EntryInWindow.kind = "end" THEN ListEnds
             ELSE IF EntryInWindow.kind \in {"file", "dir"}
             THEN /\ got' = <<EntryInWindow>> /\ pc' = "listed"
                  /\ UNCHANGED <<call, ret, file, ofs, btr, xfer, dirvars>>
             ELSE pc' = "listnext" /\ UNCHANGED <<call, ret, filevars, dirvars>>
    BY DEF ListEntry
  <1>3. /\ DirFacts /\ Synced /\ faults \in Nat /\ dir \in FFDIR /\ dir.open = TRUE
        /\ n \in Nat /\ Len(DirTable) \in Nat
        /\ \A p \in L : p \in 1 .. Len(DirTable)
    BY <1>1, ListFacts
  <1>4. /\ Synced' /\ faults' \in Nat
        /\ ok => win' = dir.sect /\ hurt' = hurt
        /\ ~ok => hurt' = TRUE
    BY <1>2, <1>3, MoveWindowIs
  <1>5. hurt' \in {hurt, TRUE}
    BY <1>4
  <1>6. ok => E = IF n + 1 <= Len(DirTable) THEN DirTable[n + 1] ELSE EndEntry
    BY <1>3, <1>4, EntryRead
  <1>7. n + 1 <= Len(DirTable) =>
          /\ DirTable[n + 1].kind \notin {"end", "none"}
          /\ DirTable[n + 1].kind \in {"file", "dir"} <=> n + 1 \in L
    <2> SUFFICES ASSUME n + 1 <= Len(DirTable)
                 PROVE  /\ DirTable[n + 1].kind \notin {"end", "none"}
                        /\ DirTable[n + 1].kind \in {"file", "dir"} <=> n + 1 \in L
      OBVIOUS
    <2>1. n + 1 \in 1 .. Len(DirTable)
      BY <1>3
    <2> HIDE DEF n
    <2> QED BY <1>3, <2>1, TableIs, Zenon
  <1>8. EndEntry.kind = "end"
    BY DEF EndEntry
  <1> HIDE DEF E
  <1>9. CASE ~ok
    <2>1. dir' = [dir EXCEPT !.sect = 0] /\ Panic
      BY <1>2, <1>9
    <2>2. dir' \in FFDIR /\ dir'.open = TRUE /\ dir'.entry = dir.entry /\ dir'.dptr = dir.dptr
      BY <1>3, <2>1 DEF FFDIR
    <2> QED BY <1>1, <1>4, <1>9, <2>1, <2>2, ListPanics
  <1>10. CASE ok /\ E.kind = "end"
    <2>1. ListEnds
      BY <1>2, <1>10 DEF E
    <2>2. ~(n + 1 <= Len(DirTable))
      BY <1>6, <1>7, <1>10
    <2>3. Seen = n
      BY <1>1, PositionIs
    <2>4. \A p \in L : p <= Seen
      <3> SUFFICES ASSUME NEW p \in L
                   PROVE  p <= n
        BY <2>3
      <3>1. p \in 1 .. Len(DirTable)
        BY <1>3
      <3> HIDE DEF n
      <3> QED BY <1>3, <2>2, <3>1
    <2> QED BY <1>1, <1>4, <1>5, <2>1, <2>4, ListIsOver
  <1>11. ASSUME ok, E.kind # "end"
         PROVE  n + 1 <= Len(DirTable) /\ E = DirTable[n + 1] /\ (E.kind \in {"file", "dir"} <=> n + 1 \in L)
    <2>1. n + 1 <= Len(DirTable)
      BY <1>6, <1>8, <1>11
    <2> QED BY <1>6, <1>7, <1>11, <2>1
  <1>12. ASSUME UNCHANGED <<vol, dir>>, pc' \in Listing
         PROVE  /\ dir' \in FFDIR /\ dir'.open = TRUE /\ dir'.entry = dir.entry
                /\ Position' = Position /\ AtEntry' /\ dir'.sect # 0
    <2>1. Seen' = Seen
      BY <1>1, <1>12 DEF Seen, Listing
    <2>2. Position' = Position
      BY <1>12, <2>1 DEF Position
    <2>3. AtEntry'
      BY <1>3, <1>12 DEF DirFacts, AtEntry
    <2> QED BY <1>1, <1>3, <1>12, <2>2, <2>3
  <1>13. CASE ok /\ E.kind # "end" /\ E.kind \in {"file", "dir"}
    <2>1. /\ got' = <<E>> /\ pc' = "listed"
          /\ UNCHANGED <<call, ret, file, ofs, btr, xfer, dirvars>>
      BY <1>2, <1>13 DEF E
    <2>2. UNCHANGED <<vol, call, ret, file, ofs, btr, xfer, dir, path, alts>> /\ pc' \in Listing
      BY <1>1, <2>1 DEF dirvars, Listing
    <2>3. /\ dir' \in FFDIR /\ dir'.open = TRUE /\ dir'.entry = dir.entry
          /\ Position' = Position /\ AtEntry' /\ dir'.sect # 0
      BY <1>12, <2>2
    <2>4. ListInv'
      <3>1. n + 1 <= Len(DirTable) /\ E = DirTable[n + 1] /\ n + 1 \in L
        BY <1>11, <1>13
      <3>2. dir'.dptr = n /\ DirTable' = DirTable /\ Live(vol', dir'.entry.id) = L
        BY <2>2 DEF DirTable
      <3> QED BY <2>1, <2>3, <3>1, <3>2 DEF ListInv
    <2>5. UNCHANGED <<vol, call, ret, file, ofs, btr, xfer, path, alts>>
      BY <2>2
    <2> QED BY <1>1, <1>4, <1>5, <2>1, <2>2, <2>3, <2>4, <2>5, ListGoesOn
  <1>14. CASE ok /\ E.kind # "end" /\ E.kind \notin {"file", "dir"}
    <2>1. pc' = "listnext" /\ UNCHANGED <<call, ret, filevars, dirvars>>
      BY <1>2, <1>14 DEF E
    <2>2. /\ UNCHANGED <<vol, call, ret, file, ofs, btr, xfer, dir, path, alts>> /\ got' = got
          /\ pc' \in Listing
      BY <1>1, <2>1 DEF dirvars, filevars, Listing
    <2>3. /\ dir' \in FFDIR /\ dir'.open = TRUE /\ dir'.entry = dir.entry
          /\ Position' = Position /\ AtEntry' /\ dir'.sect # 0
      BY <1>12, <2>2
    <2>4. ListInv'
      <3>1. n + 1 <= Len(DirTable) /\ n + 1 \notin L
        BY <1>11, <1>14
      <3>2. dir'.dptr = n /\ DirTable' = DirTable /\ Live(vol', dir'.entry.id) = L
        BY <2>2 DEF DirTable
      <3> QED BY <2>1, <2>3, <3>1, <3>2 DEF ListInv
    <2>5. UNCHANGED <<vol, call, ret, file, ofs, btr, xfer, path, alts>>
      BY <2>2
    <2>6. got' = <<>>
      BY <1>1, <2>2 DEF IInv, BufferInv, Reading
    <2> QED BY <1>1, <1>4, <1>5, <2>2, <2>3, <2>4, <2>5, <2>6, ListGoesOn
  <1> QED BY <1>9, <1>10, <1>13, <1>14

LEMMA ListNextStep ==
  ASSUME IInv, ListNext
  PROVE  IInv' /\ AbsStep
  <1> DEFINE n == dir.dptr
             L == Live(vol, dir.entry.id)
  <1>1. pc = "listnext" /\ pc \in Listing /\ UNCHANGED vol
    BY DEF ListNext, Listing
  <1>2. PICK v \in FatValues :
          /\ NextCluster(v)
          /\ IF NextFails(v) THEN dir' = [dir EXCEPT !.sect = 0] /\ Panic
             ELSE IF NextEnds(v) THEN ListEnds
             ELSE dir' = Advanced(v) /\ pc' = "list" /\ UNCHANGED <<call, ret, filevars, path, alts>>
    BY DEF ListNext
  <1>3. /\ DirFacts /\ dir \in FFDIR /\ dir.open = TRUE /\ dir.sect # 0
        /\ n \in Nat /\ Len(DirTable) \in Nat
        /\ \A p \in L : p \in 1 .. Len(DirTable)
    BY <1>1, ListFacts
  <1>4. n + 1 \notin L
    BY <1>1 DEF IInv, ListInv
  <1>5. Advances(v)
    BY <1>2, <1>3, AdvanceIs
  <1>6. Synced' /\ faults' \in Nat /\ hurt' \in {hurt, TRUE}
    BY <1>5 DEF Advances
  <1>7. Seen = n
    BY <1>1, <1>3, PositionIs
  <1>8. CASE NextFails(v)
    <2>1. dir' = [dir EXCEPT !.sect = 0] /\ Panic
      BY <1>2, <1>8
    <2>2. dir' \in FFDIR /\ dir'.open = TRUE /\ dir'.entry = dir.entry /\ dir'.dptr = dir.dptr
      BY <1>3, <2>1 DEF FFDIR
    <2>3. hurt' = TRUE
      BY <1>5, <1>8 DEF Advances
    <2> QED BY <1>1, <1>3, <1>6, <2>1, <2>2, <2>3, ListPanics
  <1>9. CASE ~NextFails(v) /\ NextEnds(v)
    <2>1. ListEnds
      BY <1>2, <1>9
    <2>2. Len(DirTable) <= n + 1
      BY <1>5, <1>9 DEF Advances
    <2>3. \A p \in L : p <= Seen
      <3> SUFFICES ASSUME NEW p \in L
                   PROVE  p <= n
        BY <1>7
      <3>1. p \in 1 .. Len(DirTable) /\ p # n + 1
        BY <1>3, <1>4
      <3> HIDE DEF n
      <3> QED BY <1>3, <2>2, <3>1
    <2> QED BY <1>1, <1>6, <2>1, <2>3, ListIsOver
  <1>10. CASE ~NextFails(v) /\ ~NextEnds(v)
    <2>1. dir' = Advanced(v) /\ pc' = "list" /\ UNCHANGED <<call, ret, filevars, path, alts>>
      BY <1>2, <1>10
    <2>2. /\ dir' \in FFDIR /\ dir'.entry = dir.entry /\ dir'.open = TRUE
          /\ dir'.dptr = n + 1 /\ Stands(vol, dir')
      BY <1>3, <1>5, <1>10, <2>1, Zenon DEF Advances
    <2>3. dir'.sect # 0
      BY <1>3, <2>2, StandsSomewhere
    <2>4. Position' = Position
      <3>1. Seen' = n + 1 /\ Position' = UpTo(Seen') /\ Position = UpTo(Seen)
        BY <1>1, <2>1, <2>2, <2>3, PositionIs DEF Seen
      <3>2. \A p \in L : p <= n + 1 <=> p <= n
        <4> SUFFICES ASSUME NEW p \in L
                     PROVE  p <= n + 1 <=> p <= n
          OBVIOUS
        <4>1. p \in Nat /\ p # n + 1
          BY <1>3, <1>4
        <4> HIDE DEF n
        <4> QED BY <1>3, <4>1
      <3>3. UpTo(n + 1) = UpTo(n)
        BY <1>1, <1>3, <3>2, UpToIs, ZenonT(40)
      <3> QED BY <1>7, <3>1, <3>3
    <2>5. ListInv'
      <3>1. AtEntry'
        BY <1>1, <2>2 DEF AtEntry
      <3> QED BY <2>1, <3>1 DEF ListInv
    <2>6. UNCHANGED <<vol, call, ret, file, ofs, btr, xfer, path, alts>> /\ got' = got /\ pc' \in Listing
      BY <1>1, <2>1 DEF filevars, Listing
    <2>7. got' = <<>>
      BY <1>1, <2>6 DEF IInv, BufferInv, Reading
    <2>8. UNCHANGED <<vol, call, ret, file, ofs, btr, xfer, path, alts>>
      BY <2>6
    <2> QED BY <1>1, <1>6, <2>2, <2>4, <2>5, <2>6, <2>7, <2>8, ListGoesOn
  <1> QED BY <1>8, <1>9, <1>10

LEMMA ListedStep ==
  ASSUME IInv, Listed
  PROVE  IInv' /\ AbsStep
  <1> DEFINE n == dir.dptr
             L == Live(vol, dir.entry.id)
             left == {p \in L : p > Position}
  <1>1. pc = "listed" /\ pc \in Listing /\ UNCHANGED vol
    BY DEF Listed, Listing
  <1>2. PICK v \in FatValues :
          /\ NextCluster(v)
          /\ dir' = Advanced(v)
          /\ IF NextFails(v) THEN Panic ELSE file' = file /\ Return(TRUE, got[1])
    BY DEF Listed
  <1>3. /\ DirFacts /\ dir \in FFDIR /\ dir.open = TRUE /\ dir.sect # 0 /\ dir.sect \in Int
        /\ n \in Nat /\ Len(DirTable) \in Nat
        /\ \A p \in L : p \in 1 .. Len(DirTable)
    BY <1>1, ListFacts DEF FFDIR
  <1>4. n + 1 \in L /\ got = <<DirTable[n + 1]>>
    BY <1>1 DEF IInv, ListInv
  <1>5. Advances(v)
    BY <1>2, <1>3, AdvanceIs
  <1>6. Synced' /\ faults' \in Nat /\ hurt' \in {hurt, TRUE}
    BY <1>5 DEF Advances
  <1>7. Seen = n
    BY <1>1, <1>3, PositionIs
  <1>8. CASE NextFails(v)
    <2>1. dir' = [dir EXCEPT !.sect = @ + 1] /\ Panic
      BY <1>2, <1>8 DEF Advanced
    <2>2. dir' \in FFDIR /\ dir'.open = TRUE /\ dir'.entry = dir.entry /\ dir'.dptr = dir.dptr
      BY <1>3, <2>1 DEF FFDIR
    <2>3. hurt' = TRUE
      BY <1>5, <1>8 DEF Advances
    <2> QED BY <1>1, <1>3, <1>6, <2>1, <2>2, <2>3, ListPanics
  <1>9. CASE ~NextFails(v)
    <2>1. file' = file /\ Return(TRUE, DirTable[n + 1])
      BY <1>2, <1>4, <1>9
    <2>2. pc' = "idle"
      BY <2>1 DEF Return
    <2>3. /\ dir' \in FFDIR /\ dir'.entry = dir.entry /\ dir'.open = TRUE
          /\ (dir'.sect = 0 /\ Len(DirTable) <= n + 1)
             \/ (dir'.sect # 0 /\ dir'.dptr = n + 1 /\ Stands(vol, dir'))
      <3>1. CASE NextEnds(v)
        <4>1. dir' = [dir EXCEPT !.sect = 0]
          BY <1>2, <1>9, <3>1 DEF Advanced
        <4>2. Len(DirTable) <= n + 1
          BY <1>5, <1>9, <3>1 DEF Advances
        <4>3. dir' \in FFDIR /\ dir'.entry = dir.entry /\ dir'.open = TRUE /\ dir'.sect = 0
          BY <1>3, <4>1 DEF FFDIR
        <4> QED BY <4>2, <4>3
      <3>2. CASE ~NextEnds(v)
        <4>1. /\ dir' \in FFDIR /\ dir'.entry = dir.entry /\ dir'.open = TRUE
              /\ dir'.dptr = n + 1 /\ Stands(vol, dir')
          BY <1>2, <1>3, <1>5, <1>9, <3>2, Zenon DEF Advances
        <4>2. dir'.sect # 0
          BY <1>3, <4>1, StandsSomewhere
        <4> QED BY <4>1, <4>2
      <3> QED BY <3>1, <3>2
    <2>4. /\ IInv' /\ call # NoCall /\ call.op = "readdir" /\ call' = NoCall
          /\ ret' = [ok |-> TRUE, val |-> DirTable[n + 1]]
          /\ Opened = dir.entry /\ Opened' = dir.entry /\ dir.entry.kind = "dir"
          /\ Failed = FALSE /\ Failed' = FALSE
      <3>1. dir'.sect = 0 \/ Stands(vol, dir')
        BY <2>3
      <3>2. UNCHANGED <<vol, file>>
        BY <1>1, <2>1
      <3> QED BY <1>1, <1>6, <2>1, <2>3, <3>1, <3>2, ListReturns, Zenon
    <2>5. Seen' = n + 1
      <3>1. CASE dir'.sect = 0
        <4>1. Seen' = Len(DirTable) /\ Len(DirTable) <= n + 1
          BY <1>1, <2>2, <2>3, <3>1 DEF Seen, DirTable
        <4>2. n + 1 \in 1 .. Len(DirTable)
          BY <1>3, <1>4
        <4> QED BY <1>3, <4>1, <4>2
      <3>2. CASE dir'.sect # 0
        BY <2>3, <3>2 DEF Seen
      <3> QED BY <3>1, <3>2
    <2>6. Position = UpTo(n) /\ Position' = UpTo(n + 1)
      BY <1>1, <1>7, <2>3, <2>5, PositionIs
    <2>7. Position' = n + 1
      <3>1. n + 1 \in Nat
        BY <1>3
      <3> QED BY <1>1, <1>4, <2>6, <3>1, UpToIs, Zenon
    <2>8. left # {} /\ Min(left) = n + 1
      <3>1. \A p \in L : p > Position <=> p > n
        BY <1>1, <1>3, <2>6, UpToIs, Zenon
      <3>2. n + 1 > n /\ n + 1 \in Int
        BY <1>3
      <3>3. n + 1 \in left
        BY <1>4, <3>1, <3>2, Zenon
      <3>4. left \subseteq Int
        BY <1>3
      <3>5. \A p \in left : n + 1 <= p
        <4> SUFFICES ASSUME NEW p \in left
                     PROVE  n + 1 <= p
          OBVIOUS
        <4>1. p \in Nat /\ p > n
          BY <1>3, <3>1
        <4> HIDE DEF n
        <4> QED BY <1>3, <4>1
      <3> HIDE DEF left, n
      <3>6. Min(left) = n + 1
        BY <3>3, <3>4, <3>5, MinIs
      <3> QED BY <3>3, <3>6
    <2>9. /\ left = {p \in Live(vol, dir.entry.id) : p > Position} /\ left # {}
          /\ Position' = Min(left) /\ ret' = [ok |-> TRUE, val |-> DirTable[Min(left)]]
      BY <2>4, <2>7, <2>8
    <2> HIDE DEF left
    <2>10. AbsStep
      BY <1>1, <1>6, <2>4, <2>9, ListReturnsNext, Zenon
    <2> QED BY <2>4, <2>10
  <1> QED BY <1>8, <1>9

-----------------------------------------------------------------------------
(* Calls are made. *)

LEMMA InvokeOpenStep ==
  ASSUME IInv, NEW c \in Calls, InvokeOpen(c)
  PROVE  IInv' /\ AbsStep
  <1> DEFINE n == Len(c.paths)
             T == Seq(Names)
             q == c.paths
  <1>1. /\ pc = "idle" /\ c.op = "open" /\ call' = c /\ hurt' = FALSE /\ pc' = "find"
        /\ file' = Closed /\ dir' = Rewind(RootEntry) /\ path' = Head(q) /\ alts' = Tail(q)
        /\ UNCHANGED <<vol, ofs, btr, xfer, got, winsect, win, faults, ret>>
    BY DEF InvokeOpen
  <1>2. q \in Seq(T) /\ n \in Nat \ {0} /\ \A i \in 1 .. n : q[i] \in T /\ Len(q[i]) <= 2
    BY <1>1, CallFacts
  <1>3. vol \in Volumes /\ call = NoCall /\ got = <<>> /\ Synced /\ Types
    BY <1>1 DEF IInv, Types, CallInv, BufferInv, Reading
  <1>4. Head(q) = q[1] /\ Tail(q) \in Seq(T) /\ Len(Tail(q)) = n - 1
        /\ \A i \in 1 .. (n - 1) : Tail(q)[i] = q[i + 1]
    <2> HIDE DEF q, T
    <2>1. n = Len(q) /\ q # <<>>
      <3>1. n = Len(q)
        BY DEF q
      <3> QED BY <1>2, <3>1, EmptySeq
    <2>2. /\ Tail(q) \in Seq(T) /\ Len(Tail(q)) = Len(q) - 1
          /\ \A i \in 1 .. Len(Tail(q)) : Tail(q)[i] = q[i + 1]
      BY <1>2, <2>1, HeadTailProperties, Zenon
    <2>3. Head(q) = q[1]
      BY <1>2
    <2> QED BY <2>1, <2>2, <2>3
  <1>5. path' = q[1] /\ path' \in T /\ Len(path') <= 2 /\ alts' \in Seq(T) /\ 1 \in 1 .. n
    <2>1. 1 \in 1 .. n
      BY <1>2
    <2>2. q[1] \in T /\ Len(q[1]) <= 2
      BY <1>2, <2>1, Zenon
    <2> QED BY <1>1, <1>4, <2>1, <2>2, Zenon
  <1> HIDE DEF n, T, q
  <1>6. Named(RootEntry) /\ RootEntry.kind = "dir" /\ RootEntry.id = Root
    BY <1>3, RootIs
  <1>7. dir' \in FFDIR /\ dir'.entry = RootEntry /\ dir'.open = FALSE /\ dir'.dptr = 0 /\ Stands(vol, dir')
    BY <1>1, <1>3, <1>6, RewindStands, Zenon
  <1>8. Trying(1)'
    <2>1. Len(alts') = Len(call'.paths) - 1
      BY <1>1, <1>4, Zenon DEF n, q
    <2>2. ASSUME NEW i \in 1 .. Len(alts')
          PROVE  alts'[i] = call'.paths[1 + i]
      <3>1. i \in 1 .. (n - 1)
        BY <1>1, <1>4
      <3>2. i + 1 = 1 + i
        BY <1>2, <3>1
      <3>3. alts'[i] = q[i + 1]
        BY <1>1, <1>4, <3>1, Zenon
      <3> QED BY <1>1, <3>2, <3>3 DEF q
    <2>3. \A j \in 1 .. (1 - 1) : ~Fits(j)'
      OBVIOUS
    <2>4. Lookup(vol', call'.paths[1]) = Walk(vol', dir'.entry.id, path')
      BY <1>1, <1>5, <1>6, <1>7, WalkRoot, Zenon DEF q
    <2> QED BY <2>1, <2>2, <2>3, <2>4, Zenon DEF Trying
  <1>9. Passed(dir.dptr)'
    <2>1. \A p \in Live(vol', dir'.entry.id) : ~(p <= 0)
      BY DEF Live
    <2> QED BY <1>7, <2>1 DEF Passed
  <1>10. FindInv'
    <2>1. AtEntry'
      BY <1>1, <1>7 DEF AtEntry
    <2>2. \E i \in 1 .. Len(call'.paths) : Trying(i)'
      BY <1>1, <1>5, <1>8, Zenon DEF n
    <2>3. path' \in Seq(Names) /\ alts' \in Seq(Seq(Names)) /\ Len(path') <= 2
      BY <1>5 DEF T
    <2>4. pc' # "findnext"
      BY <1>1
    <2> QED BY <1>9, <2>1, <2>2, <2>3, <2>4, Zenon DEF FindInv
  <1>11. Closed \in FIL /\ Closed.open = FALSE /\ Closed.err = FALSE
    <2>1. "none" \in Kinds /\ NoName \in Names
      BY NameAssumption DEF Kinds
    <2>2. NoEntry \in Entries
      BY <2>1 DEF NoEntry, Entries
    <2> QED BY <2>2 DEF Closed, FIL
  <1>12. Types' /\ Synced'
    <2>1. pc' \in Pcs
      BY <1>1 DEF Pcs, Finding
    <2>2. Types'
      BY <1>1, <1>3, <1>7, <1>11, <2>1 DEF Types
    <2> QED BY <1>1, <1>3, <2>2 DEF Synced
  <1>13. CallInv'
    BY <1>1, <1>7, <1>11 DEF CallInv, Finding, Listing, Reading
  <1>14. OpenInv'
    BY <1>1, <1>6, <1>7, <1>11 DEF OpenInv, Named
  <1>15. ListInv' /\ PlaceInv' /\ BufferInv'
    BY <1>1, <1>3, <1>7, <1>11 DEF ListInv, PlaceInv, BufferInv, Reading
  <1>16. Opened' = NoEntry /\ Position' = 0 /\ Failed' = FALSE
    BY <1>1, <1>7, <1>11 DEF Opened, Position, Failed
  <1>17. Abstract!Invoke(c)
    BY <1>1, <1>3, <1>16, SameLookup, Zenon
       DEF Abstract!Invoke, Opened, Position, Seen, Failed
  <1> QED BY <1>10, <1>12, <1>13, <1>14, <1>15, <1>17 DEF IInv, AbsStep, Abstract!Next

LEMMA InvokeStep ==
  ASSUME IInv, NEW c \in Calls, Invoke(c)
  PROVE  IInv' /\ AbsStep
  <1>1. /\ pc = "idle" /\ c.op # "open" /\ call' = c /\ hurt' = FALSE
        /\ c.op = "readdir" => dir.open
        /\ pc' = IF c.op = "read" THEN "lseek" ELSE "list"
        /\ UNCHANGED <<vol, file, ofs, btr, xfer, got, dir, path, alts, winsect, win, faults, ret>>
    BY DEF Invoke, filevars, dirvars
  <1>2. c.op \in {"read", "readdir"}
    BY <1>1, CallFacts
  <1>3. call = NoCall /\ got = <<>> /\ Synced /\ Types /\ OpenInv
    BY <1>1 DEF IInv, CallInv, BufferInv, Reading
  <1>4. Types' /\ Synced'
    <2>1. pc' \in Pcs
      BY <1>1 DEF Pcs, Listing
    <2> QED BY <1>1, <1>3, <2>1 DEF Types, Synced
  <1>5. CallInv'
    BY <1>1, <1>2 DEF CallInv, Finding, Listing, Reading
  <1>6. OpenInv'
    BY <1>1, <1>3 DEF OpenInv, Finding
  <1>7. FindInv' /\ BufferInv'
    BY <1>1, <1>3 DEF FindInv, BufferInv, Finding, Reading
  <1>8. ListInv'
    <2>1. dir.open => dir.sect = 0 \/ AtEntry
      BY <1>1 DEF IInv, ListInv
    <2>2. AtEntry' <=> AtEntry
      BY <1>1 DEF AtEntry
    <2> QED BY <1>1, <2>1, <2>2 DEF ListInv
  <1>9. PlaceInv'
    <2>1. file.open /\ ~file.err => Resting
      BY <1>1 DEF IInv, PlaceInv
    <2>2. Resting' <=> Resting
      BY <1>1 DEF Resting, FileChain, Sector
    <2> QED BY <1>1, <2>1, <2>2 DEF PlaceInv
  <1>10. Opened' = Opened /\ Failed' = Failed /\ Position' = Position
    <2>1. pc # "panic" /\ pc' # "panic"
      BY <1>1
    <2> QED BY <1>1, <2>1 DEF Opened, Failed, Position, Seen
  <1>11. c.op = "readdir" => ~Failed
    <2>1. dir.open => file = Closed
      BY <1>3, TypeFacts DEF OpenInv
    <2>2. Closed.err = FALSE
      BY DEF Closed
    <2> QED BY <1>1, <2>1, <2>2 DEF Failed
  <1>12. Abstract!Invoke(c)
    BY <1>1, <1>3, <1>10, <1>11, Zenon
       DEF Abstract!Invoke, Opened, Position, Seen, Failed
  <1> QED BY <1>4, <1>5, <1>6, <1>7, <1>8, <1>9, <1>12 DEF IInv, AbsStep, Abstract!Next

-----------------------------------------------------------------------------
(* The theorems. *)

LEMMA InitHolds ==
  ASSUME Init
  PROVE  IInv /\ Abstract!Init
  <1>1. /\ vol \in Volumes /\ file = Closed /\ dir = ClosedDir /\ winsect = Invalid /\ win = Invalid
        /\ faults = 0 /\ hurt = FALSE /\ pc = "idle" /\ call = NoCall
        /\ ret = [ok |-> TRUE, val |-> NoValue]
        /\ ofs = 0 /\ btr = 0 /\ xfer = NoXfer /\ got = <<>>
    BY DEF Init
  <1>2. NoEntry \in Entries
    <2>1. "none" \in Kinds /\ NoName \in Names
      BY NameAssumption DEF Kinds
    <2> QED BY <2>1 DEF NoEntry, Entries
  <1>3. Closed \in FIL /\ Closed.open = FALSE /\ Closed.err = FALSE
    BY <1>2 DEF Closed, FIL
  <1>4. ClosedDir \in FFDIR /\ ClosedDir.open = FALSE
    BY <1>2 DEF ClosedDir, FFDIR
  <1>5. Types /\ Synced
    <2>1. NoXfer \in Transfers
      BY DEF Transfers, NoXfer
    <2>2. pc \in Pcs /\ ofs \in Nat /\ btr \in Nat /\ faults \in Nat /\ hurt \in BOOLEAN
      BY <1>1 DEF Pcs
    <2> QED BY <1>1, <1>3, <1>4, <2>1, <2>2, Zenon DEF Types, Synced
  <1>6. CallInv /\ OpenInv
    BY <1>1, <1>3, <1>4 DEF CallInv, OpenInv, Finding, Listing, Reading
  <1>7. FindInv /\ ListInv /\ PlaceInv /\ BufferInv
    BY <1>1, <1>3, <1>4 DEF FindInv, ListInv, PlaceInv, BufferInv, Finding, Reading
  <1>8. Opened = NoEntry /\ Position = 0 /\ Failed = FALSE
    BY <1>1, <1>3, <1>4 DEF Opened, Position, Failed
  <1>9. Abstract!Init
    BY <1>1, <1>8, SameLookup, Zenon DEF Abstract!Init, Opened, Position, Seen, Failed
  <1> QED BY <1>5, <1>6, <1>7, <1>9 DEF IInv

LEMMA StutterHolds ==
  ASSUME IInv, UNCHANGED vars
  PROVE  IInv' /\ AbsStep
  <1>1. UNCHANGED <<vol, file, ofs, btr, xfer, got, dir, path, alts, winsect, win, faults, hurt, pc, call, ret>>
    BY DEF vars, filevars, dirvars, window
  <1>2. Types' /\ Synced' /\ CallInv' /\ OpenInv'
    BY <1>1 DEF IInv, Types, Synced, CallInv, OpenInv
  <1>3. FindInv'
    BY <1>1 DEF IInv, FindInv, AtEntry, Passed, Trying, Fits, DirTable
  <1>4. ListInv'
    BY <1>1 DEF IInv, ListInv, AtEntry, DirTable
  <1>5. PlaceInv'
    <2>1. /\ Resting' = Resting /\ Seeking' = Seeking /\ AtSector' = AtSector /\ Merging' = Merging
          /\ FileChain' = FileChain /\ Sector' = Sector
      BY <1>1 DEF Resting, Seeking, AtSector, Merging, FileChain, Sector, Target
    <2> QED BY <1>1, <2>1 DEF IInv, PlaceInv
  <1>6. BufferInv'
    <2>1. FileChain' = FileChain /\ Target' = Target
      BY <1>1 DEF FileChain, Target
    <2> QED BY <1>1, <2>1 DEF IInv, BufferInv
  <1>7. UNCHANGED Abstract!vars
    BY <1>1 DEF Abstract!vars
  <1> QED BY <1>2, <1>3, <1>4, <1>5, <1>6, <1>7 DEF IInv, AbsStep

\* Every step keeps the invariant and is a step of the abstract file API, or none.
LEMMA StepHolds ==
  ASSUME IInv, [Next]_vars
  PROVE  IInv' /\ AbsStep
  <1>1. CASE Step
    <2>1. CASE FindRoot
      BY <2>1, FindRootStep
    <2>2. CASE FindEntry
      BY <2>2, FindEntryStep
    <2>3. CASE FindNext
      BY <2>3, FindNextStep
    <2>4. CASE ListPastEnd
      BY <2>4, ListPastEndStep
    <2>5. CASE ListEntry
      BY <2>5, ListEntryStep
    <2>6. CASE ListNext
      BY <2>6, ListNextStep
    <2>7. CASE Listed
      BY <2>7, ListedStep
    <2>8. CASE LseekStart
      BY <2>8, LseekStartStep
    <2>9. CASE LseekRefused
      BY <2>9, LseekRefusedStep
    <2>10. CASE SeekCluster
      BY <2>10, SeekClusterStep
    <2>11. CASE SeekEnd
      BY <2>11, SeekEndStep
    <2>12. CASE ReadDone
      BY <2>12, ReadDoneStep
    <2>13. CASE ReadCluster
      BY <2>13, ReadClusterStep
    <2>14. CASE ReadSector
      BY <2>14, ReadSectorStep
    <2>15. CASE MergeCluster
      BY <2>15, MergeClusterStep
    <2>16. CASE ReadXfer
      BY <2>16, ReadXferStep
    <2>17. CASE ReadCopy
      BY <2>17, ReadCopyStep
    <2> QED BY <1>1, <2>1, <2>2, <2>3, <2>4, <2>5, <2>6, <2>7, <2>8, <2>9, <2>10, <2>11, <2>12,
               <2>13, <2>14, <2>15, <2>16, <2>17 DEF Step
  <1>2. CASE \E c \in Calls : InvokeOpen(c) \/ Invoke(c)
    BY <1>2, InvokeOpenStep, InvokeStep
  <1>3. CASE UNCHANGED vars
    BY <1>3, StutterHolds
  <1> QED BY <1>1, <1>2, <1>3 DEF Next

\* A file that rests between two calls: its cluster and sector are those of the byte before
\* the file pointer.
LEMMA RestingIs ==
  ASSUME IInv
  PROVE  PositionTrue
  <1> SUFFICES ASSUME pc = "idle", file.open, ~file.err, file.fptr > 0
               PROVE  /\ file.fptr <= Len(Content(vol, file.entry))
                      /\ file.clust = ClusterAt(Content(vol, file.entry)[file.fptr][1])
                      /\ file.fptr % SS # 0 => file.sect = Content(vol, file.entry)[file.fptr][1]
    BY DEF PositionTrue
  <1> DEFINE f == file.fptr
             n == f - 1
             t == n \div SS
             l == Len(FileChain)
             z == file.entry.size
             C == Content(vol, file.entry)
  <1>1. vol \in Volumes /\ file.entry \in Entries /\ f \in Nat /\ f > 0
    BY TypeFacts DEF IInv
  <1>2. Named(file.entry)
    BY <1>1 DEF IInv, OpenInv, Named
  <1>3. FileChain \in Seq(2 .. (NFat - 1)) /\ l \in Nat /\ z \in Nat
    BY <1>1, <1>2, NamedIs DEF FileChain
  <1>4. /\ f <= z /\ On(FileChain, t, file.clust)
        /\ f % SS # 0 => file.sect = SectorNo(FileChain, f \div SS)
    BY DEF IInv, PlaceInv, Resting, Sector
  <1>5. n \in Nat /\ f = n + 1 /\ SS \in Nat \ {0} /\ Bcs \in Nat \ {0}
    BY <1>1, Geometry
  <1> HIDE DEF f
  <1> HIDE DEF n
  <1>6. t \in Nat /\ n \div Bcs = t \div CSize
    BY <1>5, BytePlace
  <1>7. ClusterAt(SectorNo(FileChain, t)) = file.clust
    BY <1>3, <1>4, <1>6, SectorIs
  <1>8. f % SS # 0 => f \div SS = t
    BY <1>5, DivNext, Zenon
  <1>9. f <= Bcs * l
    <2> DEFINE q == n \div Bcs
               r == n % Bcs
    <2>1. q < l
      BY <1>4, <1>6 DEF On
    <2>2. n = Bcs * q + r /\ q \in Nat /\ r \in 0 .. (Bcs - 1)
      BY <1>5, DivMod
    <2> HIDE DEF q, r, l
    <2>3. Bcs * (q + 1) <= Bcs * l
      BY <1>3, <1>5, <2>1, <2>2, SMT
    <2>4. Bcs * (q + 1) = Bcs * q + Bcs /\ Bcs * q \in Nat /\ Bcs * l \in Nat
      BY <1>3, <1>5, <2>2, SMT
    <2> QED BY <1>5, <2>2, <2>3, <2>4
  <1>10. /\ Len(C) = (IF z <= Bcs * l THEN z ELSE Bcs * l) /\ Bcs * l \in Nat
         /\ \A b \in 1 .. Len(C) : C[b] = Byte(FileChain, b - 1)
    BY <1>1, <1>2, ContentIs DEF FileChain
  <1>11. f <= Len(C) /\ f \in 1 .. Len(C)
    <2> DEFINE x == Bcs * l
    <2>1. x \in Nat /\ f <= x /\ Len(C) = IF z <= x THEN z ELSE x
      BY <1>9, <1>10
    <2> HIDE DEF x, z, C
    <2> QED BY <1>1, <1>3, <1>4, <2>1
  <1>12. C[f][1] = SectorNo(FileChain, t)
    <2>1. C[f] = Byte(FileChain, f - 1) /\ f - 1 = n
      BY <1>10, <1>11 DEF n
    <2>2. C[f] = <<SectorNo(FileChain, t), n % SS>>
      BY <2>1, Zenon DEF Byte
    <2> HIDE DEF C
    <2> QED BY <2>2
  <1>13. /\ file.clust = ClusterAt(C[f][1])
         /\ f % SS # 0 => file.sect = C[f][1]
    BY <1>4, <1>7, <1>8, <1>12, Zenon
  <1> QED BY <1>11, <1>13, Zenon DEF f, C

\* The invariant of FatFs behind the file API: the window holds what it is said to hold, an
\* open object is one of the volume, the cluster and the sector of the file and of the
\* directory are those of the position, a search has passed over nothing it looks for, and
\* the caller's buffer holds the bytes from the target of the seek to the file pointer.
THEOREM FileInvariantHolds == Spec => []IInv
  <1>1. Init => IInv
    BY InitHolds
  <1>2. IInv /\ [Next]_vars => IInv'
    BY StepHolds
  <1> QED BY <1>1, <1>2, PTL DEF Spec

\* Between two calls the current cluster is the one before the file pointer, and the current
\* sector that of a pointer inside a sector, on every volume, and after every sequence of
\* seeks, merged transfers and failed reads of f_lseek and f_read.
THEOREM PositionHolds == Spec => []PositionTrue
  <1>1. IInv => PositionTrue
    BY RestingIs
  <1> QED BY <1>1, FileInvariantHolds, PTL

\* dvd_custom_open, dvd_read and dvd_custom_readdir implement the abstract file API: an open
\* finds the first path that leads to an object of the right kind, a read returns the bytes of
\* the file, a listing every entry once and in order, and each fails only for a reason.
THEOREM Implements == Spec => ImplementsFile
  <1>1. Init => Abstract!Init
    BY InitHolds
  <1>2. IInv /\ [Next]_vars => [Abstract!Next]_Abstract!vars
    <2> SUFFICES ASSUME IInv, [Next]_vars
                 PROVE  Abstract!Next \/ UNCHANGED Abstract!vars
      OBVIOUS
    <2> QED BY StepHolds DEF AbsStep
  <1> QED BY <1>1, <1>2, FileInvariantHolds, PTL DEF Spec, ImplementsFile, Abstract!Spec
=============================================================================
