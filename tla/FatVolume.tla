------------------------------ MODULE FatVolume ------------------------------
(***************************************************************************)
(* A FAT32 or exFAT volume as FatFs meets it: the cluster chains of its    *)
(* objects, the directory tables, and where both lie on the disk.  A byte  *)
(* is named by its sector and its index in it, so that two bytes are equal *)
(* only when they are the same byte of the disk.                           *)
(***************************************************************************)
EXTENDS Integers, Sequences, SequencesExt, FiniteSetsExt

CONSTANTS
  SS,           \* bytes of a sector
  CSize,        \* sectors of a cluster, fs->csize
  NFat,         \* fs->n_fatent: clusters are 2 .. NFat - 1
  FatPerSector, \* entries of the FAT in a sector
  DirPerSector, \* directory entries in a sector
  Names,        \* names of entries, and of objects
  Volumes       \* [chain: object -> clusters, table: directory -> entries]

ASSUME GeometryAssumption ==
  /\ SS \in Nat \ {0} /\ CSize \in Nat \ {0} /\ NFat \in Nat
  /\ FatPerSector \in Nat \ {0} /\ DirPerSector \in Nat \ {0}

Root == "/"
NoName == ""
ASSUME NameAssumption == Root \in Names /\ NoName \in Names

EOC == NFat + 1        \* 0x0FFFFFFF: past the last cluster, and next to none
DiskErr == NFat + 2    \* 0xFFFFFFFF
Bcs == SS * CSize      \* bytes of a cluster

FatBase == 1           \* sector 0 stands for "none" in fp->sect and dp->sect
FatSector(c) == FatBase + c \div FatPerSector
Database == FatSector(NFat) + 1

\* clst2sect
Clst2Sect(c) == IF c \in 2 .. NFat - 1 THEN Database + CSize * (c - 2) ELSE 0
ClusterAt(s) == 2 + (s - Database) \div CSize

-----------------------------------------------------------------------------
(* What is on the disk. *)

Objects(v) == DOMAIN v.chain
Dirs(v) == DOMAIN v.table

\* exFAT does not write the FAT for a contiguous file (stat = 2).
Unchained(v) == {e.id : e \in {f \in UNION {ToSet(v.table[d]) : d \in Dirs(v)} : f.stat = 2}}

\* The FAT entry of a cluster.
Fat(v, c) ==
  LET held == {h \in (Objects(v) \ Unchained(v)) \X (1 .. NFat) :
                 h[2] <= Len(v.chain[h[1]]) /\ v.chain[h[1]][h[2]] = c}
  IN  IF held = {} THEN 0
      ELSE LET h == CHOOSE x \in held : TRUE
           IN  IF h[2] < Len(v.chain[h[1]]) THEN v.chain[h[1]][h[2] + 1] ELSE EOC

First(v, o) == IF v.chain[o] = <<>> THEN 0 ELSE v.chain[o][1]

EndEntry == [kind |-> "end", name |-> NoName, id |-> NoName, size |-> 0, stat |-> 0]

\* The k-th (from 0) directory entry of a sector.
EntryIn(v, s, k) ==
  LET c == ClusterAt(s)
      d == CHOOSE x \in Dirs(v) : c \in ToSet(v.chain[x])
      i == CHOOSE j \in 1 .. Len(v.chain[d]) : v.chain[d][j] = c
      n == ((i - 1) * CSize + (s - Clst2Sect(c))) * DirPerSector + k + 1
  IN  IF n <= Len(v.table[d]) THEN v.table[d][n] ELSE EndEntry

BytesOf(s, from, n) == [j \in 1 .. n |-> <<s, from + j - 1>>]

-----------------------------------------------------------------------------
(* What it means: a tree of files, each a sequence of bytes. *)

\* The bytes the chain of a file holds, up to its size.
Content(v, e) ==
  LET held == Min({e.size, Bcs * Len(v.chain[e.id])})
  IN  [b \in 1 .. held |-> <<Clst2Sect(v.chain[e.id][1 + (b - 1) \div Bcs])
                                + ((b - 1) % Bcs) \div SS, (b - 1) % SS>>]

\* The entries of a directory that name something, by their positions.
Live(v, d) == {p \in 1 .. Len(v.table[d]) : v.table[d][p].kind \in {"file", "dir"}}

NoEntry == [kind |-> "none", name |-> NoName, id |-> NoName, size |-> 0, stat |-> 0]
RootEntry == [kind |-> "dir", name |-> NoName, id |-> Root, size |-> 0, stat |-> 0]

Child(v, d, n) ==
  LET hits == {p \in Live(v, d) : v.table[d][p].name = n}
  IN  IF hits = {} THEN NoEntry ELSE v.table[d][Min(hits)]

\* The object a path names; paths have at most two segments here.
Lookup(v, path) ==
  CASE path = <<>> -> RootEntry
    [] Len(path) = 1 -> Child(v, Root, path[1])
    [] OTHER -> LET d == Child(v, Root, path[1])
                IN  IF d.kind = "dir" THEN Child(v, d.id, path[2]) ELSE NoEntry

-----------------------------------------------------------------------------
(* Volumes that are in order, but for chains that end too early. *)

\* Files and directories, what dir_read and dir_find pass over, and the marks of an end.
Kinds == {"file", "dir", "deleted", "lfn", "dot", "label", "end", "none"}

Entries == [kind : Kinds, name : Names, id : Names, size : Nat, stat : {0, 2}]

\* An entry names an object, and says whether the FAT holds its chain; a chain that the
\* FAT does not hold is contiguous and as long as the size requires.
Sound(v, e) ==
  /\ e.kind \notin {"end", "none"}
  /\ e.kind \in {"file", "dir"} =>
       /\ e.id \in Objects(v) /\ (e.kind = "dir" => e.id \in Dirs(v))
       /\ e.stat = 2 <=> e.id \in Unchained(v)
       /\ e.size > 0 => v.chain[e.id] # <<>>
       /\ e.stat = 2 =>
            /\ Bcs * (Len(v.chain[e.id]) - 1) < e.size /\ e.size <= Bcs * Len(v.chain[e.id])
            /\ \A k \in 1 .. Len(v.chain[e.id]) : v.chain[e.id][k] = v.chain[e.id][1] + k - 1

\* Chains do not meet, and a directory has a cluster and fits into its chain.
WellFormed(v) ==
  /\ Root \in Dirs(v) \ Unchained(v) /\ Dirs(v) \subseteq Objects(v)
  /\ \A o \in Objects(v) : v.chain[o] \in Seq(2 .. NFat - 1) /\ Len(v.chain[o]) <= NFat
  /\ \A o, p \in Objects(v) : \A j \in 1 .. Len(v.chain[o]), k \in 1 .. Len(v.chain[p]) :
       v.chain[o][j] = v.chain[p][k] => o = p /\ j = k
  /\ \A d \in Dirs(v) :
       /\ v.chain[d] # <<>> /\ v.table[d] \in Seq(Entries)
       /\ Len(v.table[d]) <= DirPerSector * CSize * Len(v.chain[d])
       /\ \A p \in 1 .. Len(v.table[d]) : Sound(v, v.table[d][p])

ASSUME VolumeAssumption == \A v \in Volumes : WellFormed(v)
==============================================================================
