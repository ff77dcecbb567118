------------------------------ MODULE Pmalloc ------------------------------
(***************************************************************************)
(* The heap of pmalloc.c: a first-fit allocator with two doubly linked     *)
(* lists, available and assigned, whose nodes are headers inside the       *)
(* managed memory.  Memory is counted in words; a header takes Hdr of      *)
(* them, and its last word is the magic number pmalloc_freealign looks     *)
(* for.  The heap is a record, so that its clients compose with these      *)
(* operators.                                                              *)
(***************************************************************************)
EXTENDS Naturals, Integers, Sequences, FiniteSets, FiniteSetsExt

CONSTANTS Words,   \* words of the block given to pmalloc_addblock
          Hdr,     \* words of a pmalloc_item_t
          Null,    \* nullptr
          Wild     \* the content of memory nobody has initialised

ASSUME HeapAssumption ==
  /\ Words \in Nat /\ Hdr \in Nat /\ 0 < Hdr /\ Hdr < Words
  /\ Null \notin Int /\ Wild \notin Int /\ Null # Wild

Addr == 0 .. Words - 1

\* No list is longer than the headers that fit into the memory.
MaxNodes == Words \div Hdr

\* newfree->size is unsigned: a remainder that does not hold a header wraps.
Wrap(n) == IF n < 0 THEN n + 2 ^ 30 ELSE n

\* The nodes of a list in order, from root through next.
Nodes(h, root) ==
  LET walk[k \in 0 .. MaxNodes] ==
        IF k = 0 THEN IF root = Null THEN <<>> ELSE <<root>>
        ELSE LET w == walk[k - 1] IN
             IF w = <<>> \/ h.next[w[Len(w)]] = Null THEN w
             ELSE Append(w, h.next[w[Len(w)]])
  IN  walk[MaxNodes]

\* Seeded fault: the tail is linked in one direction only.
ItemInsertOneWay(h, list, n) ==
  IF h[list] = Null
  THEN [h EXCEPT ![list] = n, !.prev[n] = Null, !.next[n] = Null]
  ELSE IF n < h[list]
  THEN [h EXCEPT !.prev[h[list]] = n, !.next[n] = h[list], ![list] = n]
  ELSE LET s == Nodes(h, h[list])
           c == s[Min({i \in 1 .. Len(s) : h.next[s[i]] = Null \/ n <= h.next[s[i]]})]
       IN  IF h.next[c] = Null
           THEN [h EXCEPT !.next[c] = n]
           ELSE [h EXCEPT !.next[c] = n, !.prev[n] = c, !.next[n] = h.next[c],
                          !.prev[h.next[c]] = n]

\* pmalloc_item_insert.  In front of the root prev of the node is left as it is,
\* and at the end of the list its next.
ItemInsert(h, list, n) ==
  IF h[list] = Null
  THEN [h EXCEPT ![list] = n, !.prev[n] = Null, !.next[n] = Null]
  ELSE IF n < h[list]
  THEN [h EXCEPT !.prev[h[list]] = n, !.next[n] = h[list], ![list] = n]
  ELSE LET s == Nodes(h, h[list])
           c == s[Min({i \in 1 .. Len(s) : h.next[s[i]] = Null \/ n <= h.next[s[i]]})]
       IN  IF h.next[c] = Null
           THEN [h EXCEPT !.prev[n] = c, !.next[c] = n]
           ELSE [h EXCEPT !.next[c] = n, !.prev[n] = c, !.next[n] = h.next[c],
                          !.prev[h.next[c]] = n]

\* pmalloc_item_remove.  A wild pointer is written through.
ItemRemove(h, list, n) ==
  LET p == h.prev[n]
      q == h.next[n]
  IN  [h EXCEPT !.next = [a \in Addr |-> IF a = n THEN Null ELSE IF a = p THEN q ELSE h.next[a]],
                !.prev = [a \in Addr |-> IF a = n THEN Null ELSE IF a = q THEN p ELSE h.prev[a]],
                ![list] = IF n # @ THEN @ ELSE IF p # Null THEN p ELSE q,
                !.wild = @ \/ p = Wild]

After(h, n) == n + Hdr + h.size[n]

\* pmalloc_merge, first loop: back to the first of the contiguous free blocks.
FirstOfRun(h, n) ==
  LET back[k \in 0 .. MaxNodes] ==
        IF k = 0 THEN n
        ELSE LET m == back[k - 1] IN
             IF h.prev[m] \notin {Null, Wild} /\ After(h, h.prev[m]) = m THEN h.prev[m] ELSE m
  IN  back[MaxNodes]

\* pmalloc_merge, second loop: one block swallowed at a time.
Swallow(h, n) ==
  LET m == h.next[n]
      r == ItemRemove([h EXCEPT !.freemem = @ + Hdr, !.totalnodes = @ - 1], "available", m)
  IN  [r EXCEPT !.size[n] = @ + h.size[m] + Hdr]

Merge(h, n) ==
  LET f == FirstOfRun(h, n)
      run[k \in 0 .. MaxNodes] ==
        IF k = 0 THEN [h EXCEPT !.wild = @ \/ h.prev[f] = Wild]
        ELSE LET g == run[k - 1] IN
             IF g.next[f] = After(g, f) THEN Swallow(g, f) ELSE g
  IN  run[MaxNodes]

\* pmalloc_init and pmalloc_addblock: one available block.
HeapInit ==
  [available |-> 0, assigned |-> Null,
   prev |-> [a \in Addr |-> IF a = 0 THEN Null ELSE Wild],
   next |-> [a \in Addr |-> IF a = 0 THEN Null ELSE Wild],
   size |-> [a \in Addr |-> IF a = 0 THEN Words - Hdr ELSE 0],
   magic |-> {}, freemem |-> Words - Hdr, totalnodes |-> 1, wild |-> FALSE]

\* The first available block of n words or more, or Null.
FirstFit(h, n) ==
  LET s == Nodes(h, h.available)
      fits == {i \in 1 .. Len(s) : h.size[s[i]] >= n}
  IN  IF fits = {} THEN Null ELSE s[Min(fits)]

\* The remainder of the block b of which n words are kept becomes an available
\* one.  Its next is taken from b, which is in the assigned list by now.
Split(h, b, n) ==
  LET f == b + Hdr + n
      cut == [h EXCEPT !.size[f] = Wrap(h.size[b] - Hdr - n), !.next[f] = h.next[b],
                       !.next[b] = Null, !.size[b] = n]
      ins == ItemInsert(cut, "available", f)
  IN  Merge([ins EXCEPT !.freemem = @ - Hdr, !.totalnodes = @ + 1], f)

\* pmalloc_malloc of n words from block b = FirstFit(h, n), which is not Null.
\* The caller fills the block; what was there, old headers included, is gone.
Malloc(h, b, n) ==
  LET tagged == [h EXCEPT !.magic = @ \cup {b + Hdr - 1}]
      moved == ItemInsert(ItemRemove(tagged, "available", b), "assigned", b)
      cut == IF moved.size[b] # n THEN Split(moved, b, n) ELSE moved
  IN  [cut EXCEPT !.freemem = @ - n]

\* The words from lo to hi are written by the owner of the block.
Written(h, lo, hi) ==
  [h EXCEPT !.prev = [a \in Addr |-> IF a \in lo .. hi THEN Wild ELSE @[a]],
            !.next = [a \in Addr |-> IF a \in lo .. hi THEN Wild ELSE @[a]],
            !.size = [a \in Addr |-> IF a \in lo .. hi THEN 0 ELSE @[a]],
            !.magic = @ \ (lo .. hi)]

\* Seeded fault: the block is not merged with its neighbours.
FreeNodeAlone(h, n) ==
  LET out == ItemRemove(h, "assigned", n)
  IN  ItemInsert([out EXCEPT !.freemem = @ + h.size[n]], "available", n)

\* pmalloc_free of the block whose header is at n.
FreeNode(h, n) ==
  LET out == ItemRemove(h, "assigned", n)
      ins == ItemInsert([out EXCEPT !.freemem = @ + h.size[n]], "available", n)
  IN  Merge(ins, n)

RoundUp(a, align) == ((a + align - 1) \div align) * align

\* pmalloc_memalign: the pointer it returns, b being the block of size + align
\* words; the words skipped are filled with 0xDEADBEEF.
AlignedPtr(b, align) == RoundUp(b + Hdr, align)

Padded(h, b, align) == Written(h, b + Hdr, AlignedPtr(b, align) - 1)

\* pmalloc_freealign: the header in front of the nearest magic word below ptr.
HeaderOf(h, ptr) == Max({w \in h.magic : w < ptr}) + 1 - Hdr
=============================================================================
