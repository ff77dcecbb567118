------------------------------ MODULE HeapUse ------------------------------
(***************************************************************************)
(* Who uses the heap, in the order of the program: load_cube_logo with the *)
(* buffers of upng_decode, once, before the enumeration thread is started; *)
(* then gm_check_files, which allocates an entry for every game, program   *)
(* and directory, and gm_start_thread, which frees them all before the     *)
(* next listing.  Never two users at once.                                 *)
(***************************************************************************)
EXTENDS Pmalloc

CONSTANTS Logos,       \* PNG files: words of file, compressed, inflated, image
          ImgWords,    \* sizeof(upng_t)
          EntryWords,  \* sizeof(gm_file_entry_t)
          Align,       \* 32 bytes
          MaxEntries   \* entries of a directory (1920 in gm_list_files)

ASSUME LogoAssumption ==
  /\ Logos \subseteq [file : Nat, compressed : Nat, inflated : Nat, image : Nat]
  /\ \A l \in Logos : l.inflated > l.image

ASSUME SizeAssumption ==
  /\ ImgWords \in Nat /\ EntryWords \in Nat /\ MaxEntries \in Nat /\ Align \in Nat \ {0}

VARIABLES h,        \* pm
          pc,       \* the next step of the user
          logo,     \* the file load_cube_logo opened
          held,     \* load_cube_logo and upng: name -> pointer or Null
          entries,  \* gm_entry_backing: pointers
          freed     \* gm_start_thread: entries freed so far

vars == <<h, pc, logo, held, entries, freed>>

Names == {"file", "img", "compressed", "inflated", "image"}

\* pmalloc_malloc(n), filled by its owner; without memory go to fail.
Alloc(name, n, next, fail) ==
  LET b == FirstFit(h, n) IN
  IF b = Null THEN pc' = fail /\ UNCHANGED <<h, held>>
  ELSE /\ h' = Written(Malloc(h, b, n), b + Hdr, b + Hdr + n - 1)
       /\ held' = [held EXCEPT ![name] = b + Hdr]
       /\ pc' = next

\* free(), which ignores a null pointer.
Release(name, next) ==
  /\ h' = IF held[name] = Null THEN h ELSE FreeNode(h, held[name] - Hdr)
  /\ held' = [held EXCEPT ![name] = Null]
  /\ pc' = next

LogoStep == UNCHANGED <<logo, entries, freed>>

\* No cube_logo setting, or a file that cannot be opened.
NoLogo == pc = "open" /\ pc' = "check" /\ UNCHANGED <<h, held>> /\ LogoStep

OpenLogo ==
  /\ pc = "open"
  /\ \E l \in Logos : logo' = l
  /\ pc' = "file"
  /\ UNCHANGED <<h, held, entries, freed>>

\* gm_memalign(file_size, 32)
AllocFile ==
  /\ pc = "file"
  /\ LET n == logo.file + Align
         b == FirstFit(h, n)
     IN  IF b = Null THEN pc' = "check" /\ UNCHANGED <<h, held>>
         ELSE LET p == AlignedPtr(b, Align) IN
              /\ h' = Written(Padded(Malloc(h, b, n), b, Align), p, p + logo.file - 1)
              /\ held' = [held EXCEPT !["file"] = p]
              /\ pc' = "struct"
  /\ LogoStep

\* upng_new_from_bytes
AllocImg == pc = "struct" /\ Alloc("img", ImgWords, "header", "free_file") /\ LogoStep

\* upng_decode up to the compressed data: any of the header and chunk tests may fail.
BadHeader == pc = "header" /\ pc' = "free_image" /\ UNCHANGED <<h, held>> /\ LogoStep
AllocCompressed ==
  pc = "header" /\ Alloc("compressed", logo.compressed, "inflated", "free_image") /\ LogoStep
AllocInflated ==
  pc = "inflated" /\ Alloc("inflated", logo.inflated, "inflate", "no_inflated") /\ LogoStep
FreeCompressedNoMem == pc = "no_inflated" /\ Release("compressed", "free_image") /\ LogoStep

\* uz_inflate fails: both buffers go.  It succeeds: the compressed data go.
InflateFails == pc = "inflate" /\ Release("compressed", "free_inflated") /\ LogoStep
Inflated == pc = "inflate" /\ Release("compressed", "image") /\ LogoStep
AllocImage == pc = "image" /\ Alloc("image", logo.image, "unfilter", "free_inflated") /\ LogoStep

\* post_process_scanlines done; on an error the image is freed here already.
FreeInflated ==
  /\ \/ pc = "free_inflated" /\ Release("inflated", "free_image")
     \/ pc = "unfilter" /\ Release("inflated", "free_image")
     \/ pc = "unfilter" /\ Release("inflated", "bad_image")
  /\ LogoStep
BadImage == pc = "bad_image" /\ Release("image", "free_image") /\ LogoStep

\* cleanup: upng_free, then gm_freealign.
FreeImage == pc = "free_image" /\ Release("image", "free_img") /\ LogoStep
FreeImg == pc = "free_img" /\ Release("img", "free_file") /\ LogoStep
FreeFile ==
  /\ pc = "free_file"
  /\ h' = FreeNode(h, HeaderOf(h, held["file"]))
  /\ held' = [held EXCEPT !["file"] = Null]
  /\ pc' = "check"
  /\ LogoStep

\* gm_check_files: gm_malloc is not tested and memset follows.
AddEntry ==
  /\ pc = "check"
  /\ Len(entries) < MaxEntries
  /\ LET n == EntryWords + Align
         b == FirstFit(h, n)
     IN  IF b = Null THEN pc' = "crashed" /\ UNCHANGED <<h, entries>>
         ELSE LET p == AlignedPtr(b, Align) IN
              /\ h' = Written(Padded(Malloc(h, b, n), b, Align), p, p + EntryWords - 1)
              /\ entries' = Append(entries, p)
              /\ UNCHANGED pc
  /\ UNCHANGED <<logo, held, freed>>

\* gm_start_thread: gm_free of every entry, in order.
StartThread ==
  /\ pc = "check"
  /\ pc' = "freeing" /\ freed' = 0
  /\ UNCHANGED <<h, logo, held, entries>>

FreeEntry ==
  /\ pc = "freeing" /\ freed < Len(entries)
  /\ h' = FreeNode(h, HeaderOf(h, entries[freed + 1]))
  /\ freed' = freed + 1
  /\ UNCHANGED <<pc, logo, held, entries>>

AllFreed ==
  /\ pc = "freeing" /\ freed = Len(entries)
  /\ pc' = "check" /\ entries' = <<>> /\ freed' = 0
  /\ UNCHANGED <<h, logo, held>>

Init ==
  /\ h = HeapInit
  /\ pc = "open"
  /\ logo \in Logos
  /\ held = [n \in Names |-> Null]
  /\ entries = <<>> /\ freed = 0

\* A wild pointer followed is undefined: nothing is said of what comes after.
Next ==
  /\ ~h.wild
  /\ \/ NoLogo \/ OpenLogo \/ AllocFile \/ AllocImg \/ BadHeader \/ AllocCompressed
     \/ AllocInflated \/ FreeCompressedNoMem \/ InflateFails \/ Inflated \/ AllocImage
     \/ FreeInflated \/ BadImage \/ FreeImage \/ FreeImg \/ FreeFile
     \/ AddEntry \/ StartThread \/ FreeEntry \/ AllFreed

Spec == Init /\ [][Next]_vars

-----------------------------------------------------------------------------
(* What the sizes have to be for the heap to stay sound. *)

\* Where the block after each of the logo's blocks begins.
Ends(l) ==
  LET file == Hdr + l.file + Align
      img == file + Hdr + ImgWords
      compressed == img + Hdr + l.compressed
      inflated == compressed + Hdr + l.inflated
  IN  {file, img, compressed, inflated, inflated + Hdr + l.image}

\* pmalloc_malloc makes the rest of a block a free block even if the rest does not hold
\* a header: no allocation leaves such a rest, and the entries of a full list fit.
NoSliver ==
  /\ \A l \in Logos : \A t \in Ends(l) : Words - t \notin 1 .. Hdr - 1
  /\ MaxEntries * (Hdr + EntryWords + Align) + Hdr <= Words

\* The image does not fit where the compressed data were, with words to spare.
Deflated == \A l \in Logos : l.compressed <= l.image

-----------------------------------------------------------------------------
(* Properties. *)

Available == Nodes(h, h.available)
Assigned == Nodes(h, h.assigned)
SetOf(s) == {s[i] : i \in 1 .. Len(s)}
Blocks == SetOf(Available) \cup SetOf(Assigned)

\* pmalloc.h of prev: "The previous block in the chain".  In the available list
\* the prev of every node is the node before it, and null in the first.
PrevIsPrevious ==
  \A i \in 1 .. Len(Available) :
    h.prev[Available[i]] = IF i = 1 THEN Null ELSE Available[i - 1]

\* What each of the users still holds is assigned, and nothing else is.
HeldBlocks ==
  {held[n] - Hdr : n \in {m \in Names \ {"file"} : held[m] # Null}}
    \cup {HeaderOf(h, p) : p \in {held["file"]} \ {Null}}
    \cup {HeaderOf(h, entries[i]) : i \in freed + 1 .. Len(entries)}

Ascending(s) == \A i \in 1 .. Len(s) - 1 : s[i] < s[i + 1]

\* pmalloc_freealign finds the block an aligned pointer points into, and no magic
\* word that an earlier block left behind.
AlignedPtrs == ({held["file"]} \ {Null}) \cup {entries[i] : i \in freed + 1 .. Len(entries)}
OwnersFound ==
  \A p \in AlignedPtrs :
    HeaderOf(h, p) + Hdr <= p /\ p < After(h, HeaderOf(h, p))

\* What a walk over the available list adds up.
FreeWords ==
  LET sum[i \in 0 .. Len(Available)] ==
        IF i = 0 THEN 0 ELSE sum[i - 1] + h.size[Available[i]]
  IN  sum[Len(Available)]

\* After any of the sequences of allocations the program makes: both lists are
\* ordered and linked in both directions, their blocks lie side by side and fill
\* the memory, neighbours that are free are merged, the blocks assigned are those
\* in use, pmalloc_freealign finds them, and both counters are exact.
HeapSound ==
  /\ ~h.wild
  /\ Ascending(Available) /\ Ascending(Assigned)
  /\ PrevIsPrevious
  /\ \A i \in 1 .. Len(Assigned) :
       h.prev[Assigned[i]] = IF i = 1 THEN Null ELSE Assigned[i - 1]
  /\ SetOf(Available) \cap SetOf(Assigned) = {}
  /\ 0 \in Blocks
  /\ \A b \in Blocks : After(h, b) = Words \/ After(h, b) \in Blocks
  /\ \A b \in SetOf(Available) : After(h, b) \notin SetOf(Available)
  /\ SetOf(Assigned) = HeldBlocks /\ OwnersFound
  /\ h.freemem = FreeWords
  /\ h.totalnodes = Cardinality(Blocks)

\* An allocation of gm_check_files never fails, and the i-th entry of every
\* listing has the same address: the new directory's entries replace the old
\* one's, whose requests the ARAM queue may still hold, one for one.
EntryInPlace ==
  /\ pc # "crashed"
  /\ \A i \in 1 .. Len(entries) :
       entries[i] = AlignedPtr((i - 1) * (Hdr + EntryWords + Align), Align)
=============================================================================
