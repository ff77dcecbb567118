------------------------------ MODULE MCFatFile ------------------------------
(* Three cards: a FAT32 volume with a fragmented file, a directory of two    *)
(* clusters and a file of the same name in /cubiboot; an exFAT volume with a *)
(* contiguous file and a directory that fills its cluster; and a volume      *)
(* whose file has lost the end of its chain.                                 *)
EXTENDS FatFile, TLC

Entry(kind, name, id, size) == [kind |-> kind, name |-> name, id |-> id, size |-> size, stat |-> 0]
Mark(kind) == Entry(kind, "", "", 0)

MCNames == {"", "/", "a", "c", "ca", "cubiboot", "e"}

Fat32 ==
  [chain |-> ("/" :> <<2, 5>> @@ "a" :> <<3, 4, 7>> @@ "c" :> <<6>> @@ "ca" :> <<8>> @@ "e" :> <<>>),
   table |-> ("/" :> <<Mark("deleted"), Entry("dir", "cubiboot", "c", 0), Mark("lfn"),
                       Entry("file", "e", "e", 0), Entry("file", "a", "a", 11), Mark("deleted")>>
              @@ "c" :> <<Mark("dot"), Entry("file", "a", "ca", 3)>>)]

ExFat ==
  [chain |-> ("/" :> <<2>> @@ "a" :> <<3, 4, 5>>),
   table |-> ("/" :> <<Mark("label"), [Entry("file", "a", "a", 11) EXCEPT !.stat = 2],
                       Mark("deleted"), Mark("deleted")>>)]

Cut ==
  [chain |-> ("/" :> <<8>> @@ "a" :> <<4, 3>>),
   table |-> ("/" :> <<Entry("file", "a", "a", 11)>>)]

MCVolumes == {Fat32, ExFat, Cut}

Open(kind, paths) == [op |-> "open", kind |-> kind, paths |-> paths]

MCCalls ==
  { Open("file", <<<<"a">>>>),
    Open("file", <<<<"cubiboot", "a">>, <<"a">>>>),
    Open("file", <<<<"a", "a">>, <<"e">>>>),
    Open("file", <<<<>>>>),
    Open("dir", <<<<>>>>), Open("dir", <<<<"cubiboot">>>>),
    [op |-> "readdir"] }
  \cup {[op |-> "read", off |-> r[1], len |-> r[2]] :
          r \in {<<0, 1>>, <<0, 12>>, <<1, 3>>, <<3, 6>>, <<4, 4>>, <<5, 1>>, <<8, 2>>, <<11, 1>>, <<12, 0>>}}
==============================================================================
