---------------------------- MODULE MCGameThread ----------------------------
(* A card with nested directories, games, a broken file, an unreadable one.   *)
EXTENDS GameThread

MCListing ==
  [d \in Dirs |->
     CASE d = "/"    -> <<"/a", "/bad", "g1", "junk">>
       [] d = "/a"   -> <<"/a/b", "g2">>
       [] d = "/a/b" -> <<"g3", "g4">>
       [] OTHER      -> <<>>]
=============================================================================
