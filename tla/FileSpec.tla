------------------------------- MODULE FileSpec -------------------------------
(***************************************************************************)
(* What the file API promises its callers: one object is open at a time, a *)
(* read returns the bytes asked for up to the end of the file, a listing   *)
(* names every entry once and in order, and a call fails only when the     *)
(* disk failed, when the object is not there or when its chain is too      *)
(* short.  A file that failed once fails until it is opened again.         *)
(***************************************************************************)
EXTENDS FatVolume

CONSTANTS Calls, NoCall, NoValue

VARIABLES
  vol,    \* the volume
  call,   \* the call under way
  ret,    \* what the last call returned: [ok, val]
  open,   \* the open object's directory entry, or NoEntry
  pos,    \* position of the entry of the open directory that was returned last
  failed, \* the open object failed
  hurt    \* the disk failed during this call

vars == <<vol, call, ret, open, pos, failed, hurt>>

Returns(ok, val) == ret' = [ok |-> ok, val |-> val]

Init ==
  /\ vol \in Volumes
  /\ call = NoCall /\ ret = [ok |-> TRUE, val |-> NoValue]
  /\ open = NoEntry /\ pos = 0 /\ failed = FALSE /\ hurt = FALSE

\* An open closes what was open at once; a listing that failed is not resumed.
Invoke(c) ==
  /\ call = NoCall
  /\ c.op = "readdir" => ~(failed /\ open.kind = "dir")
  /\ call' = c /\ hurt' = FALSE
  /\ IF c.op = "open" THEN open' = NoEntry /\ pos' = 0 /\ failed' = FALSE
                      ELSE UNCHANGED <<open, pos, failed>>
  /\ UNCHANGED <<vol, ret>>

DiskFails ==
  /\ call # NoCall
  /\ hurt' = TRUE
  /\ UNCHANGED <<vol, call, ret, open, pos, failed>>

\* A call ends; the disk may fail at the last.
Ends(op) ==
  /\ call # NoCall /\ call.op = op
  /\ call' = NoCall
  /\ hurt' \in {hurt, TRUE}

\* The paths are tried in order; a fault may hide an object that is there.
FitsAt(c, k) == Lookup(vol, c.paths[k]).kind = c.kind
Found(c) ==
  IF hurt' THEN {k \in DOMAIN c.paths : FitsAt(c, k)} \cup {0}
  ELSE {Min({k \in DOMAIN c.paths : FitsAt(c, k)} \cup {Len(c.paths) + 1})}

ReturnOpen ==
  /\ Ends("open")
  /\ \E k \in Found(call) :
       IF k \in DOMAIN call.paths
       THEN open' = Lookup(vol, call.paths[k]) /\ Returns(TRUE, NoValue)
       ELSE Returns(FALSE, NoValue) /\ UNCHANGED open
  /\ UNCHANGED <<vol, pos, failed>>

\* The bytes a read asks for: cut at the end of the file.
Asked(c) == {b \in c.off + 1 .. c.off + c.len : b <= open.size}
Held(c) == \A b \in Asked(c) : b <= Len(Content(vol, open))

ReturnRead ==
  /\ Ends("read")
  /\ \/ /\ open.kind = "file" /\ ~failed /\ Held(call)
        /\ Returns(TRUE, SubSeq(Content(vol, open), call.off + 1,
                                Min({call.off + call.len, open.size})))
        /\ UNCHANGED failed
     \/ /\ open.kind # "file" \/ failed \/ hurt' \/ ~Held(call)
                              \/ Min({call.off, open.size}) > Len(Content(vol, open))
        /\ Returns(FALSE, NoValue)
        /\ failed' = (failed \/ open.kind = "file")
  /\ UNCHANGED <<vol, open, pos>>

ReturnReaddir ==
  /\ Ends("readdir")
  /\ \/ /\ open.kind = "dir"
        /\ LET left == {p \in Live(vol, open.id) : p > pos}
           IN  IF left # {}
               THEN Returns(TRUE, vol.table[open.id][Min(left)]) /\ pos' = Min(left)
               ELSE Returns(TRUE, EndEntry) /\ UNCHANGED pos
        /\ UNCHANGED failed
     \/ /\ open.kind # "dir" \/ hurt'
        /\ Returns(FALSE, NoValue)
        /\ failed' = TRUE
        /\ UNCHANGED pos
  /\ UNCHANGED <<vol, open>>

Next ==
  \/ \E c \in Calls : Invoke(c)
  \/ DiskFails
  \/ ReturnOpen
  \/ ReturnRead
  \/ ReturnReaddir

Spec == Init /\ [][Next]_vars
===============================================================================
