----------------------------- MODULE BlockDevice -----------------------------
(***************************************************************************)
(* What FatFs expects of the disk layer (disk_read / disk_write of         *)
(* diskio.c): an uncached block device.  A request names a drive, a first  *)
(* sector and a count.  While it is busy, sectors of its range are         *)
(* transferred; it ends "ok" only when every one of them was, or "error".  *)
(* A write that failed leaves the sectors it was about indeterminate       *)
(* ("torn") until they are written again or the medium is replaced.        *)
(* DvmCache is shown to implement this specification.                      *)
(***************************************************************************)
EXTENDS Integers

CONSTANTS Drives,     \* FatFs physical drive numbers (pdrv)
          Sectors,    \* sectors on every medium
          MaxCount,   \* largest sector count of one request
          Values,     \* contents of one sector
          Contents,   \* images a medium or a write buffer may hold
          Ops,        \* the operations the callers issue
          Unset,      \* a buffer position nothing was delivered to
          NoRequest   \* no request is being served

VARIABLES disk,    \* disk[d][s]: what the medium in drive d holds in sector s
          torn,    \* <<d, s>>: sectors of failed writes, contents indeterminate
          req,     \* the request being served, or NoRequest
          status,  \* "none", "busy", or how the last request ended: "ok", "error"
          buf      \* sectors delivered to the caller's buffer so far

bdvars == <<disk, torn, req, status, buf>>

LBA == 0 .. (Sectors + MaxCount)

\* A read has no data to write; only for a read does it matter whether the
\* caller's buffer is aligned.
Request ==
  {r \in [op : Ops \cap {"read", "write"}, pdrv : Drives, first : 0 .. Sectors, count : 0 .. MaxCount,
          aligned : BOOLEAN, img : Contents] :
     /\ r.op = "read" => r.img = CHOOSE c \in Contents : TRUE
     /\ r.op = "write" => r.aligned}

\* The sectors request r is about.
Span(r) == r.first .. (r.first + r.count - 1)

OnMedium(r) == {s \in Span(r) : s < Sectors}

NoData == [s \in LBA |-> Unset]

Init ==
  /\ disk \in [Drives -> Contents]
  /\ torn = {}
  /\ req = NoRequest
  /\ status = "none"
  /\ buf = NoData

Accept(r) ==
  /\ status # "busy"
  /\ req' = r
  /\ status' = "busy"
  /\ buf' = NoData
  /\ UNCHANGED <<disk, torn>>

\* Some sectors of the range reach the buffer; a torn one delivers anything.
Deliver ==
  /\ status = "busy" /\ req.op = "read"
  /\ \A s \in LBA :
       \/ buf'[s] = buf[s]
       \/ /\ s \in Span(req)
          /\ s < Sectors
          /\ buf'[s] \in Values
          /\ <<req.pdrv, s>> \notin torn => buf'[s] = disk[req.pdrv][s]
  /\ buf' \in [LBA -> Values \cup {Unset}]
  /\ UNCHANGED <<disk, torn, req, status>>

\* The medium of the request's drive takes the image's value in the sectors of S.
Written(S) ==
  [disk EXCEPT ![req.pdrv] = [s \in 0 .. (Sectors - 1) |->
                                IF s \in S THEN req.img[s] ELSE @[s]]]

\* Some sectors of the range reach the medium.
Store ==
  /\ status = "busy" /\ req.op = "write"
  /\ \E S \in SUBSET OnMedium(req) :
       /\ disk' = Written(S)
       /\ torn' = torn \ ({req.pdrv} \X S)
  /\ UNCHANGED <<req, status, buf>>

\* Every sector was transferred.
Succeed ==
  /\ status = "busy"
  /\ \A s \in Span(req) :
       /\ s < Sectors
       /\ IF req.op = "read" THEN buf[s] # Unset ELSE disk[req.pdrv][s] = req.img[s]
  /\ status' = "ok"
  /\ req' = NoRequest /\ buf' = NoData
  /\ UNCHANGED <<disk, torn>>

\* The request is abandoned.  Sectors of a write may have changed, and those of
\* U are indeterminate from now on.
Fail ==
  /\ status = "busy"
  /\ status' = "error"
  /\ req' = NoRequest /\ buf' = NoData
  /\ \/ req.op = "read" /\ UNCHANGED <<disk, torn>>
     \/ /\ req.op = "write"
        /\ \E S \in SUBSET OnMedium(req) : \E U \in SUBSET OnMedium(req) :
             /\ disk' = Written(S)
             /\ torn' = torn \cup ({req.pdrv} \X U)

\* disk_initialize: the drive may hold another medium from here on.
NewMedium(d, c) ==
  /\ status # "busy" /\ "initialize" \in Ops
  /\ disk' = [disk EXCEPT ![d] = c]
  /\ torn' = {x \in torn : x[1] # d}
  /\ status' = "none"
  /\ UNCHANGED <<req, buf>>

Next ==
  \/ req' \in Request /\ Accept(req')
  \/ Deliver \/ Store \/ Succeed \/ Fail
  \/ \E d \in Drives, c \in Contents : NewMedium(d, c)

Spec == Init /\ [][Next]_bdvars
=============================================================================
