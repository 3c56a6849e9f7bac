-------------------------------- MODULE Ota --------------------------------
(***************************************************************************)
(* Updates over the air.  A request stores its parameters in static        *)
(* variables and creates a task, which asks a server over HTTP or HTTPS,   *)
(* finds the end of the header, takes the head the OTA tool put before the *)
(* program, writes the program to the second partition as it arrives,      *)
(* compares the digest and changes the partition table.  Any number of     *)
(* bytes may come with a read, the connection may end anywhere and the     *)
(* supply may fail at any time.                                            *)
(*                                                                         *)
(* A byte of the answer is named by its place in the stream; the digest is *)
(* that of the bytes it was computed from and of no others.                *)
(***************************************************************************)
EXTENDS OtaHttp

CONSTANTS
  Tasks,         \* the update tasks that may exist at one time
  Images,        \* the programs a server may offer
  Good,          \* the ones whose head carries the digest of what follows
  Stock,         \* the program at the fixed address of axk_hal_ota_update
  None,          \* no address: the buffers are cleared
  ImageLen,      \* the length of each program
  PackHead,      \* what parse_ai_pack_head takes off: 5 + 4 + 32 + 128 bytes
  AiPackHeadLen, \* AI_PACK_HEAD_LEN, 153 bytes
  BufSize,       \* BUF_SIZE, 1024 bytes
  Sector,        \* the flash is erased in sectors of 4096 bytes
  PartSize,      \* part_size, the length of the second partition
  MaxStarts,     \* bound: requests that create a task
  MaxRestarts,   \* bound: failures of the supply
  OneAtATime,    \* a request comes only when no update task exists
  FlashFails     \* bl_mtd_write may leave the flash as it is

ASSUME OtaAssumption ==
  /\ Good \subseteq Images /\ Stock \in Images /\ None \notin Images
  /\ "old" \notin Images /\ "none" \notin Images
  /\ ImageLen \in [Images -> Nat \ {0}] /\ PackHead \in Nat \ {0}
  /\ AiPackHeadLen \in Nat /\ BufSize \in Nat /\ BufSize > HeaderBak
  /\ Sector \in Nat \ {0} /\ PartSize \in Nat
  /\ MaxStarts \in Nat /\ MaxRestarts \in Nat
  /\ OneAtATime \in BOOLEAN /\ FlashFails \in BOOLEAN

VARIABLES
  param,    \* ota_type and ota_param: the kind of request and whose address
  url,      \* ota_host and ota_resource, the address of the last user request
  ready,    \* ota_init_state
  fwSize,   \* fw_size
  part,     \* the second partition, cell by cell
  table,    \* the partition table: the active one and the length of its program
  pc,       \* where each task is, or how it ended
  job,      \* the task's copy of param
  img,      \* the program its server sends
  hdr,      \* the header its server sends
  lo, hi,   \* the window of the stream in recv_buf; hi bytes have been read
  status,   \* parse_status
  body,     \* body_len
  from,     \* where the task takes the body to begin
  top,      \* writeTopos
  starts, restarts,
  wanted    \* history: the program the last accepted request asked for

static    == <<param, url>>
hal       == <<ready, fwSize>>
flash     == <<part, table>>
answer    == <<img, hdr>>
parse     == <<lo, status, body, from>>
counts    == <<starts, restarts, wanted>>
vars == <<static, hal, flash, pc, job, answer, hi, parse, top, counts>>

-----------------------------------------------------------------------------
Kinds == {"http", "https"}
Params == [kind : Kinds, of : {"stock", "user"}]
Cells == 0 .. PartSize - 1
Erased == <<"erased", 0>>
Spoilt == <<"spoilt", 0>>

Ended == {"none", "cut", "refused", "empty", "short", "too big", "mismatch"}
AtWork == {"delay", "connect", "status", "first", "head", "erased", "loop",
           "digest", "boot", "reboot"}

TypeOK ==
  /\ param \in Params /\ url \in Images \cup {None}
  /\ ready \in BOOLEAN /\ fwSize \in Nat
  /\ part \in [Cells -> (Images \X Int) \cup {Erased, Spoilt}]
  /\ table \in [active : {"old", "new"}, len : Nat]
  /\ pc \in [Tasks -> Ended \cup AtWork \cup {"fault"}]
  /\ job \in [Tasks -> Params]
  /\ img \in [Tasks -> Images] /\ hdr \in [Tasks -> Headers]
  /\ lo \in [Tasks -> Int] /\ hi \in [Tasks -> Nat]
  /\ status \in [Tasks -> {0, 1, 3, 4}]
  /\ body \in [Tasks -> Nat] /\ from \in [Tasks -> Int]
  /\ top \in [Tasks -> Nat]
  /\ starts \in 0 .. MaxStarts /\ restarts \in 0 .. MaxRestarts
  /\ wanted \in Images \cup {"none"}

\* What the locals of a task hold before it runs is of no consequence.
AnyHeader == CHOOSE h \in Headers : TRUE
NoParam == [kind |-> "http", of |-> "stock"]

Init ==
  /\ param = NoParam /\ url = None
  /\ ready = FALSE /\ fwSize = 0
  /\ part = [c \in Cells |-> Spoilt]
  /\ table = [active |-> "old", len |-> 0]
  /\ pc = [t \in Tasks |-> "none"]
  /\ job = [t \in Tasks |-> NoParam]
  /\ img = [t \in Tasks |-> Stock] /\ hdr = [t \in Tasks |-> AnyHeader]
  /\ lo = [t \in Tasks |-> 1] /\ hi = [t \in Tasks |-> 0]
  /\ status = [t \in Tasks |-> 0] /\ body = [t \in Tasks |-> 0]
  /\ from = [t \in Tasks |-> 1] /\ top = [t \in Tasks |-> 0]
  /\ starts = 0 /\ restarts = 0 /\ wanted = "none"

\* A copy of a negative length has run through RAM: the processor has stopped.
Halted == \E t \in Tasks : pc[t] = "fault"

At(t, place) == pc[t] = place /\ ~Halted
Goto(t, place) == pc' = [pc EXCEPT ![t] = place]

-----------------------------------------------------------------------------
(***************************************************************************)
(* Requests, from whatever task calls them.  Nothing in the code looks for *)
(* a task that exists already.  A request whose task cannot be created     *)
(* leaves its parameters, for the next request to overwrite.               *)
(***************************************************************************)
Accept(t, image) ==
  /\ ~Halted /\ pc[t] \in Ended /\ table.active = "old"
  /\ starts < MaxStarts
  /\ OneAtATime => \A u \in Tasks : pc[u] \in Ended
  /\ starts' = starts + 1
  /\ wanted' = image
  /\ Goto(t, "delay")
  /\ UNCHANGED <<hal, flash, job, answer, hi, parse, top, restarts>>

axk_hal_ota_update(t) ==
  /\ Accept(t, Stock)
  /\ param' = [kind |-> "https", of |-> "stock"]
  /\ UNCHANGED url

axk_hal_user_ota_update(t) ==
  \E image \in Images, kind \in Kinds :
    /\ Accept(t, image)
    /\ param' = [kind |-> kind, of |-> "user"]
    /\ url' = image

\* A scheme it does not know: the address of the request before is gone.
UserRefused ==
  /\ ~Halted /\ url # None
  /\ OneAtATime => \A u \in Tasks : pc[u] \in Ended
  /\ url' = None
  /\ UNCHANGED <<param, hal, flash, pc, job, answer, hi, parse, top, counts>>

\* _ota_task behind its delay of 500 ms.
_ota_task(t) ==
  /\ At(t, "delay")
  /\ job' = [job EXCEPT ![t] = param]
  /\ Goto(t, "connect")
  /\ UNCHANGED <<static, hal, flash, answer, hi, parse, top, counts>>

-----------------------------------------------------------------------------
\* The address is read through pointers, when the request is put together.
Asked(t) == IF job[t].of = "stock" THEN Stock ELSE url

connect_server(t) ==
  /\ At(t, "connect")
  /\ Asked(t) # None
  /\ img' = [img EXCEPT ![t] = Asked(t)]
  /\ \E h \in Headers : hdr' = [hdr EXCEPT ![t] = h]
  /\ lo' = [lo EXCEPT ![t] = 1] /\ hi' = [hi EXCEPT ![t] = 0]
  /\ status' = [status EXCEPT ![t] = 0] /\ body' = [body EXCEPT ![t] = 0]
  /\ Goto(t, "status")
  /\ UNCHANGED <<static, hal, flash, job, from, top, counts>>

\* No memory, no name server, no connection, no handshake.
ConnectFails(t) ==
  /\ At(t, "connect")
  /\ Goto(t, "cut")
  /\ UNCHANGED <<static, hal, flash, job, answer, hi, parse, top, counts>>

\* The last byte the server sends.
End(t) == IF hdr[t].empty THEN hdr[t].end ELSE hdr[t].end + PackHead + ImageLen[img[t]]
ContentLength(t) == End(t) - hdr[t].end

\* A read of at most room bytes has brought some.
Reads(t, room) ==
  \E k \in 1 .. room :
    /\ hi[t] + k <= End(t)
    /\ hi' = [hi EXCEPT ![t] = @ + k]

HeaderRoom(t) == IF status[t] = 0 THEN BufSize ELSE BufSize - HeaderBak

(***************************************************************************)
(* idx, the bytes in the buffer as the caller counts them: those read, and *)
(* behind the first read those of header_bak.  The variant forgets them.   *)
(***************************************************************************)
IdxOfRead(t) == hi'[t] - hi[t]
Idx(t) == IdxOfRead(t) + (IF status[t] = 0 THEN 0 ELSE HeaderBak)

\* The blank line has been found; the body is what lies behind header_len.
HeaderDone(t) ==
  LET header_len == hdr[t].end - lo[t] + 1
      writelen == Idx(t) - header_len IN
  /\ from' = [from EXCEPT ![t] = hi'[t] - writelen + 1]
  /\ Goto(t, IF body'[t] = 0 THEN "empty"
             ELSE IF writelen = 0 THEN "first" ELSE "head")
  /\ UNCHANGED lo

\* One turn of the loop over the header, ai_parse_http_response returning r.
Parsed(t, r) ==
  \/ /\ r = -1
     /\ Goto(t, "refused")
     /\ UNCHANGED parse
  \/ /\ r \in {1, 3}
     /\ status' = [status EXCEPT ![t] = r]
     /\ body' = IF r = 3 THEN [body EXCEPT ![t] = ContentLength(t)] ELSE body
     /\ lo' = [lo EXCEPT ![t] = BakStart(hi'[t])]
     /\ UNCHANGED <<pc, from>>
  \/ /\ r = 4
     /\ status' = [status EXCEPT ![t] = r]
     /\ body' = [body EXCEPT ![t] = ContentLength(t)]
     /\ HeaderDone(t)

ReadHeader(t) ==
  /\ At(t, "status")
  /\ Reads(t, HeaderRoom(t))
  /\ Parsed(t, ai_parse_http_response(hdr[t], status[t], lo[t], hi'[t]))
  /\ UNCHANGED <<static, hal, flash, job, answer, top, counts>>

\* The same, with a blank line in what was before the buffer.
ReadFalseEnd(t) ==
  /\ At(t, "status")
  /\ MayEndFalsely(status[t], lo[t])
  /\ Reads(t, HeaderRoom(t))
  /\ Goto(t, "refused")
  /\ UNCHANGED <<static, hal, flash, job, answer, parse, top, counts>>

\* The connection ends, or fails, before the body.
HeaderCut(t) ==
  /\ At(t, "status")
  /\ Goto(t, "cut")
  /\ UNCHANGED <<static, hal, flash, job, answer, hi, parse, top, counts>>

-----------------------------------------------------------------------------
\* The header came alone; the body begins with another read.
FirstBody(t) ==
  /\ At(t, "first")
  /\ Reads(t, BufSize)
  /\ Goto(t, "head")
  /\ UNCHANGED <<static, hal, flash, job, answer, parse, top, counts>>

\* HTTPS takes an orderly end for a read of nothing.
FirstBodyEnds(t) ==
  /\ At(t, "first")
  /\ \/ Goto(t, "cut")
     \/ job[t].kind = "https" /\ Goto(t, "head")
  /\ UNCHANGED <<static, hal, flash, job, answer, hi, parse, top, counts>>

\* The bytes of the program in the first piece of the body.
FirstLen(t) == hi[t] - from[t] + 1 - PackHead

(***************************************************************************)
(* The head is taken off whatever has arrived.  HTTPS gives up when it has *)
(* not arrived as a whole; HTTP copies a negative number of bytes.  The    *)
(* variant goes on to the first write.                                     *)
(***************************************************************************)
ShortGoesOn(t) == "erased"
TooShort(t) == IF job[t].kind = "https" THEN "short" ELSE "fault"

HeadCutShort(t) ==
  /\ At(t, "head") /\ FirstLen(t) < 0
  /\ Goto(t, TooShort(t))
  /\ UNCHANGED <<static, hal, flash, job, answer, hi, parse, top, counts>>

EraseLen(t) == (body[t] \div Sector + 1) * Sector

\* init_ota_partition fails, or the partition is too small.
EraseRefused(t) ==
  /\ At(t, "head") /\ FirstLen(t) >= 0
  /\ \/ ~ready /\ UNCHANGED ready
     \/ ready' = TRUE /\ EraseLen(t) > PartSize
  /\ Goto(t, "too big")
  /\ UNCHANGED <<static, fwSize, flash, job, answer, hi, parse, top, counts>>

Cleared(n) == [c \in Cells |-> IF c < n THEN Erased ELSE part[c]]

partition_erase(t) ==
  /\ At(t, "head") /\ FirstLen(t) >= 0
  /\ ready' = TRUE
  /\ EraseLen(t) <= PartSize
  /\ part' = Cleared(EraseLen(t))
  /\ Goto(t, "erased")
  /\ UNCHANGED <<static, fwSize, table, job, answer, hi, parse, top, counts>>

-----------------------------------------------------------------------------
\* The byte at the place p of the stream, as the program counts it.
ByteAt(t, p) == <<img[t], p - hdr[t].end - PackHead>>

\* Flash that is not erased keeps neither the old nor the new value.
Programmed(old, new) == IF old \in {Erased, new} THEN new ELSE Spoilt

\* The cells with n bytes of the stream from place p on written at offset.
Written(t, offset, n, p) ==
  [c \in Cells |-> IF offset <= c /\ c < offset + n
                   THEN Programmed(part[c], ByteAt(t, p + c - offset))
                   ELSE part[c]]

\* It returns 0 whatever bl_mtd_write has returned.
partition_write_ota_farmware(t, offset, n, p) ==
  /\ \/ part' = Written(t, offset, n, p)
     \/ FlashFails /\ UNCHANGED part
  /\ fwSize' = offset + n

FirstWrite(t) ==
  /\ At(t, "erased")
  /\ partition_write_ota_farmware(t, 0, FirstLen(t), from[t] + PackHead)
  /\ top' = [top EXCEPT ![t] = FirstLen(t)]
  /\ Goto(t, "loop")
  /\ UNCHANGED <<static, ready, table, job, answer, hi, parse, counts>>

(***************************************************************************)
(* The condition of the loop; body_len is unsigned.  The head is longer    *)
(* than AI_PACK_HEAD_LEN, so it holds also when everything has arrived.    *)
(***************************************************************************)
More(t, n) == body[t] < AiPackHeadLen \/ n < body[t] - AiPackHeadLen

LoopRoom(t) == IF job[t].kind = "https" THEN BufSize - 1 ELSE BufSize

ReadBody(t) ==
  /\ At(t, "loop")
  /\ Reads(t, LoopRoom(t))
  /\ LET n == hi'[t] - hi[t] IN
     /\ partition_write_ota_farmware(t, top[t], n, hi[t] + 1)
     /\ top' = [top EXCEPT ![t] = @ + n]
  /\ Goto(t, IF More(t, top'[t]) THEN "loop" ELSE "digest")
  /\ UNCHANGED <<static, ready, table, job, answer, parse, counts>>

\* The server ends the connection in order; the variant reads on.
EndIgnored(t) == At(t, "loop") /\ UNCHANGED vars

BodyEnds(t) ==
  /\ At(t, "loop")
  /\ Goto(t, "digest")
  /\ UNCHANGED <<static, hal, flash, job, answer, hi, parse, top, counts>>

\* Any other end: HTTPS compares the digest all the same.
AfterFailure(t) == IF job[t].kind = "https" THEN "digest" ELSE "cut"

BodyFails(t) ==
  /\ At(t, "loop")
  /\ Goto(t, AfterFailure(t))
  /\ UNCHANGED <<static, hal, flash, job, answer, hi, parse, top, counts>>

-----------------------------------------------------------------------------
\* The bytes hashed are those the digest in the head was made of.  The variant
\* does not miss the end.
VerifiedInPart(t) == img[t] \in Good /\ from[t] = hdr[t].end + 1
Verified(t) == img[t] \in Good /\ from[t] = hdr[t].end + 1 /\ hi[t] = End(t)

\* The variant takes the result of strncmp for its opposite.
CompareInverted(t) ==
  /\ At(t, "digest")
  /\ Goto(t, IF Verified(t) THEN "mismatch" ELSE "boot")
  /\ UNCHANGED <<static, hal, flash, job, answer, hi, parse, top, counts>>

Compare(t) ==
  /\ At(t, "digest")
  /\ Goto(t, IF Verified(t) THEN "boot" ELSE "mismatch")
  /\ UNCHANGED <<static, hal, flash, job, answer, hi, parse, top, counts>>

set_boot_partition(t) ==
  /\ At(t, "boot")
  /\ table' = [active |-> "new", len |-> fwSize]
  /\ Goto(t, "reboot")
  /\ UNCHANGED <<static, hal, part, job, answer, hi, parse, top, counts>>

\* A start of the module: what was in RAM is gone.
Restart ==
  /\ param' = NoParam /\ url' = None
  /\ ready' = FALSE /\ fwSize' = 0
  /\ pc' = [t \in Tasks |-> "none"]
  /\ job' = [t \in Tasks |-> NoParam]
  /\ img' = [t \in Tasks |-> Stock] /\ hdr' = [t \in Tasks |-> AnyHeader]
  /\ lo' = [t \in Tasks |-> 1] /\ hi' = [t \in Tasks |-> 0]
  /\ status' = [t \in Tasks |-> 0] /\ body' = [t \in Tasks |-> 0]
  /\ from' = [t \in Tasks |-> 1] /\ top' = [t \in Tasks |-> 0]
  /\ UNCHANGED <<flash, starts, wanted>>

set_reboot(t) ==
  /\ At(t, "reboot")
  /\ Restart
  /\ UNCHANGED restarts

PowerFails ==
  /\ restarts < MaxRestarts
  /\ restarts' = restarts + 1
  /\ Restart

-----------------------------------------------------------------------------
Request(t) == axk_hal_ota_update(t) \/ axk_hal_user_ota_update(t)

\* What a server that keeps to HTTP decides.
Answers(t) ==
  \/ connect_server(t) \/ ConnectFails(t)
  \/ ReadHeader(t) \/ FirstBody(t) \/ ReadBody(t) \/ BodyEnds(t)

\* What may happen and need not.
Mishap(t) ==
  \/ ReadFalseEnd(t) \/ HeaderCut(t) \/ FirstBodyEnds(t) \/ BodyFails(t)

Work(t) ==
  \/ _ota_task(t) \/ HeadCutShort(t)
  \/ EraseRefused(t) \/ partition_erase(t) \/ FirstWrite(t)
  \/ Compare(t) \/ set_boot_partition(t) \/ set_reboot(t)

Next ==
  \/ \E t \in Tasks : Request(t) \/ Answers(t) \/ Mishap(t) \/ Work(t)
  \/ UserRefused \/ PowerFails

Spec == Init /\ [][Next]_vars

(***************************************************************************)
(* Fairness: a task that can go on does, and a read comes back at last,    *)
(* with bytes or with the end of the connection.  A server that keeps an   *)
(* idle connection open for ever is left out.                              *)
(***************************************************************************)
Fairness == \A t \in Tasks : WF_vars(Answers(t)) /\ WF_vars(Work(t))

FairSpec == Spec /\ Fairness

-----------------------------------------------------------------------------
Whole(image) ==
  /\ table.len = ImageLen[image]
  /\ \A c \in 0 .. ImageLen[image] - 1 : c \in Cells /\ part[c] = <<image, c + 1>>

\* The program the next start runs.
NextBoot ==
  IF table.active = "old" THEN "old"
  ELSE IF \E v \in Images : Whole(v) THEN CHOOSE v \in Images : Whole(v)
  ELSE "broken"

(***************************************************************************)
(* The module can always start: the partition table names the old program  *)
(* or the whole of the one asked for last, for every way the reads cut the *)
(* answer, every end of the connection, every failure of the supply, and   *)
(* after updates that failed half way.                                     *)
(***************************************************************************)
Boot == INSTANCE OtaBoot WITH boots <- NextBoot
BootSpec == Boot!Spec

(***************************************************************************)
(* Wherever the reads cut the header, the body is taken to begin behind    *)
(* its blank line and to have the length the header names.                 *)
(***************************************************************************)
BodyFound ==
  \A t \in Tasks :
    pc[t] \in {"first", "head", "erased", "loop", "digest"} =>
      from[t] = hdr[t].end + 1 /\ body[t] = ContentLength(t)

(***************************************************************************)
(* An answer with status 200 and a Content-Length is not refused for the   *)
(* places where the reads cut it, unless the first read ends before the    *)
(* status code or bytes from before the buffer were parsed.                *)
(***************************************************************************)
LengthSeen ==
  \A t \in Tasks :
    pc[t] = "refused" =>
      \/ ~hdr[t].ok \/ hdr[t].length = 0
      \/ hi[t] < hdr[t].code \/ lo[t] <= 0

(***************************************************************************)
(* A program received as a whole is started: although the loop asks for    *)
(* more than there is, the end of the connection leads to the comparison   *)
(* and on to the partition table, unless HTTP sees that end as an error or *)
(* the supply fails.                                                       *)
(***************************************************************************)
Received(t) == pc[t] = "loop" /\ Verified(t)

WholeIsStarted ==
  \A t \in Tasks :
    Received(t) ~> table.active = "new" \/ pc[t] \in {"cut", "none"}

(***************************************************************************)
(* An update ends, one way or another.                                     *)
(***************************************************************************)
UpdateEnds == \A t \in Tasks : pc[t] = "delay" ~> pc[t] \in Ended \cup {"fault"}
=============================================================================
