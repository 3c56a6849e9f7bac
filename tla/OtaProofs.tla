----------------------------- MODULE OtaProofs -----------------------------
(***************************************************************************)
(* Proofs about Ota, for every header, every length of the reads and any   *)
(* number of tasks.                                                        *)
(*                                                                         *)
(* A task's view of the header is a matter of its own variables, LocalInv: *)
(* the window is what the caller's count of bytes says it is, and a line   *)
(* that has not been seen as a whole still lies in it.  That the module    *)
(* can always start takes Alone, one task at a time, and the contents of   *)
(* the flash, BootInv.                                                     *)
(***************************************************************************)
EXTENDS Ota, TLAPS

\* The carriage return of the Content-Length line.
IsStop(h, q) ==
  /\ q \in h.crs /\ q > h.length /\ q - h.length < HeaderBak - 2
  /\ \A r \in h.crs : r < q => r <= h.length - 2
Stop(h) == CHOOSE q \in Nat : IsStop(h, q)

\* While the header is read: which window the buffer holds, and what it has seen.
Window(t) ==
  pc[t] = "status" =>
    /\ status[t] = 0 => lo[t] = 1 /\ hi[t] = 0
    /\ status[t] # 0 => lo[t] = BakStart(hi[t])
    /\ status[t] = 1 /\ hdr[t].length # 0 => hi[t] <= Stop(hdr[t])
    /\ status[t] = 3 => body[t] = ContentLength(t)
    /\ status[t] # 4

\* The body has been found.
InBody == {"first", "head", "erased", "loop", "digest", "boot", "reboot"}
Found(t) ==
  pc[t] \in InBody => from[t] = hdr[t].end + 1 /\ body[t] = ContentLength(t)

\* No byte is taken that the server does not send, and none again.
InStream(t) ==
  /\ pc[t] \in {"status"} \cup InBody => hi[t] <= End(t)
  /\ pc[t] \in InBody => hi[t] >= hdr[t].end
  /\ pc[t] = "erased" => FirstLen(t) >= 0
  /\ pc[t] \in {"loop", "digest", "boot", "reboot"} => top[t] = FirstLen(t)

\* A header that was refused deserved it.
Refused(t) ==
  pc[t] = "refused" =>
    \/ ~hdr[t].ok \/ hdr[t].length = 0
    \/ hi[t] < hdr[t].code \/ lo[t] <= 0

Local(t) == Window(t) /\ Found(t) /\ InStream(t) /\ Refused(t)
LocalInv == \A t \in Tasks : Local(t)

-----------------------------------------------------------------------------
LEMMA HeaderFacts ==
  ASSUME NEW h \in Headers
  PROVE  /\ h \in Header /\ h.end - 3 \in h.crs /\ h.code > 0 /\ h.end > 3
         /\ \A q \in h.crs : q \in Nat /\ h.code < q /\ q <= h.end - 3
         /\ h.length # 0 => /\ h.length - 2 \in h.crs
                            /\ Stop(h) \in Nat /\ IsStop(h, Stop(h))
                            /\ Stop(h) + 1 > HeaderBak
<1>1. h \in Header /\ h.end - 3 \in h.crs /\ h.code > 0
  BY HttpAssumption
<1>2. \A q \in h.crs : q \in Nat /\ h.code < q /\ q <= h.end - 3
  BY <1>1, HttpAssumption DEF Header
<1>3. h.end > 3
  BY <1>1, <1>2 DEF Header
<1>4. ASSUME h.length # 0
      PROVE  /\ h.length - 2 \in h.crs
             /\ Stop(h) \in Nat /\ IsStop(h, Stop(h)) /\ Stop(h) + 1 > HeaderBak
  <2>1. PICK q \in h.crs : IsStop(h, q)
    BY <1>4, HttpAssumption DEF IsStop
  <2>2. Stop(h) \in Nat /\ IsStop(h, Stop(h))
    BY <2>1, <1>2 DEF Stop
  <2>3. Stop(h) + 1 > HeaderBak
    BY <2>2, <1>4, HttpAssumption DEF IsStop
  <2> QED
    BY <2>2, <2>3, <1>4, HttpAssumption
<1> QED
  BY <1>1, <1>2, <1>3, <1>4

\* A window that reaches back to the line before Content-Length finds its begin.
LEMMA LineStartIsLength ==
  ASSUME NEW h \in Headers, h.length # 0, NEW l \in Int, l <= h.length - 2
  PROVE  LineStart(h, l, Stop(h)) = h.length
<1> DEFINE B == Before(h, l, Stop(h))
<1>1. h.length - 2 \in B
  BY HeaderFacts DEF Before, IsStop, Header
<1>2. \A r \in B : r \in Int /\ r <= h.length - 2
  BY HeaderFacts DEF Before, IsStop
<1>3. h.length \in Nat
  BY HeaderFacts DEF Header
<1>4. Max(B) = h.length - 2
  BY <1>1, <1>2, <1>3 DEF Max
<1> HIDE DEF B
<1>5. LineStart(h, l, Stop(h)) = Max(B) + 2
  BY <1>1 DEF LineStart, B
<1> QED
  BY <1>3, <1>4, <1>5

\* So the length is seen as soon as the line has been read.
LEMMA LengthIsSeen ==
  ASSUME NEW h \in Headers, h.length # 0, NEW l \in Int, l <= h.length - 2,
         NEW m \in Int, Stop(h) < m
  PROVE  SeesLength(h, l, m)
<1>1. Stop(h) \in LineEnds(h, l, m)
  BY HeaderFacts DEF LineEnds, IsStop, Header
<1> QED
  BY <1>1, LineStartIsLength DEF SeesLength

LEMMA StreamFacts ==
  ASSUME TypeOK, NEW t \in Tasks
  PROVE  /\ End(t) \in Nat /\ End(t) >= hdr[t].end /\ ContentLength(t) \in Nat
         /\ hdr[t].end \in Nat /\ hi[t] \in Nat /\ FirstLen(t) \in Int
         /\ hdr[t].length \in Nat /\ hdr[t].code \in Nat
<1>1. hdr[t] \in Header /\ img[t] \in Images /\ hi[t] \in Nat /\ from[t] \in Int
  BY HeaderFacts DEF TypeOK
<1>2. ImageLen[img[t]] \in Nat
  BY <1>1, OtaAssumption
<1> QED
  BY <1>1, <1>2, OtaAssumption DEF End, ContentLength, FirstLen, Header

-----------------------------------------------------------------------------
\* What an action leaves alone of a task leaves Local as it was.
LEMMA LocalKept ==
  ASSUME NEW u \in Tasks, Local(u),
         pc'[u] = pc[u], hdr'[u] = hdr[u], img'[u] = img[u], lo'[u] = lo[u],
         hi'[u] = hi[u], status'[u] = status[u], body'[u] = body[u],
         from'[u] = from[u], top'[u] = top[u]
  PROVE  Local(u)'
  BY DEF Local, Window, Found, InStream, Refused, InBody, ContentLength, End,
         FirstLen, Stop, IsStop, BakStart

\* A task that has ended, or is not that far, has nothing to keep.
LEMMA LocalEnded ==
  ASSUME NEW u \in Tasks,
         pc'[u] \in {"none", "cut", "empty", "short", "too big", "mismatch",
                     "fault", "delay", "connect"}
  PROVE  Local(u)'
  BY DEF Local, Window, Found, InStream, Refused, InBody

\* Only the place of t changes.
Step(t, place) ==
  /\ Goto(t, place)
  /\ UNCHANGED <<answer, hi, parse, top>>

LEMMA StepToEnd ==
  ASSUME TypeOK, LocalInv, NEW t \in Tasks, NEW place, Step(t, place),
         place \in {"none", "cut", "empty", "short", "too big", "mismatch",
                    "fault", "delay", "connect"}
  PROVE  LocalInv'
<1> SUFFICES ASSUME NEW u \in Tasks PROVE Local(u)'
  BY DEF LocalInv
<1>1. CASE u = t
  <2>1. pc'[u] = place
    BY <1>1 DEF Step, Goto, TypeOK
  <2> QED
    BY <2>1, LocalEnded
<1>2. CASE u # t
  <2>1. pc'[u] = pc[u]
    BY <1>2 DEF Step, Goto, TypeOK
  <2> QED
    BY <2>1, LocalKept DEF Step, answer, parse, LocalInv
<1> QED
  BY <1>1, <1>2

\* The places behind the first write, all with the same to keep.
LEMMA StepOnward ==
  ASSUME TypeOK, LocalInv, NEW t \in Tasks, NEW place, Step(t, place),
         \/ /\ pc[t] \in {"loop", "digest", "boot", "reboot"}
            /\ place \in {"loop", "digest", "boot", "reboot"}
         \/ /\ pc[t] = "first" /\ place = "head"
         \/ /\ pc[t] = "head" /\ place = "erased" /\ FirstLen(t) >= 0
  PROVE  LocalInv'
<1> SUFFICES ASSUME NEW u \in Tasks PROVE Local(u)'
  BY DEF LocalInv
<1>1. CASE u = t
  <2>1. pc'[t] = place
    BY DEF Step, Goto, TypeOK
  <2>2. Local(t)
    BY DEF LocalInv
  <2> QED
    BY <1>1, <2>1, <2>2 DEF Step, answer, parse, Local, Window, Found, InStream,
       Refused, InBody, ContentLength, End, FirstLen
<1>2. CASE u # t
  <2>1. pc'[u] = pc[u]
    BY <1>2 DEF Step, Goto, TypeOK
  <2> QED
    BY <2>1, LocalKept DEF Step, answer, parse, LocalInv
<1> QED
  BY <1>1, <1>2

-----------------------------------------------------------------------------
LEMMA InitLocal == ASSUME Init PROVE TypeOK /\ LocalInv
<1>1. AnyHeader \in Headers
  BY HttpAssumption DEF AnyHeader
<1>2. TypeOK
  <2>1. NoParam \in Params /\ Stock \in Images /\ 0 \in {0, 1, 3, 4} /\ "none" \in Ended
    BY OtaAssumption DEF NoParam, Params, Kinds, Ended
  <2>2. /\ param \in Params /\ url \in Images \cup {None}
        /\ ready \in BOOLEAN /\ fwSize \in Nat
        /\ part \in [Cells -> (Images \X Int) \cup {Erased, Spoilt}]
        /\ table \in [active : {"old", "new"}, len : Nat]
        /\ starts \in 0 .. MaxStarts /\ restarts \in 0 .. MaxRestarts
        /\ wanted \in Images \cup {"none"}
    <3>1. part \in [Cells -> (Images \X Int) \cup {Erased, Spoilt}]
      BY DEF Init
    <3>2. table \in [active : {"old", "new"}, len : Nat]
      BY DEF Init
    <3>3. starts \in 0 .. MaxStarts /\ restarts \in 0 .. MaxRestarts
      BY OtaAssumption DEF Init
    <3>4. /\ param \in Params /\ url \in Images \cup {None}
          /\ wanted \in Images \cup {"none"} /\ ready \in BOOLEAN
      BY <2>1 DEF Init
    <3> QED
      BY <3>1, <3>2, <3>3, <3>4 DEF Init
  <2>3. /\ pc \in [Tasks -> Ended \cup AtWork \cup {"fault"}]
        /\ job \in [Tasks -> Params]
        /\ img \in [Tasks -> Images] /\ hdr \in [Tasks -> Headers]
        /\ lo \in [Tasks -> Int] /\ hi \in [Tasks -> Nat]
        /\ status \in [Tasks -> {0, 1, 3, 4}]
        /\ body \in [Tasks -> Nat] /\ from \in [Tasks -> Int]
        /\ top \in [Tasks -> Nat]
    BY <1>1, <2>1 DEF Init
  <2> QED
    BY <2>2, <2>3 DEF TypeOK
<1>3. LocalInv
  BY DEF Init, LocalInv, Local, Window, Found, InStream, Refused, InBody
<1> QED
  BY <1>2, <1>3

LEMMA RestartLocal ==
  ASSUME TypeOK, LocalInv, Restart, restarts' \in 0 .. MaxRestarts
  PROVE  TypeOK' /\ LocalInv'
<1>1. AnyHeader \in Headers
  BY HttpAssumption DEF AnyHeader
<1>2. TypeOK'
  <2>1. NoParam \in Params /\ Stock \in Images /\ 0 \in {0, 1, 3, 4} /\ "none" \in Ended
    BY OtaAssumption DEF NoParam, Params, Kinds, Ended
  <2>2. /\ pc' \in [Tasks -> Ended \cup AtWork \cup {"fault"}]
        /\ job' \in [Tasks -> Params]
        /\ img' \in [Tasks -> Images] /\ hdr' \in [Tasks -> Headers]
        /\ lo' \in [Tasks -> Int] /\ hi' \in [Tasks -> Nat]
        /\ status' \in [Tasks -> {0, 1, 3, 4}]
        /\ body' \in [Tasks -> Nat] /\ from' \in [Tasks -> Int]
        /\ top' \in [Tasks -> Nat]
    BY <1>1, <2>1 DEF Restart
  <2> QED
    BY <2>1, <2>2 DEF Restart, TypeOK, flash
<1>3. \A t \in Tasks : pc'[t] = "none"
  BY DEF Restart
<1> QED
  BY <1>2, <1>3, LocalEnded DEF LocalInv

\* A new value for a task.
LEMMA TypeOfStep ==
  ASSUME TypeOK, NEW t \in Tasks, NEW place \in Ended \cup AtWork \cup {"fault"},
         Goto(t, place)
  PROVE  pc' \in [Tasks -> Ended \cup AtWork \cup {"fault"}]
  BY DEF TypeOK, Goto

LEMMA AcceptLocal ==
  ASSUME TypeOK, LocalInv, NEW t \in Tasks, NEW v \in Images, Accept(t, v),
         param' \in Params, url' \in Images \cup {None}
  PROVE  TypeOK' /\ LocalInv'
<1>1. starts' \in 0 .. MaxStarts
  BY OtaAssumption DEF Accept, TypeOK
<1>2. pc' \in [Tasks -> Ended \cup AtWork \cup {"fault"}]
  BY TypeOfStep DEF Accept, AtWork
<1>3. TypeOK'
  BY <1>1, <1>2 DEF Accept, TypeOK, hal, flash, answer, parse
<1>4. Step(t, "delay")
  BY DEF Accept, Step
<1> QED
  BY <1>3, <1>4, StepToEnd

LEMMA RequestLocal ==
  ASSUME TypeOK, LocalInv, NEW t \in Tasks, Request(t)
  PROVE  TypeOK' /\ LocalInv'
<1>1. CASE axk_hal_ota_update(t)
  BY <1>1, AcceptLocal, OtaAssumption
     DEF axk_hal_ota_update, Params, Kinds, TypeOK
<1>2. CASE axk_hal_user_ota_update(t)
  BY <1>2, AcceptLocal DEF axk_hal_user_ota_update, Params, Kinds
<1> QED
  BY <1>1, <1>2 DEF Request

LEMMA UserRefusedLocal ==
  ASSUME TypeOK, LocalInv, UserRefused
  PROVE  TypeOK' /\ LocalInv'
<1>1. TypeOK'
  BY DEF UserRefused, TypeOK, hal, flash, answer, parse, counts
<1>2. LocalInv'
  BY LocalKept DEF UserRefused, LocalInv, answer, parse
<1> QED
  BY <1>1, <1>2

-----------------------------------------------------------------------------
\* Steps that change the place of the task and nothing TypeOK does not bound.
LEMMA MoveLocal ==
  ASSUME TypeOK, LocalInv, NEW t \in Tasks,
         \/ _ota_task(t) \/ ConnectFails(t) \/ HeaderCut(t) \/ FirstBodyEnds(t)
         \/ HeadCutShort(t) \/ EraseRefused(t) \/ BodyEnds(t) \/ BodyFails(t)
         \/ Compare(t) \/ set_boot_partition(t)
  PROVE  TypeOK' /\ LocalInv'
<1>1. PICK place \in {"connect", "cut", "head", "short", "fault", "too big",
                      "digest", "boot", "mismatch", "reboot"} :
        /\ Step(t, place)
        /\ \/ place \in {"connect", "cut", "short", "fault", "too big", "mismatch"}
           \/ /\ pc[t] \in {"loop", "digest", "boot", "reboot"}
              /\ place \in {"loop", "digest", "boot", "reboot"}
           \/ /\ pc[t] = "first" /\ place = "head"
  BY DEF _ota_task, ConnectFails, HeaderCut, FirstBodyEnds, HeadCutShort, TooShort,
         EraseRefused, BodyEnds, BodyFails, AfterFailure, Compare,
         set_boot_partition, Step, At
<1>2. LocalInv'
  BY <1>1, StepToEnd, StepOnward
<1>3. pc' \in [Tasks -> Ended \cup AtWork \cup {"fault"}]
  BY <1>1, TypeOfStep DEF Step, Ended, AtWork
<1>4. /\ param' \in Params /\ url' \in Images \cup {None}
      /\ ready' \in BOOLEAN /\ fwSize' \in Nat
      /\ part' \in [Cells -> (Images \X Int) \cup {Erased, Spoilt}]
      /\ table' \in [active : {"old", "new"}, len : Nat]
      /\ job' \in [Tasks -> Params]
      /\ starts' \in 0 .. MaxStarts /\ restarts' \in 0 .. MaxRestarts
      /\ wanted' \in Images \cup {"none"}
  <2>1. /\ UNCHANGED <<param, url, fwSize, part, starts, restarts, wanted>>
        /\ ready' \in BOOLEAN
    BY DEF TypeOK, _ota_task, ConnectFails, HeaderCut, FirstBodyEnds, HeadCutShort,
           EraseRefused, BodyEnds, BodyFails, Compare, set_boot_partition,
           static, hal, flash, counts
  <2>2. table' = table \/ table' = [active |-> "new", len |-> fwSize]
    BY DEF _ota_task, ConnectFails, HeaderCut, FirstBodyEnds, HeadCutShort,
           EraseRefused, BodyEnds, BodyFails, Compare, set_boot_partition, flash
  <2>3. job' = job \/ job' = [job EXCEPT ![t] = param]
    BY DEF _ota_task, ConnectFails, HeaderCut, FirstBodyEnds, HeadCutShort,
           EraseRefused, BodyEnds, BodyFails, Compare, set_boot_partition
  <2>4. table' \in [active : {"old", "new"}, len : Nat]
    <3>1. fwSize \in Nat /\ table \in [active : {"old", "new"}, len : Nat]
      BY DEF TypeOK
    <3>2. [active |-> "new", len |-> fwSize] \in [active : {"old", "new"}, len : Nat]
      BY <3>1
    <3> QED
      BY <2>2, <3>1, <3>2
  <2>5. job' \in [Tasks -> Params]
    BY <2>3 DEF TypeOK
  <2> QED
    BY <2>1, <2>4, <2>5 DEF TypeOK
<1> QED
  BY <1>1, <1>2, <1>3, <1>4 DEF TypeOK, Step, answer, parse

LEMMA connect_serverLocal ==
  ASSUME TypeOK, LocalInv, NEW t \in Tasks, connect_server(t)
  PROVE  TypeOK' /\ LocalInv'
<1>1. Asked(t) \in Images
  BY OtaAssumption DEF connect_server, Asked, TypeOK
<1>2. pc' \in [Tasks -> Ended \cup AtWork \cup {"fault"}]
  BY TypeOfStep DEF connect_server, AtWork
<1>3. TypeOK'
  <2>1. hdr' \in [Tasks -> Headers]
    BY DEF connect_server, TypeOK
  <2>2. img' \in [Tasks -> Images]
    BY <1>1 DEF connect_server, TypeOK
  <2>3. /\ lo' \in [Tasks -> Int] /\ hi' \in [Tasks -> Nat]
        /\ status' \in [Tasks -> {0, 1, 3, 4}] /\ body' \in [Tasks -> Nat]
    BY DEF connect_server, TypeOK
  <2> QED
    BY <1>2, <2>1, <2>2, <2>3 DEF connect_server, TypeOK, static, hal, flash, counts
<1> SUFFICES ASSUME NEW u \in Tasks PROVE Local(u)'
  BY <1>3 DEF LocalInv
<1>4. CASE u # t
  BY <1>4, LocalKept DEF connect_server, Goto, TypeOK, LocalInv
<1>5. CASE u = t
  <2>1. /\ pc'[t] = "status" /\ lo'[t] = 1 /\ hi'[t] = 0 /\ status'[t] = 0
    BY DEF connect_server, Goto, TypeOK
  <2>2. hdr'[t] \in Headers /\ img'[t] \in Images
    BY <1>3 DEF TypeOK
  <2>3. 0 <= End(t)'
    BY <2>2, HeaderFacts, OtaAssumption DEF End, Header
  <2> QED
    BY <1>5, <2>1, <2>3 DEF Local, Window, Found, InStream, Refused, InBody
<1> QED
  BY <1>4, <1>5

-----------------------------------------------------------------------------
\* A line Content-Length that has not been seen as a whole begins, with the
\* line feed before it, in the window.
LEMMA LengthAhead ==
  ASSUME TypeOK, NEW t \in Tasks, pc[t] = "status", Window(t),
         status[t] \in {0, 1}, hdr[t].length # 0
  PROVE  lo[t] \in Int /\ lo[t] <= hdr[t].length - 2
<1> DEFINE h == hdr[t]
<1>1. h \in Headers /\ lo[t] \in Int /\ hi[t] \in Nat
  BY DEF TypeOK
<1>2. h.length \in Nat /\ h.length - 2 \in h.crs
  BY <1>1, HeaderFacts DEF Header
<1>3. CASE status[t] = 0
  <2>1. lo[t] = 1
    BY <1>3 DEF Window
  <2>2. h.code \in Nat /\ h.code > 0 /\ h.code < h.length - 2
    BY <1>1, <1>2, HeaderFacts DEF Header
  <2> QED
    BY <2>1, <2>2, <1>2
<1>4. CASE status[t] = 1
  <2>1. lo[t] = BakStart(hi[t]) /\ hi[t] <= Stop(h)
    BY <1>4 DEF Window
  <2>2. Stop(h) \in Nat /\ Stop(h) - h.length < HeaderBak - 2
    BY <1>1, HeaderFacts DEF IsStop
  <2> QED
    BY <2>1, <2>2, <1>1, <1>2, HttpAssumption DEF BakStart
<1> QED
  BY <1>1, <1>3, <1>4

\* What the parser answers, in terms of the stream.
LEMMA ParserAnswer ==
  ASSUME TypeOK, NEW t \in Tasks, pc[t] = "status", Window(t),
         NEW m \in Nat,
         NEW r, r = ai_parse_http_response(hdr[t], status[t], lo[t], m)
  PROVE  /\ r \in {-1, 1, 3, 4}
         /\ r = -1 => \/ ~hdr[t].ok \/ hdr[t].length = 0 \/ m < hdr[t].code
         /\ r = 1 => hdr[t].length = 0 \/ m <= Stop(hdr[t])
         /\ r = 4 => hdr[t].end <= m
<1> DEFINE h == hdr[t]
<1>1. h \in Headers /\ h \in Header /\ status[t] \in {0, 1, 3}
  BY HeaderFacts DEF TypeOK, Window
<1>2. h.code \in Nat /\ h.end \in Nat /\ h.ok \in BOOLEAN
  BY <1>1 DEF Header
<1>3. ASSUME h.length # 0, status[t] # 3, Stop(h) < m
      PROVE  SeesLength(h, lo[t], m)
  BY <1>1, <1>3, LengthAhead, LengthIsSeen
<1>4. h.length # 0 => Stop(h) \in Nat /\ Stop(h) <= h.end - 3
  BY <1>1, HeaderFacts DEF IsStop
<1> HIDE DEF h
<1>5. r = -1 \/ r = Scan(h, status[t], lo[t], m)
  BY DEF ai_parse_http_response, h
<1>6. (r = -1 /\ status[t] = 0 /\ StatusLine(h, m) = -1) \/ r = Scan(h, status[t], lo[t], m)
  BY DEF ai_parse_http_response, h
<1>7. CASE r = -1 /\ status[t] = 0 /\ StatusLine(h, m) = -1
  BY <1>7, <1>2 DEF StatusLine, h
<1>8. CASE r = Scan(h, status[t], lo[t], m)
  <2>1. CASE SeesEnd(h, lo[t], m)
    <3>1. h.end <= m
      BY <2>1 DEF SeesEnd
    <3>2. h.length # 0 => status[t] = 3 \/ SeesLength(h, lo[t], m)
      BY <3>1, <1>2, <1>3, <1>4
    <3>3. r = IF status[t] = 3 \/ SeesLength(h, lo[t], m) THEN 4 ELSE -1
      BY <1>8, <2>1 DEF Scan
    <3> QED
      BY <3>1, <3>2, <3>3 DEF h
  <2>2. CASE ~SeesEnd(h, lo[t], m)
    <3>1. r = IF status[t] = 3 \/ SeesLength(h, lo[t], m) THEN 3 ELSE 1
      BY <1>8, <2>2 DEF Scan
    <3>2. r = 1 => h.length = 0 \/ m <= Stop(h)
      BY <3>1, <1>3, <1>4
    <3> QED
      BY <3>1, <3>2 DEF h
  <2> QED
    BY <2>1, <2>2
<1> QED
  BY <1>6, <1>7, <1>8

\* What a read of the header leaves, but for the parse.
LEMMA ReadsTypes ==
  ASSUME TypeOK, NEW t \in Tasks, NEW room \in Nat, Reads(t, room)
  PROVE  /\ hi' \in [Tasks -> Nat] /\ hi'[t] <= End(t) /\ hi'[t] > hi[t]
         /\ \A u \in Tasks : u # t => hi'[u] = hi[u]
  BY StreamFacts DEF Reads, TypeOK

LEMMA RoomIsNat ==
  ASSUME NEW t \in Tasks
  PROVE  HeaderRoom(t) \in Nat /\ BufSize \in Nat
  BY OtaAssumption, HttpAssumption DEF HeaderRoom

\* header_len and idx meet in the same byte of the stream.
LEMMA BodyStart ==
  ASSUME TypeOK, NEW t \in Tasks, pc[t] = "status", Window(t),
         NEW m \in Nat, hi' = [hi EXCEPT ![t] = m]
  PROVE  hi'[t] - (Idx(t) - (hdr[t].end - lo[t] + 1)) + 1 = hdr[t].end + 1
<1>1. hi'[t] = m
  BY DEF TypeOK
<1>2. hi[t] \in Nat /\ lo[t] \in Int /\ hdr[t].end \in Nat /\ HeaderBak \in Nat
  BY StreamFacts, HttpAssumption DEF TypeOK
<1>3. CASE status[t] = 0
  <2>1. Idx(t) = m - hi[t] /\ lo[t] = 1 /\ hi[t] = 0
    BY <1>1, <1>2, <1>3 DEF Idx, IdxOfRead, Window
  <2> QED
    BY <2>1, <1>1, <1>2
<1>4. CASE status[t] # 0
  <2>1. Idx(t) = m - hi[t] + HeaderBak /\ lo[t] = hi[t] - HeaderBak + 1
    BY <1>1, <1>2, <1>4 DEF Idx, IdxOfRead, Window, BakStart
  <2> QED
    BY <2>1, <1>1, <1>2
<1> QED
  BY <1>3, <1>4

LEMMA ReadHeaderLocal ==
  ASSUME TypeOK, LocalInv, NEW t \in Tasks, ReadHeader(t)
  PROVE  TypeOK' /\ LocalInv'
<1> DEFINE r == ai_parse_http_response(hdr[t], status[t], lo[t], hi'[t])
<1>1. pc[t] = "status" /\ Local(t) /\ Window(t)
  BY DEF ReadHeader, At, LocalInv, Local
<1>2. /\ hi' \in [Tasks -> Nat] /\ hi'[t] <= End(t) /\ hi'[t] > hi[t]
      /\ \A u \in Tasks : u # t => hi'[u] = hi[u]
  BY ReadsTypes, RoomIsNat DEF ReadHeader
<1>3. PICK m \in Nat : hi' = [hi EXCEPT ![t] = m]
  <2>1. PICK k \in 1 .. HeaderRoom(t) : hi' = [hi EXCEPT ![t] = @ + k]
    BY DEF ReadHeader, Reads
  <2>2. hi[t] \in Nat /\ k \in Int /\ k >= 1
    BY RoomIsNat DEF TypeOK
  <2>3. hi' = [hi EXCEPT ![t] = hi[t] + k] /\ hi[t] + k \in Nat
    BY <2>1, <2>2
  <2> QED
    BY <2>3, Zenon
<1>4. /\ r \in {-1, 1, 3, 4}
      /\ r = -1 => \/ ~hdr[t].ok \/ hdr[t].length = 0 \/ hi'[t] < hdr[t].code
      /\ r = 1 => hdr[t].length = 0 \/ hi'[t] <= Stop(hdr[t])
      /\ r = 4 => hdr[t].end <= hi'[t]
  BY <1>1, <1>2, ParserAnswer
<1>5. Parsed(t, r) /\ UNCHANGED <<static, hal, flash, job, answer, top, counts>>
  BY DEF ReadHeader
<1> HIDE DEF r
<1>6. ContentLength(t) \in Nat /\ hdr[t].end \in Nat /\ End(t) \in Nat
  BY StreamFacts
<1>7. /\ hdr' = hdr /\ img' = img /\ top' = top
      /\ ContentLength(t)' = ContentLength(t) /\ End(t)' = End(t)
  BY <1>5 DEF answer, ContentLength, End
<1>8. CASE r = -1
  <2>1. pc' = [pc EXCEPT ![t] = "refused"] /\ UNCHANGED parse
    BY <1>5, <1>8 DEF Parsed, Goto
  <2>2. TypeOK'
    BY <1>2, <1>5, <2>1
       DEF TypeOK, static, hal, flash, answer, counts, parse, Ended
  <2>3. Local(t)'
    BY <1>2, <1>4, <1>7, <1>8, <2>1
       DEF Local, Window, Found, InStream, Refused, InBody, TypeOK
  <2>4. ASSUME NEW u \in Tasks, u # t PROVE Local(u)'
    BY <1>2, <1>7, <2>1, <2>4, LocalKept DEF LocalInv, TypeOK, parse
  <2> QED
    BY <2>2, <2>3, <2>4 DEF LocalInv
<1>9. CASE r \in {1, 3}
  <2>1. /\ status' = [status EXCEPT ![t] = r]
        /\ body' = IF r = 3 THEN [body EXCEPT ![t] = ContentLength(t)] ELSE body
        /\ lo' = [lo EXCEPT ![t] = BakStart(hi'[t])]
        /\ pc' = pc /\ from' = from
    BY <1>5, <1>9 DEF Parsed
  <2>2. BakStart(hi'[t]) \in Int
    BY <1>2, HttpAssumption DEF BakStart
  <2>3. TypeOK'
    BY <1>2, <1>5, <1>6, <1>9, <2>1, <2>2
       DEF TypeOK, static, hal, flash, answer, counts
  <2>4. Local(t)'
    <3>1. /\ status'[t] = r /\ lo'[t] = BakStart(hi'[t]) /\ pc'[t] = "status"
          /\ r = 3 => body'[t] = ContentLength(t)
      BY <1>1, <2>1 DEF TypeOK
    <3>2. Stop(hdr[t])' = Stop(hdr[t]) /\ BakStart(hi'[t]) = BakStart(hi[t])'
      BY <1>7 DEF BakStart
    <3>3. Window(t)'
      BY <1>4, <1>7, <1>9, <3>1, <3>2 DEF Window
    <3> QED
      BY <3>1, <3>3, <1>2, <1>7 DEF Local, Found, InStream, Refused, InBody
  <2>5. ASSUME NEW u \in Tasks, u # t PROVE Local(u)'
    BY <1>2, <1>7, <2>1, <2>5, LocalKept DEF LocalInv, TypeOK
  <2> QED
    BY <2>3, <2>4, <2>5 DEF LocalInv
<1>10. CASE r = 4
  <2>1. /\ status' = [status EXCEPT ![t] = r]
        /\ body' = [body EXCEPT ![t] = ContentLength(t)]
        /\ HeaderDone(t)
    BY <1>5, <1>10 DEF Parsed
  <2>2. PICK place \in {"empty", "first", "head"} :
          pc' = [pc EXCEPT ![t] = place]
    BY <2>1 DEF HeaderDone, Goto
  <2>3. from' = [from EXCEPT ![t] = hdr[t].end + 1] /\ lo' = lo
    BY <2>1, <1>1, <1>3, BodyStart DEF HeaderDone
  <2>4. TypeOK'
    <3>1. pc' \in [Tasks -> Ended \cup AtWork \cup {"fault"}]
      BY <2>2 DEF TypeOK, Ended, AtWork
    <3>2. status' \in [Tasks -> {0, 1, 3, 4}] /\ body' \in [Tasks -> Nat]
      BY <2>1, <1>6, <1>10 DEF TypeOK
    <3>3. from' \in [Tasks -> Int]
      BY <2>3, <1>6 DEF TypeOK
    <3> QED
      BY <1>2, <1>5, <2>3, <3>1, <3>2, <3>3
         DEF TypeOK, static, hal, flash, answer, counts
  <2>5. Local(t)'
    <3>1. /\ pc'[t] = place /\ from'[t] = hdr[t].end + 1
          /\ body'[t] = ContentLength(t)
      BY <2>1, <2>2, <2>3 DEF TypeOK
    <3> QED
      BY <3>1, <1>2, <1>4, <1>7, <1>10, <2>2
         DEF Local, Window, Found, InStream, Refused, InBody
  <2>6. ASSUME NEW u \in Tasks, u # t PROVE Local(u)'
    BY <1>2, <1>7, <2>1, <2>2, <2>3, <2>6, LocalKept DEF LocalInv, TypeOK
  <2> QED
    BY <2>4, <2>5, <2>6 DEF LocalInv
<1> QED
  BY <1>4, <1>8, <1>9, <1>10

LEMMA ReadFalseEndLocal ==
  ASSUME TypeOK, LocalInv, NEW t \in Tasks, ReadFalseEnd(t)
  PROVE  TypeOK' /\ LocalInv'
<1>1. /\ hi' \in [Tasks -> Nat] /\ hi'[t] <= End(t) /\ hi'[t] > hi[t]
      /\ \A u \in Tasks : u # t => hi'[u] = hi[u]
  BY ReadsTypes, RoomIsNat DEF ReadFalseEnd
<1>2. /\ pc' = [pc EXCEPT ![t] = "refused"]
      /\ UNCHANGED <<static, hal, flash, job, answer, parse, top, counts>>
  BY DEF ReadFalseEnd, Goto
<1>3. TypeOK'
  BY <1>1, <1>2 DEF TypeOK, static, hal, flash, answer, counts, parse, Ended
<1>4. Local(t)'
  <2>1. lo'[t] <= 0
    BY <1>2, HttpAssumption DEF ReadFalseEnd, MayEndFalsely, parse, TypeOK
  <2> QED
    BY <1>2, <2>1 DEF Local, Window, Found, InStream, Refused, InBody, TypeOK
<1>5. ASSUME NEW u \in Tasks, u # t PROVE Local(u)'
  BY <1>1, <1>2, <1>5, LocalKept DEF LocalInv, TypeOK, parse, answer
<1> QED
  BY <1>3, <1>4, <1>5 DEF LocalInv

LEMMA FirstBodyLocal ==
  ASSUME TypeOK, LocalInv, NEW t \in Tasks, FirstBody(t)
  PROVE  TypeOK' /\ LocalInv'
<1>1. /\ hi' \in [Tasks -> Nat] /\ hi'[t] <= End(t) /\ hi'[t] > hi[t]
      /\ \A u \in Tasks : u # t => hi'[u] = hi[u]
  BY ReadsTypes, RoomIsNat DEF FirstBody
<1>2. /\ pc' = [pc EXCEPT ![t] = "head"] /\ pc[t] = "first"
      /\ UNCHANGED <<static, hal, flash, job, answer, parse, top, counts>>
  BY DEF FirstBody, Goto, At
<1>3. TypeOK'
  BY <1>1, <1>2 DEF TypeOK, static, hal, flash, answer, counts, parse, AtWork
<1>4. Local(t)'
  <2>1. Local(t) /\ hi[t] \in Nat /\ hdr[t].end \in Nat
    BY StreamFacts DEF LocalInv
  <2>2. hi[t] >= hdr[t].end /\ from[t] = hdr[t].end + 1 /\ body[t] = ContentLength(t)
    BY <2>1, <1>2 DEF Local, InStream, Found, InBody
  <2>3. /\ hi'[t] \in Nat /\ hi'[t] >= hdr'[t].end /\ pc'[t] = "head"
        /\ from'[t] = hdr'[t].end + 1 /\ body'[t] = ContentLength(t)'
        /\ hi'[t] <= End(t)'
    BY <1>1, <1>2, <2>1, <2>2 DEF answer, parse, ContentLength, End, TypeOK
  <2> QED
    BY <2>3 DEF Local, Window, Found, InStream, Refused, InBody
<1>5. ASSUME NEW u \in Tasks, u # t PROVE Local(u)'
  BY <1>1, <1>2, <1>5, LocalKept DEF LocalInv, TypeOK, parse, answer
<1> QED
  BY <1>3, <1>4, <1>5 DEF LocalInv

LEMMA partition_eraseLocal ==
  ASSUME TypeOK, LocalInv, NEW t \in Tasks, partition_erase(t)
  PROVE  TypeOK' /\ LocalInv'
<1>1. Step(t, "erased") /\ pc[t] = "head" /\ FirstLen(t) >= 0
  BY DEF partition_erase, Step, At
<1>2. LocalInv'
  BY <1>1, StepOnward
<1>3. part' \in [Cells -> (Images \X Int) \cup {Erased, Spoilt}]
  <2>1. part \in [Cells -> (Images \X Int) \cup {Erased, Spoilt}]
    BY DEF TypeOK
  <2> QED
    BY <2>1 DEF partition_erase, Cleared
<1>4. pc' \in [Tasks -> Ended \cup AtWork \cup {"fault"}]
  BY <1>1, TypeOfStep DEF Step, AtWork
<1> QED
  BY <1>2, <1>3, <1>4 DEF TypeOK, partition_erase, static, answer, parse, counts

\* A write leaves in every cell a byte of a program, or none.
LEMMA WriteTypes ==
  ASSUME TypeOK, NEW t \in Tasks, NEW offset \in Nat, NEW n \in Nat,
         NEW p \in Int, partition_write_ota_farmware(t, offset, n, p)
  PROVE  /\ part' \in [Cells -> (Images \X Int) \cup {Erased, Spoilt}]
         /\ fwSize' \in Nat
<1>1. part \in [Cells -> (Images \X Int) \cup {Erased, Spoilt}]
  BY DEF TypeOK
<1>2. \A q \in Int : ByteAt(t, q) \in Images \X Int
  BY StreamFacts, OtaAssumption DEF ByteAt, TypeOK
<1>3. \A c \in Cells : c \in Int
  BY OtaAssumption DEF Cells
<1>4. \A old \in (Images \X Int) \cup {Erased, Spoilt}, new \in Images \X Int :
        Programmed(old, new) \in (Images \X Int) \cup {Erased, Spoilt}
  BY DEF Programmed
<1>5. ASSUME NEW c \in Cells
      PROVE  Programmed(part[c], ByteAt(t, p + c - offset))
               \in (Images \X Int) \cup {Erased, Spoilt}
  BY <1>1, <1>2, <1>3, <1>4
<1>6. Written(t, offset, n, p) \in [Cells -> (Images \X Int) \cup {Erased, Spoilt}]
  BY <1>1, <1>5 DEF Written
<1> QED
  BY <1>1, <1>6 DEF partition_write_ota_farmware

LEMMA FirstWriteLocal ==
  ASSUME TypeOK, LocalInv, NEW t \in Tasks, FirstWrite(t)
  PROVE  TypeOK' /\ LocalInv'
<1>1. Local(t) /\ pc[t] = "erased"
  BY DEF FirstWrite, LocalInv, At
<1>2. FirstLen(t) \in Nat
  BY <1>1, StreamFacts DEF Local, InStream
<1>3. /\ pc' = [pc EXCEPT ![t] = "loop"] /\ top' = [top EXCEPT ![t] = FirstLen(t)]
      /\ UNCHANGED <<static, ready, table, job, answer, hi, parse, counts>>
  BY DEF FirstWrite, Goto
<1>4. /\ part' \in [Cells -> (Images \X Int) \cup {Erased, Spoilt}]
      /\ fwSize' \in Nat
  <2>1. from[t] + PackHead \in Int
    BY OtaAssumption DEF TypeOK
  <2> QED
    BY <1>2, <2>1, WriteTypes DEF FirstWrite
<1>5. TypeOK'
  BY <1>2, <1>3, <1>4 DEF TypeOK, static, answer, parse, counts, AtWork
<1>6. Local(t)'
  <2>1. FirstLen(t)' = FirstLen(t) /\ top'[t] = FirstLen(t) /\ pc'[t] = "loop"
    BY <1>3 DEF FirstLen, parse, TypeOK
  <2> QED
    BY <1>1, <1>3, <2>1 DEF Local, Window, Found, InStream, Refused, InBody,
       ContentLength, End, answer, parse
<1>7. ASSUME NEW u \in Tasks, u # t PROVE Local(u)'
  BY <1>3, <1>7, LocalKept DEF LocalInv, TypeOK, parse, answer
<1> QED
  BY <1>5, <1>6, <1>7 DEF LocalInv

LEMMA ReadBodyLocal ==
  ASSUME TypeOK, LocalInv, NEW t \in Tasks, ReadBody(t)
  PROVE  TypeOK' /\ LocalInv'
<1> DEFINE n == hi'[t] - hi[t]
<1>1. Local(t) /\ pc[t] = "loop"
  BY DEF ReadBody, LocalInv, At
<1>2. LoopRoom(t) \in Nat
  BY OtaAssumption, HttpAssumption DEF LoopRoom
<1>3. /\ hi' \in [Tasks -> Nat] /\ hi'[t] <= End(t) /\ hi'[t] > hi[t]
      /\ \A u \in Tasks : u # t => hi'[u] = hi[u]
  BY <1>2, ReadsTypes DEF ReadBody
<1>4. n \in Nat /\ top[t] \in Nat /\ hi[t] \in Nat
  BY <1>3 DEF TypeOK
<1>5. PICK place \in {"loop", "digest"} : pc' = [pc EXCEPT ![t] = place]
  BY DEF ReadBody, Goto
<1>6. /\ top' = [top EXCEPT ![t] = top[t] + n]
      /\ UNCHANGED <<static, ready, table, job, answer, parse, counts>>
  BY DEF ReadBody
<1>7. /\ part' \in [Cells -> (Images \X Int) \cup {Erased, Spoilt}]
      /\ fwSize' \in Nat
  BY <1>4, WriteTypes DEF ReadBody
<1>8. TypeOK'
  <2>1. pc' \in [Tasks -> Ended \cup AtWork \cup {"fault"}]
    BY <1>5 DEF TypeOK, AtWork
  <2>2. top' \in [Tasks -> Nat]
    BY <1>4, <1>6 DEF TypeOK
  <2> QED
    BY <1>3, <1>6, <1>7, <2>1, <2>2 DEF TypeOK, static, answer, parse, counts
<1>9. Local(t)'
  <2>1. /\ hi[t] >= hdr[t].end /\ from[t] = hdr[t].end + 1
        /\ body[t] = ContentLength(t) /\ top[t] = FirstLen(t)
    BY <1>1 DEF Local, Found, InStream, InBody
  <2>2. /\ from[t] \in Int /\ PackHead \in Int /\ hdr[t].end \in Nat
    BY OtaAssumption, StreamFacts DEF TypeOK
  <2>3. top'[t] = top[t] + n
    BY <1>6 DEF TypeOK
  <2>4. top'[t] = FirstLen(t)'
    BY <1>3, <1>4, <1>6, <2>1, <2>2, <2>3 DEF FirstLen, parse, TypeOK
  <2>5. /\ hi'[t] >= hdr'[t].end /\ hi'[t] <= End(t)' /\ pc'[t] = place
        /\ from'[t] = hdr'[t].end + 1 /\ body'[t] = ContentLength(t)'
    BY <1>3, <1>4, <1>5, <1>6, <2>1, <2>2
       DEF ContentLength, End, answer, parse, TypeOK
  <2> QED
    BY <2>4, <2>5 DEF Local, Window, Found, InStream, Refused, InBody
<1>10. ASSUME NEW u \in Tasks, u # t PROVE Local(u)'
  BY <1>3, <1>5, <1>6, <1>10, LocalKept DEF LocalInv, TypeOK, parse, answer
<1> QED
  BY <1>8, <1>9, <1>10 DEF LocalInv

-----------------------------------------------------------------------------
LEMMA RebootLocal ==
  ASSUME TypeOK, LocalInv, (\E t \in Tasks : set_reboot(t)) \/ PowerFails
  PROVE  TypeOK' /\ LocalInv'
<1>1. restarts' \in 0 .. MaxRestarts
  BY OtaAssumption DEF set_reboot, PowerFails, TypeOK
<1> QED
  BY <1>1, RestartLocal DEF set_reboot, PowerFails

LEMMA StutterLocal ==
  ASSUME TypeOK, LocalInv, UNCHANGED vars
  PROVE  TypeOK' /\ LocalInv'
<1>1. TypeOK'
  BY DEF TypeOK, vars, static, hal, flash, answer, parse, counts
<1>2. LocalInv'
  BY LocalKept DEF LocalInv, vars, answer, parse
<1> QED
  BY <1>1, <1>2

LEMMA NextLocal ==
  ASSUME TypeOK, LocalInv, [Next]_vars
  PROVE  TypeOK' /\ LocalInv'
<1>1. ASSUME NEW t \in Tasks, Answers(t) PROVE TypeOK' /\ LocalInv'
  BY <1>1, connect_serverLocal, MoveLocal, ReadHeaderLocal, FirstBodyLocal,
     ReadBodyLocal DEF Answers
<1>2. ASSUME NEW t \in Tasks, Mishap(t) PROVE TypeOK' /\ LocalInv'
  BY <1>2, ReadFalseEndLocal, MoveLocal DEF Mishap
<1>3. ASSUME NEW t \in Tasks, Work(t) PROVE TypeOK' /\ LocalInv'
  BY <1>3, MoveLocal, partition_eraseLocal, FirstWriteLocal, RebootLocal DEF Work
<1> QED
  BY <1>1, <1>2, <1>3, RequestLocal, UserRefusedLocal, RebootLocal, StutterLocal
     DEF Next

(***************************************************************************)
(* Every variable of the update stays in its type, and each task's window  *)
(* is the one its byte count names, for every header and every read.       *)
(***************************************************************************)
THEOREM OtaTypes == Spec => [](TypeOK /\ LocalInv)
<1>1. Init => TypeOK /\ LocalInv
  BY InitLocal
<1>2. TypeOK /\ LocalInv /\ [Next]_vars => TypeOK' /\ LocalInv'
  BY NextLocal
<1> QED
  BY <1>1, <1>2, PTL DEF Spec

(***************************************************************************)
(* However the reads cut the header, ai_https_ota and ai_http_ota take the *)
(* body to begin behind its blank line and to have the length it names.    *)
(***************************************************************************)
THEOREM BodyIsFound == Spec => []BodyFound
<1>1. LocalInv => BodyFound
  BY DEF LocalInv, Local, Found, BodyFound, InBody
<1> QED
  BY <1>1, OtaTypes, PTL

(***************************************************************************)
(* ai_parse_http_response does not miss a Content-Length for the place     *)
(* where a read cut its line.                                              *)
(***************************************************************************)
THEOREM LengthIsNotMissed == Spec => []LengthSeen
<1>1. LocalInv => LengthSeen
  BY DEF LocalInv, Local, Refused, LengthSeen
<1> QED
  BY <1>1, OtaTypes, PTL

-----------------------------------------------------------------------------
\* Whose program a task is about is the one asked for.
Asking(t) ==
  /\ pc[t] = "delay" => wanted = IF param.of = "stock" THEN Stock ELSE url
  /\ pc[t] = "connect" => wanted = IF job[t].of = "stock" THEN Stock ELSE url
  /\ pc[t] \in {"status"} \cup InBody => img[t] = wanted

\* The program has been written to cell n, in front of erased cells.
Holds(t, n) ==
  /\ EraseLen(t) <= PartSize
  /\ \A c \in Cells :
       /\ c < n => part[c] = <<img[t], c + 1>>
       /\ n <= c /\ c < EraseLen(t) => part[c] = Erased

Flashed(t) ==
  /\ pc[t] = "erased" => Holds(t, 0)
  /\ pc[t] \in {"loop", "digest", "boot", "reboot"} =>
       Holds(t, top[t]) /\ fwSize = top[t]
  /\ pc[t] \in {"boot", "reboot"} => Verified(t)

Alone == \A t, u \in Tasks : pc[t] \notin Ended /\ pc[u] \notin Ended => t = u

Switched ==
  table.active = "new" =>
    /\ wanted \in Good /\ Whole(wanted)
    /\ \A t \in Tasks : pc[t] \in Ended \cup {"reboot"}

BootInv == Alone /\ Switched /\ \A t \in Tasks : Asking(t) /\ Flashed(t)

\* The only task there is acts, and has not changed the table.
LEMMA OnlyTask ==
  ASSUME TypeOK, NEW t \in Tasks, NEW place, pc' = [pc EXCEPT ![t] = place],
         \A u \in Tasks : u # t => pc[u] \in Ended,
         table.active # "new", table' = table,
         Asking(t)', Flashed(t)'
  PROVE  BootInv'
<1>1. \A u \in Tasks : u # t => pc'[u] \in Ended
  BY DEF TypeOK
<1>2. Alone'
  BY <1>1 DEF Alone
<1>3. Switched'
  BY DEF Switched
<1>4. ASSUME NEW u \in Tasks, u # t PROVE Asking(u)' /\ Flashed(u)'
  BY <1>1, <1>4 DEF Asking, Flashed, Ended, InBody
<1> QED
  BY <1>2, <1>3, <1>4 DEF BootInv

LEMMA OthersEnded ==
  ASSUME BootInv, NEW t \in Tasks, pc[t] \notin Ended \cup {"reboot"}
  PROVE  table.active # "new" /\ \A u \in Tasks : u # t => pc[u] \in Ended
  BY DEF BootInv, Alone, Switched

LEMMA InitBoot == ASSUME Init PROVE BootInv
  BY DEF Init, BootInv, Alone, Switched, Asking, Flashed, Ended, InBody

LEMMA RestartBoot ==
  ASSUME BootInv, Restart
  PROVE  BootInv'
<1>1. \A t \in Tasks : pc'[t] = "none"
  BY DEF Restart
<1>2. Alone' /\ \A t \in Tasks : Asking(t)' /\ Flashed(t)'
  BY <1>1 DEF Alone, Asking, Flashed, Ended, InBody
<1>3. Switched'
  BY <1>1 DEF BootInv, Restart, flash, Switched, Whole, Ended
<1> QED
  BY <1>2, <1>3 DEF BootInv

LEMMA AcceptBoot ==
  ASSUME OneAtATime, TypeOK, NEW t \in Tasks, NEW v \in Images, Accept(t, v),
         v = IF param'.of = "stock" THEN Stock ELSE url'
  PROVE  BootInv'
<1>1. /\ pc' = [pc EXCEPT ![t] = "delay"] /\ pc'[t] = "delay"
      /\ \A u \in Tasks : u # t => pc[u] \in Ended
      /\ table.active # "new" /\ table' = table /\ wanted' = v
  BY DEF Accept, Goto, TypeOK, flash
<1>2. Asking(t)' /\ Flashed(t)'
  BY <1>1 DEF Asking, Flashed, InBody
<1> QED
  BY <1>1, <1>2, OnlyTask

LEMMA RequestBoot ==
  ASSUME OneAtATime, TypeOK, NEW t \in Tasks, Request(t)
  PROVE  BootInv'
<1>1. CASE axk_hal_ota_update(t)
  <2>1. param'.of = "stock"
    BY <1>1 DEF axk_hal_ota_update
  <2> QED
    BY <1>1, <2>1, AcceptBoot, OtaAssumption DEF axk_hal_ota_update
<1>2. CASE axk_hal_user_ota_update(t)
  <2>1. PICK v \in Images, kind \in Kinds :
          /\ Accept(t, v) /\ url' = v
          /\ param' = [kind |-> kind, of |-> "user"]
    BY <1>2 DEF axk_hal_user_ota_update
  <2>2. param'.of = "user"
    BY <2>1
  <2> QED
    BY <2>1, <2>2, AcceptBoot
<1> QED
  BY <1>1, <1>2 DEF Request

LEMMA UserRefusedBoot ==
  ASSUME OneAtATime, BootInv, UserRefused
  PROVE  BootInv'
<1>1. \A t \in Tasks : pc[t] \in Ended /\ pc' = pc
  BY DEF UserRefused
<1>2. Alone' /\ \A t \in Tasks : Asking(t)' /\ Flashed(t)'
  BY <1>1 DEF Alone, Asking, Flashed, Ended, InBody
<1>3. Switched'
  BY <1>1 DEF BootInv, UserRefused, flash, counts, Switched, Whole
<1> QED
  BY <1>2, <1>3 DEF BootInv

LEMMA StutterBoot ==
  ASSUME BootInv, UNCHANGED vars
  PROVE  BootInv'
  BY DEF BootInv, Alone, Switched, Asking, Flashed, Holds, EraseLen, Verified, End,
         Whole, vars, static, hal, flash, answer, parse, counts

-----------------------------------------------------------------------------
LEMMA _ota_taskBoot ==
  ASSUME TypeOK, BootInv, NEW t \in Tasks, _ota_task(t)
  PROVE  BootInv'
<1>1. pc[t] = "delay" /\ pc' = [pc EXCEPT ![t] = "connect"] /\ pc'[t] = "connect"
  BY DEF _ota_task, At, Goto, TypeOK
<1>2. Asking(t) /\ job'[t] = param
  BY DEF BootInv, _ota_task, TypeOK
<1>3. Asking(t)' /\ Flashed(t)'
  BY <1>1, <1>2 DEF Asking, Flashed, InBody, _ota_task, static, counts
<1> QED
  BY <1>1, <1>3, OthersEnded, OnlyTask DEF _ota_task, flash, Ended

LEMMA connect_serverBoot ==
  ASSUME TypeOK, BootInv, NEW t \in Tasks, connect_server(t)
  PROVE  BootInv'
<1>1. /\ pc[t] = "connect" /\ pc' = [pc EXCEPT ![t] = "status"]
      /\ pc'[t] = "status" /\ img'[t] = Asked(t)
  BY DEF connect_server, At, Goto, TypeOK
<1>2. Asking(t) /\ wanted' = wanted /\ table' = table
  BY DEF BootInv, connect_server, flash, counts
<1>3. Asking(t)' /\ Flashed(t)'
  BY <1>1, <1>2 DEF Asking, Flashed, InBody, Asked
<1> QED
  BY <1>1, <1>2, <1>3, OthersEnded, OnlyTask DEF Ended

\* Up to the head of the image nothing is written.
LEMMA HeaderBoot ==
  ASSUME TypeOK, BootInv, NEW t \in Tasks,
         \/ ConnectFails(t) \/ ReadHeader(t) \/ ReadFalseEnd(t) \/ HeaderCut(t)
         \/ FirstBody(t) \/ FirstBodyEnds(t) \/ HeadCutShort(t) \/ EraseRefused(t)
  PROVE  BootInv'
<1>1. /\ pc[t] \in {"connect", "status", "first", "head"}
      /\ table' = table /\ img' = img /\ wanted' = wanted
  BY DEF ConnectFails, ReadHeader, ReadFalseEnd, HeaderCut, FirstBody,
         FirstBodyEnds, HeadCutShort, EraseRefused, At, flash, answer, counts
<1>2. PICK place \in Ended \cup {"status", "first", "head", "fault"} :
        /\ pc' = [pc EXCEPT ![t] = place]
        /\ pc[t] = "connect" => place = "cut"
  <2>1. CASE ReadHeader(t)
    <3>1. pc' = pc \/ \E place \in {"refused", "empty", "first", "head"} :
                        pc' = [pc EXCEPT ![t] = place]
      BY <2>1 DEF ReadHeader, Parsed, HeaderDone, Goto
    <3>2. pc[t] = "status" /\ pc = [pc EXCEPT ![t] = "status"]
      BY <2>1 DEF ReadHeader, At, TypeOK
    <3> QED
      BY <3>1, <3>2 DEF Ended
  <2>2. CASE ~ReadHeader(t)
    BY <2>2 DEF ConnectFails, ReadFalseEnd, HeaderCut, FirstBody, FirstBodyEnds,
       HeadCutShort, TooShort, EraseRefused, At, Goto, Ended
  <2> QED
    BY <2>1, <2>2
<1>3. pc'[t] = place
  BY <1>2 DEF TypeOK
<1>4. Asking(t)' /\ Flashed(t)'
  BY <1>1, <1>2, <1>3 DEF BootInv, Asking, Flashed, InBody, Ended
<1> QED
  BY <1>1, <1>2, <1>4, OthersEnded, OnlyTask DEF Ended

-----------------------------------------------------------------------------
\* What is erased is more than the body.
LEMMA ErasedIsEnough ==
  ASSUME TypeOK, NEW t \in Tasks
  PROVE  EraseLen(t) \in Nat /\ EraseLen(t) > body[t]
<1>1. body[t] \in Nat /\ Sector \in Nat /\ Sector > 0
  BY OtaAssumption DEF TypeOK
<1>2. ASSUME NEW b \in Nat, NEW s \in Nat, s > 0
      PROVE  (b \div s + 1) * s \in Nat /\ b < (b \div s + 1) * s
  <2>1. b \div s \in Nat
    BY <1>2
  <2>2. b < (b \div s + 1) * s
    BY <1>2
  <2> QED
    BY <2>1, <2>2
<1> QED
  BY <1>1, <1>2 DEF EraseLen

\* Behind the first write: where the task is in the stream and in the flash.
LEMMA WrittenLength ==
  ASSUME TypeOK, LocalInv, NEW t \in Tasks,
         pc[t] \in {"erased", "loop", "digest", "boot", "reboot"}
  PROVE  /\ FirstLen(t) \in Nat /\ FirstLen(t) < EraseLen(t)
         /\ from[t] = hdr[t].end + 1
         /\ FirstLen(t) = hi[t] - hdr[t].end - PackHead
         /\ ~hdr[t].empty
         /\ End(t) = hdr[t].end + PackHead + ImageLen[img[t]]
<1>1. Local(t)
  BY DEF LocalInv
<1>2. /\ from[t] = hdr[t].end + 1 /\ body[t] = ContentLength(t) /\ hi[t] <= End(t)
  BY <1>1 DEF Local, Found, InStream, InBody
<1>3. FirstLen(t) \in Nat
  BY <1>1, StreamFacts DEF Local, InStream, TypeOK
<1>4. /\ hi[t] \in Nat /\ hdr[t].end \in Nat /\ PackHead \in Nat /\ PackHead > 0
      /\ ImageLen[img[t]] \in Nat /\ End(t) \in Nat
  BY StreamFacts, OtaAssumption DEF TypeOK
<1>5. FirstLen(t) = hi[t] - hdr[t].end - PackHead
  BY <1>2, <1>4 DEF FirstLen
<1>6. ~hdr[t].empty
  BY <1>2, <1>3, <1>4, <1>5 DEF End
<1>7. End(t) = hdr[t].end + PackHead + ImageLen[img[t]]
  BY <1>6 DEF End
<1>8. FirstLen(t) < EraseLen(t)
  BY <1>2, <1>3, <1>4, <1>5, <1>7, ErasedIsEnough DEF ContentLength
<1> QED
  BY <1>2, <1>3, <1>5, <1>6, <1>7, <1>8

LEMMA partition_eraseBoot ==
  ASSUME TypeOK, LocalInv, BootInv, NEW t \in Tasks, partition_erase(t)
  PROVE  BootInv'
<1>1. /\ pc[t] = "head" /\ pc' = [pc EXCEPT ![t] = "erased"] /\ pc'[t] = "erased"
      /\ table' = table /\ img' = img /\ wanted' = wanted /\ body' = body
      /\ part' = Cleared(EraseLen(t)) /\ EraseLen(t) <= PartSize
  BY DEF partition_erase, At, Goto, TypeOK, answer, parse, counts
<1>2. \A c \in Cells : c >= 0 /\ c < EraseLen(t) => part'[c] = Erased
  BY <1>1 DEF Cleared
<1>3. EraseLen(t)' = EraseLen(t)
  BY <1>1 DEF EraseLen
<1>4. \A c \in Cells : c \in Int /\ c >= 0
  BY OtaAssumption DEF Cells
<1>5. Holds(t, 0)'
  BY <1>1, <1>2, <1>3, <1>4 DEF Holds
<1>6. Flashed(t)'
  BY <1>1, <1>5 DEF Flashed
<1>7. Asking(t)'
  BY <1>1 DEF BootInv, Asking, InBody
<1> QED
  BY <1>1, <1>6, <1>7, OthersEnded, OnlyTask DEF Ended

\* A write behind the bytes written last, into cells that are erased.
LEMMA WriteHolds ==
  ASSUME ~FlashFails, TypeOK, NEW t \in Tasks, NEW offset \in Nat, NEW n \in Nat,
         NEW p \in Int, partition_write_ota_farmware(t, offset, n, p),
         Holds(t, offset), offset + n <= EraseLen(t), EraseLen(t)' = EraseLen(t),
         img' = img, p = offset + 1 + hdr[t].end + PackHead
  PROVE  Holds(t, offset + n)' /\ fwSize' = offset + n
<1>1. part' = Written(t, offset, n, p) /\ fwSize' = offset + n
  BY DEF partition_write_ota_farmware
<1>2. EraseLen(t) \in Nat /\ hdr[t].end \in Nat /\ PackHead \in Nat
  BY ErasedIsEnough, StreamFacts, OtaAssumption
<1>3. ASSUME NEW c \in Cells
      PROVE  /\ c < offset + n => part'[c] = <<img[t], c + 1>>
             /\ offset + n <= c /\ c < EraseLen(t) => part'[c] = Erased
  <2>1. c \in Nat
    BY OtaAssumption DEF Cells
  <2>2. part'[c] = IF offset <= c /\ c < offset + n
                   THEN Programmed(part[c], ByteAt(t, p + c - offset))
                   ELSE part[c]
    BY <1>1 DEF Written
  <2>3. CASE offset <= c /\ c < offset + n
    <3>1. part[c] = Erased
      BY <2>1, <2>3, <1>2 DEF Holds
    <3>2. (p + c - offset) - hdr[t].end - PackHead = c + 1
      BY <2>1, <1>2
    <3>3. ByteAt(t, p + c - offset) = <<img[t], c + 1>>
      <4>1. ByteAt(t, p + c - offset)
              = <<img[t], (p + c - offset) - hdr[t].end - PackHead>>
        BY DEF ByteAt
      <4> QED
        BY <4>1, <3>2
    <3>4. part'[c] = <<img[t], c + 1>>
      BY <2>2, <2>3, <3>1, <3>3 DEF Programmed
    <3> QED
      BY <2>1, <2>3, <3>4
  <2>4. CASE ~(offset <= c /\ c < offset + n)
    BY <2>1, <2>2, <2>4, <1>2 DEF Holds
  <2> QED
    BY <2>3, <2>4
<1> QED
  BY <1>1, <1>3 DEF Holds

LEMMA FirstWriteBoot ==
  ASSUME ~FlashFails, TypeOK, LocalInv, BootInv, NEW t \in Tasks, FirstWrite(t)
  PROVE  BootInv'
<1>1. /\ pc[t] = "erased" /\ pc' = [pc EXCEPT ![t] = "loop"] /\ pc'[t] = "loop"
      /\ table' = table /\ img' = img /\ wanted' = wanted /\ body' = body
      /\ top'[t] = FirstLen(t)
      /\ partition_write_ota_farmware(t, 0, FirstLen(t), from[t] + PackHead)
  BY DEF FirstWrite, At, Goto, TypeOK, answer, parse, counts
<1>2. EraseLen(t)' = EraseLen(t) /\ EraseLen(t) \in Nat
  BY <1>1, ErasedIsEnough DEF EraseLen
<1>3. /\ FirstLen(t) \in Nat /\ FirstLen(t) < EraseLen(t)
      /\ from[t] = hdr[t].end + 1 /\ hdr[t].end \in Nat /\ PackHead \in Nat
  BY <1>1, WrittenLength, StreamFacts, OtaAssumption
<1>4. Holds(t, 0)
  BY <1>1 DEF BootInv, Flashed
<1>5. from[t] + PackHead \in Int /\ from[t] + PackHead = 0 + 1 + hdr[t].end + PackHead
  BY <1>3
<1>6. PICK n \in Nat, p \in Int : n = FirstLen(t) /\ p = from[t] + PackHead
  BY <1>3, <1>5
<1>7. Holds(t, 0 + n)' /\ fwSize' = 0 + n
  <2>1. 0 \in Nat /\ 0 + n <= EraseLen(t)
    BY <1>2, <1>3, <1>6
  <2>2. partition_write_ota_farmware(t, 0, n, p) /\ p = 0 + 1 + hdr[t].end + PackHead
    BY <1>1, <1>5, <1>6
  <2> QED
    BY <1>1, <1>2, <1>4, <2>1, <2>2, WriteHolds
<1>8. Flashed(t)'
  <2>1. 0 + n = n /\ top'[t] = n
    BY <1>1, <1>6
  <2> QED
    BY <1>1, <1>7, <2>1 DEF Flashed
<1>9. Asking(t)'
  BY <1>1 DEF BootInv, Asking, InBody
<1> QED
  BY <1>1, <1>8, <1>9, OthersEnded, OnlyTask DEF Ended

LEMMA ReadBodyBoot ==
  ASSUME ~FlashFails, TypeOK, LocalInv, BootInv, NEW t \in Tasks, ReadBody(t)
  PROVE  BootInv'
<1>1. PICK place \in {"loop", "digest"} :
        pc' = [pc EXCEPT ![t] = place] /\ pc'[t] = place
  BY DEF ReadBody, Goto, TypeOK
<1>2. /\ pc[t] = "loop"
      /\ table' = table /\ img' = img /\ hdr' = hdr /\ from' = from
      /\ wanted' = wanted /\ body' = body
      /\ partition_write_ota_farmware(t, top[t], hi'[t] - hi[t], hi[t] + 1)
      /\ top'[t] = top[t] + (hi'[t] - hi[t])
  BY DEF ReadBody, At, TypeOK, answer, parse, counts
<1>3. EraseLen(t)' = EraseLen(t) /\ EraseLen(t) \in Nat
  BY <1>2, ErasedIsEnough DEF EraseLen
<1>4. LoopRoom(t) \in Nat
  BY OtaAssumption, HttpAssumption DEF LoopRoom
<1>5. hi'[t] \in Nat /\ hi'[t] > hi[t] /\ hi[t] \in Nat
  BY <1>4, ReadsTypes DEF ReadBody, TypeOK
<1>6. /\ top[t] = hi[t] - hdr[t].end - PackHead /\ top[t] \in Nat
      /\ hdr[t].end \in Nat /\ PackHead \in Nat
  BY <1>2, WrittenLength, StreamFacts, OtaAssumption
     DEF LocalInv, Local, InStream, TypeOK
<1>7. Holds(t, top[t])
  BY <1>2 DEF BootInv, Flashed
<1>8. PICK a \in Nat, n \in Nat, p \in Int :
        a = top[t] /\ n = hi'[t] - hi[t] /\ p = hi[t] + 1
  BY <1>5, <1>6
\* What the next state knows of its place in the stream bounds the write.
<1>9. a + n <= EraseLen(t)
  <2>1. TypeOK' /\ LocalInv'
    BY ReadBodyLocal
  <2>2. /\ Local(t)' /\ pc'[t] \in {"loop", "digest"}
    BY <1>1, <2>1 DEF LocalInv
  <2>3. /\ hi'[t] <= End(t)' /\ body[t] = ContentLength(t)'
        /\ End(t)' = End(t) /\ ContentLength(t)' = ContentLength(t)
    BY <1>2, <2>2 DEF Local, InStream, Found, InBody, End, ContentLength
  <2>4. body[t] \in Nat /\ EraseLen(t) > body[t] /\ End(t) \in Nat
    BY ErasedIsEnough, StreamFacts DEF TypeOK
  <2> QED
    BY <1>3, <1>5, <1>6, <1>8, <2>3, <2>4 DEF ContentLength
<1>10. Holds(t, a + n)' /\ fwSize' = a + n
  <2>1. /\ partition_write_ota_farmware(t, a, n, p) /\ Holds(t, a)
        /\ p = a + 1 + hdr[t].end + PackHead
    BY <1>2, <1>5, <1>6, <1>7, <1>8
  <2> QED
    BY <1>2, <1>3, <1>9, <2>1, WriteHolds
<1>11. Flashed(t)'
  <2>1. a + n = top'[t]
    BY <1>2, <1>8
  <2> QED
    BY <1>1, <1>10, <2>1 DEF Flashed
<1>12. Asking(t)'
  BY <1>1, <1>2 DEF BootInv, Asking, InBody
<1> QED
  BY <1>1, <1>2, <1>11, <1>12, OthersEnded, OnlyTask DEF Ended

\* Behind the loop the flash and the place in the stream stay as they are.
LEMMA OnwardBoot ==
  ASSUME TypeOK, BootInv, NEW t \in Tasks,
         BodyEnds(t) \/ BodyFails(t) \/ Compare(t)
  PROVE  BootInv'
<1>1. /\ pc[t] \in {"loop", "digest"}
      /\ UNCHANGED <<static, hal, flash, job, answer, hi, parse, top, counts>>
  BY DEF BodyEnds, BodyFails, Compare, At
<1>2. PICK place \in {"digest", "cut", "boot", "mismatch"} :
        /\ pc' = [pc EXCEPT ![t] = place]
        /\ place = "boot" => Verified(t)
  BY DEF BodyEnds, BodyFails, Compare, AfterFailure, Goto
<1>3. pc'[t] = place
  BY <1>2 DEF TypeOK
<1>4. Asking(t) /\ Flashed(t)
  BY DEF BootInv
<1>5. Asking(t)'
  BY <1>1, <1>3, <1>4 DEF Asking, InBody, answer, counts
<1>6. /\ Holds(t, top[t])' = Holds(t, top[t]) /\ Verified(t)' = Verified(t)
      /\ fwSize' = fwSize /\ top' = top /\ table' = table
  BY <1>1 DEF Holds, EraseLen, Verified, End, hal, flash, answer, parse
<1>7. Flashed(t)'
  BY <1>1, <1>2, <1>3, <1>4, <1>6 DEF Flashed
<1> QED
  BY <1>1, <1>2, <1>5, <1>6, <1>7, OthersEnded, OnlyTask DEF Ended

\* The table is changed when all of the program is there.
LEMMA set_boot_partitionBoot ==
  ASSUME TypeOK, LocalInv, BootInv, NEW t \in Tasks, set_boot_partition(t)
  PROVE  /\ BootInv'
         /\ table.active # "new" /\ table'.active = "new"
         /\ wanted \in Good /\ Whole(wanted)'
<1>1. /\ pc[t] = "boot" /\ pc' = [pc EXCEPT ![t] = "reboot"] /\ pc'[t] = "reboot"
      /\ UNCHANGED <<static, hal, part, job, answer, hi, parse, top, counts>>
      /\ table' = [active |-> "new", len |-> fwSize]
  BY DEF set_boot_partition, At, Goto, TypeOK
<1>2. table.active # "new" /\ \A u \in Tasks : u # t => pc[u] \in Ended
  BY <1>1, OthersEnded DEF Ended
<1>3. Asking(t) /\ Flashed(t)
  BY DEF BootInv
<1>4. img[t] = wanted /\ Verified(t) /\ Holds(t, top[t]) /\ fwSize = top[t]
  BY <1>1, <1>3 DEF Asking, Flashed, InBody
<1>5. top[t] = ImageLen[wanted] /\ top[t] \in Nat /\ top[t] < EraseLen(t)
  <2>1. /\ top[t] = FirstLen(t) /\ FirstLen(t) = hi[t] - hdr[t].end - PackHead
        /\ FirstLen(t) < EraseLen(t)
        /\ End(t) = hdr[t].end + PackHead + ImageLen[img[t]]
    BY <1>1, WrittenLength DEF LocalInv, Local, InStream
  <2>2. /\ hdr[t].end \in Nat /\ PackHead \in Nat /\ hi[t] \in Nat
        /\ ImageLen[img[t]] \in Nat /\ top[t] \in Nat
    BY StreamFacts, OtaAssumption DEF TypeOK
  <2> QED
    BY <1>4, <2>1, <2>2 DEF Verified
<1>6. Whole(wanted)'
  <2>1. EraseLen(t) <= PartSize /\ EraseLen(t) \in Nat /\ PartSize \in Nat
    BY <1>4, ErasedIsEnough, OtaAssumption DEF Holds
  <2>2. table'.len = ImageLen[wanted] /\ wanted' = wanted /\ part' = part
    BY <1>1, <1>4, <1>5 DEF counts
  <2>3. ASSUME NEW c \in 0 .. ImageLen[wanted] - 1
        PROVE  c \in Cells /\ part'[c] = <<wanted, c + 1>>
    <3>1. c \in Cells /\ c < top[t]
      BY <1>5, <2>1 DEF Cells
    <3> QED
      BY <3>1, <1>4, <2>2 DEF Holds
  <2> QED
    BY <2>2, <2>3 DEF Whole
<1>7. Alone' /\ \A u \in Tasks : pc'[u] \in Ended \cup {"reboot"}
  BY <1>1, <1>2 DEF Alone, TypeOK
<1>8. Switched'
  BY <1>1, <1>4, <1>6, <1>7 DEF Switched, Verified, counts
<1>9. Asking(t)' /\ Flashed(t)'
  <2>1. Asking(t)'
    BY <1>1, <1>4 DEF Asking, InBody, answer, counts
  <2>2. /\ Holds(t, top[t])' = Holds(t, top[t]) /\ Verified(t)' = Verified(t)
        /\ fwSize' = fwSize /\ top' = top
    BY <1>1 DEF Holds, EraseLen, Verified, End, hal, answer, parse
  <2> QED
    BY <1>1, <1>4, <2>1, <2>2 DEF Flashed
<1>10. ASSUME NEW u \in Tasks, u # t PROVE Asking(u)' /\ Flashed(u)'
  <2>1. pc'[u] \in Ended
    BY <1>1, <1>2, <1>10 DEF TypeOK
  <2> QED
    BY <2>1 DEF Asking, Flashed, Ended, InBody
<1>11. BootInv'
  BY <1>7, <1>8, <1>9, <1>10 DEF BootInv
<1> QED
  BY <1>1, <1>2, <1>4, <1>6, <1>11 DEF Verified

-----------------------------------------------------------------------------
LEMMA NextBootInv ==
  ASSUME OneAtATime, ~FlashFails, TypeOK, LocalInv, BootInv, [Next]_vars
  PROVE  BootInv'
<1>1. ASSUME NEW t \in Tasks, Answers(t) PROVE BootInv'
  BY <1>1, connect_serverBoot, HeaderBoot, ReadBodyBoot, OnwardBoot DEF Answers
<1>2. ASSUME NEW t \in Tasks, Mishap(t) PROVE BootInv'
  BY <1>2, HeaderBoot, OnwardBoot DEF Mishap
<1>3. ASSUME NEW t \in Tasks, Work(t) PROVE BootInv'
  BY <1>3, _ota_taskBoot, HeaderBoot, partition_eraseBoot, FirstWriteBoot,
     OnwardBoot, set_boot_partitionBoot, RestartBoot DEF Work, set_reboot
<1> QED
  BY <1>1, <1>2, <1>3, RequestBoot, UserRefusedBoot, RestartBoot, StutterBoot
     DEF Next, PowerFails

\* A step that leaves the table, and the partition if the table names it.
LEMMA BootUnchanged ==
  ASSUME table' = table, table.active = "old" \/ part' = part
  PROVE  NextBoot' = NextBoot
  BY DEF NextBoot, Whole

\* Every step is one of OtaBoot or stutters.
LEMMA BootStep ==
  ASSUME OneAtATime, ~FlashFails, TypeOK, LocalInv, BootInv, BootInv', TypeOK',
         [Next]_vars
  PROVE  [Boot!Next]_<<NextBoot, wanted>>
<1>1. table.active \in {"old", "new"}
  BY DEF TypeOK
<1>2. ASSUME NEW t \in Tasks, Request(t) PROVE Boot!Next
  <2>1. PICK v \in Images : Accept(t, v)
    BY <1>2, OtaAssumption DEF Request, axk_hal_ota_update, axk_hal_user_ota_update
  <2>2. table' = table /\ part' = part /\ wanted' \in Images
    BY <2>1 DEF Accept, flash
  <2> QED
    BY <2>2, BootUnchanged DEF Boot!Next, Boot!Ask
<1>3. ASSUME NEW t \in Tasks, set_boot_partition(t) PROVE Boot!Next
  <2>1. /\ table.active = "old" /\ table'.active = "new"
        /\ wanted \in Good /\ Whole(wanted)' /\ wanted' = wanted
    BY <1>1, <1>3, set_boot_partitionBoot DEF set_boot_partition, counts
  <2>2. NextBoot = "old"
    BY <2>1 DEF NextBoot
  <2>3. PICK v \in Images : v = wanted
    BY <2>1, OtaAssumption
  <2>4. NextBoot' = v
    \* No two programs are whole in the partition.
    <3>1. Whole(v)' /\ \A w \in Images : Whole(w)' => w = v
      <4>1. Whole(v)'
        BY <2>1, <2>3 DEF Whole
      <4>2. ASSUME NEW w \in Images, Whole(w)' PROVE w = v
        <5>1. 0 \in 0 .. ImageLen[v] - 1 /\ 0 \in 0 .. ImageLen[w] - 1
          BY OtaAssumption
        <5>2. part'[0] = <<v, 0 + 1>> /\ part'[0] = <<w, 0 + 1>>
          BY <5>1, <4>1, <4>2 DEF Whole
        <5> QED
          BY <5>2
      <4> QED
        BY <4>1, <4>2
    <3>2. (CHOOSE w \in Images : Whole(w)') = v
      BY <3>1
    <3> QED
      BY <2>1, <3>1, <3>2 DEF NextBoot
  <2> QED
    BY <2>1, <2>2, <2>3, <2>4 DEF Boot!Next, Boot!Switch
<1>4. ASSUME NEW t \in Tasks,
             partition_erase(t) \/ FirstWrite(t) \/ ReadBody(t)
      PROVE  UNCHANGED <<NextBoot, wanted>>
  <2>1. pc[t] \in {"head", "erased", "loop"} /\ table' = table /\ wanted' = wanted
    BY <1>4 DEF partition_erase, FirstWrite, ReadBody, At, counts
  <2>2. table.active = "old"
    BY <1>1, <2>1, OthersEnded DEF Ended
  <2> QED
    BY <2>1, <2>2, BootUnchanged
<1>5. ASSUME table' = table, part' = part, wanted' = wanted
      PROVE  UNCHANGED <<NextBoot, wanted>>
  BY <1>5, BootUnchanged
<1>6. ASSUME NEW t \in Tasks, Answers(t) \/ Mishap(t) \/ Work(t)
      PROVE  \/ partition_erase(t) \/ FirstWrite(t) \/ ReadBody(t)
             \/ set_boot_partition(t)
             \/ UNCHANGED <<table, part, wanted>>
  BY <1>6 DEF Answers, Mishap, Work, _ota_task, connect_server, ConnectFails,
     ReadHeader, ReadFalseEnd, HeaderCut, FirstBody, FirstBodyEnds, HeadCutShort,
     EraseRefused, BodyEnds, BodyFails, Compare, set_reboot, Restart, flash, counts
<1>7. UserRefused \/ PowerFails \/ UNCHANGED vars => UNCHANGED <<table, part, wanted>>
  BY DEF UserRefused, PowerFails, Restart, vars, flash, counts
<1> QED
  BY <1>2, <1>3, <1>4, <1>5, <1>6, <1>7 DEF Next

(***************************************************************************)
(* One update at a time on a flash that takes what is written: the next    *)
(* start of the module always finds the old program or the whole of the    *)
(* one asked for, with the digest of its head, wherever the reads cut the  *)
(* answer, the connection ends or the supply fails.                        *)
(***************************************************************************)
THEOREM UpdateIsAllOrNothing ==
  ASSUME OneAtATime, ~FlashFails PROVE Spec => BootSpec
<1>1. Init => BootInv /\ Boot!Init
  <2>1. Init => table.active = "old" /\ wanted = "none"
    BY DEF Init
  <2> QED
    BY <2>1, InitBoot DEF NextBoot, Boot!Init
<1>2. /\ TypeOK /\ LocalInv /\ (TypeOK /\ LocalInv)' /\ BootInv /\ [Next]_vars
      => BootInv'
  BY NextBootInv
<1>3. /\ TypeOK /\ LocalInv /\ (TypeOK /\ LocalInv)' /\ BootInv /\ BootInv' /\ [Next]_vars
      => [Boot!Next]_<<NextBoot, wanted>>
  BY BootStep
<1> QED
  BY <1>1, <1>2, <1>3, OtaTypes, PTL DEF Spec, BootSpec, Boot!Spec
=============================================================================
