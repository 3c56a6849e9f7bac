--------------------------- MODULE UartRecvProofs ---------------------------
(***************************************************************************)
(* Proofs about UartRecv, for every buffer size, timeout, set of frame     *)
(* lengths and pace that satisfy the assumptions of that module.           *)
(***************************************************************************)
EXTENDS UartRecv, TLAPS

got == Len(consumed)

(***************************************************************************)
(* The n bytes of the stream that are received and not yet parsed lie in   *)
(* buffer b, from position from on.                                        *)
(***************************************************************************)
Holds(b, from, n) ==
  /\ n = sent - got
  /\ from + n <= BufSize
  /\ \A i \in from .. from + n - 1 : buf[b][i] = got + 1 + (i - from)

NoEvent == ~isrEvent /\ ~cmdBit

(***************************************************************************)
(* Between two handovers the unparsed bytes are those in the buffer the    *)
(* interrupt fills.                                                        *)
(***************************************************************************)
Receiving ==
  (cpc = "wait" /\ ~cmdReady /\ tpc \notin HandoverPcs)
    \/ (cpc = "loop" /\ arg.pos >= arg.len) \/ cpc = "clear"
ReceivingInv ==
  Receiving =>
    /\ NoEvent
    /\ bufRecv \in Bufs
    /\ curIndex + left <= BufSize
    /\ Holds(bufRecv, 0, curIndex)
    /\ cpc \in {"loop", "clear"} => tpc \notin HandoverPcs

(***************************************************************************)
(* The polling task hands over while the host waits and the command task   *)
(* is blocked.                                                             *)
(***************************************************************************)
HandoverInv ==
  tpc \in HandoverPcs =>
    /\ host = "waiting" /\ cpc = "wait" /\ NoEvent
    /\ tpc # "signal" => curIndex > 0
    /\ tpc = "proc" => ~cmdReady /\ bufRecv \in Bufs /\ Holds(bufRecv, 0, curIndex)
    /\ tpc # "proc" => cmdReady
    /\ tpc = "flip" => bufRecv = bufProc /\ Holds(bufProc, 0, curIndex)
    /\ tpc = "wrap" => bufRecv = bufProc + 1 /\ Holds(bufProc, 0, curIndex)
    /\ tpc = "len" => bufRecv = 1 - bufProc /\ Holds(bufProc, 0, curIndex)
    /\ tpc = "clear" => bufRecv = 1 - bufProc /\ Holds(bufProc, 0, curIndex) /\ bufLen = curIndex
    /\ tpc = "signal" => bufRecv = 1 - bufProc /\ Holds(bufProc, 0, bufLen) /\ curIndex = 0

(***************************************************************************)
(* After a handover exactly one of the interrupt's request, the event bit  *)
(* and the command task carries it.                                        *)
(***************************************************************************)
HandedOver ==
  (cpc = "wait" /\ cmdReady /\ tpc \notin HandoverPcs) \/ cpc \in {"ready", "len"}
HandedOverInv ==
  HandedOver =>
    /\ host = "waiting" /\ curIndex = 0 /\ cmdReady
    /\ bufRecv = 1 - bufProc
    /\ Holds(bufProc, 0, bufLen)
    /\ tpc \notin HandoverPcs
    /\ cpc = "wait" => (isrEvent /\ ~cmdBit) \/ (~isrEvent /\ cmdBit)
    /\ cpc # "wait" => NoEvent
    /\ cpc = "len" => arg.buf = bufProc

(***************************************************************************)
(* While CmdProcess parses, the unparsed bytes are those from its position *)
(* on, and the interrupt has nothing to store.                             *)
(***************************************************************************)
ParsingInv ==
  cpc = "loop" /\ arg.pos < arg.len =>
    /\ host = "waiting" /\ curIndex = 0 /\ NoEvent
    /\ Holds(arg.buf, arg.pos, arg.len - arg.pos)
    /\ bufRecv \in Bufs
    /\ tpc \notin HandoverPcs
ExecutingInv ==
  cpc \in {"exec", "sleep", "ack"} =>
    /\ host = "waiting" /\ curIndex = 0 /\ NoEvent
    /\ arg.pos = arg.len /\ got = sent
    /\ bufRecv \in Bufs
    /\ tpc \notin HandoverPcs

(***************************************************************************)
(* The idle counter never times out in the middle of a command.            *)
(***************************************************************************)
IdleInv ==
  /\ polls <= FramePolls
  /\ host = "sending" /\ curIndex = 0 => tpc = "poll"
  /\ host = "sending" /\ curIndex > 0 =>
       idleCnt <= polls /\ (tpc = "store" => idleTmp + 1 <= polls)
  /\ curIndex = 0 /\ tpc = "store" => idleTmp + 1 <= FramePolls
  /\ curIndex = 0 /\ tpc = "test" => idleCnt <= FramePolls
  /\ tpc = "poll" => idleCnt < CmdRecvTimeout
  /\ tpc = "store" => idleTmp < CmdRecvTimeout
  /\ tpc = "test" => idleCnt <= CmdRecvTimeout
QuietInv ==
  /\ tpc \in {"poll", "test"} => quiet <= idleCnt
  /\ tpc = "store" => quiet <= idleTmp + 1
  /\ quiet <= CmdRecvTimeout
  /\ curIndex = 0 => quiet = 0

HostInv ==
  /\ host = "sending" <=> left > 0
  /\ host = "idle" => curIndex = 0

IInv ==
  /\ TypeOK
  /\ InOrder
  /\ NoTornRead
  /\ HostInv
  /\ ReceivingInv
  /\ HandoverInv
  /\ HandedOverInv
  /\ ParsingInv
  /\ ExecutingInv
  /\ IdleInv
  /\ QuietInv
-----------------------------------------------------------------------------
(***************************************************************************)
(* Facts about the operators of the model that need no invariant.          *)
(***************************************************************************)

\* What the interrupt leaves in a buffer is again a buffer.
LEMMA StoredType ==
  ASSUME NEW cells \in [Cells -> Nat], NEW cnt \in Nat,
         sent \in Nat, curIndex \in Nat, BufSize \in Nat
  PROVE  Stored(cells, cnt) \in [Cells -> Nat]
<1>1. ASSUME NEW i \in Cells
      PROVE  (IF i \in curIndex .. curIndex + cnt - 1
              THEN sent + 1 + (i - curIndex) ELSE cells[i]) \in Nat
  BY DEF Cells
<1> QED
  BY <1>1 DEF Stored

\* One step of the byte loop advances the position and nothing else.
LEMMA ArgStep ==
  ASSUME NEW a \in [buf : Bufs, len : Nat, pos : Nat],
         NEW b, b = [a EXCEPT !.pos = @ + 1]
  PROVE  /\ b \in [buf : Bufs, len : Nat, pos : Nat]
         /\ b.buf = a.buf /\ b.len = a.len /\ b.pos = a.pos + 1
  OBVIOUS

\* The bytes behind the parsed one are still the next ones of the stream.
LEMMA HoldsAdvances ==
  ASSUME arg \in [buf : Bufs, len : Nat, pos : Nat], sent \in Nat, BufSize \in Nat,
         got \in Nat, arg.pos < arg.len, Holds(arg.buf, arg.pos, arg.len - arg.pos),
         arg'.buf = arg.buf, arg'.len = arg.len, arg'.pos = arg.pos + 1,
         buf' = buf, sent' = sent, got' = got + 1
  PROVE  Holds(arg.buf, arg.pos, arg.len - arg.pos)'
<1>1. /\ arg'.len - arg'.pos = sent' - got'
      /\ arg'.pos + (arg'.len - arg'.pos) <= BufSize
  BY DEF Holds
<1>2. ASSUME NEW i \in arg'.pos .. arg'.pos + (arg'.len - arg'.pos) - 1
      PROVE  buf'[arg'.buf][i] = got' + 1 + (i - arg'.pos)
  <2>1. i \in arg.pos .. arg.pos + (arg.len - arg.pos) - 1
    OBVIOUS
  <2>2. buf[arg.buf][i] = got + 1 + (i - arg.pos)
    BY <2>1 DEF Holds
  <2> QED
    BY <2>2
<1> QED
  BY <1>1, <1>2 DEF Holds

\* A buffer can only be filled to the brim by the last byte of a command.
LEMMA FullBuffer ==
  ASSUME NEW c \in Nat, NEW n \in Nat, NEW l \in Nat, NEW size \in Nat,
         n <= l, c + l <= size, c + n >= size
  PROVE  n = l /\ c + n = size
  OBVIOUS

\* A range that is not empty contains its first element.
LEMMA RangeStart ==
  ASSUME NEW p \in Nat, NEW l \in Nat, p < l
  PROVE  p \in p .. p + (l - p) - 1
  OBVIOUS

\* The parser reaches the end of the buffer with the last byte of the stream.
LEMMA EndOfStream ==
  ASSUME NEW len \in Nat, NEW pos \in Nat, NEW total \in Nat, NEW parsed \in Nat,
         pos < len, total - parsed = len - pos
  PROVE  /\ pos + 1 >= len => pos + 1 = len /\ parsed + 1 = total
         /\ parsed + 1 = total => pos + 1 = len
  OBVIOUS

USE SizesAssumption, FramesAssumption, PaceAssumption
USE DEF IInv, TypeOK, InOrder, NoTornRead, HostInv, ReceivingInv, HandoverInv,
        HandedOverInv, ParsingInv, ExecutingInv, IdleInv, QuietInv,
        TpcValues, HandoverPcs, CpcValues, Bufs, Cells, Holds, got, NoEvent,
        Receiving, HandedOver, recvVars, evtVars, pollVars, cmdVars, hostVars,
        timeVars, PollMayRun, CmdMayRun, CmdBlocked, DaemonReady

(***************************************************************************)
(* The stream position of the byte CmdProcess looks at is the next one due.*)
(***************************************************************************)
LEMMA NextByteInOrder ==
  ASSUME IInv, cpc = "loop", arg.pos < arg.len
  PROVE  buf[arg.buf][arg.pos] = Len(consumed) + 1
<1>1. Holds(arg.buf, arg.pos, arg.len - arg.pos)
  OBVIOUS
<1>2. arg.pos \in arg.pos .. arg.pos + (arg.len - arg.pos) - 1
  <2>1. arg.pos \in Nat /\ arg.len \in Nat /\ arg.pos < arg.len
    OBVIOUS
  <2> QED
    BY <2>1, RangeStart
<1>3. buf[arg.buf][arg.pos] = got + 1 + (arg.pos - arg.pos)
  BY <1>1, <1>2, Zenon DEF Holds
<1> QED
  BY <1>3

\* The host begins a command.
LEMMA HostStartKeeps ==
  ASSUME IInv, NEW len \in FrameLens, HostStart(len)
  PROVE  IInv'
<1>1. TypeOK' /\ InOrder' /\ NoTornRead' /\ HostInv'
  BY DEF HostStart
<1>2. ReceivingInv' /\ HandoverInv' /\ HandedOverInv'
  BY DEF HostStart
<1>3. ParsingInv' /\ ExecutingInv'
  BY DEF HostStart
<1>4. IdleInv' /\ QuietInv'
  BY DEF HostStart
<1> QED
  BY <1>1, <1>2, <1>3, <1>4

\* The host gives up.
LEMMA HostTimeoutKeeps ==
  ASSUME IInv, HostTimeout
  PROVE  IInv'
<1>1. TypeOK' /\ InOrder' /\ NoTornRead' /\ HostInv'
  BY DEF HostTimeout
<1>2. ReceivingInv' /\ HandoverInv' /\ HandedOverInv'
  BY DEF HostTimeout
<1>3. ParsingInv' /\ ExecutingInv'
  BY DEF HostTimeout
<1>4. IdleInv' /\ QuietInv'
  BY DEF HostTimeout
<1> QED
  BY <1>1, <1>2, <1>3, <1>4

\* The timer daemon sets the event bit.
LEMMA DaemonSetBitKeeps ==
  ASSUME IInv, DaemonSetBit
  PROVE  IInv'
<1>1. TypeOK' /\ InOrder' /\ NoTornRead' /\ HostInv'
  BY DEF DaemonSetBit
<1>2. ReceivingInv' /\ HandoverInv' /\ HandedOverInv'
  BY DEF DaemonSetBit
<1>3. ParsingInv' /\ ExecutingInv'
  BY DEF DaemonSetBit
<1>4. IdleInv' /\ QuietInv'
  BY DEF DaemonSetBit
<1> QED
  BY <1>1, <1>2, <1>3, <1>4

\* The polling task: idleCnt is stored.
LEMMA PollStoreKeeps ==
  ASSUME IInv, PollStore
  PROVE  IInv'
<1>5. TypeOK'
  <2>1. idleCnt' \in Nat /\ tpc' \in TpcValues
    BY DEF PollStore
  <2>2. UNCHANGED <<buf, bufRecv, bufProc, bufLen, curIndex, cmdReady, idleTmp,
                    evtVars, cmdVars, hostVars, timeVars>>
    BY DEF PollStore
  <2> QED
    BY <2>1, <2>2
<1>1. InOrder' /\ NoTornRead' /\ HostInv'
  BY DEF PollStore
<1>2. ReceivingInv' /\ HandoverInv' /\ HandedOverInv'
  BY DEF PollStore
<1>3. ParsingInv' /\ ExecutingInv'
  BY DEF PollStore
<1>4. IdleInv' /\ QuietInv'
  BY DEF PollStore
<1> QED
  BY <1>1, <1>2, <1>3, <1>4, <1>5

\* The polling task: idleCnt is compared.
LEMMA PollTestKeeps ==
  ASSUME IInv, PollTest
  PROVE  IInv'
<1>1. TypeOK' /\ InOrder' /\ NoTornRead' /\ HostInv'
  BY DEF PollTest, TimedOut
<1>2. ReceivingInv' /\ HandoverInv' /\ HandedOverInv'
  BY DEF PollTest, TimedOut
<1>3. ParsingInv' /\ ExecutingInv'
  BY DEF PollTest, TimedOut
<1>4. IdleInv' /\ QuietInv'
  BY DEF PollTest, TimedOut
<1> QED
  BY <1>1, <1>2, <1>3, <1>4

\* The polling task: the buffer is published.
LEMMA PollProcKeeps ==
  ASSUME IInv, PollProc
  PROVE  IInv'
<1>1. TypeOK' /\ InOrder' /\ NoTornRead' /\ HostInv'
  BY DEF PollProc
<1>2. ReceivingInv' /\ HandoverInv' /\ HandedOverInv'
  BY DEF PollProc
<1>3. ParsingInv' /\ ExecutingInv'
  BY DEF PollProc
<1>4. IdleInv' /\ QuietInv'
  BY DEF PollProc
<1> QED
  BY <1>1, <1>2, <1>3, <1>4

\* The polling task: bufRecv is incremented.
LEMMA PollFlipKeeps ==
  ASSUME IInv, PollFlip
  PROVE  IInv'
<1>5. TypeOK'
  <2>1. bufRecv' \in 0 .. 2 /\ tpc' \in TpcValues
    BY DEF PollFlip
  <2>2. UNCHANGED <<buf, bufProc, bufLen, curIndex, cmdReady, idleCnt, idleTmp,
                    evtVars, cmdVars, hostVars, timeVars>>
    BY DEF PollFlip
  <2> QED
    BY <2>1, <2>2
<1>1. InOrder' /\ NoTornRead' /\ HostInv'
  BY DEF PollFlip
<1>2. ReceivingInv' /\ HandoverInv' /\ HandedOverInv'
  BY DEF PollFlip
<1>3. ParsingInv' /\ ExecutingInv'
  BY DEF PollFlip
<1>4. IdleInv' /\ QuietInv'
  BY DEF PollFlip
<1> QED
  BY <1>1, <1>2, <1>3, <1>4, <1>5

\* The polling task: bufLen is published.
LEMMA PollLenKeeps ==
  ASSUME IInv, PollLen
  PROVE  IInv'
<1>1. TypeOK' /\ InOrder' /\ NoTornRead' /\ HostInv'
  BY DEF PollLen, HandedLen
<1>2. ReceivingInv' /\ HandoverInv' /\ HandedOverInv'
  BY DEF PollLen, HandedLen
<1>3. ParsingInv' /\ ExecutingInv'
  BY DEF PollLen, HandedLen
<1>4. IdleInv' /\ QuietInv'
  BY DEF PollLen, HandedLen
<1> QED
  BY <1>1, <1>2, <1>3, <1>4

\* The polling task: curIndex is reset.
LEMMA PollClearKeeps ==
  ASSUME IInv, PollClear
  PROVE  IInv'
<1>1. TypeOK' /\ InOrder' /\ NoTornRead' /\ HostInv'
  BY DEF PollClear, CurIndexCleared
<1>2. ReceivingInv' /\ HandoverInv' /\ HandedOverInv'
  BY DEF PollClear, CurIndexCleared
<1>3. ParsingInv' /\ ExecutingInv'
  BY DEF PollClear, CurIndexCleared
<1>4. IdleInv' /\ QuietInv'
  BY DEF PollClear, CurIndexCleared
<1> QED
  BY <1>1, <1>2, <1>3, <1>4

\* The polling task: the event bit is set.
LEMMA PollSignalKeeps ==
  ASSUME IInv, PollSignal
  PROVE  IInv'
<1>1. TypeOK' /\ InOrder' /\ NoTornRead' /\ HostInv'
  BY DEF PollSignal, Signal
<1>2. ReceivingInv' /\ HandoverInv' /\ HandedOverInv'
  BY DEF PollSignal, Signal
<1>3. ParsingInv' /\ ExecutingInv'
  BY DEF PollSignal, Signal
<1>4. IdleInv' /\ QuietInv'
  BY DEF PollSignal, Signal
<1> QED
  BY <1>1, <1>2, <1>3, <1>4

\* The command task takes the event bit.
LEMMA CmdWakeKeeps ==
  ASSUME IInv, CmdWake
  PROVE  IInv'
<1>1. TypeOK' /\ InOrder' /\ NoTornRead' /\ HostInv'
  BY DEF CmdWake
<1>2. ReceivingInv' /\ HandoverInv' /\ HandedOverInv'
  BY DEF CmdWake
<1>3. ParsingInv' /\ ExecutingInv'
  BY DEF CmdWake
<1>4. IdleInv' /\ QuietInv'
  BY DEF CmdWake
<1> QED
  BY <1>1, <1>2, <1>3, <1>4

\* The command task tests cmdReady.
LEMMA CmdReadyKeeps ==
  ASSUME IInv, CmdReady
  PROVE  IInv'
<1>1. TypeOK' /\ InOrder' /\ NoTornRead' /\ HostInv'
  BY DEF CmdReady
<1>2. ReceivingInv' /\ HandoverInv' /\ HandedOverInv'
  BY DEF CmdReady
<1>3. ParsingInv' /\ ExecutingInv'
  BY DEF CmdReady
<1>4. IdleInv' /\ QuietInv'
  BY DEF CmdReady
<1> QED
  BY <1>1, <1>2, <1>3, <1>4

\* The command task executes the command.
LEMMA CmdExecuteKeeps ==
  ASSUME IInv, CmdExecute
  PROVE  IInv'
<1>1. TypeOK' /\ InOrder' /\ NoTornRead' /\ HostInv'
  BY DEF CmdExecute
<1>2. ReceivingInv' /\ HandoverInv' /\ HandedOverInv'
  BY DEF CmdExecute
<1>3. ParsingInv' /\ ExecutingInv'
  BY DEF CmdExecute
<1>4. IdleInv' /\ QuietInv'
  BY DEF CmdExecute
<1> QED
  BY <1>1, <1>2, <1>3, <1>4

\* The command task returns from the delay.
LEMMA CmdSleepEndsKeeps ==
  ASSUME IInv, CmdSleepEnds
  PROVE  IInv'
<1>1. TypeOK' /\ InOrder' /\ NoTornRead' /\ HostInv'
  BY DEF CmdSleepEnds
<1>2. ReceivingInv' /\ HandoverInv' /\ HandedOverInv'
  BY DEF CmdSleepEnds
<1>3. ParsingInv' /\ ExecutingInv'
  BY DEF CmdSleepEnds
<1>4. IdleInv' /\ QuietInv'
  BY DEF CmdSleepEnds
<1> QED
  BY <1>1, <1>2, <1>3, <1>4

\* The command task sends the acknowledgement.
LEMMA CmdAckSentKeeps ==
  ASSUME IInv, CmdAckSent
  PROVE  IInv'
<1>1. TypeOK' /\ InOrder' /\ NoTornRead' /\ HostInv'
  BY DEF CmdAckSent
<1>2. ReceivingInv' /\ HandoverInv' /\ HandedOverInv'
  BY DEF CmdAckSent
<1>3. ParsingInv' /\ ExecutingInv'
  BY DEF CmdAckSent
<1>4. IdleInv' /\ QuietInv'
  BY DEF CmdAckSent
<1> QED
  BY <1>1, <1>2, <1>3, <1>4

\* The command task leaves the byte loop.
LEMMA CmdReturnKeeps ==
  ASSUME IInv, CmdReturn
  PROVE  IInv'
<1>1. TypeOK' /\ InOrder' /\ NoTornRead' /\ HostInv'
  BY DEF CmdReturn
<1>2. ReceivingInv' /\ HandoverInv' /\ HandedOverInv'
  BY DEF CmdReturn
<1>3. ParsingInv' /\ ExecutingInv'
  BY DEF CmdReturn
<1>4. IdleInv' /\ QuietInv'
  BY DEF CmdReturn
<1> QED
  BY <1>1, <1>2, <1>3, <1>4

\* The command task clears cmdReady.
LEMMA CmdClearKeeps ==
  ASSUME IInv, CmdClear
  PROVE  IInv'
<1>1. TypeOK' /\ InOrder' /\ NoTornRead' /\ HostInv'
  BY DEF CmdClear
<1>2. ReceivingInv' /\ HandoverInv' /\ HandedOverInv'
  BY DEF CmdClear
<1>3. ParsingInv' /\ ExecutingInv'
  BY DEF CmdClear
<1>4. IdleInv' /\ QuietInv'
  BY DEF CmdClear
<1> QED
  BY <1>1, <1>2, <1>3, <1>4

\* The polling task begins a pass.
LEMMA PollKeeps ==
  ASSUME IInv, Poll
  PROVE  IInv'
<1>1. InOrder' /\ NoTornRead' /\ HostInv' /\ UNCHANGED <<recvVars, evtVars, cmdVars, hostVars>>
  BY DEF Poll
<1>2. ReceivingInv' /\ HandoverInv' /\ HandedOverInv'
  BY DEF Poll
<1>3. ParsingInv' /\ ExecutingInv'
  BY DEF Poll
<1>8. /\ tpc = "poll" /\ curIndex' = curIndex /\ idleCnt' = idleCnt
      /\ host' = host /\ left' = left
  BY DEF Poll
<1>9. polls' \in Nat /\ polls' <= FramePolls
  <2>1. polls \in Nat /\ FramePolls \in Nat /\ polls <= FramePolls
    OBVIOUS
  <2> QED
    BY <2>1 DEF Poll
<1>10. \/ tpc' = "store" /\ idleTmp' = idleCnt /\ quiet' = quiet + 1 /\ curIndex > 0
       \/ tpc' = "poll" /\ idleTmp' = idleTmp /\ quiet' = quiet
  BY <1>8 DEF Poll
<1>6. tpc' \in TpcValues /\ idleTmp' \in Nat /\ quiet' \in Nat /\ polls' \in Nat
  <2>1. idleCnt \in Nat /\ idleTmp \in Nat /\ quiet \in Nat
    OBVIOUS
  <2> QED
    BY ONLY <1>9, <1>10, <2>1 DEF TpcValues
<1>7. TypeOK'
  BY <1>1, <1>6
<1>11. host' = "sending" => polls' = polls + 1 /\ (curIndex > 0 => idleCnt <= polls)
  BY <1>8 DEF Poll
<1>4. IdleInv'
  <2>1. polls \in Nat /\ idleCnt \in Nat /\ idleCnt < CmdRecvTimeout
    BY <1>8
  <2>2. host' = "sending" /\ curIndex' = 0 => tpc' = "poll"
    BY <1>8, <1>10
  <2>3. host' = "sending" /\ curIndex' > 0 =>
          idleCnt' <= polls' /\ (tpc' = "store" => idleTmp' + 1 <= polls')
    BY <1>8, <1>10, <1>11, <2>1
  <2>4. curIndex' = 0 => tpc' = "poll"
    BY <1>8, <1>10
  <2>5. /\ tpc' \in {"poll", "store"}
        /\ tpc' = "poll" => idleCnt' < CmdRecvTimeout
        /\ tpc' = "store" => idleTmp' < CmdRecvTimeout
    BY <1>8, <1>10, <2>1
  <2> QED
    BY <1>9, <2>2, <2>3, <2>4, <2>5
<1>5. QuietInv'
  <2>1. CASE curIndex > 0
    <3>1. tpc' = "store" /\ idleTmp' = idleCnt /\ quiet' = quiet + 1 /\ curIndex' = curIndex
      BY <2>1 DEF Poll
    <3>2. quiet <= idleCnt /\ idleCnt < CmdRecvTimeout
      BY DEF Poll
    <3> QED
      BY <2>1, <3>1, <3>2
  <2>2. CASE ~(curIndex > 0)
    BY <2>2 DEF Poll
  <2> QED
    BY <2>1, <2>2
<1> QED
  BY <1>1, <1>2, <1>3, <1>4, <1>5, <1>7

\* The polling task: bufRecv is reduced modulo BUF_MAX.
LEMMA PollWrapKeeps ==
  ASSUME IInv, PollWrap
  PROVE  IInv'
<1>1. bufRecv = bufProc + 1 /\ tpc = "wrap"
  BY DEF PollWrap
<1>2. bufRecv' = 1 - bufProc
  <2>1. CASE bufProc = 0
    BY <1>1, <2>1 DEF PollWrap, Wrapped
  <2>2. CASE bufProc = 1
    BY <1>1, <2>2 DEF PollWrap, Wrapped
  <2> QED
    BY <2>1, <2>2
<1>3. /\ host = "waiting" /\ cpc = "wait" /\ NoEvent
      /\ curIndex > 0 /\ cmdReady /\ Holds(bufProc, 0, curIndex)
  BY <1>1
<1>4. /\ tpc' = "len"
      /\ UNCHANGED <<buf, bufProc, bufLen, curIndex, cmdReady, idleCnt, idleTmp,
                     evtVars, cmdVars, hostVars, timeVars>>
  BY DEF PollWrap
<1>5. TypeOK' /\ InOrder' /\ NoTornRead' /\ HostInv'
  BY <1>2, <1>3, <1>4
<1>6. ReceivingInv' /\ HandedOverInv'
  BY <1>2, <1>3, <1>4
<1>7. HandoverInv'
  BY <1>2, <1>3, <1>4
<1>8. ParsingInv' /\ ExecutingInv' /\ IdleInv' /\ QuietInv'
  BY <1>2, <1>3, <1>4
<1> QED
  BY <1>5, <1>6, <1>7, <1>8

\* The command task reads the length that goes with the buffer.
LEMMA CmdLenKeeps ==
  ASSUME IInv, CmdLen
  PROVE  IInv'
<1>1. /\ host = "waiting" /\ curIndex = 0 /\ cmdReady /\ bufRecv = 1 - bufProc
      /\ Holds(bufProc, 0, bufLen) /\ tpc \notin HandoverPcs
      /\ NoEvent /\ arg.buf = bufProc
  BY DEF CmdLen
<1>2. /\ cpc' = "loop" /\ arg'.buf = bufProc /\ arg'.len = bufLen /\ arg'.pos = 0
      /\ arg' \in [buf : Bufs, len : Nat, pos : Nat]
      /\ UNCHANGED <<recvVars, evtVars, pollVars, consumed, hostVars, timeVars>>
  BY <1>1 DEF CmdLen
<1>3. InOrder' /\ NoTornRead' /\ HostInv'
  BY <1>1, <1>2
<1>8. TypeOK'
  BY <1>2
<1>4. ReceivingInv'
  BY <1>1, <1>2
<1>5. HandoverInv' /\ HandedOverInv'
  BY <1>1, <1>2
<1>6. ParsingInv'
  <2>1. Holds(arg.buf, arg.pos, arg.len - arg.pos)'
    BY <1>1, <1>2
  <2> QED
    BY <1>1, <1>2, <2>1 DEF ParsingInv
<1>7. ExecutingInv' /\ IdleInv' /\ QuietInv'
  BY <1>1, <1>2
<1> QED
  BY <1>3, <1>4, <1>5, <1>6, <1>7, <1>8

\* The command task parses one byte.
LEMMA CmdByteKeeps ==
  ASSUME IInv, CmdByte
  PROVE  IInv'
<1>1. buf[arg.buf][arg.pos] = Len(consumed) + 1
  BY NextByteInOrder DEF CmdByte
<1>2. /\ host = "waiting" /\ curIndex = 0 /\ NoEvent /\ tpc \notin HandoverPcs
      /\ Holds(arg.buf, arg.pos, arg.len - arg.pos) /\ cpc = "loop" /\ arg.pos < arg.len
      /\ arg.buf # bufRecv
  BY DEF CmdByte
<1>3. consumed' = Append(consumed, Len(consumed) + 1)
  BY <1>1 DEF CmdByte
<1>4. consumed' \in Seq(Nat) /\ Len(consumed') = Len(consumed) + 1
  BY <1>3
<1>5. InOrder'
  <2>1. ASSUME NEW i \in 1 .. Len(consumed')
        PROVE  consumed'[i] = i
    <3>1. CASE i <= Len(consumed)
      BY <1>3, <3>1
    <3>2. CASE i = Len(consumed) + 1
      BY <1>3, <3>2
    <3> QED
      BY <1>4, <3>1, <3>2
  <2> QED
    BY <2>1
<1>6. /\ arg'.buf = arg.buf /\ arg'.len = arg.len /\ arg'.pos = arg.pos + 1
      /\ arg' \in [buf : Bufs, len : Nat, pos : Nat]
      /\ UNCHANGED <<recvVars, evtVars, pollVars, hostVars, timeVars>>
  <2>1. arg' = [arg EXCEPT !.pos = @ + 1]
    BY DEF CmdByte
  <2>2. arg \in [buf : Bufs, len : Nat, pos : Nat]
    OBVIOUS
  <2>3. UNCHANGED <<recvVars, evtVars, pollVars, hostVars, timeVars>>
    BY DEF CmdByte
  <2> QED
    BY <2>1, <2>2, <2>3, ArgStep
<1>7. cpc' = IF Len(consumed) + 1 = sent THEN "exec" ELSE "loop"
  BY <1>1, <1>2 DEF CmdByte, LastOfFrame
<1>8. TypeOK'
  BY <1>4, <1>6, <1>7
<1>9. sent - Len(consumed) = arg.len - arg.pos
  BY <1>2
<1>18. /\ arg.pos + 1 >= arg.len => arg.pos + 1 = arg.len /\ Len(consumed) + 1 = sent
       /\ Len(consumed) + 1 = sent => arg.pos + 1 = arg.len
  <2>1. /\ arg.len \in Nat /\ arg.pos \in Nat /\ sent \in Nat /\ Len(consumed) \in Nat
        /\ arg.pos < arg.len
    BY <1>2
  <2> QED
    BY ONLY <1>9, <2>1, EndOfStream
<1>19. sent' = sent /\ arg'.pos = arg.pos + 1 /\ arg'.len = arg.len
       /\ Len(consumed') = Len(consumed) + 1
  BY <1>4, <1>6
<1>14. arg'.pos >= arg'.len => arg'.pos = arg'.len /\ cpc' = "exec" /\ Len(consumed') = sent'
  BY <1>7, <1>18, <1>19
<1>15. cpc' = "exec" => arg'.pos = arg'.len /\ Len(consumed') = sent'
  BY <1>7, <1>18, <1>19
<1>16. cpc' \in {"loop", "exec"}
  BY <1>7
<1>10. ParsingInv'
  <2>1. SUFFICES ASSUME cpc' = "loop", arg'.pos < arg'.len
                 PROVE  Holds(arg.buf, arg.pos, arg.len - arg.pos)'
    BY <1>2, <1>6
  <2>2. /\ got \in Nat /\ sent \in Nat /\ BufSize \in Nat
        /\ got' = got + 1 /\ sent' = sent /\ buf' = buf
    BY <1>4, <1>6
  <2> QED
    BY <1>2, <1>6, <2>2, HoldsAdvances
<1>17. bufRecv \in Bufs
  BY <1>2
<1>11. ExecutingInv'
  BY <1>2, <1>6, <1>15, <1>16, <1>17
<1>12. ReceivingInv'
  <2>1. ~Receiving'
    BY <1>14, <1>16
  <2> QED
    BY <2>1
<1>13. NoTornRead' /\ HostInv' /\ HandoverInv' /\ HandedOverInv' /\ IdleInv' /\ QuietInv'
  BY <1>2, <1>6, <1>7
<1> QED
  BY <1>5, <1>8, <1>10, <1>11, <1>12, <1>13

(***************************************************************************)
(* The interrupt stores cnt bytes.  It finds the path in one of the states *)
(* between two handovers.                                                  *)
(***************************************************************************)
LEMMA RxIsrKeeps ==
  ASSUME IInv, NEW cnt \in 1 .. MaxChunk, RxIsr(cnt)
  PROVE  IInv'
<1> DEFINE end == curIndex + cnt
<1>1. /\ Receiving /\ NoEvent /\ tpc \notin HandoverPcs
      /\ bufRecv \in Bufs /\ Holds(bufRecv, 0, curIndex) /\ curIndex + left <= BufSize
      /\ cnt \in Nat \ {0} /\ cnt <= left
  <2>1. host = "sending" /\ cnt <= left
    BY DEF RxIsr
  <2>2. tpc \notin HandoverPcs
    BY <2>1
  <2>3. cpc \notin {"ready", "len", "exec", "sleep", "ack"}
    BY <2>1
  <2>4. Receiving
    BY <2>1, <2>2, <2>3
  <2>5. NoEvent /\ bufRecv \in Bufs /\ curIndex + left <= BufSize
    BY <2>4 DEF ReceivingInv
  <2>6. Holds(bufRecv, 0, curIndex)
    BY <2>4 DEF ReceivingInv
  <2>7. cnt \in Nat \ {0}
    OBVIOUS
  <2> QED
    BY <2>1, <2>2, <2>4, <2>5, <2>6, <2>7
<1>2. buf' = [buf EXCEPT ![bufRecv] = Stored(buf[bufRecv], cnt)]
  BY DEF RxIsr
<1>3. Stored(buf[bufRecv], cnt) \in [Cells -> Nat]
  <2>1. buf[bufRecv] \in [Cells -> Nat] /\ sent \in Nat /\ curIndex \in Nat
    BY <1>1
  <2> QED
    BY <1>1, <2>1, StoredType
<1>4. buf' \in [Bufs -> [Cells -> Nat]] /\ buf'[bufRecv] = Stored(buf[bufRecv], cnt)
  BY <1>1, <1>2, <1>3
<1>5. sent' = sent + cnt /\ left' = left - cnt
  BY DEF RxIsr
<1>6. \A i \in 0 .. end - 1 : buf'[bufRecv][i] = got + 1 + i
  <2>1. SUFFICES ASSUME NEW i \in 0 .. end - 1
                 PROVE  buf'[bufRecv][i] = got + 1 + i
    OBVIOUS
  <2>2. i \in Cells
    BY <1>1
  <2>3. CASE i < curIndex
    BY <1>1, <1>4, <2>2, <2>3 DEF Stored
  <2>4. CASE i >= curIndex
    BY <1>1, <1>4, <2>2, <2>4 DEF Stored
  <2> QED
    BY <2>3, <2>4
<1>7. /\ host' = IF cnt = left THEN "waiting" ELSE "sending"
      /\ idleCnt' = 0 /\ quiet' = 0
      /\ UNCHANGED <<cmdBit, pollVars, cmdVars, frames, polls>>
  BY DEF RxIsr, IsrIdle
<1>8. CASE end >= BufSize
  <2>1. /\ cpc = "wait" /\ ~cmdReady /\ cnt = left /\ end = BufSize
    <3>1. cpc = "wait"
      BY <1>8 DEF RxIsr
    <3>2. ~cmdReady
      BY <1>1, <3>1
    <3>3. cnt = left /\ end = BufSize
      <4>1. curIndex \in Nat /\ cnt \in Nat /\ left \in Nat /\ BufSize \in Nat
        BY <1>1
      <4> QED
        BY <1>1, <1>8, <4>1, FullBuffer
    <3> QED
      BY <3>1, <3>2, <3>3
  <2>2. /\ cmdReady' = TRUE /\ bufProc' = bufRecv /\ bufLen' = end
        /\ curIndex' = 0 /\ isrEvent' = TRUE
        /\ bufRecv' = (bufRecv + 1) % 2
    BY <1>8 DEF RxIsr, IsrHandover, IsrSwitch
  <2>3. bufRecv' = 1 - bufRecv
    <3>1. CASE bufRecv = 0
      BY <2>2, <3>1
    <3>2. CASE bufRecv = 1
      BY <2>2, <3>2
    <3> QED
      BY <1>1, <3>1, <3>2
  <2>4. Holds(bufProc, 0, bufLen)'
    BY <1>1, <1>5, <1>6, <1>7, <2>1, <2>2
  <2>5. InOrder' /\ NoTornRead' /\ HostInv'
    BY <1>1, <1>5, <1>7, <2>1, <2>2, <2>3
  <2>10. TypeOK'
    <3>1. sent' \in Nat /\ left' \in Nat /\ end \in Nat
      BY <1>1, <1>5
    <3>2. bufRecv' \in 0 .. 2 /\ bufProc' \in Bufs
      BY <1>1, <2>2, <2>3
    <3>3. host' \in {"idle", "sending", "waiting"}
      BY <1>7
    <3> QED
      BY <1>4, <1>7, <2>2, <3>1, <3>2, <3>3
  <2>6. ReceivingInv' /\ HandoverInv'
    BY <1>1, <1>7, <2>1, <2>2
  <2>7. HandedOverInv'
    BY <1>1, <1>7, <2>1, <2>2, <2>3, <2>4
  <2>8. ParsingInv' /\ ExecutingInv'
    BY <1>7, <2>1
  <2>9. QuietInv'
    BY <1>1, <1>7, <2>1, <2>2
  <2>11. IdleInv'
    <3>1. host = "sending" /\ polls <= FramePolls /\ polls' = polls
      BY <1>7 DEF RxIsr
    <3>2. tpc = "store" => idleTmp + 1 <= FramePolls
      BY <3>1
    <3> QED
      BY <1>1, <1>7, <2>1, <2>2, <3>1, <3>2
  <2> QED
    BY <2>5, <2>6, <2>7, <2>8, <2>9, <2>10, <2>11
<1>9. CASE end < BufSize
  <2>1. curIndex' = end /\ UNCHANGED <<cmdReady, bufProc, bufRecv, bufLen, isrEvent>>
    BY <1>9 DEF RxIsr
  <2>2. Holds(bufRecv, 0, curIndex)'
    BY <1>1, <1>5, <1>6, <1>7, <1>9, <2>1
  <2>3. InOrder' /\ NoTornRead'
    BY <1>7, <2>1
  <2>11. HostInv'
    BY <1>1, <1>5, <1>7
  <2>7. TypeOK'
    <3>1. sent' \in Nat /\ left' \in Nat /\ end \in Nat
      BY <1>1, <1>5
    <3>3. host' \in {"idle", "sending", "waiting"}
      BY <1>7
    <3> QED
      BY <1>4, <1>7, <2>1, <3>1, <3>3
  <2>4. ReceivingInv'
    BY <1>1, <1>5, <1>7, <2>1, <2>2
  <2>5. HandoverInv' /\ HandedOverInv' /\ ParsingInv' /\ ExecutingInv'
    BY <1>1, <1>7, <2>1 DEF RxIsr
  <2>8. host = "sending" /\ end > 0 /\ polls' = polls /\ tpc' = tpc /\ idleTmp' = idleTmp
    BY <1>1, <1>7 DEF RxIsr
  <2>9. tpc = "store" => idleTmp + 1 <= polls
    BY <1>1, <2>8
  <2>6. IdleInv'
    BY <1>1, <1>7, <2>1, <2>8, <2>9
  <2>10. QuietInv'
    BY <1>1, <1>7, <2>1, <2>8
  <2> QED
    BY <2>2, <2>3, <2>4, <2>5, <2>6, <2>7, <2>10, <2>11
<1>10. end >= BufSize \/ end < BufSize
  BY <1>1
<1> QED
  BY <1>8, <1>9, <1>10, Zenon

\* A step that changes nothing.
LEMMA StutterKeeps ==
  ASSUME IInv, UNCHANGED vars
  PROVE  IInv'
<1>0. UNCHANGED <<recvVars, evtVars, pollVars, cmdVars, hostVars, timeVars>>
  BY DEF vars
<1>1. TypeOK' /\ InOrder' /\ NoTornRead' /\ HostInv'
  BY <1>0, SMTT(30)
<1>2. ReceivingInv' /\ HandoverInv'
  BY <1>0
<1>3. HandedOverInv' /\ ParsingInv' /\ ExecutingInv'
  BY <1>0
<1>4. IdleInv' /\ QuietInv'
  BY <1>0
<1> QED
  BY <1>1, <1>2, <1>3, <1>4

-----------------------------------------------------------------------------
(***************************************************************************)
(* The inductive invariant: every step of the host, of the interrupt, of   *)
(* the daemon and of the two tasks keeps it.                               *)
(***************************************************************************)
LEMMA InductiveStep == IInv /\ [Next]_vars => IInv'
<1> SUFFICES ASSUME IInv, [Next]_vars PROVE IInv'
  OBVIOUS
<1>1. CASE \E len \in FrameLens : HostStart(len)
  BY <1>1, HostStartKeeps
<1>2. CASE \E cnt \in 1 .. MaxChunk : RxIsr(cnt)
  BY <1>2, RxIsrKeeps
<1>3. CASE HostTimeout \/ DaemonSetBit
  BY <1>3, HostTimeoutKeeps, DaemonSetBitKeeps
<1>4. CASE PollTask
  BY <1>4, PollKeeps, PollStoreKeeps, PollTestKeeps, PollProcKeeps, PollFlipKeeps,
     PollWrapKeeps, PollLenKeeps, PollClearKeeps, PollSignalKeeps, Zenon DEF PollTask
<1>5. CASE CmdTask
  BY <1>5, CmdWakeKeeps, CmdReadyKeeps, CmdLenKeeps, CmdByteKeeps, CmdExecuteKeeps,
     CmdSleepEndsKeeps, CmdAckSentKeeps, CmdReturnKeeps, CmdClearKeeps, Zenon DEF CmdTask
<1>6. CASE UNCHANGED vars
  BY <1>6, StutterKeeps
<1> QED
  BY <1>1, <1>2, <1>3, <1>4, <1>5, <1>6, Zenon DEF Next

LEMMA InitInv == Init => IInv
<1> SUFFICES ASSUME Init PROVE IInv
  OBVIOUS
<1>1. Len(consumed) = 0 /\ consumed \in Seq(Nat)
  BY DEF Init
<1> QED
  BY <1>1, SMTT(30) DEF Init

\* What the inductive invariant says about the states TLC checks.
LEMMA Consequences ==
  ASSUME IInv
  PROVE  NothingLost /\ WriteInBounds /\ BoundedLatency
<1>1. NothingLost
  BY DEF NothingLost, Quiescent
<1>2. WriteInBounds
  <2>1. ASSUME host = "sending" PROVE Receiving
    BY <2>1
  <2> QED
    BY <2>1 DEF WriteInBounds
<1>3. BoundedLatency
  BY DEF BoundedLatency
<1> QED
  BY <1>1, <1>2, <1>3

LEMMA Parts == IInv => TypeOK /\ InOrder /\ NoTornRead
  OBVIOUS

HIDE DEF IInv, TypeOK, InOrder, NoTornRead, HostInv, ReceivingInv, HandoverInv,
         HandedOverInv, ParsingInv, ExecutingInv, IdleInv, QuietInv

\* The invariant holds in every reachable state.
LEMMA Inductive == Spec => []IInv
  BY InitInv, InductiveStep, PTL DEF Spec

\* g_cmdRecv and the program counters keep their types; bufProc never takes
\* the out-of-range value that bufRecv passes through.
THEOREM TypeCorrect == Spec => []TypeOK
  BY Inductive, Parts, PTL

\* The parser is fed the stream the host sent, whatever the interleaving.
THEOREM StreamInOrder == Spec => []InOrder
  BY Inductive, Parts, PTL

\* The buffer being parsed is never the one being filled.
THEOREM ReadsNeverTorn == Spec => []NoTornRead
  BY Inductive, Parts, PTL

\* No handover is forgotten.
THEOREM NoByteLost == Spec => []NothingLost
  BY Inductive, Consequences, PTL

\* The interrupt always stores inside the buffer.
THEOREM StoresInBounds == Spec => []WriteInBounds
  BY Inductive, Consequences, PTL

\* The end of a command is noticed within CMD_RECV_TIMEOUT polls.
THEOREM LatencyBounded == Spec => []BoundedLatency
  BY Inductive, Consequences, PTL
=============================================================================
