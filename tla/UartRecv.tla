------------------------------ MODULE UartRecv ------------------------------
(***************************************************************************)
(* The command receive path of the radar module: the double buffer         *)
(* g_cmdRecv of bsp_uart.c, filled byte by byte by the UART interrupt,     *)
(* handed over either by that interrupt (the buffer is full) or by the     *)
(* polling task uart_recv_timeout_check_task (the line went quiet), and    *)
(* drained by CmdProc_Recv in the task cmd_process_task.                   *)
(*                                                                         *)
(* The code takes no lock anywhere on this path.  What keeps it correct is *)
(* a mixture of task priorities (command task 13, polling task 12, both    *)
(* below the interrupt) and of the pace of the host, which waits for the   *)
(* acknowledgement of a command before it sends the next one.  The module  *)
(* models every access to g_cmdRecv that an interrupt or a task switch can *)
(* fall between, and makes those two assumptions explicit.                 *)
(*                                                                         *)
(* A byte is its position in the stream the host sends: 1, 2, 3, ...       *)
(* 0 is the content of a cell that was never written.                      *)
(***************************************************************************)
EXTENDS Integers, Sequences

CONSTANTS
  BufSize,        \* CMD_RECV_BUF_SIZE, 64 in bsp_uart.h
  CmdRecvTimeout, \* CMD_RECV_TIMEOUT, 5 polls in bsp_uart.h
  FrameLens,      \* lengths of the commands the host sends
  MaxChunk,       \* most bytes one interrupt reads from the UART FIFO
  FramePolls,     \* polls that can fall into the transmission of one command
  MaxFrames       \* bound of the model: commands the host sends

ASSUME SizesAssumption ==
  /\ BufSize \in Nat \ {0}
  /\ CmdRecvTimeout \in Nat \ {0}
  /\ MaxChunk \in Nat \ {0}
  /\ MaxFrames \in Nat

(***************************************************************************)
(* The protocol: a command is at most CMD_LEN_MAX = CMD_RECV_BUF_SIZE      *)
(* bytes.                                                                  *)
(***************************************************************************)
ASSUME FramesAssumption == FrameLens \subseteq 1 .. BufSize

(***************************************************************************)
(* The pace of the host: the bytes of one command follow each other so     *)
(* closely that fewer than CMD_RECV_TIMEOUT polls fall between the first   *)
(* and the last (64 bytes take 2.5 ms at 256000 baud: at most two).        *)
(***************************************************************************)
ASSUME PaceAssumption == FramePolls \in Nat /\ FramePolls < CmdRecvTimeout

VARIABLES
  buf,       \* g_cmdRecv.buf
  bufRecv,   \* g_cmdRecv.bufRecv, the buffer the interrupt writes to
  bufProc,   \* g_cmdRecv.bufProc, the buffer handed over
  bufLen,    \* g_cmdRecv.bufLen
  curIndex,  \* g_cmdRecv.curIndex
  cmdReady,  \* g_cmdRecv.cmdReady
  idleCnt,   \* g_cmdRecv.idleCnt
  isrEvent,  \* the interrupt asked the timer daemon to set the event bit
  cmdBit,    \* CMD_PROCESS_BIT of CmdProcessEventGroup
  tpc,       \* where the polling task is in UART_RecvTimeout
  idleTmp,   \* the value of idleCnt the polling task has loaded
  cpc,       \* where the command task is in CmdProc_Recv
  arg,       \* the arguments CmdProcess runs with: buffer, length, position
  host,      \* what the host is doing
  left,      \* bytes of the current command still to be sent
  frames,    \* commands the host has begun to send
  sent,      \* bytes that reached the UART so far
  polls,     \* polls since the current command began
  quiet,     \* polls since the last byte, while bytes wait in the buffer
  consumed   \* history: the bytes CmdProcess has parsed

recvVars == <<buf, bufRecv, bufProc, bufLen, curIndex, cmdReady, idleCnt>>
evtVars  == <<isrEvent, cmdBit>>
pollVars == <<tpc, idleTmp>>
cmdVars  == <<cpc, arg, consumed>>
hostVars == <<host, left, frames, sent>>
timeVars == <<polls, quiet>>
vars == <<recvVars, evtVars, pollVars, cmdVars, hostVars, timeVars>>

Bufs  == {0, 1}
Cells == 0 .. BufSize - 1

TpcValues == {"poll", "store", "test", "proc", "flip", "wrap", "len", "clear", "signal"}
HandoverPcs == {"proc", "flip", "wrap", "len", "clear", "signal"}
CpcValues == {"wait", "ready", "len", "loop", "exec", "sleep", "ack", "clear"}

TypeOK ==
  /\ buf \in [Bufs -> [Cells -> Nat]]
  /\ bufRecv \in 0 .. 2
  /\ bufProc \in Bufs
  /\ bufLen \in Nat
  /\ curIndex \in Nat
  /\ cmdReady \in BOOLEAN
  /\ idleCnt \in Nat
  /\ isrEvent \in BOOLEAN /\ cmdBit \in BOOLEAN
  /\ tpc \in TpcValues /\ idleTmp \in Nat
  /\ cpc \in CpcValues
  /\ arg \in [buf : Bufs, len : Nat, pos : Nat]
  /\ consumed \in Seq(Nat)
  /\ host \in {"idle", "sending", "waiting"}
  /\ left \in Nat /\ frames \in Nat /\ sent \in Nat
  /\ polls \in Nat /\ quiet \in Nat

Init ==
  /\ buf = [b \in Bufs |-> [i \in Cells |-> 0]]
  /\ bufRecv = 0 /\ bufProc = 0 /\ bufLen = 0 /\ curIndex = 0
  /\ cmdReady = FALSE /\ idleCnt = 0
  /\ isrEvent = FALSE /\ cmdBit = FALSE
  /\ tpc = "poll" /\ idleTmp = 0
  /\ cpc = "wait" /\ arg = [buf |-> 0, len |-> 0, pos |-> 0]
  /\ consumed = << >>
  /\ host = "idle" /\ left = 0 /\ frames = 0 /\ sent = 0
  /\ polls = 0 /\ quiet = 0

-----------------------------------------------------------------------------
(***************************************************************************)
(* Scheduling.  The timer daemon has the highest priority of the three     *)
(* tasks, the command task comes next, the polling task runs only while    *)
(* the command task is blocked: on its event bit, or in the delay of       *)
(* System_Reconfig.                                                        *)
(***************************************************************************)
DaemonReady   == isrEvent
CmdBlocked    == (cpc = "wait" /\ ~cmdBit) \/ cpc = "sleep"
CmdMayRun     == ~DaemonReady
PollMayRun    == ~DaemonReady /\ CmdBlocked

(***************************************************************************)
(* The host begins a command of len bytes.  It does so only when it is not *)
(* waiting for an answer, and not so fast that a poll which the previous   *)
(* command interrupted is still unfinished: such a poll stores a stale     *)
(* idleCnt over the reset by the interrupt, and the error would add up     *)
(* from command to command.                                                *)
(***************************************************************************)
HostStart(len) ==
  /\ host = "idle"
  /\ tpc = "poll"
  /\ frames < MaxFrames
  /\ host' = "sending"
  /\ left' = len
  /\ frames' = frames + 1
  /\ polls' = 0
  /\ UNCHANGED <<recvVars, evtVars, pollVars, cmdVars, sent, quiet>>

(***************************************************************************)
(* The host gives up waiting for an answer (unknown commands and commands  *)
(* refused outside a configuration session are never acknowledged).  It    *)
(* waits longer than the module needs to receive and process a command.    *)
(***************************************************************************)
HostTimeout ==
  /\ host = "waiting"
  /\ cpc = "wait" /\ ~cmdReady /\ curIndex = 0
  /\ ~cmdBit /\ ~isrEvent /\ tpc \notin HandoverPcs
  /\ host' = "idle"
  /\ UNCHANGED <<recvVars, evtVars, pollVars, cmdVars, left, frames, sent, timeVars>>

(***************************************************************************)
(* The buffer after the next cnt bytes of the stream were stored from      *)
(* position curIndex on.                                                   *)
(***************************************************************************)
Stored(cells, cnt) ==
  [i \in Cells |-> IF i \in curIndex .. curIndex + cnt - 1
                   THEN sent + 1 + (i - curIndex) ELSE cells[i]]

\* The reset of the idle counter.
IsrIdle == idleCnt' = 0

(***************************************************************************)
(* The handover by the interrupt when the buffer is full.  Two variants    *)
(* forget the event, or keep writing to the buffer handed over.            *)
(***************************************************************************)
IsrSwitch(end) ==
  /\ cmdReady' = TRUE
  /\ bufProc' = bufRecv
  /\ bufLen' = end
  /\ curIndex' = 0
IsrHandoverSame(end) ==
  IsrSwitch(end) /\ isrEvent' = TRUE /\ UNCHANGED bufRecv
IsrHandover(end) ==
  IsrSwitch(end) /\ bufRecv' = (bufRecv + 1) % 2 /\ isrEvent' = TRUE

(***************************************************************************)
(* __uart_rx_callback: cnt bytes have arrived.  The interrupt is atomic    *)
(* for the tasks.  The third conjunct is a matter of pace again: the time  *)
(* a full buffer takes on the wire (2.5 ms) is longer than the few         *)
(* instructions between the acknowledgement of a command and the return of *)
(* CmdProc_Recv.                                                           *)
(***************************************************************************)
RxIsr(cnt) ==
  LET end == curIndex + cnt IN
  /\ host = "sending"
  /\ cnt <= left
  /\ end >= BufSize => cpc = "wait"
  /\ buf' = [buf EXCEPT ![bufRecv] = Stored(@, cnt)]
  /\ sent' = sent + cnt
  /\ left' = left - cnt
  /\ host' = IF cnt = left THEN "waiting" ELSE "sending"
  /\ IsrIdle
  /\ quiet' = 0
  /\ \/ end >= BufSize /\ IsrHandover(end)
     \/ /\ end < BufSize
        /\ curIndex' = end
        /\ UNCHANGED <<cmdReady, bufProc, bufRecv, bufLen, isrEvent>>
  /\ UNCHANGED <<cmdBit, pollVars, cmdVars, frames, polls>>

(***************************************************************************)
(* xEventGroupSetBitsFromISR leaves the setting of the bit to the timer    *)
(* daemon.                                                                 *)
(***************************************************************************)
DaemonSetBit ==
  /\ isrEvent
  /\ isrEvent' = FALSE
  /\ cmdBit' = TRUE
  /\ UNCHANGED <<recvVars, pollVars, cmdVars, hostVars, timeVars>>

-----------------------------------------------------------------------------
(***************************************************************************)
(* The polling task: one pass of UART_RecvTimeout every 2 ms.              *)
(* While a command is on the wire only FramePolls passes can fall in.      *)
(***************************************************************************)
Poll ==
  /\ PollMayRun
  /\ tpc = "poll"
  /\ host = "sending" => polls < FramePolls
  /\ polls' = IF host = "sending" THEN polls + 1 ELSE polls
  /\ IF curIndex > 0
     THEN tpc' = "store" /\ idleTmp' = idleCnt /\ quiet' = quiet + 1
     ELSE UNCHANGED <<pollVars, quiet>>
  /\ UNCHANGED <<recvVars, evtVars, cmdVars, hostVars>>

\* idleCnt++ is a load and a store; an interrupt may have reset it between.
PollStore ==
  /\ PollMayRun
  /\ tpc = "store"
  /\ idleCnt' = idleTmp + 1
  /\ tpc' = "test"
  /\ UNCHANGED <<buf, bufRecv, bufProc, bufLen, curIndex, cmdReady, idleTmp,
                 evtVars, cmdVars, hostVars, timeVars>>

\* The test for the end of a command.
TimedOut == idleCnt >= CmdRecvTimeout

PollTest ==
  /\ PollMayRun
  /\ tpc = "test"
  /\ tpc' = IF TimedOut THEN "proc" ELSE "poll"
  /\ UNCHANGED <<recvVars, evtVars, idleTmp, cmdVars, hostVars, timeVars>>

PollProc ==
  /\ PollMayRun
  /\ tpc = "proc"
  /\ cmdReady' = TRUE
  /\ bufProc' = bufRecv
  /\ tpc' = "flip"
  /\ UNCHANGED <<buf, bufRecv, bufLen, curIndex, idleCnt, idleTmp,
                 evtVars, cmdVars, hostVars, timeVars>>

(***************************************************************************)
(* bufRecv = (++bufRecv) % BUF_MAX stores twice into a volatile: the       *)
(* incremented value first, which is out of range when bufRecv was 1.      *)
(***************************************************************************)
PollFlip ==
  /\ PollMayRun
  /\ tpc = "flip"
  /\ bufRecv' = bufRecv + 1
  /\ tpc' = "wrap"
  /\ UNCHANGED <<buf, bufProc, bufLen, curIndex, cmdReady, idleCnt, idleTmp,
                 evtVars, cmdVars, hostVars, timeVars>>

\* The reduction modulo BUF_MAX, and a variant without it.
WrappedNot == bufRecv
Wrapped == bufRecv % 2

PollWrap ==
  /\ PollMayRun
  /\ tpc = "wrap"
  /\ bufRecv' = Wrapped
  /\ tpc' = "len"
  /\ UNCHANGED <<buf, bufProc, bufLen, curIndex, cmdReady, idleCnt, idleTmp,
                 evtVars, cmdVars, hostVars, timeVars>>

\* The length handed over, and a variant that is one byte short.
HandedLenShort == curIndex - 1
HandedLen == curIndex

PollLen ==
  /\ PollMayRun
  /\ tpc = "len"
  /\ bufLen' = HandedLen
  /\ tpc' = "clear"
  /\ UNCHANGED <<buf, bufRecv, bufProc, curIndex, cmdReady, idleCnt, idleTmp,
                 evtVars, cmdVars, hostVars, timeVars>>

\* curIndex after the handover, and a variant that keeps it.
CurIndexKept == curIndex
CurIndexCleared == 0

PollClear ==
  /\ PollMayRun
  /\ tpc = "clear"
  /\ curIndex' = CurIndexCleared
  /\ quiet' = 0
  /\ tpc' = "signal"
  /\ UNCHANGED <<buf, bufRecv, bufProc, bufLen, cmdReady, idleCnt, idleTmp,
                 evtVars, cmdVars, hostVars, polls>>

\* xEventGroupSetBits, and a variant without it.
SignalForgotten == UNCHANGED cmdBit
Signal == cmdBit' = TRUE

PollSignal ==
  /\ PollMayRun
  /\ tpc = "signal"
  /\ idleCnt' = 0
  /\ Signal
  /\ tpc' = "poll"
  /\ UNCHANGED <<buf, bufRecv, bufProc, bufLen, curIndex, cmdReady, idleTmp,
                 isrEvent, cmdVars, hostVars, timeVars>>

PollTask ==
  \/ Poll \/ PollStore \/ PollTest
  \/ PollProc \/ PollFlip \/ PollWrap \/ PollLen \/ PollClear \/ PollSignal

-----------------------------------------------------------------------------
(***************************************************************************)
(* The command task: cmd_process_task, CmdProc_Recv and the byte loop of   *)
(* CmdProcess.                                                             *)
(***************************************************************************)
CmdWake ==
  /\ CmdMayRun
  /\ cpc = "wait"
  /\ cmdBit
  /\ cmdBit' = FALSE
  /\ cpc' = "ready"
  /\ UNCHANGED <<recvVars, isrEvent, pollVars, arg, consumed, hostVars, timeVars>>

\* The test of cmdReady and the first argument of CmdProcess.
CmdReady ==
  /\ CmdMayRun
  /\ cpc = "ready"
  /\ IF cmdReady THEN cpc' = "len" /\ arg' = [arg EXCEPT !.buf = bufProc]
                 ELSE cpc' = "wait" /\ UNCHANGED arg
  /\ UNCHANGED <<recvVars, evtVars, pollVars, consumed, hostVars, timeVars>>

CmdLen ==
  /\ CmdMayRun
  /\ cpc = "len"
  /\ arg' = [arg EXCEPT !.len = bufLen, !.pos = 0]
  /\ cpc' = "loop"
  /\ UNCHANGED <<recvVars, evtVars, pollVars, consumed, hostVars, timeVars>>

\* The byte that completes a command makes the parser call CmdExec.
LastOfFrame(byte) == host = "waiting" /\ byte = sent

CmdByte ==
  /\ CmdMayRun
  /\ cpc = "loop"
  /\ arg.pos < arg.len
  /\ LET byte == buf[arg.buf][arg.pos] IN
     /\ consumed' = Append(consumed, byte)
     /\ cpc' = IF LastOfFrame(byte) THEN "exec" ELSE "loop"
  /\ arg' = [arg EXCEPT !.pos = @ + 1]
  /\ UNCHANGED <<recvVars, evtVars, pollVars, hostVars, timeVars>>

\* CmdExec: acknowledged at once, after the delay of System_Reconfig, or never.
CmdExecute ==
  /\ CmdMayRun
  /\ cpc = "exec"
  /\ cpc' \in {"ack", "sleep", "loop"}
  /\ UNCHANGED <<recvVars, evtVars, pollVars, arg, consumed, hostVars, timeVars>>

CmdSleepEnds ==
  /\ CmdMayRun
  /\ cpc = "sleep"
  /\ cpc' = "ack"
  /\ UNCHANGED <<recvVars, evtVars, pollVars, arg, consumed, hostVars, timeVars>>

CmdAckSent ==
  /\ CmdMayRun
  /\ cpc = "ack"
  /\ host' = "idle"
  /\ cpc' = "loop"
  /\ UNCHANGED <<recvVars, evtVars, pollVars, arg, consumed, left, frames, sent, timeVars>>

CmdReturn ==
  /\ CmdMayRun
  /\ cpc = "loop"
  /\ arg.pos >= arg.len
  /\ cpc' = "clear"
  /\ UNCHANGED <<recvVars, evtVars, pollVars, arg, consumed, hostVars, timeVars>>

CmdClear ==
  /\ CmdMayRun
  /\ cpc = "clear"
  /\ cmdReady' = FALSE
  /\ cpc' = "wait"
  /\ UNCHANGED <<buf, bufRecv, bufProc, bufLen, curIndex, idleCnt,
                 evtVars, pollVars, arg, consumed, hostVars, timeVars>>

CmdTask ==
  \/ CmdWake \/ CmdReady \/ CmdLen \/ CmdByte \/ CmdExecute
  \/ CmdSleepEnds \/ CmdAckSent \/ CmdReturn \/ CmdClear

-----------------------------------------------------------------------------
Next ==
  \/ \E len \in FrameLens : HostStart(len)
  \/ HostTimeout
  \/ \E cnt \in 1 .. MaxChunk : RxIsr(cnt)
  \/ DaemonSetBit
  \/ PollTask
  \/ CmdTask

Spec == Init /\ [][Next]_vars

(***************************************************************************)
(* Fairness: a host that began a command finishes it and does not wait for *)
(* ever; the daemon and both tasks run when nothing above them does.       *)
(***************************************************************************)
Fairness ==
  /\ WF_vars(\E cnt \in 1 .. MaxChunk : RxIsr(cnt))
  /\ WF_vars(HostTimeout)
  /\ WF_vars(DaemonSetBit)
  /\ WF_vars(PollTask)
  /\ WF_vars(CmdTask)

FairSpec == Spec /\ Fairness

-----------------------------------------------------------------------------
(***************************************************************************)
(* The command parser is fed exactly the bytes the host sent, in order,    *)
(* none lost, none twice, none left over from an earlier command.          *)
(***************************************************************************)
InOrder == \A i \in 1 .. Len(consumed) : consumed[i] = i

(***************************************************************************)
(* Once the module is quiet (no byte in a buffer, no command in work)      *)
(* every byte that reached the UART has been parsed: a handover is never   *)
(* forgotten, neither by the clearing of cmdReady after the work nor by    *)
(* the clearing of curIndex after the length was taken.                    *)
(***************************************************************************)
Quiescent ==
  /\ cpc = "wait" /\ ~cmdBit /\ ~isrEvent
  /\ curIndex = 0 /\ tpc \notin HandoverPcs
NothingLost == Quiescent => Len(consumed) = sent /\ ~cmdReady

(***************************************************************************)
(* While CmdProcess walks through a buffer the interrupt writes to the     *)
(* other one.                                                              *)
(***************************************************************************)
NoTornRead == cpc \in {"loop", "exec", "sleep", "ack"} => arg.buf # bufRecv

(***************************************************************************)
(* Whenever a byte can arrive, bufRecv names one of the two buffers (it is *)
(* 2 for a moment during the switch) and the bytes still due fit behind    *)
(* curIndex.                                                               *)
(***************************************************************************)
WriteInBounds ==
  host = "sending" => bufRecv \in Bufs /\ curIndex + left <= BufSize

(***************************************************************************)
(* The end of a command is noticed at the latest CMD_RECV_TIMEOUT polls    *)
(* after its last byte, although polls and interrupts race for idleCnt.    *)
(***************************************************************************)
BoundedLatency == quiet <= CmdRecvTimeout

(***************************************************************************)
(* Every byte that reaches the UART is eventually parsed.                  *)
(***************************************************************************)
EveryByteParsed ==
  \A n \in 1 .. MaxFrames * BufSize : (sent >= n) ~> (Len(consumed) >= n)
=============================================================================
