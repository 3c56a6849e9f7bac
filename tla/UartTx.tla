------------------------------- MODULE UartTx -------------------------------
(***************************************************************************)
(* The transmit side of the communication UART.  Two tasks start DMA       *)
(* transfers on the same channel: the data task with its reports and       *)
(* factory test records (DataDispatch), the command task with              *)
(* acknowledgements and the answers to AMPS (CmdExec).  They share the     *)
(* byte g_uartDmaSendingFlag, set before a transfer is started and cleared *)
(* by the interrupt at its end, and both wait for it in a loop that does   *)
(* not block.  There is no lock: the data task (priority 14) preempts the  *)
(* command task (priority 13) between any two statements and never lets it *)
(* run while it loops itself.  What keeps the loops finite is              *)
(* CmdModeFlag, which makes the data task discard its data.                *)
(***************************************************************************)
EXTENDS Integers, Sequences

CONSTANTS
  InSession,    \* commands the host sends inside a configuration session
  OutSession,   \* commands it sends outside of one
  Provisioned   \* a factory test result is stored when the module boots

(***************************************************************************)
(* The commands of CmdExec, as far as they differ here.  "always": those   *)
(* that are acknowledged in every mode, be it with ACK_FAIL (READ_VER,     *)
(* WRITE_REG, READ_REG, the parameter commands, ...).  "debug": ENABLE and *)
(* DISABLE_DEBUG, ignored outside a session.  "unknown": the default case. *)
(***************************************************************************)
Kinds == {"start", "finish", "always", "debug", "enter", "exit", "amps", "unknown"}

VARIABLES
  flag,      \* g_uartDmaSendingFlag
  dma,       \* transfers started and not ended, in the order of their start
  session,   \* CmdModeFlag
  factory,   \* g_FtcmdFlag
  result,    \* FACTORY_RESULT_KEY is in the NV store
  cpc,       \* where the command task is in CmdExec
  kind,      \* the command it executes
  dpc,       \* where the data task is in DataDispatch
  host,      \* the host waits for an answer
  hostSess   \* the host is between the answers to START_CFG and FINISH_CFG

txVars   == <<flag, dma>>
modeVars == <<session, factory, result>>
hostVars == <<host, hostSess>>
vars == <<txVars, modeVars, cpc, kind, dpc, hostVars>>

Owners == {"ack", "text", "report", "ftdata"}

CpcValues == {"wait", "exec", "spin", "set", "send", "after"}
DpcValues == {"wait", "check", "test", "set", "send", "drain",
              "ftspin", "ftset", "ftsend"}

TypeOK ==
  /\ flag \in BOOLEAN
  /\ dma \in {<< >>} \cup {<<owner>> : owner \in Owners}
  /\ session \in BOOLEAN /\ factory \in BOOLEAN /\ result \in BOOLEAN
  /\ cpc \in CpcValues /\ kind \in Kinds
  /\ dpc \in DpcValues
  /\ host \in {"idle", "waiting"} /\ hostSess \in BOOLEAN

Init ==
  /\ flag = FALSE /\ dma = << >>
  /\ session = FALSE /\ factory = FALSE /\ result = Provisioned
  /\ cpc = "wait" /\ kind = "unknown"
  /\ dpc = "wait"
  /\ host = "idle" /\ hostSess = FALSE

-----------------------------------------------------------------------------
(***************************************************************************)
(* The host sends one command and waits for the answer, or until it is     *)
(* sure that none will come.  The receive path (UartRecv) hands the        *)
(* command to the command task.                                            *)
(***************************************************************************)
HostSend(k) ==
  /\ host = "idle"
  /\ cpc = "wait"
  /\ k \in IF hostSess THEN InSession ELSE OutSession
  /\ host' = "waiting"
  /\ kind' = k
  /\ cpc' = "exec"
  /\ UNCHANGED <<txVars, modeVars, dpc, hostSess>>

HostTimeout ==
  /\ host = "waiting"
  /\ cpc = "wait"
  /\ \A i \in 1 .. Len(dma) : dma[i] \notin {"ack", "text"}
  /\ host' = "idle"
  /\ UNCHANGED <<txVars, modeVars, cpc, kind, dpc, hostSess>>

(***************************************************************************)
(* __uart_tx_dma_callback: the oldest transfer has ended.  The last byte   *)
(* of an answer frees the host.                                            *)
(***************************************************************************)
FlagCleared == flag' = FALSE

TxDone ==
  /\ dma # << >>
  /\ dma' = Tail(dma)
  /\ FlagCleared
  /\ IF Head(dma) \in {"ack", "text"}
     THEN /\ host' = "idle"
          /\ hostSess' = CASE kind = "start" -> TRUE
                           [] kind = "finish" -> FALSE
                           [] OTHER -> hostSess
     ELSE UNCHANGED hostVars
  /\ UNCHANGED <<modeVars, cpc, kind, dpc>>

\* uart_dma_send
Started(owner) == dma' = Append(dma, owner)

-----------------------------------------------------------------------------
(***************************************************************************)
(* The data task.  A chirp arrives in the queue; whether it completes a    *)
(* frame that is to be reported is up to the radar.                        *)
(***************************************************************************)
Chirp ==
  /\ dpc = "wait"
  /\ dpc' = "check"
  /\ UNCHANGED <<txVars, modeVars, cpc, kind, hostVars>>

\* The early return in command mode, and a variant without it.
QuietNever == FALSE
QuietInSession == session

DataCheck ==
  /\ dpc = "check"
  /\ \/ dpc' = "wait"
     \/ ~QuietInSession /\ factory /\ dpc' = "ftspin"
     \/ ~QuietInSession /\ ~factory /\ dpc' = "test"
  /\ UNCHANGED <<txVars, modeVars, cpc, kind, hostVars>>

(***************************************************************************)
(* SendResultData: the report is dropped when a transfer is under way.  A  *)
(* variant does not look.                                                  *)
(***************************************************************************)
DropNever == dpc' = "set"
DropWhenSending == dpc' = IF flag THEN "drain" ELSE "set"

ReportTest ==
  /\ dpc = "test"
  /\ DropWhenSending
  /\ UNCHANGED <<txVars, modeVars, cpc, kind, hostVars>>

ReportSet ==
  /\ dpc = "set"
  /\ flag' = TRUE
  /\ dpc' = "send"
  /\ UNCHANGED <<dma, modeVars, cpc, kind, hostVars>>

ReportSend ==
  /\ dpc = "send"
  /\ Started("report")
  /\ dpc' = "drain"
  /\ UNCHANGED <<flag, modeVars, cpc, kind, hostVars>>

\* while(1 == g_uartDmaSendingFlag){} behind a report or a factory record
DataDrained ==
  /\ dpc = "drain"
  /\ ~flag
  /\ dpc' = "wait"
  /\ UNCHANGED <<txVars, modeVars, cpc, kind, hostVars>>

\* DoFactoryTestDataSend on the last chirp of a stable frame
FtSpin ==
  /\ dpc = "ftspin"
  /\ ~flag
  /\ dpc' = "ftset"
  /\ UNCHANGED <<txVars, modeVars, cpc, kind, hostVars>>

FtSet ==
  /\ dpc = "ftset"
  /\ flag' = TRUE
  /\ dpc' = "ftsend"
  /\ UNCHANGED <<dma, modeVars, cpc, kind, hostVars>>

FtSend ==
  /\ dpc = "ftsend"
  /\ Started("ftdata")
  /\ dpc' = "drain"
  /\ UNCHANGED <<flag, modeVars, cpc, kind, hostVars>>

DataTask ==
  \/ DataCheck \/ ReportTest \/ ReportSet \/ ReportSend \/ DataDrained
  \/ FtSpin \/ FtSet \/ FtSend

-----------------------------------------------------------------------------
(***************************************************************************)
(* The command task runs only while the data task is blocked on its queue. *)
(***************************************************************************)
CmdMayRun == dpc = "wait"

Silent == {"debug", "unknown"}

\* CmdModeFlag at the end of the switch; a variant ends the session too early.
SessionEndsEarly == session' = ((session \/ kind \in {"start", "amps"}) /\ kind # "finish")
SessionBegins == session' = (session \/ kind \in {"start", "amps"})

(***************************************************************************)
(* The switch of CmdExec: the mode flags change, and the answer is built.  *)
(* AMPS raises CmdModeFlag to keep the data task off the line.             *)
(***************************************************************************)
CmdDispatch ==
  /\ CmdMayRun
  /\ cpc = "exec"
  /\ SessionBegins
  /\ factory' = CASE kind = "enter" -> TRUE
                  [] kind = "exit" -> FALSE
                  [] OTHER -> factory
  /\ result' = (result \/ kind = "exit")
  /\ cpc' = CASE kind = "unknown" \/ (kind = "debug" /\ ~session) -> "wait"
              [] kind = "amps" /\ ~result -> "send"
              [] OTHER -> "spin"
  /\ UNCHANGED <<txVars, kind, dpc, hostVars>>

\* The condition to leave while(1 == g_uartDmaSendingFlag){}, and its inverse.
LineBusy == flag
LineFree == ~flag

CmdSpin ==
  /\ CmdMayRun
  /\ cpc = "spin"
  /\ LineFree
  /\ cpc' = "set"
  /\ UNCHANGED <<txVars, modeVars, kind, dpc, hostVars>>

CmdSet ==
  /\ CmdMayRun
  /\ cpc = "set"
  /\ flag' = TRUE
  /\ cpc' = "send"
  /\ UNCHANGED <<dma, modeVars, kind, dpc, hostVars>>

CmdSend ==
  /\ CmdMayRun
  /\ cpc = "send"
  /\ Started(IF kind = "amps" THEN "text" ELSE "ack")
  /\ cpc' = "after"
  /\ UNCHANGED <<flag, modeVars, kind, dpc, hostVars>>

\* FINISH_CFG and AMPS give the line back to the data task; in a variant all do.
SessionLost == session' = FALSE
SessionCleared == session' = (session /\ kind \notin {"finish", "amps"})

CmdAfter ==
  /\ CmdMayRun
  /\ cpc = "after"
  /\ SessionCleared
  /\ cpc' = "wait"
  /\ UNCHANGED <<txVars, factory, result, kind, dpc, hostVars>>

CmdTask == CmdDispatch \/ CmdSpin \/ CmdSet \/ CmdSend \/ CmdAfter

-----------------------------------------------------------------------------
Next ==
  \/ \E k \in Kinds : HostSend(k)
  \/ HostTimeout
  \/ TxDone
  \/ Chirp
  \/ DataTask
  \/ CmdTask

Spec == Init /\ [][Next]_vars

(***************************************************************************)
(* Fairness: transfers end, the data task runs when it is ready, the       *)
(* command task gets the processor again and again between two chirps.     *)
(***************************************************************************)
Fairness ==
  /\ WF_vars(TxDone)
  /\ WF_vars(DataTask)
  /\ SF_vars(CmdTask)
  /\ WF_vars(HostTimeout)

FairSpec == Spec /\ Fairness

(***************************************************************************)
(* The host the code is written for: outside a session it sends START_CFG, *)
(* AMPS when there is a stored result, and what the module ignores; inside *)
(* a session anything but AMPS, which would end the session unnoticed.     *)
(***************************************************************************)
HostFollowsProtocol ==
  /\ InSession \subseteq Kinds \ {"amps"}
  /\ OutSession \subseteq Silent \cup {"start"}
                            \cup IF Provisioned THEN {"amps"} ELSE {}
  /\ Provisioned \in BOOLEAN

-----------------------------------------------------------------------------
(***************************************************************************)
(* A task loops on g_uartDmaSendingFlag only while a transfer is on the    *)
(* line whose end will clear it.  The data task has no other way out: the  *)
(* command task cannot run while the data task loops.                      *)
(***************************************************************************)
SpinHasTransfer ==
  dpc \in {"drain", "ftspin"} /\ flag => dma # << >>

(***************************************************************************)
(* From the answer to START_CFG to the answer to FINISH_CFG nothing but    *)
(* answers is on the line.                                                 *)
(***************************************************************************)
SessionSilent ==
  hostSess => \A i \in 1 .. Len(dma) : dma[i] = "ack"

(***************************************************************************)
(* The transmit side implements the abstract line: transfers do not        *)
(* overlap, and none of the data path begins while CmdModeFlag is set.     *)
(***************************************************************************)
Line ==
  INSTANCE TxLine WITH
    CmdOwners <- {"ack", "text"},
    DataOwners <- {"report", "ftdata"},
    line <- CASE Len(dma) = 0 -> "free"
              [] Len(dma) = 1 -> Head(dma)
              [] OTHER -> "clash",
    quiet <- session

LineSpec == Line!Spec

(***************************************************************************)
(* The host gets its answer, or gives up on a command that has none: the   *)
(* command task does not loop for ever either.                             *)
(***************************************************************************)
HostGetsFree == host = "waiting" ~> host = "idle"
=============================================================================
