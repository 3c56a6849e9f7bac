---------------------------- MODULE UartTxProofs ----------------------------
(***************************************************************************)
(* Proofs about UartTx, for every set of commands a host that follows the  *)
(* protocol may send.  The core of the argument: whenever the command task *)
(* is anywhere between the dispatch of an answered command and the end of  *)
(* CmdExec, CmdModeFlag is set, so the data task never gets past its early *)
(* return there and cannot see the flag set without a transfer behind it.  *)
(***************************************************************************)
EXTENDS UartTx, TLAPS

DataOwner == {"report", "ftdata"}

\* The flag and the line: who has set the flag and not yet started a transfer.
FlagInv ==
  /\ dma # << >> => flag
  /\ flag => dma # << >> \/ cpc = "send" \/ dpc \in {"send", "ftsend"}
  /\ dpc \in {"set", "ftset"} \/ cpc = "set" => ~flag
  /\ dpc \in {"send", "ftsend"} \/ cpc = "send" => flag /\ dma = << >>
  /\ dma # << >> /\ dma[1] \in DataOwner => dpc = "drain"

\* CmdModeFlag keeps the data task in front of its early return.
QuietInv ==
  /\ session => dpc \in {"wait", "check"}
  /\ cpc \in {"spin", "set", "send", "after"} => session

\* What the host has sent and what it knows of the session.
HostInv ==
  /\ Provisioned => result
  /\ cpc = "exec" =>
       IF hostSess THEN session /\ kind # "amps"
                   ELSE \/ kind \in Silent \cup {"start"}
                        \/ kind = "amps" /\ Provisioned
  /\ hostSess => session \/ (kind = "finish" /\ host = "waiting" /\ dma = <<"ack">>)
  /\ cpc \in {"exec", "spin", "set", "send"} => host = "waiting"
  /\ cpc \in {"spin", "set", "send", "after"} /\ kind = "amps" => ~hostSess
  /\ cpc = "after" /\ kind = "finish" /\ hostSess => dma = <<"ack">> /\ host = "waiting"
  /\ dma = <<"ack">> => /\ cpc \in {"wait", "after"} /\ host = "waiting"
                        /\ kind # "finish" => session
                        /\ kind # "amps"
  /\ dma = <<"text">> => /\ cpc \in {"wait", "after"} /\ host = "waiting"
                         /\ kind = "amps" /\ ~hostSess

IInv == TypeOK /\ FlagInv /\ QuietInv /\ HostInv

-----------------------------------------------------------------------------
\* The transfers TypeOK admits.
LEMMA DmaCases ==
  ASSUME TypeOK
  PROVE  dma = << >> \/ \E owner \in Owners : dma = <<owner>>
  BY DEF TypeOK

LEMMA StartOne ==
  ASSUME TypeOK, dma = << >>, NEW owner, Started(owner)
  PROVE  dma' = <<owner>>
  BY DEF Started

\* The end of the only transfer leaves the line empty.
LEMMA EndOne ==
  ASSUME TypeOK, TxDone
  PROVE  dma' = << >> /\ \E owner \in Owners : dma = <<owner>> /\ Head(dma) = owner
<1>1. PICK owner \in Owners : dma = <<owner>>
  BY DmaCases DEF TxDone
<1>2. Head(dma) = owner /\ Tail(dma) = << >>
  BY <1>1
<1> QED
  BY <1>1, <1>2 DEF TxDone

LEMMA OneIsSome == \A owner : <<owner>> # << >>
  OBVIOUS

LEMMA InitIInv == ASSUME HostFollowsProtocol, Init PROVE IInv
<1>1. result \in BOOLEAN /\ (Provisioned => result)
  BY Zenon DEF HostFollowsProtocol, Init
<1>2. TypeOK
  BY <1>1 DEF Init, TypeOK, Kinds, CpcValues, DpcValues
<1>3. FlagInv /\ QuietInv
  BY DEF Init, FlagInv, QuietInv
<1>4. HostInv
  BY <1>1, OneIsSome DEF Init, HostInv
<1>5. QED BY <1>2, <1>3, <1>4 DEF IInv

LEMMA HostStep ==
  ASSUME HostFollowsProtocol, IInv, NEW k \in Kinds, HostSend(k) \/ HostTimeout
  PROVE  IInv'
<1> USE DEF HostFollowsProtocol, IInv, TypeOK, FlagInv, QuietInv, HostInv, Owners,
            Kinds, CpcValues, DpcValues, txVars, modeVars, hostVars, Silent, DataOwner
<1>1. CASE HostSend(k)
  BY <1>1 DEF HostSend
<1>2. CASE HostTimeout
  BY <1>2 DEF HostTimeout
<1>3. QED BY <1>1, <1>2

LEMMA DoneStep ==
  ASSUME HostFollowsProtocol, IInv, TxDone
  PROVE  IInv'
<1>1. PICK owner \in Owners : dma = <<owner>> /\ Head(dma) = owner /\ dma' = << >>
  BY EndOne DEF IInv
<1>2. TypeOK'
  BY <1>1 DEF TxDone, FlagCleared, IInv, TypeOK, modeVars, hostVars
<1>3. FlagInv'
  BY <1>1 DEF TxDone, FlagCleared, IInv, TypeOK, FlagInv, modeVars, hostVars
<1>4. QuietInv'
  BY <1>1 DEF TxDone, IInv, QuietInv, modeVars
<1>5. HostInv'
  <2>1. UNCHANGED <<session, factory, result, cpc, kind>> /\ cpc \in {"wait", "after"} \cup {"exec", "spin", "set", "send"}
    BY DEF TxDone, IInv, TypeOK, modeVars, CpcValues
  <2>2. dma' # <<"ack">> /\ dma' # <<"text">>
    BY <1>1, OneIsSome
  <2>3. CASE owner \in {"ack", "text"}
    <3>1. cpc \in {"wait", "after"} /\ host = "waiting" /\ host' = "idle"
      BY <1>1, <2>3 DEF TxDone, IInv, HostInv
    <3>2. hostSess' = CASE kind = "start" -> TRUE [] kind = "finish" -> FALSE [] OTHER -> hostSess
      BY <1>1, <2>3 DEF TxDone
    <3>3. hostSess' => session /\ kind # "finish"
      BY <1>1, <2>3, <3>2 DEF IInv, HostInv, TypeOK
    <3>4. kind = "amps" => ~hostSess'
      BY <1>1, <2>3, <3>2 DEF IInv, HostInv, TypeOK
    <3>5. QED BY <2>1, <2>2, <3>1, <3>3, <3>4 DEF IInv, HostInv
  <2>4. CASE owner \notin {"ack", "text"}
    <3>1. UNCHANGED hostVars
      BY <1>1, <2>4 DEF TxDone
    <3>2. dma # <<"ack">>
      BY <1>1, <2>4
    <3>3. QED BY <2>1, <2>2, <3>1, <3>2 DEF IInv, HostInv, hostVars
  <2>5. QED BY <2>3, <2>4
<1>6. QED BY <1>2, <1>3, <1>4, <1>5 DEF IInv

LEMMA DataStep ==
  ASSUME HostFollowsProtocol, IInv, Chirp \/ DataTask
  PROVE  IInv'
<1> USE DEF IInv, TypeOK, FlagInv, QuietInv, HostInv, Owners, Kinds, CpcValues,
            DpcValues, txVars, modeVars, hostVars, DataOwner
<1>1. CASE Chirp \/ DataCheck \/ ReportTest \/ DataDrained \/ FtSpin
  BY <1>1 DEF Chirp, DataCheck, QuietInSession, ReportTest, DropWhenSending, DataDrained, FtSpin
<1>2. CASE ReportSet \/ FtSet
  <2>1. dma = << >> /\ cpc # "send" /\ cpc # "set" /\ ~session
    BY <1>2 DEF ReportSet, FtSet
  <2>2. dma' = << >> /\ dpc' \in {"send", "ftsend"} /\ flag'
    BY <1>2, <2>1 DEF ReportSet, FtSet
  <2>3. UNCHANGED <<modeVars, cpc, kind, hostVars>>
    BY <1>2 DEF ReportSet, FtSet
  <2>4. TypeOK'
    BY <2>2, <2>3, <1>2 DEF ReportSet, FtSet
  <2>5. FlagInv'
    BY <2>1, <2>2, <2>3
  <2>6. QuietInv'
    BY <2>1, <2>2, <2>3
  <2>7. HostInv'
    BY <2>1, <2>2, <2>3, OneIsSome
  <2>8. QED BY <2>4, <2>5, <2>6, <2>7
<1>3. CASE ReportSend
  <2>1. dma' = <<"report">>
    BY <1>3, StartOne DEF ReportSend
  <2>2. QED BY <1>3, <2>1 DEF ReportSend
<1>4. CASE FtSend
  <2>1. dma' = <<"ftdata">>
    BY <1>4, StartOne DEF FtSend
  <2>2. QED BY <1>4, <2>1 DEF FtSend
<1>5. QED BY <1>1, <1>2, <1>3, <1>4 DEF DataTask

LEMMA CmdStep ==
  ASSUME HostFollowsProtocol, IInv, CmdTask
  PROVE  IInv'
<1> USE DEF IInv, TypeOK, FlagInv, QuietInv, HostInv, Owners, Kinds, CpcValues,
            DpcValues, txVars, modeVars, hostVars, CmdMayRun, Silent, DataOwner
<1>1. CASE CmdDispatch
  BY <1>1 DEF CmdDispatch, SessionBegins
<1>2. CASE CmdSpin
  BY <1>2 DEF CmdSpin, LineFree
<1>6. CASE CmdSet
  <2>1. dma = << >>
    BY <1>6 DEF CmdSet
  <2>2. QED BY <1>6, <2>1, OneIsSome DEF CmdSet
<1>3. CASE CmdSend
  <2>1. dma' = <<IF kind = "amps" THEN "text" ELSE "ack">>
    BY <1>3, StartOne DEF CmdSend
  <2>2. QED BY <1>3, <2>1 DEF CmdSend
<1>4. CASE CmdAfter
  BY <1>4 DEF CmdAfter, SessionCleared
<1>5. QED BY <1>1, <1>2, <1>3, <1>4, <1>6 DEF CmdTask

LEMMA Inductive ==
  ASSUME HostFollowsProtocol, IInv, [Next]_vars
  PROVE  IInv'
<1>1. CASE UNCHANGED vars
  BY <1>1 DEF vars, txVars, modeVars, hostVars, IInv, TypeOK, FlagInv, QuietInv, HostInv
<1>2. CASE Next
  BY <1>2, HostStep, DoneStep, DataStep, CmdStep DEF Next, Kinds
<1>3. QED BY <1>1, <1>2

LEMMA Invariant == ASSUME HostFollowsProtocol PROVE Spec => []IInv
<1>1. Init => IInv
  BY InitIInv
<1>2. IInv /\ [Next]_vars => IInv'
  BY Inductive
<1>3. QED BY <1>1, <1>2, PTL DEF Spec

-----------------------------------------------------------------------------
(***************************************************************************)
(* g_uartDmaSendingFlag and the state of both tasks keep their types, and  *)
(* there is never more than one transfer on the line.                      *)
(***************************************************************************)
THEOREM TypeCorrect == ASSUME HostFollowsProtocol PROVE Spec => []TypeOK
<1>1. IInv => TypeOK
  BY DEF IInv
<1>2. QED BY <1>1, Invariant, PTL

(***************************************************************************)
(* The data task never loops on a flag that no transfer will clear: the    *)
(* two tasks do not block each other for ever.                             *)
(***************************************************************************)
THEOREM NoPriorityDeadlock == ASSUME HostFollowsProtocol PROVE Spec => []SpinHasTransfer
<1>1. IInv => SpinHasTransfer
  BY DEF IInv, TypeOK, FlagInv, QuietInv, SpinHasTransfer
<1>2. QED BY <1>1, Invariant, PTL

(***************************************************************************)
(* No radar result is on the line during a configuration session.          *)
(***************************************************************************)
THEOREM SilenceKept == ASSUME HostFollowsProtocol PROVE Spec => []SessionSilent
<1>1. IInv => SessionSilent
  <2> SUFFICES ASSUME IInv, hostSess, NEW i \in 1 .. Len(dma)
               PROVE  dma[i] = "ack"
    BY DEF SessionSilent
  <2>1. PICK owner \in Owners : dma = <<owner>>
    BY DmaCases DEF IInv
  <2>2. i = 1 /\ dma[i] = owner
    BY <2>1
  <2>3. owner \notin DataOwner
    <3>1. dma # << >> /\ dma[1] = owner
      BY <2>1
    <3>2. CASE session
      BY <3>1, <3>2 DEF IInv, FlagInv, QuietInv
    <3>3. CASE ~session
      <4>1. dma = <<"ack">>
        BY <3>3 DEF IInv, HostInv
      <4>2. QED BY <3>1, <4>1 DEF DataOwner
    <3>4. QED BY <3>2, <3>3
  <2>4. owner # "text"
    BY <2>1 DEF IInv, HostInv
  <2>5. QED BY <2>2, <2>3, <2>4 DEF Owners, DataOwner
<1>2. QED BY <1>1, Invariant, PTL

-----------------------------------------------------------------------------
\* The line of the refinement mapping.
LineNow == CASE Len(dma) = 0 -> "free" [] Len(dma) = 1 -> Head(dma) [] OTHER -> "clash"

LEMMA LineFreeVal ==
  /\ dma = << >> => LineNow = "free"
  /\ dma' = << >> => LineNow' = "free"
  BY DEF LineNow

LEMMA LineBusyVal ==
  ASSUME NEW owner
  PROVE  /\ dma = <<owner>> => LineNow = owner
         /\ dma' = <<owner>> => LineNow' = owner
  BY DEF LineNow

LEMMA LineKept ==
  ASSUME UNCHANGED dma
  PROVE  UNCHANGED LineNow
  BY DEF LineNow

\* An abstract step in terms of LineNow.
LineStep ==
  \/ LineNow = "free" /\ LineNow' \in {"ack", "text"} /\ UNCHANGED session
  \/ LineNow = "free" /\ ~session /\ LineNow' \in DataOwner /\ UNCHANGED session
  \/ LineNow # "free" /\ LineNow' = "free" /\ UNCHANGED session
  \/ LineNow \notin DataOwner /\ session' = TRUE /\ UNCHANGED LineNow
  \/ session /\ session' = FALSE /\ UNCHANGED LineNow
  \/ UNCHANGED <<LineNow, session>>

LEMMA LineStepAbstract == LineStep => [Line!Next]_<<LineNow, session>>
  BY DEF LineStep, LineNow, DataOwner, Line!Next, Line!Answer, Line!Report,
         Line!Finish, Line!Hush, Line!Release

LEMMA StepImplements ==
  ASSUME HostFollowsProtocol, IInv, [Next]_vars
  PROVE  LineStep
<1>1. CASE UNCHANGED <<dma, session>>
  BY <1>1, LineKept DEF LineStep
<1>2. CASE TxDone
  <2>1. PICK owner \in Owners : dma = <<owner>> /\ dma' = << >>
    BY <1>2, EndOne DEF IInv
  <2>2. LineNow = owner /\ LineNow' = "free" /\ owner # "free"
    BY <2>1, LineFreeVal, LineBusyVal DEF Owners
  <2>3. UNCHANGED session
    BY <1>2 DEF TxDone, modeVars
  <2>4. QED BY <2>2, <2>3 DEF LineStep
<1>3. CASE ReportSend \/ FtSend
  <2>1. dma = << >> /\ ~session
    BY <1>3 DEF ReportSend, FtSend, IInv, FlagInv, QuietInv
  <2>2. PICK owner \in DataOwner : dma' = <<owner>>
    BY <1>3, <2>1, StartOne DEF ReportSend, FtSend, DataOwner, IInv
  <2>3. LineNow = "free" /\ LineNow' \in DataOwner
    BY <2>1, <2>2, LineFreeVal, LineBusyVal
  <2>4. UNCHANGED session
    BY <1>3 DEF ReportSend, FtSend, modeVars
  <2>5. QED BY <2>1, <2>3, <2>4 DEF LineStep
<1>4. CASE CmdSend
  <2>1. dma = << >>
    BY <1>4 DEF CmdSend, IInv, FlagInv
  <2>2. PICK owner \in {"ack", "text"} : dma' = <<owner>>
    BY <1>4, <2>1, StartOne DEF CmdSend, IInv
  <2>3. LineNow = "free" /\ LineNow' \in {"ack", "text"}
    BY <2>1, <2>2, LineFreeVal, LineBusyVal
  <2>4. UNCHANGED session
    BY <1>4 DEF CmdSend, modeVars
  <2>5. QED BY <2>3, <2>4 DEF LineStep
<1>5. CASE CmdDispatch
  <2>1. UNCHANGED LineNow
    BY <1>5, LineKept DEF CmdDispatch, txVars
  <2>2. LineNow \notin DataOwner
    <3>1. dma # << >> => dma[1] \notin DataOwner
      BY <1>5 DEF CmdDispatch, CmdMayRun, IInv, FlagInv
    <3>2. QED BY <3>1, DmaCases, LineFreeVal, LineBusyVal DEF IInv, DataOwner
  <2>3. session' = TRUE \/ UNCHANGED session
    BY <1>5 DEF CmdDispatch, SessionBegins, IInv, TypeOK
  <2>4. QED BY <2>1, <2>2, <2>3 DEF LineStep
<1>6. CASE CmdAfter
  <2>1. UNCHANGED LineNow
    BY <1>6, LineKept DEF CmdAfter, txVars
  <2>2. (session /\ session' = FALSE) \/ UNCHANGED session
    BY <1>6 DEF CmdAfter, SessionCleared, IInv, TypeOK
  <2>3. QED BY <2>1, <2>2 DEF LineStep
<1>7. QED
  BY <1>1, <1>2, <1>3, <1>4, <1>5, <1>6
  DEF Next, vars, txVars, modeVars, HostSend, HostTimeout, Chirp, DataTask, DataCheck,
      ReportTest, ReportSet, DataDrained, FtSpin, FtSet, CmdTask, CmdSpin, CmdSet

(***************************************************************************)
(* uart_dma_send with its flag implements a line that carries one transfer *)
(* at a time and no radar data while CmdModeFlag is set.                   *)
(***************************************************************************)
THEOREM TxImplementsLine == ASSUME HostFollowsProtocol PROVE Spec => LineSpec
<1>1. Init => Line!Init
  BY LineFreeVal DEF Init, Line!Init, LineNow
<1>2. IInv /\ [Next]_vars => [Line!Next]_<<LineNow, session>>
  BY StepImplements, LineStepAbstract
<1>3. QED BY <1>1, <1>2, Invariant, PTL DEF Spec, LineSpec, Line!Spec, LineNow
=============================================================================
