--------------------------- MODULE CmdExecProofs ---------------------------
(***************************************************************************)
(* Proofs about CmdExec, for every set of version words and every number   *)
(* of registers and parameters the host may ask for.  What the host knows  *)
(* of the session is tied to CmdModeFlag and masterProtocolVer in each     *)
(* phase of a command; while the host does not know, it sends nothing but  *)
(* START_CFG, which sets both.                                             *)
(***************************************************************************)
EXTENDS CmdExec, TLAPS

\* The mode a command finds, by what the host takes it to be.
Known ==
  /\ cmdMode <=> hostSess = "in"
  /\ version = hostVersion

\* The mode START_CFG, FINISH_CFG and the others leave behind.
Left ==
  /\ command.type = "START_CFG" => cmdMode /\ version = VersionOf(command)
  /\ command.type = "FINISH_CFG" => ~cmdMode /\ version = hostVersion
  /\ command.type \notin {"START_CFG", "FINISH_CFG"} => Known

ModeInv ==
  /\ phase # "answered" /\ hostSess # "unknown" => Known
  /\ phase = "answered" => Left
  /\ phase # "idle" => HostMay(command)

\* What is written in a session is saved by the FINISH_CFG that ends it.
SaveInv ==
  /\ SettledOutside
  /\ phase = "answered" /\ command.type = "FINISH_CFG" /\ ~factory => ~needWrite

IInv == TypeOK /\ ModeInv /\ SaveInv /\ AnswerParsable /\ RefusalVisible

-----------------------------------------------------------------------------
(***************************************************************************)
(* FillCmdAck: what is true of the answer for any data.                    *)
(***************************************************************************)
Words == Nat \cup {NULL}

LEMMA AnswerTyped ==
  ASSUME NEW words \in Words, NEW ver \in Nat, NEW ok \in BOOLEAN
  PROVE  FillCmdAck(words, ver, ok) \in
           {NoAnswer} \cup [sent : {TRUE}, field : Nat, bytes : Nat, status : 0 .. 2, ok : BOOLEAN]
<1>1. LengthField(command.type, words, ver) \in Nat
  BY DEF Words, LengthField, CMD_TYPE_LEN, CMD_STATUS_LEN, CMD_STR_LEN, NULL
<1>2. Bytes(command.type, words, ver) \in Nat
  BY DEF Words, Bytes, CMD_TYPE_LEN, CMD_STATUS_LEN, CMD_STR_LEN, NULL
<1>3. Status(words, ver, ok) \in 0 .. 2
  BY DEF Status, ACK_OK, ACK_FAIL, ACK_OK_OLD, ACK_FAIL_OLD, NoStatus
<1> QED
  BY <1>1, <1>2, <1>3 DEF FillCmdAck

\* The length field counts the bytes, except for the version in version 0.
LEMMA LengthCounts ==
  ASSUME NEW words \in Words, NEW ver \in Nat, NEW ok \in BOOLEAN,
         ~(command.type = "READ_VER" /\ ver = 0),
         FillCmdAck(words, ver, ok).sent
  PROVE  FillCmdAck(words, ver, ok).field = FillCmdAck(words, ver, ok).bytes
<1>1. FillCmdAck(words, ver, ok) # NoAnswer
  BY DEF NoAnswer
<1>2. LengthField(command.type, words, ver) = Bytes(command.type, words, ver)
  BY DEF Words, LengthField, Bytes, AsString, CMD_TYPE_LEN, CMD_STATUS_LEN, CMD_STR_LEN, NULL
<1> QED
  BY <1>1, <1>2 DEF FillCmdAck

\* A host that knows the version reads from an answer whether it is one of success.
ReadsOk(a, ver) ==
  IF ver # 0 THEN a.status = ACK_OK
  ELSE a.field = CMD_TYPE_LEN + CMD_STATUS_LEN => a.status # ACK_FAIL_OLD

LEMMA StatusTells ==
  ASSUME NEW words \in Words, NEW ver \in Nat, NEW ok \in BOOLEAN,
         words = NULL \/ ok,
         FillCmdAck(words, ver, ok).sent
  PROVE  ReadsOk(FillCmdAck(words, ver, ok), ver) <=> FillCmdAck(words, ver, ok).ok
<1>1. FillCmdAck(words, ver, ok) # NoAnswer
  BY DEF NoAnswer
<1>2. words = NULL => LengthField(command.type, words, ver) = CMD_TYPE_LEN + CMD_STATUS_LEN
  BY DEF LengthField
<1> DEFINE a == FillCmdAck(words, ver, ok)
<1>3. /\ a.status = Status(words, ver, ok)
      /\ a.ok = ok
      /\ a.field = LengthField(command.type, words, ver)
  BY <1>1 DEF FillCmdAck
<1>4. CASE ok
  BY <1>2, <1>3, <1>4 DEF ReadsOk, Status, ACK_OK, ACK_FAIL, ACK_OK_OLD, ACK_FAIL_OLD, NoStatus
<1>5. CASE ~ok
  BY <1>2, <1>3, <1>5 DEF ReadsOk, Status, ACK_OK, ACK_FAIL, ACK_OK_OLD, ACK_FAIL_OLD, NoStatus
<1> QED
  BY <1>4, <1>5
-----------------------------------------------------------------------------
(***************************************************************************)
(* The types of the commands.                                              *)
(***************************************************************************)
VersionSet == (Versions \ {NoWord}) \cup {0}

LEMMA VersionsAreNat == VersionSet \subseteq Nat
  BY VersionsAssumption DEF VersionSet

LEMMA CommandFacts ==
  ASSUME NEW c \in Commands
  PROVE  /\ c.type = "START_CFG" => c.arg \in Versions /\ VersionOf(c) \in VersionSet
         /\ c.type = "READ_REG" => c.arg \in RegCounts
         /\ c.type \in {"READ_SYS", "READ_MTT"} => c.arg \in Nat
         /\ c.type \in {"READ_SN", "PARAM_READ", "ENTER_FACTORYMODE", "EXIT_FACTORYMODE"}
              => c.arg = NULL /\ c \in RefusedAlike
<1>1. c.type = "START_CFG" => c.arg \in Versions /\ VersionOf(c) \in VersionSet
  BY DEF Commands, ParaWrites, NullReads, SessionReads, VersionOf, VersionSet
<1>2. c.type = "READ_REG" => c.arg \in RegCounts
  BY DEF Commands, ParaWrites, NullReads, SessionReads
<1>3. c.type \in {"READ_SYS", "READ_MTT"} => c.arg \in Nat
  BY CountsAssumption DEF Commands, ParaWrites, NullReads, SessionReads
<1>4. c.type \in {"READ_SN", "PARAM_READ", "ENTER_FACTORYMODE", "EXIT_FACTORYMODE"}
        => c.arg = NULL /\ c \in RefusedAlike
  BY DEF Commands, ParaWrites, NullReads, SessionReads, RefusedAlike
<1> QED
  BY <1>1, <1>2, <1>3, <1>4

LEMMA InitIInv == ASSUME Init PROVE IInv
<1>1. command \in Commands /\ command.type = "UNKNOWN"
  BY DEF Init, Commands
<1>2. TypeOK
  <2>1. answer \in {NoAnswer}
    BY DEF Init
  <2> QED
    BY <1>1, <2>1 DEF Init, TypeOK
<1>3. ~answer.sent
  BY DEF Init, NoAnswer
<1>4. ModeInv /\ SaveInv
  BY DEF Init, ModeInv, SaveInv, Known, SettledOutside
<1>5. AnswerParsable /\ RefusalVisible
  BY <1>1, <1>3 DEF Init, AnswerParsable, EveryAnswerParsable, RefusalVisible
<1> QED
  BY <1>2, <1>4, <1>5 DEF IInv

LEMMA HostSendStep == ASSUME IInv, NEW c \in Commands, HostSend(c) PROVE IInv'
<1> USE DEF IInv, HostSend, modeVars, hostVars
<1>1. ~answer'.sent
  BY DEF NoAnswer
<1>2. TypeOK'
  BY DEF TypeOK
<1>3. ModeInv' /\ SaveInv'
  BY DEF ModeInv, SaveInv, SettledOutside, Known, HostMay, RefusedAlike
<1>4. AnswerParsable' /\ RefusalVisible'
  BY <1>1 DEF AnswerParsable, EveryAnswerParsable, RefusalVisible
<1> QED
  BY <1>2, <1>3, <1>4

LEMMA HostReceiveStep == ASSUME IInv, HostReceive PROVE IInv'
<1> USE DEF IInv, HostReceive, modeVars
<1>1. TypeOK'
  BY CommandFacts DEF TypeOK, VersionOf, VersionSet
<1>2. ModeInv'
  <2>1. CASE command.type = "START_CFG"
    BY <2>1 DEF ModeInv, Left, Known, VersionOf
  <2>2. CASE command.type = "FINISH_CFG"
    <3>1. hostSess' = "out" /\ hostVersion' = hostVersion
      BY <2>2, Zenon
    <3>2. ~cmdMode /\ version = hostVersion
      BY <2>2 DEF ModeInv, Left
    <3>3. ~cmdMode' /\ version' = hostVersion' /\ phase' = "idle"
      BY <3>1, <3>2
    <3>4. Known'
      BY ONLY <3>1, <3>3 DEF Known
    <3> QED
      BY <3>3, <3>4 DEF ModeInv
  <2>3. CASE command.type \notin {"START_CFG", "FINISH_CFG"}
    BY <2>3 DEF ModeInv, Left, Known
  <2> QED
    BY <2>1, <2>2, <2>3
<1>3. SaveInv'
  BY DEF SaveInv, SettledOutside
<1>4. AnswerParsable' /\ RefusalVisible'
  BY DEF AnswerParsable, EveryAnswerParsable, RefusalVisible
<1> QED
  BY <1>1, <1>2, <1>3, <1>4

LEMMA GiveUpStep == ASSUME IInv, HostGivesUp PROVE IInv'
<1> USE DEF IInv, HostGivesUp, modeVars
<1>1. TypeOK'
  BY DEF TypeOK
<1>2. ModeInv'
  BY DEF ModeInv, Left, Known, HostMay
<1>3. SaveInv'
  BY DEF SaveInv, SettledOutside
<1>4. AnswerParsable' /\ RefusalVisible'
  BY DEF AnswerParsable, EveryAnswerParsable, RefusalVisible
<1> QED
  BY <1>1, <1>2, <1>3, <1>4

LEMMA RestartStep == ASSUME IInv, Restart PROVE IInv'
<1> USE DEF IInv, Restart, Boot
<1>1. ~answer'.sent
  BY DEF NoAnswer
<1>2. TypeOK'
  BY DEF TypeOK
<1>3. ModeInv' /\ SaveInv'
  BY DEF ModeInv, SaveInv, SettledOutside
<1>4. AnswerParsable' /\ RefusalVisible'
  BY <1>1 DEF AnswerParsable, EveryAnswerParsable, RefusalVisible
<1> QED
  BY <1>2, <1>3, <1>4

-----------------------------------------------------------------------------
(***************************************************************************)
(* Every command is answered by FillCmdAck, if at all, and data is sent    *)
(* with a success only, unless the session it is read in is missing.       *)
(***************************************************************************)
AnswerOf(words, ok) == answer' = FillCmdAck(words, version', ok)

GoodAnswer ==
  \/ answer' = NoAnswer
  \/ \E words \in Words, ok \in BOOLEAN : AnswerOf(words, ok) /\ (words = NULL \/ ok)

LEMMA ExecMode ==
  ASSUME IInv, CmdExec
  PROVE  /\ version' = IF command.type = "START_CFG" THEN VersionOf(command) ELSE version
         /\ command.type = "START_CFG" => cmdMode'
         /\ command.type \in {"FINISH_CFG", "AMPS_READ_RESULT"} => ~cmdMode'
         /\ command.type \notin {"START_CFG", "FINISH_CFG", "AMPS_READ_RESULT"} => cmdMode' = cmdMode
         /\ debugMode' \in BOOLEAN /\ factory' \in BOOLEAN /\ needWrite' \in BOOLEAN
<1> USE DEF IInv, TypeOK, CmdExec, modeVars
<1>1. CASE StartCfg \/ FinishCfg \/ ReadVer \/ DebugMode \/ Stateless
  BY <1>1 DEF StartCfg, FinishCfg, ReadVer, DebugMode, Stateless, NullReads
<1>2. CASE DoWriteReg \/ DoWritePara \/ DoConfigurePara
  BY <1>2 DEF DoWriteReg, DoWritePara, DoConfigurePara, ParaWrites, ParaTaken
<1>3. CASE DoReadReg \/ DoReadPara \/ DoReadSn \/ DoReadConfigureParam
  BY <1>3 DEF DoReadReg, DoReadPara, DoReadSn, DoReadConfigureParam
<1>4. CASE EnterFactoryMode \/ ExitFactoryMode \/ AmpsReadResult
  BY <1>4 DEF EnterFactoryMode, ExitFactoryMode, AmpsReadResult
<1> QED
  BY <1>1, <1>2, <1>3, <1>4

LEMMA ExecAnswers == ASSUME IInv, CmdExec PROVE GoodAnswer
<1> USE DEF IInv, TypeOK, CmdExec, modeVars, GoodAnswer, AnswerOf, Words
<1>1. command \in Commands /\ phase = "sent" /\ HostMay(command) /\ cmdMode \in BOOLEAN
  BY DEF ModeInv
<1>2. ~cmdMode => command.type \notin {"READ_SN", "PARAM_READ", "ENTER_FACTORYMODE", "EXIT_FACTORYMODE"}
  BY <1>1, CommandFacts DEF ModeInv, Known, HostMay
<1>3. ASSUME UNCHANGED version, NEW words \in Words, NEW ok \in BOOLEAN,
             Answered(words, ok), words = NULL \/ ok
      PROVE  GoodAnswer
  BY <1>3 DEF Answered
<1>4. ASSUME Unanswered PROVE GoodAnswer
  BY <1>4 DEF Unanswered
<1>5. CASE StartCfg
  BY <1>5 DEF StartCfg
<1>6. CASE FinishCfg \/ ExitFactoryMode
  BY <1>3, <1>6 DEF FinishCfg, ExitFactoryMode
<1>7. CASE ReadVer
  BY <1>3, <1>7 DEF ReadVer
<1>8. CASE DebugMode \/ AmpsReadResult
  BY <1>3, <1>4, <1>8 DEF DebugMode, AmpsReadResult
<1>9. CASE Stateless
  BY <1>3, <1>4, <1>9 DEF Stateless
<1>10. CASE DoWriteReg \/ DoWritePara \/ DoConfigurePara
  <2>1. PICK ok \in BOOLEAN : Answered(NULL, ok)
    BY <1>1, <1>10 DEF DoWriteReg, DoWritePara, DoConfigurePara
  <2>2. UNCHANGED version
    BY <1>10 DEF DoWriteReg, DoWritePara, DoConfigurePara
  <2> QED
    BY <1>3, <2>1, <2>2
<1>11. CASE DoReadReg
  <2>1. RegNum \in Nat
    BY <1>1, <1>11, CommandFacts, CountsAssumption DEF RegNum, DoReadReg
  <2> QED
    BY <1>3, <1>11, <2>1 DEF DoReadReg
<1>12. CASE DoReadPara
  <2>1. 2 * command.arg \in Nat
    BY <1>1, <1>12, CommandFacts DEF DoReadPara
  <2> QED
    BY <1>3, <1>12, <2>1 DEF DoReadPara
<1>13. CASE DoReadSn \/ DoReadConfigureParam \/ EnterFactoryMode
  <2>1. cmdMode = TRUE
    BY <1>1, <1>2, <1>13 DEF DoReadSn, DoReadConfigureParam, EnterFactoryMode
  <2>2. UNCHANGED version /\ (Answered(6, TRUE) \/ Answered(12, TRUE) \/ Answered(7, TRUE))
    BY <1>13, <2>1 DEF DoReadSn, DoReadConfigureParam, EnterFactoryMode
  <2> QED
    BY <1>3, <2>2
<1> QED
  BY <1>5, <1>6, <1>7, <1>8, <1>9, <1>10, <1>11, <1>12, <1>13

\* Which commands set needFlashWrite, and which reset it.
LEMMA ExecSaves ==
  ASSUME IInv, CmdExec
  PROVE  /\ needWrite' => needWrite \/ cmdMode
         /\ command.type = "FINISH_CFG" => (needWrite' => factory')
         /\ ~cmdMode => factory' = factory
<1>1. /\ command \in Commands
      /\ cmdMode \in BOOLEAN /\ needWrite \in BOOLEAN /\ factory \in BOOLEAN
  BY DEF IInv, TypeOK
<1>2. ~cmdMode => command.type \notin {"READ_SN", "PARAM_READ", "ENTER_FACTORYMODE", "EXIT_FACTORYMODE"}
  BY <1>1, CommandFacts DEF IInv, TypeOK, ModeInv, Known, HostMay, CmdExec
<1>3. CASE FinishCfg
  BY <1>1, <1>3 DEF FinishCfg
<1>4. CASE DoWriteReg
  BY <1>1, <1>4 DEF DoWriteReg
<1>5. CASE DoWritePara
  BY <1>1, <1>5 DEF DoWritePara, ParaTaken, ParaWrites
<1>6. CASE EnterFactoryMode \/ ExitFactoryMode
  BY <1>1, <1>2, <1>6 DEF EnterFactoryMode, ExitFactoryMode
<1>7. CASE \/ StartCfg \/ ReadVer \/ DebugMode \/ Stateless \/ DoConfigurePara
           \/ DoReadReg \/ DoReadPara \/ DoReadSn \/ DoReadConfigureParam \/ AmpsReadResult
  <2>1. needWrite' = needWrite /\ factory' = factory
    BY <1>7 DEF StartCfg, ReadVer, DebugMode, Stateless, DoConfigurePara, DoReadReg, DoReadPara,
                DoReadSn, DoReadConfigureParam, AmpsReadResult, modeVars
  <2>2. command.type # "FINISH_CFG"
    BY <1>7 DEF StartCfg, ReadVer, DebugMode, Stateless, DoConfigurePara, DoReadReg, DoReadPara,
                DoReadSn, DoReadConfigureParam, AmpsReadResult, NullReads
  <2> QED
    BY <2>1, <2>2
<1> QED
  BY <1>3, <1>4, <1>5, <1>6, <1>7 DEF CmdExec

LEMMA ExecStep == ASSUME IInv, CmdExec PROVE IInv'
<1>1. /\ command \in Commands /\ phase = "sent" /\ phase' = "answered"
      /\ UNCHANGED <<command, hostSess, hostVersion>> /\ HostMay(command)
  BY DEF CmdExec, hostVars, IInv, TypeOK, ModeInv
<1>2. /\ version \in VersionSet /\ version' \in VersionSet
      /\ version' \in Nat /\ cmdMode \in BOOLEAN /\ cmdMode' \in BOOLEAN
  <2>1. version \in VersionSet /\ cmdMode \in BOOLEAN
    BY DEF IInv, TypeOK, VersionSet
  <2>2. version' \in VersionSet
    <3>1. command.type = "START_CFG" => VersionOf(command) \in VersionSet
      BY <1>1, CommandFacts
    <3> QED
      BY <2>1, <3>1, ExecMode
  <2>3. cmdMode' \in BOOLEAN
    <3>1. CASE StartCfg \/ FinishCfg \/ AmpsReadResult
      BY <3>1 DEF StartCfg, FinishCfg, AmpsReadResult
    <3>2. CASE ~(StartCfg \/ FinishCfg \/ AmpsReadResult)
      BY <2>1, <3>2 DEF CmdExec, ReadVer, DebugMode, Stateless, DoWriteReg, DoWritePara,
           DoConfigurePara, DoReadReg, DoReadPara, DoReadSn, DoReadConfigureParam,
           EnterFactoryMode, ExitFactoryMode, modeVars
    <3> QED
      BY <3>1, <3>2
  <2> QED
    BY <2>1, <2>2, <2>3, VersionsAreNat
<1>3. TypeOK'
  <2>1. answer' \in
          {NoAnswer} \cup [sent : {TRUE}, field : Nat, bytes : Nat, status : 0 .. 2, ok : BOOLEAN]
    BY <1>2, ExecAnswers, AnswerTyped, ZenonT(60) DEF GoodAnswer, AnswerOf
  <2> QED
    BY <1>1, <1>2, <2>1, ExecMode DEF IInv, TypeOK, VersionSet
<1>4. ModeInv'
  <2>1. hostSess # "unknown" => Known
    BY <1>1 DEF IInv, ModeInv
  <2>2. Left'
    <3>1. CASE command.type = "START_CFG"
      BY <1>1, <3>1, ExecMode DEF Left, VersionOf
    <3>2. CASE command.type = "FINISH_CFG"
      BY <1>1, <2>1, <3>2, ExecMode DEF Left, Known, HostMay
    <3>3. CASE command.type \notin {"START_CFG", "FINISH_CFG"}
      <4>1. hostSess # "unknown"
        BY <1>1, <3>3 DEF HostMay
      <4>2. cmdMode' <=> hostSess = "in"
        BY <1>1, <1>2, <2>1, <3>3, <4>1, ExecMode DEF Known, HostMay
      <4> QED
        BY <1>1, <2>1, <3>3, <4>1, <4>2, ExecMode DEF Left, Known
    <3> QED
      BY <3>1, <3>2, <3>3
  <2>3. HostMay(command)'
    BY <1>1 DEF HostMay
  <2> QED
    BY <1>1, <2>2, <2>3 DEF ModeInv
<1>5. SaveInv'
  <2>1. SettledOutside'
    <3>1. hostSess = "out" => ~cmdMode
      BY <1>1 DEF IInv, ModeInv, Known
    <3> QED
      BY <1>1, <3>1, ExecSaves DEF IInv, SaveInv, SettledOutside
  <2>2. command.type = "FINISH_CFG" => (needWrite' => factory')
    BY ExecSaves
  <2> QED
    BY <1>1, <2>1, <2>2 DEF SaveInv
<1>6. AnswerParsable'
  <2>1. CASE answer' = NoAnswer
    BY <2>1 DEF NoAnswer, AnswerParsable, EveryAnswerParsable
  <2>2. CASE \E words \in Words, ok \in BOOLEAN : AnswerOf(words, ok)
    <3>1. PICK words \in Words, ok \in BOOLEAN : answer' = FillCmdAck(words, version', ok)
      BY <2>2 DEF AnswerOf
    <3>2. ~(command.type = "READ_VER" /\ version' = 0) /\ answer'.sent => answer'.field = answer'.bytes
      BY <1>2, <3>1, LengthCounts
    <3> QED
      BY <1>1, <3>2 DEF AnswerParsable, EveryAnswerParsable
  <2> QED
    BY <2>1, <2>2, ExecAnswers DEF GoodAnswer
<1>7. RefusalVisible'
  <2>1. CASE answer' = NoAnswer
    BY <2>1 DEF NoAnswer, RefusalVisible
  <2>2. CASE \E words \in Words, ok \in BOOLEAN : AnswerOf(words, ok) /\ (words = NULL \/ ok)
    <3>1. PICK words \in Words, ok \in BOOLEAN :
            answer' = FillCmdAck(words, version', ok) /\ (words = NULL \/ ok)
      BY <2>2 DEF AnswerOf
    <3>2. answer'.sent => (ReadsOk(answer', version') <=> answer'.ok)
      BY <1>2, <3>1, StatusTells
    <3>3. HostReadsVersion' = version'
      <4>1. CASE command.type = "START_CFG"
        BY <1>1, <4>1, ExecMode DEF HostReadsVersion, VersionOf
      <4>2. CASE command.type # "START_CFG"
        BY <1>1, <4>2, ExecMode DEF HostReadsVersion, HostMay, IInv, ModeInv, Known
      <4> QED
        BY <4>1, <4>2
    <3>4. HostReadsOk' <=> ReadsOk(answer', version')
      BY <3>3 DEF HostReadsOk, ReadsOk
    <3> QED
      BY <3>2, <3>4 DEF RefusalVisible
  <2> QED
    BY <2>1, <2>2, ExecAnswers DEF GoodAnswer
<1> QED
  BY <1>3, <1>4, <1>5, <1>6, <1>7 DEF IInv

LEMMA StutterStep == ASSUME IInv, UNCHANGED vars PROVE IInv'
<1> USE DEF IInv, vars, modeVars, hostVars
<1>1. TypeOK'
  BY ZenonT(60) DEF TypeOK
<1>2. ModeInv' /\ SaveInv'
  BY DEF ModeInv, Known, Left, HostMay, VersionOf, SaveInv, SettledOutside
<1>3. AnswerParsable' /\ RefusalVisible'
  BY DEF AnswerParsable, EveryAnswerParsable, RefusalVisible, HostReadsOk, HostReadsVersion
<1> QED
  BY <1>1, <1>2, <1>3

THEOREM Invariance == Spec => []IInv
<1>1. IInv /\ [Next]_vars => IInv'
  BY HostSendStep, HostReceiveStep, GiveUpStep, RestartStep, ExecStep, StutterStep DEF Next
<1> QED
  BY <1>1, InitIInv, PTL DEF Spec

-----------------------------------------------------------------------------
(***************************************************************************)
(* The mode of the module keeps its types, for every set of version words. *)
(***************************************************************************)
THEOREM TypeCorrect == Spec => []TypeOK
  BY Invariance, PTL DEF IInv

(***************************************************************************)
(* The host and the module agree on the session and on the version, after  *)
(* any number of lost commands, lost answers and restarts.                 *)
(***************************************************************************)
THEOREM SessionIsAgreed == Spec => []SessionAgreed
<1>1. IInv => SessionAgreed
  BY DEF IInv, TypeOK, ModeInv, Known, SessionAgreed
<1> QED
  BY <1>1, Invariance, PTL

(***************************************************************************)
(* The length field counts the bytes of every answer but that to READ_VER  *)
(* in version 0, whatever is asked for and however much of it.             *)
(***************************************************************************)
THEOREM AnswersAreParsable == Spec => []AnswerParsable
  BY Invariance, PTL DEF IInv

(***************************************************************************)
(* The host reads a failure from an answer exactly if it is one, in every  *)
(* version.                                                                *)
(***************************************************************************)
THEOREM RefusalsAreVisible == Spec => []RefusalVisible
  BY Invariance, PTL DEF IInv

(***************************************************************************)
(* Nothing written in a session is left unsaved after it.                  *)
(***************************************************************************)
THEOREM OutsideIsSettled == Spec => []SettledOutside
<1>1. IInv => SettledOutside
  BY DEF IInv, SaveInv
<1> QED
  BY <1>1, Invariance, PTL
=============================================================================
