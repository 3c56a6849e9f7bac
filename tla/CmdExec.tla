------------------------------ MODULE CmdExec ------------------------------
(***************************************************************************)
(* CmdExec of src/project/D103/src/cmdprocess.c: what the commands do to   *)
(* the mode of the module and how they are answered.  One command is       *)
(* executed at a time; the command or its answer may get lost, and the     *)
(* module may restart.  What the commands leave in the NV store is the     *)
(* subject of NvConfig, the transmission of the answers of UartTx.         *)
(*                                                                         *)
(* The host chooses a protocol version with START_CFG: with a version word *)
(* that is not 0 every answer carries a status, in version 0 only those    *)
(* without data do, and with other values.                                 *)
(***************************************************************************)
EXTENDS Naturals

CONSTANTS
  Versions,     \* the version words of START_CFG; NoWord for the form without one
  RegCounts,    \* registers the host asks for with one READ_REG
  ParaCounts    \* parameters the host asks for with one READ_SYS

NoWord    == 70000     \* no word in the command
NULL      == 70001     \* FillCmdAck without data

CMD_LEN_MAX      == 64
CMD_HEAD_MAX     == 4
CMD_LENGTH_LEN   == 2
CMD_TYPE_LEN     == 2
CMD_STATUS_LEN   == 2
CMD_STR_LEN      == 2
CMD_TAIL_MAX     == 4
CMD_OVERHEAD_LEN == CMD_HEAD_MAX + CMD_LENGTH_LEN + CMD_TYPE_LEN + CMD_TAIL_MAX
CMD_BUF_LEN      == CMD_LEN_MAX - CMD_HEAD_MAX - CMD_TAIL_MAX - CMD_LENGTH_LEN
CMD_REG_MAX      == 25
CMD_PARA_MAX     == 13

\* The commands of the host fit the parser, and it never asks for CMD_PARA_MAX parameters at once.
ASSUME VersionsAssumption == NoWord \in Versions /\ Versions \ {NoWord} \subseteq Nat
ASSUME CountsAssumption ==
  /\ \A n \in RegCounts \ {NoWord} : n \in Nat /\ 2 * n + 4 <= CMD_BUF_LEN
  /\ \A n \in ParaCounts : n \in Nat /\ 2 * n + 2 <= CMD_BUF_LEN /\ n # CMD_PARA_MAX

VARIABLES
  cmdMode,      \* CmdModeFlag
  version,      \* masterProtocolVer
  debugMode,    \* DebugModeFlag
  factory,      \* g_FtcmdFlag
  needWrite,    \* needFlashWrite
  phase,        \* "idle", "sent": a command is on its way, "answered": it was executed
  command,      \* the last command of the host
  answer,       \* what FillCmdAck left in CmdAck for it
  hostSess,     \* the host takes the module to be "in" or "out" of a session, or does not know
  hostVersion   \* the version it agreed on last

modeVars == <<cmdMode, version, debugMode, factory, needWrite>>
hostVars == <<hostSess, hostVersion>>
vars == <<modeVars, phase, command, answer, hostVars>>

-----------------------------------------------------------------------------
(***************************************************************************)
(* FillCmdAck.  words is the number of data words, or NULL; for the        *)
(* version string it is the number of characters.                          *)
(***************************************************************************)
ACK_OK == 0
ACK_FAIL == 1
ACK_OK_OLD == 1
ACK_FAIL_OLD == 0
NoStatus == 2

\* Whether the data is taken for a string, which depends on the type only.
AsString(type, words) == type = "READ_VER" /\ words # NULL

\* The length field, and a variant without the status of the newer versions.
LengthOld(type, words, ver) == CMD_TYPE_LEN + (IF words = NULL THEN CMD_STATUS_LEN ELSE 2 * words)
LengthField(type, words, ver) ==
  CMD_TYPE_LEN +
    (IF words = NULL THEN CMD_STATUS_LEN
     ELSE CASE ver = 0                            -> 2 * words
            [] ver # 0 /\ AsString(type, words)  -> CMD_STATUS_LEN + CMD_STR_LEN + words
            [] ver # 0 /\ ~AsString(type, words) -> CMD_STATUS_LEN + 2 * words)

\* The status word, and a variant that keeps the values of the newer versions.
StatusNew(words, ver, ok) ==
  IF ver # 0 \/ words = NULL THEN IF ok THEN ACK_OK ELSE ACK_FAIL ELSE NoStatus
Status(words, ver, ok) ==
  CASE ver # 0                  -> IF ok THEN ACK_OK ELSE ACK_FAIL
    [] ver = 0 /\ words = NULL  -> IF ok THEN ACK_OK_OLD ELSE ACK_FAIL_OLD
    [] OTHER                    -> NoStatus

\* The bytes between the length field and the tail.
Bytes(type, words, ver) ==
  CMD_TYPE_LEN + (IF ver # 0 \/ words = NULL THEN CMD_STATUS_LEN ELSE 0)
    + (CASE words = NULL           -> 0
         [] AsString(type, words)  -> CMD_STR_LEN + words
         [] OTHER                  -> 2 * words)

\* The guard on the length of the data.
TooLong(words) == words # NULL /\ 2 * words > CMD_LEN_MAX - CMD_OVERHEAD_LEN

NoAnswer == [sent |-> FALSE]
FillCmdAck(words, ver, ok) ==
  IF TooLong(words) THEN NoAnswer
  ELSE [sent   |-> TRUE,
        field  |-> LengthField(command.type, words, ver),
        bytes  |-> Bytes(command.type, words, ver),
        status |-> Status(words, ver, ok),
        ok     |-> ok]

-----------------------------------------------------------------------------
(***************************************************************************)
(* The commands.  arg stands for what follows the type: the version word,  *)
(* the number of registers or parameters asked for, or how a write fares:  *)
(* all of it takes effect, some of it or none (an unknown parameter, a     *)
(* register that does not read back).                                      *)
(***************************************************************************)
ParaWrites == {"WRITE_SYS", "NOP_CONFIG"}
NullReads  == {"CASCADING_MODE", "START_I2C_TEST", "STOP_I2C_TEST"}
SessionReads == [type : {"READ_SN", "PARAM_READ"}, arg : {NULL}]

Commands ==
  [type : {"START_CFG"}, arg : Versions]
    \cup [type : {"READ_REG"}, arg : RegCounts]
    \cup [type : {"READ_SYS", "READ_MTT"}, arg : ParaCounts]
    \cup [type : ParaWrites, arg : {"all", "some", "none"}]
    \cup [type : {"WRITE_MTT", "FFT_ZEROFILL"}, arg : {"none"}]
    \cup [type : {"WRITE_REG"}, arg : {"all", "some"}]
    \cup [type : {"PARAM_CFG", "THRESHOLD_SET"}, arg : {"all", "none"}]
    \cup [type : NullReads \cup {"FINISH_CFG", "READ_VER", "GET_I2C_TEST_RESULT",
                                 "ENABLE_DEBUG", "DISABLE_DEBUG", "AMPS_READ_RESULT",
                                 "ENTER_FACTORYMODE", "EXIT_FACTORYMODE", "UNKNOWN"},
          arg : {NULL}]
    \cup SessionReads

TypeOK ==
  /\ cmdMode \in BOOLEAN /\ debugMode \in BOOLEAN
  /\ factory \in BOOLEAN /\ needWrite \in BOOLEAN
  /\ version \in (Versions \ {NoWord}) \cup {0}
  /\ phase \in {"idle", "sent", "answered"}
  /\ command \in Commands
  /\ answer \in {NoAnswer} \cup [sent : {TRUE}, field : Nat, bytes : Nat, status : 0 .. 2, ok : BOOLEAN]
  /\ hostSess \in {"in", "out", "unknown"}
  /\ hostVersion \in (Versions \ {NoWord}) \cup {0}

Boot ==
  /\ cmdMode' = FALSE /\ version' = 0 /\ debugMode' = FALSE
  /\ factory' = FALSE /\ needWrite' = FALSE

Init ==
  /\ cmdMode = FALSE /\ version = 0 /\ debugMode = FALSE
  /\ factory = FALSE /\ needWrite = FALSE
  /\ phase = "idle"
  /\ command = [type |-> "UNKNOWN", arg |-> NULL]
  /\ answer = NoAnswer
  /\ hostSess = "out" /\ hostVersion = 0

-----------------------------------------------------------------------------
\* The version START_CFG chooses; variants that keep an earlier one in the form without a
\* word, and that read the word although it is not there.
VersionKept(c) == IF c.arg = NoWord THEN version ELSE c.arg
VersionRead(c) == c.arg
VersionOf(c) == IF c.arg = NoWord THEN 0 ELSE c.arg

Answered(words, ok) == answer' = FillCmdAck(words, version, ok)
Unanswered == answer' = NoAnswer

StartCfg ==
  /\ command.type = "START_CFG"
  /\ cmdMode' = TRUE
  /\ version' = VersionOf(command)
  /\ answer' = FillCmdAck(IF command.arg = NoWord THEN NULL ELSE 2, version', TRUE)
  /\ UNCHANGED <<debugMode, factory, needWrite>>

\* FINISH_CFG saves except in the factory test.
FinishCfg ==
  /\ command.type = "FINISH_CFG"
  /\ cmdMode' = FALSE
  /\ needWrite' = (needWrite /\ factory)
  /\ Answered(NULL, TRUE)
  /\ UNCHANGED <<version, debugMode, factory>>

\* Only a register of the list that changes asks for a save.
DoWriteReg ==
  /\ command.type = "WRITE_REG"
  /\ needWrite' \in IF cmdMode THEN {needWrite, TRUE} ELSE {needWrite}
  /\ Answered(NULL, cmdMode /\ command.arg = "all")
  /\ UNCHANGED <<cmdMode, version, debugMode, factory>>

\* The effect of a write of parameters, and a variant that does not look at the mode.
ParaUnguarded == command.arg # "none"
ParaTaken == cmdMode /\ command.arg # "none"

DoWritePara ==
  /\ command.type \in ParaWrites \cup {"WRITE_MTT", "FFT_ZEROFILL"}
  /\ needWrite' = (needWrite \/ ParaTaken)
  /\ Answered(NULL, cmdMode /\ command.arg = "all")
  /\ UNCHANGED <<cmdMode, version, debugMode, factory>>

\* The parameters are saved at once, whatever needFlashWrite says.
DoConfigurePara ==
  /\ command.type \in {"PARAM_CFG", "THRESHOLD_SET"}
  /\ Answered(NULL, cmdMode /\ command.arg = "all")
  /\ UNCHANGED modeVars

\* The number of registers, a uint16_t, wraps around for a command without an address.
RegNum == IF command.arg = NoWord THEN 2147483647 % 65536 ELSE command.arg

DoReadReg ==
  /\ command.type = "READ_REG"
  /\ IF cmdMode /\ RegNum <= CMD_REG_MAX THEN Answered(RegNum, TRUE) ELSE Answered(NULL, FALSE)
  /\ UNCHANGED modeVars

DoReadPara ==
  /\ command.type \in {"READ_SYS", "READ_MTT"}
  /\ IF cmdMode /\ command.arg <= CMD_PARA_MAX
       THEN Answered(2 * command.arg, TRUE) ELSE Answered(NULL, FALSE)
  /\ UNCHANGED modeVars

\* The serial number is answered with sizeof(sn) words, of which SN_LEN are its own.
DoReadSn ==
  /\ command.type = "READ_SN"
  /\ Answered(6, cmdMode)
  /\ UNCHANGED modeVars

\* Outside a session the answer has the same data, which then is undefined.
DoReadConfigureParam ==
  /\ command.type = "PARAM_READ"
  /\ Answered(12, cmdMode)
  /\ UNCHANGED modeVars

\* "v0.1.0" in the newer versions, three words in version 0.
ReadVer ==
  /\ command.type = "READ_VER"
  /\ Answered(IF version # 0 THEN 6 ELSE 3, TRUE)
  /\ UNCHANGED modeVars

DebugMode ==
  /\ command.type \in {"ENABLE_DEBUG", "DISABLE_DEBUG"}
  /\ IF cmdMode
       THEN /\ debugMode' = (command.type = "ENABLE_DEBUG")
            /\ Answered(NULL, TRUE)
       ELSE Unanswered /\ UNCHANGED debugMode
  /\ UNCHANGED <<cmdMode, version, factory, needWrite>>

Stateless ==
  /\ \/ command.type \in NullReads /\ Answered(NULL, TRUE)
     \/ command.type = "GET_I2C_TEST_RESULT" /\ Answered(5, TRUE)
     \/ command.type = "UNKNOWN" /\ Unanswered
  /\ UNCHANGED modeVars

\* Both change the mode also when they are answered with a failure.
EnterFactoryMode ==
  /\ command.type = "ENTER_FACTORYMODE"
  /\ factory' = TRUE
  /\ Answered(7, cmdMode)
  /\ UNCHANGED <<cmdMode, version, debugMode, needWrite>>

ExitFactoryMode ==
  /\ command.type = "EXIT_FACTORYMODE"
  /\ factory' = FALSE
  /\ Answered(NULL, TRUE)
  /\ UNCHANGED <<cmdMode, version, debugMode, needWrite>>

\* Answered by a text, and ends a session.
AmpsReadResult ==
  /\ command.type = "AMPS_READ_RESULT"
  /\ cmdMode' = FALSE
  /\ Unanswered
  /\ UNCHANGED <<version, debugMode, factory, needWrite>>

CmdExec ==
  /\ phase = "sent"
  /\ phase' = "answered"
  /\ \/ StartCfg \/ FinishCfg \/ ReadVer \/ DebugMode \/ Stateless
     \/ DoWriteReg \/ DoWritePara \/ DoConfigurePara
     \/ DoReadReg \/ DoReadPara \/ DoReadSn \/ DoReadConfigureParam
     \/ EnterFactoryMode \/ ExitFactoryMode \/ AmpsReadResult
  /\ UNCHANGED <<command, hostVars>>

-----------------------------------------------------------------------------
(***************************************************************************)
(* The host.  Outside a session it asks for nothing whose answer in        *)
(* version 0 looks the same when it is refused; inside it leaves AMPS      *)
(* alone, which would end the session.  If it cannot know whether START_CFG*)
(* or FINISH_CFG was executed, or sees the banner of a restart, it begins  *)
(* with START_CFG again.                                                   *)
(***************************************************************************)
RefusedAlike ==
  SessionReads \cup [type : {"READ_REG"}, arg : {1}]
    \cup [type : {"ENTER_FACTORYMODE", "EXIT_FACTORYMODE"}, arg : {NULL}]

HostMay(c) ==
  /\ hostSess = "in" => c.type # "AMPS_READ_RESULT"
  /\ hostSess = "out" => c \notin RefusedAlike
  /\ hostSess = "unknown" => c.type = "START_CFG"

HostSend(c) ==
  /\ phase = "idle"
  /\ HostMay(c)
  /\ command' = c
  /\ phase' = "sent"
  /\ answer' = NoAnswer
  /\ UNCHANGED <<modeVars, hostVars>>

HostReceive ==
  /\ phase = "answered" /\ answer.sent
  /\ phase' = "idle"
  /\ hostSess' = CASE command.type = "START_CFG"  -> "in"
                   [] command.type = "FINISH_CFG" -> "out"
                   [] OTHER                       -> hostSess
  /\ hostVersion' = IF command.type = "START_CFG"
                      THEN IF command.arg = NoWord THEN 0 ELSE command.arg
                      ELSE hostVersion
  /\ UNCHANGED <<modeVars, command, answer>>

\* The command or its answer was lost, or there is no answer.
HostGivesUp ==
  /\ phase # "idle"
  /\ phase' = "idle"
  /\ hostSess' = IF command.type \in {"START_CFG", "FINISH_CFG"} THEN "unknown" ELSE hostSess
  /\ UNCHANGED <<modeVars, command, answer, hostVersion>>

Restart ==
  /\ Boot
  /\ phase' = "idle"
  /\ answer' = NoAnswer
  /\ hostSess' = "unknown"
  /\ UNCHANGED <<command, hostVersion>>

Next ==
  \/ CmdExec
  \/ \E c \in Commands : HostSend(c)
  \/ HostReceive
  \/ HostGivesUp
  \/ Restart

Spec == Init /\ [][Next]_vars

-----------------------------------------------------------------------------
(***************************************************************************)
(* CmdModeFlag and masterProtocolVer are what the host takes them to be    *)
(* whenever it is about to send a command, after any losses, repetitions   *)
(* and restarts.                                                           *)
(***************************************************************************)
SessionAgreed ==
  phase = "idle" /\ hostSess # "unknown" =>
    cmdMode = (hostSess = "in") /\ (hostSess = "in" => version = hostVersion)

(***************************************************************************)
(* A receiver can find the tail: the length field of an answer counts the  *)
(* bytes that follow it.  The answer to READ_VER in version 0 is the       *)
(* exception.                                                              *)
(***************************************************************************)
EveryAnswerParsable == answer.sent => answer.field = answer.bytes
AnswerParsable ==
  ~(command.type = "READ_VER" /\ version = 0) => EveryAnswerParsable

(***************************************************************************)
(* The host sees a failure exactly when the module answered with one,      *)
(* although the status has opposite values in the two kinds of versions    *)
(* and is missing in some answers of version 0: there the host takes every *)
(* answer for a success that is not a bare status of failure.  (One        *)
(* register is as long as a status; the host asks for it in a session      *)
(* only, where it is not refused.)                                         *)
(***************************************************************************)
HostReadsVersion ==
  IF command.type # "START_CFG" THEN hostVersion
  ELSE IF command.arg = NoWord THEN 0 ELSE command.arg
HostReadsOk ==
  IF HostReadsVersion # 0 THEN answer.status = ACK_OK
  ELSE answer.field = CMD_TYPE_LEN + CMD_STATUS_LEN => answer.status # ACK_FAIL_OLD
RefusalVisible ==
  phase = "answered" /\ answer.sent => (HostReadsOk <=> answer.ok)

(***************************************************************************)
(* Outside of sessions and of the factory test nothing is left unsaved,    *)
(* whatever was written, refused, lost or repeated before.                 *)
(***************************************************************************)
SettledOutside == hostSess = "out" /\ ~factory => ~needWrite
=============================================================================
