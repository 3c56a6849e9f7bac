------------------------------ MODULE NvConfig ------------------------------
(***************************************************************************)
(* The settings of the module and the NV store that keeps them: config.c,  *)
(* bsp_nvs.c, the register list of banyan.c and the algorithm parameters   *)
(* of cmdprocess.c.  The store writes one key at a time, and the power may *)
(* fail between any two of them.                                           *)
(*                                                                         *)
(* What the model leaves out: the keys elemLen1 and elemLen2 always hold   *)
(* the sizes compiled into RAM, and elem_mb2 always holds systemMode,      *)
(* which no command of this build changes; their writes are steps without  *)
(* an effect on the model's state.  The keys of the factory test, its list *)
(* of registers and its result, are read by the test only.                 *)
(***************************************************************************)
EXTENDS Integers, Sequences

CONSTANTS
  RegAddr,      \* the addresses of InitRegList, in order, without the terminator
  RegDefault,   \* the values it is compiled with
  FixNum,       \* REG_FIX_NUM: entries Radar_UpdateReg passes over
  Kept,         \* entries that fit into elemLen / FLASH_WORD_LEN bytes
  Addrs,        \* the addresses the host writes, listed or not
  Vals,         \* register values
  Params,       \* algorithm parameters the host sends
  Default,      \* the defaults of InitAlgorithmParam
  Zero,         \* gAlgorithmParam as the C runtime clears it
  Missing,      \* a key the store does not hold
  MaxCrash      \* bound: power failures in a behaviour

Idx    == 1 .. Len(RegAddr)
Prefix == 1 .. Kept
Listed == {RegAddr[i] : i \in Idx}

\* The list as the source writes it: what the fixed head holds comes again
\* after it, and no address comes twice after it.
ASSUME ListAssumption ==
  /\ RegAddr \in Seq(Addrs)
  /\ RegDefault \in [Idx -> Vals]
  /\ FixNum \in Nat /\ Kept \in Idx /\ MaxCrash \in Nat
  /\ \A i \in Idx : \E j \in Idx : j > FixNum /\ RegAddr[j] = RegAddr[i]
  /\ \A i, j \in Idx : i > FixNum /\ j > FixNum /\ RegAddr[i] = RegAddr[j] => i = j

ASSUME ParamAssumption ==
  /\ Default # Zero /\ Zero \notin Params
  /\ Missing \notin Params \cup {Default, Zero}
  /\ Missing \notin [Prefix -> Vals]

VARIABLES
  pc,         \* the step of the boot, or of the command being executed
  nvMagic,    \* key "magic" is stored
  nvRegs,     \* key "elem_mb1"
  nvBodyss,   \* key "bodyss" is stored
  nvParam,    \* key "param"
  regs,       \* the values of InitRegList
  alg,        \* gAlgorithmParam
  needFlashWrite,
  session,    \* CmdModeFlag
  factory,    \* g_FtcmdFlag
  ftDone,     \* reconfig_cnt: Ft_System_Reconfig has run since the boot
  chip,       \* the registers of the radar
  test,       \* they were last loaded with the list of the factory test
  crashes,    \* bound and history: power failures so far
  want,       \* history: values the host may find in a register
  base        \* history: want at the last FINISH_CFG that was acknowledged
              \* outside the factory test

nvVars   == <<nvMagic, nvRegs, nvBodyss, nvParam>>
ramVars  == <<regs, alg, needFlashWrite, session>>
ftVars   == <<factory, ftDone>>
socVars  == <<chip, test>>
hostVars == <<crashes, want, base>>
vars == <<pc, nvVars, ramVars, ftVars, socVars, hostVars>>

BootSteps == {"magic", "bootMagic", "bootRegs", "retrieve", "radar",
              "algFlag", "bootBodyss", "bootParam"}
CmdSteps  == {"cfgBodyss", "cfgParam", "finMagic", "finRegs", "finSaved", "finAck"}

TypeOK ==
  /\ pc \in BootSteps \cup CmdSteps \cup {"run"}
  /\ nvMagic \in BOOLEAN /\ nvBodyss \in BOOLEAN
  /\ nvRegs \in [Prefix -> Vals] \cup {Missing}
  /\ nvParam \in Params \cup {Default, Missing}
  /\ regs \in [Idx -> Vals]
  /\ alg \in Params \cup {Default, Zero}
  /\ needFlashWrite \in BOOLEAN /\ session \in BOOLEAN
  /\ factory \in BOOLEAN /\ ftDone \in BOOLEAN
  /\ chip \in [Listed -> Vals] /\ test \in BOOLEAN
  /\ crashes \in 0 .. MaxCrash
  /\ want \in [Listed -> SUBSET Vals] /\ base \in [Listed -> SUBSET Vals]

\* Writing the list entry by entry leaves the last entry of each address.
LastIdx(a) ==
  CHOOSE i \in Idx : /\ RegAddr[i] = a
                     /\ \A j \in Idx : RegAddr[j] = a => j <= i
Loaded(list) == [a \in Listed |-> list[LastIdx(a)]]

\* A module that leaves the factory: nothing stored, RAM as compiled.
Init ==
  /\ pc = "magic"
  /\ nvMagic = FALSE /\ nvRegs = Missing
  /\ nvBodyss = FALSE /\ nvParam = Missing
  /\ regs = RegDefault /\ alg = Zero
  /\ needFlashWrite = FALSE /\ session = FALSE
  /\ factory = FALSE /\ ftDone = FALSE
  /\ chip \in [Listed -> Vals] /\ test = FALSE
  /\ crashes = 0
  /\ want = [a \in Listed |-> {Loaded(RegDefault)[a]}] /\ base = want

-----------------------------------------------------------------------------
(* The boot: Config_Init, Radar_Init and CmdProc_Init, in this order. *)

\* Config_RetrieveFlashData: without a magic number everything is written.
BootMagicTest ==
  /\ pc = "magic"
  /\ pc' = IF nvMagic THEN "retrieve" ELSE "bootMagic"
  /\ UNCHANGED <<nvVars, ramVars, ftVars, socVars, hostVars>>

\* Config_WriteData2Flash, key by key.  It serves the boot and FINISH_CFG.
WriteMagic(from, to) ==
  /\ pc = from
  /\ nvMagic' = TRUE
  /\ pc' = to
  /\ UNCHANGED <<nvRegs, nvBodyss, nvParam, ramVars, ftVars, socVars, hostVars>>

\* The length given to bsp_nv_write is elemLen / 4: the head of the list.
WriteRegs(from, to) ==
  /\ pc = from
  /\ nvRegs' = [i \in Prefix |-> regs[i]]
  /\ pc' = to
  /\ UNCHANGED <<nvMagic, nvBodyss, nvParam, ramVars, ftVars, socVars, hostVars>>

BootWritesMagic == WriteMagic("bootMagic", "bootRegs")
BootWritesRegs  == WriteRegs("bootRegs", "retrieve")

\* A list read from the store replaces the head of the one in RAM; a missing
\* key leaves RAM as it is.
ReadBack(list, stored) ==
  [i \in Idx |-> IF stored # Missing /\ i \in Prefix THEN stored[i] ELSE list[i]]

BootRetrieves ==
  /\ pc = "retrieve"
  /\ regs' = ReadBack(regs, nvRegs)
  /\ pc' = "radar"
  /\ UNCHANGED <<nvVars, alg, needFlashWrite, session, ftVars, socVars, hostVars>>

\* Radar_Init.
BootRadar ==
  /\ pc = "radar"
  /\ chip' = Loaded(regs) /\ test' = FALSE
  /\ pc' = "algFlag"
  /\ UNCHANGED <<nvVars, ramVars, ftVars, hostVars>>

\* Mutant: the result of reading "param" is taken without a look at it.
AlgReadBlind ==
  /\ pc = "algFlag" /\ nvBodyss
  /\ alg' = nvParam
  /\ pc' = "run"
  /\ UNCHANGED <<nvVars, regs, needFlashWrite, session, ftVars, socVars, hostVars>>

\* InitAlgorithmParam: the key "bodyss" decides, the key "param" is read.
BootAlgRead ==
  /\ pc = "algFlag" /\ nvBodyss
  /\ alg' = IF nvParam = Missing THEN alg ELSE nvParam
  /\ pc' = "run"
  /\ UNCHANGED <<nvVars, regs, needFlashWrite, session, ftVars, socVars, hostVars>>

BootAlgDefault ==
  /\ pc = "algFlag" /\ ~nvBodyss
  /\ alg' = Default
  /\ pc' = "bootBodyss"
  /\ UNCHANGED <<nvVars, regs, needFlashWrite, session, ftVars, socVars, hostVars>>

\* Config_WritebodysensingFlash: first the length, then the parameters.
WriteBodyss(from, to) ==
  /\ pc = from
  /\ nvBodyss' = TRUE
  /\ pc' = to
  /\ UNCHANGED <<nvMagic, nvRegs, nvParam, ramVars, ftVars, socVars, hostVars>>

WriteParam(from, to) ==
  /\ pc = from
  /\ nvParam' = alg
  /\ pc' = to
  /\ UNCHANGED <<nvMagic, nvRegs, nvBodyss, ramVars, ftVars, socVars, hostVars>>

BootWritesBodyss == WriteBodyss("bootBodyss", "bootParam")
BootWritesParam  == WriteParam("bootParam", "run")

-----------------------------------------------------------------------------
(* The commands. *)

StartCfg ==
  /\ pc = "run" /\ ~session
  /\ session' = TRUE
  /\ UNCHANGED <<pc, nvVars, regs, alg, needFlashWrite, ftVars, socVars, hostVars>>

\* Mutant: the fixed head is not passed over.
UpdatedFirst(list, a, v) ==
  [i \in Idx |->
     IF RegAddr[i] = a /\ \A j \in 1 .. i - 1 : RegAddr[j] # a
     THEN v ELSE list[i]]

\* Radar_UpdateReg: the first entry of the address after the fixed head.
Updated(list, a, v) ==
  [i \in Idx |->
     IF /\ i > FixNum /\ RegAddr[i] = a
        /\ \A j \in FixNum + 1 .. i - 1 : RegAddr[j] # a
     THEN v ELSE list[i]]

\* Mutant: the list is changed, the save is not asked for.
FlagForgotten(a) == needFlashWrite' = needFlashWrite

\* ... which asks for the list to be saved when it has found the address.
FlagUpdate(a) == needFlashWrite' = (needFlashWrite \/ a \in Listed)

\* DoWriteReg, one register of the command.  The transfer over IIC may fail;
\* the value read back then differs, the host is told, the list is updated
\* all the same.
DoWriteReg(a, v, done) ==
  /\ pc = "run" /\ session
  /\ chip' = IF done /\ a \in Listed THEN [chip EXCEPT ![a] = v] ELSE chip
  /\ regs' = Updated(regs, a, v)
  /\ FlagUpdate(a)
  /\ want' = IF a \in Listed
             THEN [want EXCEPT ![a] = IF done THEN {v} ELSE @ \cup {v}]
             ELSE want
  /\ UNCHANGED <<pc, nvVars, alg, session, ftVars, test, crashes, base>>

\* DoWritePara: debugMode and its like reach no key, the flag is set.
DoWritePara ==
  /\ pc = "run" /\ session
  /\ needFlashWrite' = TRUE
  /\ UNCHANGED <<pc, nvVars, regs, alg, session, ftVars, socVars, hostVars>>

\* DoConfigurePara saves at once, and only what has changed.
DoConfigurePara(p) ==
  /\ pc = "run" /\ session
  /\ p # alg
  /\ alg' = p
  /\ pc' = "cfgBodyss"
  /\ UNCHANGED <<nvVars, regs, needFlashWrite, session, ftVars, socVars, hostVars>>

CfgWritesBodyss == WriteBodyss("cfgBodyss", "cfgParam")
CfgWritesParam  == WriteParam("cfgParam", "run")

\* Mutant: Config_SavePara2Flash with its test inverted.
FinishInverted ==
  /\ pc = "run" /\ session
  /\ pc' = IF ~factory /\ ~needFlashWrite THEN "finMagic" ELSE "finAck"
  /\ UNCHANGED <<nvVars, ramVars, ftVars, socVars, hostVars>>

\* FINISH_CFG: Config_SavePara2Flash, unless the factory test is on.
FinishCfg ==
  /\ pc = "run" /\ session
  /\ pc' = IF ~factory /\ needFlashWrite THEN "finMagic" ELSE "finAck"
  /\ UNCHANGED <<nvVars, ramVars, ftVars, socVars, hostVars>>

FinWritesMagic == WriteMagic("finMagic", "finRegs")
FinWritesRegs  == WriteRegs("finRegs", "finSaved")

FinSaved ==
  /\ pc = "finSaved"
  /\ needFlashWrite' = FALSE
  /\ pc' = "finAck"
  /\ UNCHANGED <<nvVars, regs, alg, session, ftVars, socVars, hostVars>>

\* The acknowledgement, which ends the session; it is sent whether the list was
\* saved or not.
FinishAcked ==
  /\ pc = "finAck"
  /\ session' = FALSE
  /\ base' = IF factory THEN base ELSE want
  /\ pc' = "run"
  /\ UNCHANGED <<nvVars, regs, alg, needFlashWrite, ftVars, socVars, crashes, want>>

\* ENTER_FACTORYMODE, in a session or not.  The first one after a boot loads the
\* radar with a list of its own, of which nothing is said here.
EnterFactory ==
  /\ pc = "run"
  /\ factory' = TRUE /\ ftDone' = TRUE
  /\ test' = (test \/ ~ftDone)
  /\ IF ftDone THEN UNCHANGED chip ELSE chip' \in [Listed -> Vals]
  /\ UNCHANGED <<pc, nvVars, ramVars, hostVars>>

\* EXIT_FACTORYMODE; the radar keeps the registers of the test.
ExitFactory ==
  /\ pc = "run"
  /\ factory' = FALSE
  /\ UNCHANGED <<pc, nvVars, ramVars, ftDone, socVars, hostVars>>

\* Between two frames the radar is switched off; WriteSocAllReg loads it anew.
RadarRestart ==
  /\ pc = "run"
  /\ chip' = Loaded(regs) /\ test' = FALSE
  /\ UNCHANGED <<pc, nvVars, ramVars, ftVars, hostVars>>

\* The module loses its power: what is not in the store is gone.  The host
\* must then count on what it wrote last or on what it had finished before.
Crash ==
  /\ crashes < MaxCrash
  /\ crashes' = crashes + 1
  /\ pc' = "magic"
  /\ regs' = RegDefault /\ alg' = Zero
  /\ needFlashWrite' = FALSE /\ session' = FALSE
  /\ factory' = FALSE /\ ftDone' = FALSE
  /\ want' = [a \in Listed |-> want[a] \cup base[a]]
  /\ base' = want'
  /\ UNCHANGED <<nvVars, socVars>>

Boot == \/ BootMagicTest \/ BootWritesMagic \/ BootWritesRegs \/ BootRetrieves
        \/ BootRadar \/ BootAlgRead \/ BootAlgDefault
        \/ BootWritesBodyss \/ BootWritesParam

Command == \/ StartCfg
           \/ \E a \in Addrs, v \in Vals, done \in BOOLEAN : DoWriteReg(a, v, done)
           \/ DoWritePara
           \/ \E p \in Params : DoConfigurePara(p)
           \/ CfgWritesBodyss \/ CfgWritesParam
           \/ FinishCfg \/ FinWritesMagic \/ FinWritesRegs \/ FinSaved \/ FinishAcked
           \/ EnterFactory \/ ExitFactory

Next == Boot \/ Command \/ RadarRestart \/ Crash

Spec == Init /\ [][Next]_vars

-----------------------------------------------------------------------------
(* Properties. *)

\* A reboot between two commands changes nothing that the store keeps, unless
\* needFlashWrite says that a save is due: what Config_RetrieveFlashData would
\* read now is what RAM holds.
RegsDurable ==
  pc = "run" /\ ~needFlashWrite =>
    \A i \in Prefix : ReadBack(RegDefault, nvRegs)[i] = regs[i]

\* What a boot would put into gAlgorithmParam now.
Restored ==
  IF ~nvBodyss THEN Default ELSE IF nvParam = Missing THEN Zero ELSE nvParam

\* Between two commands a reboot changes no algorithm parameter, although
\* Config_WritebodysensingFlash writes two keys and InitAlgorithmParam decides
\* by the first and reads the second.
AlgDurable == pc = "run" => Restored = alg

\* The registers whose last entry is in the stored head of the list.
KeptAddrs == {a \in Listed : LastIdx(a) <= Kept}

\* Whatever the order of writes, saves, restarts of the radar, factory tests and
\* power failures, a register of the stored head holds what the host wrote last,
\* or after a power failure that or what the last FINISH_CFG outside the factory
\* test had acknowledged.  One in the factory test is acknowledged too, but saves
\* nothing, and is not to be counted on.  While the radar holds the registers of
\* the test, it is they.
FinishKeeps == pc = "run" /\ ~test => \A a \in KeptAddrs : chip[a] \in want[a]

\* As long as the module keeps its power, the radar comes back from every
\* switch-off with the value the host wrote last, also in registers that
\* InitRegList holds twice, and also after a factory test.
WritesSurvive ==
  pc = "run" /\ ~test /\ crashes = 0 => \A a \in Listed : chip[a] \in want[a]

\* The claim of the comment at config.c:175, "if the flash has parameters they
\* are read", for all of InitRegList: every register keeps what FINISH_CFG
\* acknowledged outside the factory test.  It fails, since elemLen / FLASH_WORD_LEN
\* bytes are stored.
FinishKeepsAll == pc = "run" /\ ~test => \A a \in Listed : chip[a] \in want[a]

\* The claim of the comment at cmdprocess.c:293, "Read old paras from flash, if
\* there no paras, then set them default": a module that runs has parameters,
\* saved ones or the defaults.  It fails when the power fails between
\* the two keys of the first boot.
ParamsSet == pc = "run" => alg # Zero
=============================================================================
