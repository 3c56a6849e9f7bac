--------------------------- MODULE NvConfigProofs ---------------------------
(***************************************************************************)
(* Proofs about NvConfig, for every register list of the shape that        *)
(* ListAssumption states, every set of values and any number of power      *)
(* failures.                                                               *)
(***************************************************************************)
EXTENDS NvConfig, TLAPS

\* The head of the list as the next boot would read it.
NextBoot == ReadBack(RegDefault, nvRegs)

Saving == {"finMagic", "finRegs", "finSaved", "finAck"}

\* The steps of a boot before and after the list is read.
Early == {"magic", "bootMagic", "bootRegs", "retrieve"}
Late  == {"radar", "algFlag", "bootBodyss", "bootParam"}

\* While the module boots, RAM is as compiled up to the reading, and no save
\* is due; a first boot finds no list.
BootInv ==
  /\ pc \in Early => regs = RegDefault
  /\ pc \in Early \cup Late => ~needFlashWrite /\ ~session
  /\ pc = "bootMagic" => ~nvMagic
  /\ pc \notin {"magic", "bootMagic"} => nvMagic
  /\ pc = "bootRegs" \/ ~nvMagic => nvRegs = Missing

\* Where RAM and the store agree.
RegsInv ==
  /\ pc \notin Early \cup {"finMagic", "finRegs"} /\ (needFlashWrite => pc = "finSaved") =>
       \A i \in Prefix : NextBoot[i] = regs[i]
  /\ pc = "finAck" /\ ~factory => ~needFlashWrite
  /\ pc \in {"finMagic", "finRegs", "finSaved"} => ~factory

\* The same of the algorithm parameters.
AlgInv ==
  /\ pc \in Early \cup {"radar", "algFlag"} => alg = Zero
  /\ pc = "bootBodyss" => alg = Default
  /\ pc \in {"bootParam", "cfgParam"} => nvBodyss /\ alg # Zero
  /\ pc = "cfgBodyss" => alg # Zero
  /\ pc \in {"run"} \cup Saving => Restored = alg

\* What the host may count on: RAM, the radar and the next boot.
HostInv ==
  /\ pc \notin Early => \A a \in KeptAddrs : regs[LastIdx(a)] \in want[a]
  /\ pc \notin Early \cup {"radar"} /\ ~test => \A a \in KeptAddrs : chip[a] \in want[a]
  /\ pc # "finSaved" /\ (pc = "finAck" => factory) =>
       \A a \in KeptAddrs : NextBoot[LastIdx(a)] \in base[a]
  /\ pc \in Early => base = want

\* The same of every register, before the first power failure.
PowerInv ==
  crashes = 0 =>
    /\ pc \in Early => nvRegs = Missing \/ NextBoot = RegDefault
    /\ \A a \in Listed : regs[LastIdx(a)] \in want[a]
    /\ pc \notin Early \cup {"radar"} /\ ~test => \A a \in Listed : chip[a] \in want[a]

IInv == TypeOK /\ BootInv /\ RegsInv /\ AlgInv /\ HostInv /\ PowerInv

-----------------------------------------------------------------------------
(* The register list. *)

LEMMA IdxFacts == Prefix \subseteq Idx /\ Idx \subseteq Nat /\ FixNum \in Nat
  BY ListAssumption DEF Prefix, Idx

\* The last entry of a listed address exists and lies behind the fixed head.
LEMMA LastOfListed ==
  ASSUME NEW a \in Listed
  PROVE  /\ LastIdx(a) \in Idx /\ LastIdx(a) > FixNum
         /\ RegAddr[LastIdx(a)] = a
<1> DEFINE IsLast(i) == RegAddr[i] = a /\ \A j \in Idx : RegAddr[j] = a => j <= i
<1>1. PICK i \in Idx : i > FixNum /\ RegAddr[i] = a
  BY ListAssumption DEF Listed
<1>2. \A j \in Idx : RegAddr[j] = a => j <= i
  BY <1>1, ListAssumption, IdxFacts
<1>3. \E k \in Idx : IsLast(k)
  BY <1>1, <1>2
<1>4. LastIdx(a) \in Idx /\ IsLast(LastIdx(a))
  BY <1>3 DEF LastIdx
<1>5. i <= LastIdx(a)
  BY <1>1, <1>4
<1>6. LastIdx(a) > FixNum
  <2>1. i \in Nat /\ LastIdx(a) \in Nat /\ FixNum \in Nat
    BY <1>1, <1>4, IdxFacts
  <2>2. QED BY <1>1, <1>5, <2>1
<1>7. QED BY <1>4, <1>6

\* Radar_UpdateReg changes the entry that is written to the radar last, and
\* of the other addresses nothing.
LEMMA UpdateHitsLast ==
  ASSUME NEW list, NEW a, NEW v, NEW b \in Listed
  PROVE  Updated(list, a, v)[LastIdx(b)] = IF a = b THEN v ELSE list[LastIdx(b)]
<1> DEFINE l == LastIdx(b)
<1>1. l \in Idx /\ l > FixNum /\ RegAddr[l] = b
  BY LastOfListed
<1>2. ASSUME a = b PROVE \A j \in FixNum + 1 .. l - 1 : RegAddr[j] # a
  <2>1. SUFFICES ASSUME NEW j \in FixNum + 1 .. l - 1, RegAddr[j] = a PROVE FALSE
    OBVIOUS
  <2>2. j \in Idx /\ j > FixNum /\ j # l
    BY <1>1, IdxFacts, ListAssumption DEF Idx
  <2>3. QED BY <1>1, <1>2, <2>1, <2>2, ListAssumption
<1>3. Updated(list, a, v)[l] = IF /\ l > FixNum /\ RegAddr[l] = a
                                  /\ \A j \in FixNum + 1 .. l - 1 : RegAddr[j] # a
                               THEN v ELSE list[l]
  BY <1>1 DEF Updated
<1>4. QED BY <1>1, <1>2, <1>3

LEMMA UpdateType ==
  ASSUME NEW list \in [Idx -> Vals], NEW a, NEW v \in Vals
  PROVE  Updated(list, a, v) \in [Idx -> Vals]
  BY DEF Updated

\* An address that is not listed changes nothing.
LEMMA UpdateUnlisted ==
  ASSUME NEW list \in [Idx -> Vals], NEW a, NEW v, a \notin Listed
  PROVE  Updated(list, a, v) = list
  BY DEF Updated, Listed

LEMMA ReadBackType ==
  ASSUME NEW list \in [Idx -> Vals], NEW stored \in [Prefix -> Vals] \cup {Missing}
  PROVE  ReadBack(list, stored) \in [Idx -> Vals]
  BY IdxFacts DEF ReadBack

\* What one reading of the store brings, entry by entry.
LEMMA ReadBackAt ==
  ASSUME NEW list, NEW stored, NEW i \in Idx
  PROVE  /\ stored # Missing /\ i \in Prefix => ReadBack(list, stored)[i] = stored[i]
         /\ stored = Missing \/ i \notin Prefix => ReadBack(list, stored)[i] = list[i]
  BY DEF ReadBack

\* After Config_WriteData2Flash the next boot reads the head RAM holds.
LEMMA WrittenIsRead ==
  ASSUME nvRegs' = [i \in Prefix |-> regs[i]], NEW i \in Prefix, TypeOK
  PROVE  NextBoot'[i] = regs[i]
<1>1. nvRegs' # Missing
  <2>1. nvRegs' \in [Prefix -> Vals]
    BY IdxFacts DEF TypeOK
  <2>2. QED BY <2>1, ParamAssumption
<1>2. QED BY <1>1, IdxFacts, ReadBackAt DEF NextBoot

LEMMA LoadedType ==
  ASSUME NEW list \in [Idx -> Vals] PROVE Loaded(list) \in [Listed -> Vals]
  BY LastOfListed DEF Loaded

LEMMA LoadedAt ==
  ASSUME NEW list, NEW a \in Listed PROVE Loaded(list)[a] = list[LastIdx(a)]
  BY DEF Loaded

LEMMA KeptFacts ==
  ASSUME NEW a \in KeptAddrs
  PROVE  a \in Listed /\ LastIdx(a) \in Prefix /\ LastIdx(a) \in Idx
  BY LastOfListed, ListAssumption DEF KeptAddrs, Prefix, Idx

LEMMA DefaultType == RegDefault \in [Idx -> Vals]
  BY ListAssumption

-----------------------------------------------------------------------------
USE DEF BootSteps, CmdSteps, Early, Late, Saving

LEMMA InitHolds == Init => IInv
<1> SUFFICES ASSUME Init PROVE IInv
  OBVIOUS
<1>1. TypeOK
  <2>1. want \in [Listed -> SUBSET Vals]
    BY LoadedType, DefaultType DEF Init
  <2>2. crashes \in 0 .. MaxCrash
    BY ListAssumption DEF Init
  <2>3. QED BY <2>1, <2>2, DefaultType DEF Init, TypeOK
<1>2. BootInv /\ AlgInv
  BY DEF Init, BootInv, AlgInv
<1>3. RegsInv
  BY DEF Init, RegsInv
<1>4. \A a \in Listed : regs[LastIdx(a)] \in want[a]
  BY LoadedAt DEF Init
<1>5. \A a \in Listed : NextBoot[LastIdx(a)] = regs[LastIdx(a)]
  BY LastOfListed, ReadBackAt DEF Init, NextBoot
<1>6. HostInv
  BY <1>4, <1>5, KeptFacts DEF Init, HostInv
<1>7. PowerInv
  BY <1>4 DEF Init, PowerInv
<1>8. QED BY <1>1, <1>2, <1>3, <1>6, <1>7 DEF IInv

\* A step that leaves the list in the store alone leaves the next boot alone.
LEMMA NextBootKept == UNCHANGED nvRegs => UNCHANGED NextBoot
  BY DEF NextBoot

LEMMA RestoredKept == UNCHANGED <<nvBodyss, nvParam>> => UNCHANGED Restored
  BY DEF Restored

LEMMA BootMagicTestKeeps == ASSUME IInv, BootMagicTest PROVE IInv'
<1> USE DEF BootMagicTest, nvVars, ramVars, hostVars, ftVars, socVars
<1>1. TypeOK'
  BY DEF IInv, TypeOK
<1>2. BootInv' /\ AlgInv'
  BY DEF IInv, BootInv, AlgInv
<1>3. RegsInv'
  BY DEF IInv, RegsInv
<1>4. HostInv'
  <2>1. ASSUME pc' = "retrieve" \/ pc' = "bootMagic" PROVE pc = "magic"
    OBVIOUS
  <2>2. pc' \in Early
    OBVIOUS
  <2>3. QED BY <2>2, NextBootKept DEF IInv, HostInv
<1>5. PowerInv'
  BY NextBootKept DEF IInv, PowerInv
<1>6. QED BY <1>1, <1>2, <1>3, <1>4, <1>5 DEF IInv

LEMMA BootMagicKeeps == ASSUME IInv, BootWritesMagic PROVE IInv'
<1> USE DEF BootWritesMagic, WriteMagic, nvVars, ramVars, hostVars, ftVars, socVars
<1>1. TypeOK'
  BY DEF IInv, TypeOK
<1>2. BootInv' /\ AlgInv'
  BY DEF IInv, BootInv, AlgInv
<1>3. RegsInv'
  BY DEF IInv, RegsInv
<1>4. HostInv'
  BY NextBootKept DEF IInv, HostInv
<1>5. PowerInv'
  BY NextBootKept DEF IInv, PowerInv
<1>6. QED BY <1>1, <1>2, <1>3, <1>4, <1>5 DEF IInv

\* The only list a first boot can store is the compiled one.
LEMMA BootRegsKeeps == ASSUME IInv, BootWritesRegs PROVE IInv'
<1> USE DEF BootWritesRegs, WriteRegs, nvVars, ramVars, hostVars, ftVars, socVars
<1>1. TypeOK'
  BY IdxFacts DEF IInv, TypeOK
<1>2. BootInv' /\ AlgInv'
  BY DEF IInv, BootInv, AlgInv
<1>3. RegsInv'
  BY DEF IInv, RegsInv
<1>4. \A i \in Idx : NextBoot[i] = RegDefault[i] /\ NextBoot'[i] = RegDefault[i]
  <2>1. TAKE i \in Idx
  <2>2. regs = RegDefault /\ nvRegs = Missing
    BY DEF IInv, BootInv
  <2>3. CASE i \in Prefix
    BY <2>2, <2>3, WrittenIsRead, ReadBackAt DEF IInv, NextBoot
  <2>4. CASE i \notin Prefix
    BY <2>2, <2>4, ReadBackAt DEF NextBoot
  <2>5. QED BY <2>3, <2>4
<1>5. HostInv'
  BY <1>4, KeptFacts DEF IInv, HostInv
<1>6. PowerInv'
  <2>1. NextBoot' = RegDefault
    BY <1>1, <1>4, ReadBackType, DefaultType DEF NextBoot, TypeOK
  <2>2. QED BY <2>1 DEF IInv, PowerInv
<1>7. QED BY <1>1, <1>2, <1>3, <1>5, <1>6 DEF IInv

LEMMA BootRetrievesKeeps == ASSUME IInv, BootRetrieves PROVE IInv'
<1> USE DEF BootRetrieves, nvVars, hostVars, ftVars, socVars
<1>1. regs' = NextBoot /\ NextBoot' = NextBoot
  BY DEF IInv, BootInv, NextBoot
<1>2. TypeOK'
  BY ReadBackType DEF IInv, TypeOK
<1>3. BootInv' /\ AlgInv'
  BY DEF IInv, BootInv, AlgInv, Restored
<1>4. RegsInv'
  BY <1>1 DEF RegsInv
<1>5. HostInv'
  BY <1>1 DEF IInv, HostInv
<1>6. PowerInv'
  <2>1. ASSUME crashes = 0 PROVE NextBoot = RegDefault \/ nvRegs = Missing
    BY <2>1 DEF IInv, PowerInv
  <2>2. nvRegs = Missing => \A i \in Idx : NextBoot[i] = RegDefault[i]
    BY ReadBackAt DEF NextBoot
  <2>3. ASSUME crashes = 0 PROVE \A a \in Listed : regs'[LastIdx(a)] = regs[LastIdx(a)]
    BY <1>1, <2>1, <2>2, <2>3, LastOfListed DEF IInv, BootInv
  <2>4. QED BY <2>3 DEF IInv, PowerInv
<1>7. QED BY <1>2, <1>3, <1>4, <1>5, <1>6 DEF IInv

LEMMA BootRadarKeeps == ASSUME IInv, BootRadar PROVE IInv'
<1> USE DEF BootRadar, nvVars, ramVars, hostVars, ftVars, socVars
<1>1. TypeOK'
  BY LoadedType, ZenonT(60) DEF IInv, TypeOK
<1>2. BootInv' /\ AlgInv'
  BY DEF IInv, BootInv, AlgInv
<1>3. RegsInv'
  BY NextBootKept DEF IInv, RegsInv
<1>4. \A a \in Listed : chip'[a] = regs[LastIdx(a)]
  BY LoadedAt
<1>5. HostInv'
  BY <1>4, NextBootKept, KeptFacts DEF IInv, HostInv
<1>6. PowerInv'
  BY <1>4 DEF IInv, PowerInv
<1>7. QED BY <1>1, <1>2, <1>3, <1>5, <1>6 DEF IInv

\* The steps of the boot and of the commands that touch the algorithm
\* parameters and nothing else.
AlgStep ==
  /\ UNCHANGED <<nvMagic, nvRegs, regs, needFlashWrite, session, ftVars, socVars, hostVars>>
  /\ pc \notin Early \cup {"radar"} \cup Saving
  /\ pc' \notin Early \cup {"radar"} \cup Saving
  /\ pc \notin Late => pc' \notin Late

LEMMA AlgStepKeeps ==
  ASSUME IInv, AlgStep PROVE BootInv' /\ RegsInv' /\ HostInv' /\ PowerInv'
<1> USE DEF AlgStep, hostVars, ftVars, socVars
<1>1. BootInv'
  BY DEF IInv, BootInv
<1>2. RegsInv'
  BY NextBootKept DEF IInv, RegsInv
<1>3. HostInv'
  BY NextBootKept DEF IInv, HostInv
<1>4. PowerInv'
  BY DEF IInv, PowerInv
<1>5. QED BY <1>1, <1>2, <1>3, <1>4

LEMMA BootAlgReadKeeps == ASSUME IInv, BootAlgRead PROVE IInv'
<1> USE DEF BootAlgRead, nvVars, ramVars, hostVars, ftVars, socVars
<1>1. TypeOK'
  BY DEF IInv, TypeOK
<1>2. AlgInv'
  BY DEF IInv, AlgInv, Restored
<1>3. QED BY <1>1, <1>2, AlgStepKeeps DEF IInv, AlgStep

LEMMA BootAlgDefaultKeeps == ASSUME IInv, BootAlgDefault PROVE IInv'
<1> USE DEF BootAlgDefault, nvVars, ramVars, hostVars, ftVars, socVars
<1>1. TypeOK'
  BY DEF IInv, TypeOK
<1>2. AlgInv'
  BY DEF AlgInv
<1>3. QED BY <1>1, <1>2, AlgStepKeeps DEF IInv, AlgStep

LEMMA BodyssKeeps ==
  ASSUME IInv, BootWritesBodyss \/ CfgWritesBodyss PROVE IInv'
<1> USE DEF BootWritesBodyss, CfgWritesBodyss, WriteBodyss, ramVars, ftVars, socVars
<1>1. TypeOK'
  BY ZenonT(60) DEF IInv, TypeOK, hostVars
<1>2. AlgInv'
  BY ParamAssumption DEF IInv, AlgInv
<1>3. QED BY <1>1, <1>2, AlgStepKeeps DEF IInv, AlgStep

LEMMA ParamKeeps ==
  ASSUME IInv, BootWritesParam \/ CfgWritesParam PROVE IInv'
<1> USE DEF BootWritesParam, CfgWritesParam, WriteParam, ramVars, ftVars, socVars
<1>1. alg # Zero /\ nvBodyss' /\ nvParam' = alg /\ alg' = alg
  BY DEF IInv, AlgInv
<1>2. TypeOK'
  BY <1>1, ZenonT(60) DEF IInv, TypeOK, hostVars
<1>3. alg # Missing
  BY ParamAssumption DEF IInv, TypeOK
<1>4. AlgInv'
  BY <1>1, <1>3 DEF AlgInv, Restored
<1>5. QED BY <1>2, <1>4, AlgStepKeeps DEF IInv, AlgStep

LEMMA ConfigureKeeps ==
  ASSUME IInv, NEW p \in Params, DoConfigurePara(p) PROVE IInv'
<1> USE DEF DoConfigurePara, nvVars, ftVars, socVars
<1>1. TypeOK'
  BY DEF IInv, TypeOK, hostVars
<1>2. AlgInv'
  BY ParamAssumption DEF AlgInv
<1>3. QED BY <1>1, <1>2, AlgStepKeeps DEF IInv, AlgStep

LEMMA StartKeeps == ASSUME IInv, StartCfg PROVE IInv'
<1> USE DEF StartCfg, nvVars, hostVars, ftVars, socVars
<1>1. TypeOK'
  BY DEF IInv, TypeOK
<1>2. BootInv' /\ AlgInv'
  BY RestoredKept DEF IInv, BootInv, AlgInv
<1>3. RegsInv'
  BY NextBootKept DEF IInv, RegsInv
<1>4. HostInv'
  BY NextBootKept DEF IInv, HostInv
<1>5. PowerInv'
  BY DEF IInv, PowerInv
<1>6. QED BY <1>1, <1>2, <1>3, <1>4, <1>5 DEF IInv

\* What the host wrote is what it may find, also when the transfer to the
\* radar failed and the list alone was changed.
LEMMA WriteRegKeeps ==
  ASSUME IInv, NEW a \in Addrs, NEW v \in Vals, NEW done \in BOOLEAN,
         DoWriteReg(a, v, done)
  PROVE  IInv'
<1> USE DEF DoWriteReg, nvVars, ftVars, socVars
<1>1. TypeOK'
  BY UpdateType DEF IInv, TypeOK, FlagUpdate
<1>2. BootInv' /\ AlgInv'
  BY RestoredKept DEF IInv, BootInv, AlgInv
<1>3. RegsInv'
  <2>1. CASE a \in Listed
    BY <2>1 DEF IInv, RegsInv, FlagUpdate
  <2>2. CASE a \notin Listed
    <3>1. regs' = regs
      BY <2>2, UpdateUnlisted DEF IInv, TypeOK
    <3>2. needFlashWrite' = needFlashWrite
      BY <2>2 DEF IInv, TypeOK, FlagUpdate
    <3>3. QED BY <3>1, <3>2, NextBootKept DEF IInv, RegsInv
  <2>3. QED BY <2>1, <2>2
<1>4. \A b \in Listed :
        /\ regs[LastIdx(b)] \in want[b] => regs'[LastIdx(b)] \in want'[b]
        /\ chip[b] \in want[b] => chip'[b] \in want'[b]
  <2>1. TAKE b \in Listed
  <2>2. want \in [Listed -> SUBSET Vals] /\ chip \in [Listed -> Vals]
    BY DEF IInv, TypeOK
  <2>3. regs'[LastIdx(b)] = IF a = b THEN v ELSE regs[LastIdx(b)]
    BY UpdateHitsLast
  <2>4. CASE a = b
    BY <2>2, <2>3, <2>4
  <2>5. CASE a # b
    BY <2>2, <2>3, <2>5
  <2>6. QED BY <2>4, <2>5
<1>5. HostInv'
  BY <1>4, NextBootKept, KeptFacts DEF IInv, HostInv
<1>6. PowerInv'
  BY <1>4 DEF IInv, PowerInv
<1>7. QED BY <1>1, <1>2, <1>3, <1>5, <1>6 DEF IInv

LEMMA WriteParaKeeps == ASSUME IInv, DoWritePara PROVE IInv'
<1> USE DEF DoWritePara, nvVars, hostVars, ftVars, socVars
<1>1. TypeOK'
  BY DEF IInv, TypeOK
<1>2. BootInv' /\ AlgInv'
  BY RestoredKept DEF IInv, BootInv, AlgInv
<1>3. RegsInv'
  BY DEF IInv, RegsInv
<1>4. HostInv'
  BY NextBootKept DEF IInv, HostInv
<1>5. PowerInv'
  BY DEF IInv, PowerInv
<1>6. QED BY <1>1, <1>2, <1>3, <1>4, <1>5 DEF IInv

LEMMA FinishKeepsInv == ASSUME IInv, FinishCfg PROVE IInv'
<1> USE DEF FinishCfg, nvVars, ramVars, hostVars, ftVars, socVars
<1>1. TypeOK'
  BY DEF IInv, TypeOK
<1>2. BootInv' /\ AlgInv'
  BY RestoredKept DEF IInv, BootInv, AlgInv
<1>3. RegsInv'
  BY NextBootKept DEF IInv, RegsInv
<1>4. HostInv'
  BY NextBootKept DEF IInv, HostInv
<1>5. PowerInv'
  BY DEF IInv, PowerInv
<1>6. QED BY <1>1, <1>2, <1>3, <1>4, <1>5 DEF IInv

LEMMA FinMagicKeeps == ASSUME IInv, FinWritesMagic PROVE IInv'
<1> USE DEF FinWritesMagic, WriteMagic, ramVars, hostVars, ftVars, socVars
<1>1. TypeOK'
  BY DEF IInv, TypeOK
<1>2. BootInv' /\ AlgInv'
  BY RestoredKept DEF IInv, BootInv, AlgInv
<1>3. RegsInv'
  BY DEF IInv, RegsInv
<1>4. HostInv'
  BY NextBootKept DEF IInv, HostInv
<1>5. PowerInv'
  BY DEF IInv, PowerInv
<1>6. QED BY <1>1, <1>2, <1>3, <1>4, <1>5 DEF IInv

\* The step that makes a save last.
LEMMA FinRegsKeeps == ASSUME IInv, FinWritesRegs PROVE IInv'
<1> USE DEF FinWritesRegs, WriteRegs, ramVars, hostVars, ftVars, socVars
<1>1. TypeOK'
  BY IdxFacts DEF IInv, TypeOK
<1>2. BootInv' /\ AlgInv'
  BY RestoredKept DEF IInv, BootInv, AlgInv
<1>3. RegsInv'
  BY WrittenIsRead DEF IInv, RegsInv
<1>4. HostInv'
  BY DEF IInv, HostInv
<1>5. PowerInv'
  BY DEF IInv, PowerInv
<1>6. QED BY <1>1, <1>2, <1>3, <1>4, <1>5 DEF IInv

LEMMA FinSavedKeeps == ASSUME IInv, FinSaved PROVE IInv'
<1> USE DEF FinSaved, nvVars, hostVars, ftVars, socVars
<1>1. TypeOK'
  BY ZenonT(60) DEF IInv, TypeOK
<1>2. BootInv' /\ AlgInv'
  BY RestoredKept DEF IInv, BootInv, AlgInv
<1>3. \A i \in Prefix : NextBoot[i] = regs[i]
  BY DEF IInv, RegsInv
<1>4. RegsInv'
  BY <1>3, NextBootKept DEF IInv, RegsInv
<1>5. HostInv'
  BY NextBootKept DEF IInv, RegsInv, HostInv
<1>6. PowerInv'
  BY DEF IInv, PowerInv
<1>7. QED BY <1>1, <1>2, <1>4, <1>5, <1>6 DEF IInv

\* Outside the factory test nothing is left unsaved when FINISH_CFG is
\* acknowledged; inside, the host counts on no more than before.
LEMMA FinishAckedKeeps == ASSUME IInv, FinishAcked PROVE IInv'
<1> USE DEF FinishAcked, nvVars, ftVars, socVars
<1>1. TypeOK'
  BY ZenonT(60) DEF IInv, TypeOK
<1>2. BootInv' /\ AlgInv'
  BY RestoredKept DEF IInv, BootInv, AlgInv
<1>3. RegsInv'
  BY NextBootKept DEF IInv, RegsInv
<1>4. ASSUME ~factory PROVE \A i \in Prefix : NextBoot[i] = regs[i]
  BY <1>4 DEF IInv, RegsInv
<1>5. HostInv'
  BY <1>4, NextBootKept, KeptFacts DEF IInv, HostInv
<1>6. PowerInv'
  BY DEF IInv, PowerInv
<1>7. QED BY <1>1, <1>2, <1>3, <1>5, <1>6 DEF IInv

\* The registers of the test are excepted until the list is loaded again.
LEMMA FactoryKeeps == ASSUME IInv, EnterFactory \/ ExitFactory PROVE IInv'
<1> USE DEF EnterFactory, ExitFactory, nvVars, ramVars, hostVars, ftVars, socVars
<1>1. TypeOK'
  BY ZenonT(60) DEF IInv, TypeOK
<1>2. BootInv' /\ AlgInv'
  BY RestoredKept DEF IInv, BootInv, AlgInv
<1>3. RegsInv'
  BY NextBootKept DEF IInv, RegsInv
<1>4. HostInv'
  BY NextBootKept DEF IInv, TypeOK, HostInv
<1>5. PowerInv'
  BY DEF IInv, TypeOK, PowerInv
<1>6. QED BY <1>1, <1>2, <1>3, <1>4, <1>5 DEF IInv

LEMMA RestartKeeps == ASSUME IInv, RadarRestart PROVE IInv'
<1> USE DEF RadarRestart, nvVars, ramVars, hostVars, ftVars, socVars
<1>1. TypeOK'
  BY LoadedType, ZenonT(60) DEF IInv, TypeOK
<1>2. BootInv' /\ AlgInv'
  BY RestoredKept DEF IInv, BootInv, AlgInv
<1>3. RegsInv'
  BY NextBootKept DEF IInv, RegsInv
<1>4. \A a \in Listed : chip'[a] = regs[LastIdx(a)]
  BY LoadedAt
<1>5. HostInv'
  BY <1>4, NextBootKept, KeptFacts DEF IInv, HostInv
<1>6. PowerInv'
  BY <1>4 DEF IInv, PowerInv
<1>7. QED BY <1>1, <1>2, <1>3, <1>5, <1>6 DEF IInv

\* After a power failure the next boot finds what was acknowledged, or, when
\* the failure came between the writing of the list and the acknowledgement,
\* what the host wrote last.
LEMMA CrashKeeps == ASSUME IInv, Crash PROVE IInv'
<1> USE DEF Crash, nvVars, ftVars, socVars
<1>1. want' \in [Listed -> SUBSET Vals] /\ base' = want'
  BY DEF IInv, TypeOK
<1>2. crashes' \in 0 .. MaxCrash /\ crashes' # 0
  BY ListAssumption DEF IInv, TypeOK
<1>3. TypeOK'
  BY <1>1, <1>2, DefaultType, ZenonT(60) DEF IInv, TypeOK
<1>4. BootInv' /\ AlgInv'
  BY DEF IInv, BootInv, AlgInv
<1>5. RegsInv'
  BY DEF IInv, RegsInv
<1>6. ASSUME NEW a \in KeptAddrs PROVE NextBoot'[LastIdx(a)] \in want'[a]
  <2>1. a \in Listed /\ LastIdx(a) \in Prefix
    BY KeptFacts
  <2>2. want'[a] = want[a] \cup base[a]
    BY <2>1
  <2>3. CASE pc = "finSaved" \/ (pc = "finAck" /\ ~factory)
    <3>1. NextBoot[LastIdx(a)] = regs[LastIdx(a)]
      BY <2>1, <2>3 DEF IInv, RegsInv
    <3>2. QED BY <2>2, <2>3, <3>1, NextBootKept DEF IInv, HostInv
  <2>4. CASE pc # "finSaved" /\ (pc = "finAck" => factory)
    BY <2>2, <2>4, NextBootKept DEF IInv, HostInv
  <2>5. QED BY <2>3, <2>4
<1>7. HostInv'
  BY <1>1, <1>6 DEF HostInv
<1>8. PowerInv'
  BY <1>2 DEF PowerInv
<1>9. QED BY <1>3, <1>4, <1>5, <1>7, <1>8 DEF IInv

LEMMA StutterKeeps == ASSUME IInv, UNCHANGED vars PROVE IInv'
<1> USE DEF vars, nvVars, ramVars, hostVars, ftVars, socVars
<1>1. TypeOK'
  BY DEF IInv, TypeOK
<1>2. BootInv' /\ AlgInv'
  BY RestoredKept DEF IInv, BootInv, AlgInv
<1>3. RegsInv'
  BY NextBootKept DEF IInv, RegsInv
<1>4. HostInv'
  BY NextBootKept DEF IInv, HostInv
<1>5. PowerInv'
  BY NextBootKept DEF IInv, PowerInv
<1>6. QED BY <1>1, <1>2, <1>3, <1>4, <1>5 DEF IInv

LEMMA StepKeeps == IInv /\ [Next]_vars => IInv'
<1> SUFFICES ASSUME IInv, [Next]_vars PROVE IInv'
  OBVIOUS
<1>1. CASE Boot
  BY <1>1, BootMagicTestKeeps, BootMagicKeeps, BootRegsKeeps, BootRetrievesKeeps,
     BootRadarKeeps, BootAlgReadKeeps, BootAlgDefaultKeeps, BodyssKeeps, ParamKeeps
  DEF Boot
<1>2. CASE Command
  BY <1>2, StartKeeps, WriteRegKeeps, WriteParaKeeps, ConfigureKeeps, BodyssKeeps,
     ParamKeeps, FinishKeepsInv, FinMagicKeeps, FinRegsKeeps, FinSavedKeeps, FinishAckedKeeps,
     FactoryKeeps
  DEF Command
<1>3. QED BY <1>1, <1>2, RestartKeeps, CrashKeeps, StutterKeeps DEF Next

LEMMA Invariant == Spec => []IInv
<1> HIDE DEF IInv
<1> QED BY InitHolds, StepKeeps, PTL DEF Spec

-----------------------------------------------------------------------------
\* Types: what the NV store holds and what RAM holds have their types after
\* any sequence of boots, commands and power failures.
THEOREM TypeCorrect == Spec => []TypeOK
<1>1. IInv => TypeOK
  BY DEF IInv
<1>2. QED BY <1>1, Invariant, PTL

\* Between two commands no power failure loses a register of the stored head
\* unless needFlashWrite says so.
THEOREM RegsAreDurable == Spec => []RegsDurable
<1>1. IInv => RegsDurable
  BY DEF IInv, RegsInv, RegsDurable, NextBoot
<1>2. QED BY <1>1, Invariant, PTL

\* Between two commands no power failure changes the algorithm parameters.
THEOREM AlgIsDurable == Spec => []AlgDurable
<1>1. IInv => AlgDurable
  BY DEF IInv, AlgInv, AlgDurable
<1>2. QED BY <1>1, Invariant, PTL

\* What FINISH_CFG acknowledged outside the factory test is what the radar is
\* loaded with, or what the host wrote later; one acknowledged in the test counts
\* for nothing, and the registers of the test are excepted while they are loaded.
THEOREM FinishIsKept == Spec => []FinishKeeps
<1>1. IInv => FinishKeeps
  BY DEF IInv, HostInv, FinishKeeps
<1>2. QED BY <1>1, Invariant, PTL

\* Until the module loses its power the radar always comes back with every
\* listed register as the host wrote it, also after a factory test.
THEOREM WritesAreKept == Spec => []WritesSurvive
<1>1. IInv => WritesSurvive
  BY DEF IInv, PowerInv, WritesSurvive
<1>2. QED BY <1>1, Invariant, PTL
=============================================================================
