-------------------------- MODULE RadarCycleProofs --------------------------
(***************************************************************************)
(* Proofs about RadarCycle, for every length of a frame and of the queue.  *)
(* The argument follows the cycle: from the end of a frame to the end of   *)
(* the timer callback the data task, the timer and the daemon hand the     *)
(* radar on to each other, and nothing is left that could open the SPI;    *)
(* from there on the init task, then the SPI, and no timer.                *)
(***************************************************************************)
EXTENDS RadarCycle, TLAPS

\* Without the timer and its callback the radar is on, or being switched off.
CycleInv ==
  /\ armed => /\ ~power /\ daemon = "idle" /\ ~spi /\ ~itask
              /\ chirp = "none" /\ queue = << >> /\ dpc = "wait"
  /\ daemon # "idle" => /\ power /\ ~spi /\ ~itask
                        /\ chirp # "caught" /\ queue = << >> /\ dpc = "wait"
  /\ ~armed /\ dpc \notin {"reset", "timer"} /\ cpc # "ftsleep" => power
  /\ dpc \in {"reset", "timer"} => ~power /\ chirp = "none"
  /\ dpc = "timer" => queue = << >>
  /\ dpc \in {"off", "reset", "timer"} => ~spi /\ ~itask

\* An init task that waits while there is anything to analyse is about to run.
EdgeInv ==
  itask /\ (chirp # "none" \/ queue # << >> \/ dpc # "wait") => csEdge \/ csBit

\* An edge that came while the timer daemon was busy is not forgotten.
DelayInv == daemon # "idle" /\ chirp # "none" => csEdge

\* Where RadarPara has to say what the radar sends.
Settled == (~session /\ ~factory) \/ cpc \in {"open", "ack"}

(***************************************************************************)
(* RadarPara against the register FUN_SWITCH and its entry in InitRegList: *)
(* a radar that runs with its own registers has the type of the list, and  *)
(* so has one that sends peaks; RadarPara has been read from a radar with  *)
(* registers, so what it holds is the type of the list or, from a test,    *)
(* its length.                                                             *)
(***************************************************************************)
ParaInv ==
  /\ cpc \in {"sleep", "need", "open", "ack"} => live
  /\ live /\ (dataType = "peak" \/ ~test) => dataType = listType
  /\ Settled => para \in {listType, "short"}
  /\ Settled /\ live => para \in {Format, "short"}

\* A reconfiguration finds the radar on and keeps the data task from switching it off.
ReconfigInv ==
  /\ cpc # "idle" => session /\ ~armed /\ daemon = "idle"
  /\ cpc \notin {"idle", "ftsleep"} => power
  /\ session \/ factory => dpc \in {"wait", "check"}

\* From the closing of the SPI to the new init task, the radar being off in between.
FtStarts == cpc \in {"ftoff", "ftsleep", "ftregs", "ftdata", "ftcreate"}

(***************************************************************************)
(* Until its init task is created the factory test has the radar for       *)
(* itself, and the chip select edges of its chirps are kept; then the      *)
(* radar stays on.                                                         *)
(***************************************************************************)
FtInv ==
  /\ FtStarts => ~factory /\ ~spi /\ ~itask /\ queue = << >> /\ dpc = "wait"
  /\ FtStarts \/ cpc = "ftflag" => done
  /\ cpc = "ftsleep" => ~power
  /\ cpc \in {"ftsleep", "ftregs"} => ~live /\ chirp = "none"
  /\ cpc \in {"ftdata", "ftcreate"} /\ chirp # "none" => csEdge \/ csBit
  /\ factory => done /\ power /\ ~armed /\ daemon = "idle"

\* The chirp in the half that was filled last, if any since the SPI was opened.
Filled == mem[1 - dmaHalf]

OrderInv == ~test =>
  /\ spi /\ Filled # Zeroes => chirp # "missed" /\ next = (Filled + 1) % FrameDepth
  /\ spi /\ Filled = Zeroes => last = Zeroes
  /\ spi /\ last # Zeroes =>
       IF irqCnt = dmaHalf THEN Filled = last ELSE Filled = (last + 1) % FrameDepth

RoomInv == chirp # "none" => Len(queue) < QueueSize

IInv ==
  /\ TypeOK /\ CycleInv /\ EdgeInv /\ DelayInv /\ ReconfigInv /\ FtInv
  /\ OrderInv /\ RoomInv

-----------------------------------------------------------------------------
LEMMA ChirpFacts ==
  /\ Zeroes \notin Chirps /\ 0 \in Chirps /\ LastChirp \in Chirps
  /\ \A c \in Chirps : (c + 1) % FrameDepth \in Chirps
  BY CycleAssumption DEF Chirps, Zeroes, LastChirp

LEMMA InitIInv == ASSUME Init PROVE IInv
<1>1. TypeOK
  <2>1. /\ power \in BOOLEAN /\ live \in BOOLEAN /\ next \in Chirps
        /\ mem \in [Halves -> Chirps \cup {Zeroes}] /\ irqCnt \in Halves
        /\ queue \in Seq(Chirps \cup {Zeroes}) /\ Len(queue) <= QueueSize
        /\ inOrder \in 0 .. FrameDepth
    BY CycleAssumption DEF Init, Halves
  <2> QED
    BY <2>1 DEF Init, TypeOK, Halves
<1>2. CycleInv /\ EdgeInv /\ DelayInv /\ ReconfigInv /\ FtInv /\ RoomInv
  BY DEF Init, CycleInv, EdgeInv, DelayInv, ReconfigInv, FtInv, FtStarts, RoomInv
<1>3. OrderInv
  BY DEF Init, OrderInv
<1> QED
  BY <1>1, <1>2, <1>3 DEF IInv

LEMMA ChirpBeginsStep == ASSUME HostIsSlow, IInv, ChirpBegins PROVE IInv'
<1> USE DEF IInv, ChirpBegins, radarVars, typeVars, spiVars, dmaVars, csVars, timerVars,
            dataVars, cmdVars, ftVars
<1>1. TypeOK'
  BY ChirpFacts DEF TypeOK, Halves, RoomInv
<1>2. CycleInv'
  BY DEF TypeOK, CycleInv, EdgeInv, ReconfigInv, FtInv, FtStarts
<1>3. EdgeInv' /\ DelayInv'
  BY DEF TypeOK, CycleInv, EdgeInv, DelayInv, ReconfigInv, FtInv, FtStarts
<1>4. ReconfigInv' /\ FtInv'
  BY DEF TypeOK, CycleInv, ReconfigInv, FtInv, FtStarts
<1>5. OrderInv'
  BY ChirpFacts DEF TypeOK, CycleInv, OrderInv, Filled, Halves
<1>6. RoomInv'
  BY DEF TypeOK, RoomInv
<1> QED
  BY <1>1, <1>2, <1>3, <1>4, <1>5, <1>6

LEMMA ChirpReceivedStep == ASSUME HostIsSlow, IInv, ChirpReceived PROVE IInv'
<1> USE DEF IInv, ChirpReceived, radarVars, typeVars, spiVars, dmaVars, csVars, timerVars,
            dataVars, cmdVars, ftVars
<1>1. TypeOK'
  <2>1. /\ mem' \in [Halves -> Chirps \cup {Zeroes}] /\ mem'[irqCnt] \in Chirps \cup {Zeroes}
        /\ last' = mem'[irqCnt] /\ queue' = Append(queue, mem'[irqCnt])
    BY DEF TypeOK, Halves
  <2>2. queue' \in Seq(Chirps \cup {Zeroes}) /\ Len(queue') <= QueueSize
    BY <2>1, CycleAssumption DEF TypeOK, RoomInv
  <2>3. irqCnt' \in Halves /\ dmaHalf' \in Halves /\ next' \in Chirps
    BY ChirpFacts DEF TypeOK, Halves, IrqHalfTurned
  <2> QED
    BY <2>1, <2>2, <2>3 DEF TypeOK
<1>2. CycleInv'
  BY DEF TypeOK, CycleInv, EdgeInv, ReconfigInv, FtInv, FtStarts
<1>3. EdgeInv' /\ DelayInv'
  BY DEF TypeOK, CycleInv, EdgeInv, DelayInv, ReconfigInv, FtInv, FtStarts
<1>4. ReconfigInv' /\ FtInv'
  BY DEF TypeOK, CycleInv, ReconfigInv, FtInv, FtStarts
<1>5. OrderInv'
  <2>1. /\ dmaHalf \in {0, 1} /\ irqCnt \in {0, 1} /\ next \in Chirps /\ mem \in [{0, 1} -> Chirps \cup {Zeroes}]
        /\ dmaHalf' = 1 - dmaHalf /\ irqCnt' = 1 - irqCnt /\ chirp' = "none"
        /\ next' = (next + 1) % FrameDepth /\ spi' = spi
    BY DEF TypeOK, Halves, IrqHalfTurned
  <2>2. Filled' = next
    BY <2>1 DEF Filled
  <2>3. last' = IF irqCnt = dmaHalf THEN next ELSE Filled
    BY <2>1 DEF Filled
  <2>4. Filled # Zeroes => next = (Filled + 1) % FrameDepth
    BY DEF OrderInv
  <2>5. next # Zeroes
    BY <2>1, ChirpFacts
  <2>6. irqCnt' = dmaHalf' <=> irqCnt = dmaHalf
    BY <2>1
  <2> QED
    BY ONLY <2>1, <2>2, <2>3, <2>4, <2>5, <2>6 DEF OrderInv
<1>6. RoomInv'
  BY DEF TypeOK, RoomInv
<1> QED
  BY <1>1, <1>2, <1>3, <1>4, <1>5, <1>6

LEMMA TestChirpReceivedStep == ASSUME HostIsSlow, IInv, TestChirpReceived PROVE IInv'
<1> USE DEF IInv, TestChirpReceived, radarVars, typeVars, spiVars, dmaVars, csVars,
            timerVars, dataVars, cmdVars, ftVars
<1>1. TypeOK'
  <2>1. PICK c \in Chirps \cup {Zeroes} :
          /\ queue' = Append(queue, c) /\ last' = c /\ mem' = [mem EXCEPT ![dmaHalf] = c]
    BY DEF TypeOK
  <2>2. queue' \in Seq(Chirps \cup {Zeroes}) /\ Len(queue') <= QueueSize
    BY <2>1, CycleAssumption DEF TypeOK, RoomInv
  <2>3. irqCnt' \in Halves /\ dmaHalf' \in Halves /\ next' \in Chirps
    BY ChirpFacts DEF TypeOK, Halves, IrqHalfTurned
  <2>4. mem' \in [Halves -> Chirps \cup {Zeroes}]
    BY <2>1 DEF TypeOK
  <2> QED
    BY <2>1, <2>2, <2>3, <2>4 DEF TypeOK
<1>2. CycleInv'
  BY DEF TypeOK, CycleInv, EdgeInv, ReconfigInv, FtInv, FtStarts
<1>3. EdgeInv' /\ DelayInv'
  BY DEF TypeOK, CycleInv, EdgeInv, DelayInv, ReconfigInv, FtInv, FtStarts
<1>4. ReconfigInv' /\ FtInv'
  BY DEF TypeOK, CycleInv, ReconfigInv, FtInv, FtStarts
<1>5. OrderInv'
  BY DEF OrderInv
<1>6. RoomInv'
  BY DEF TypeOK, RoomInv
<1> QED
  BY <1>1, <1>2, <1>3, <1>4, <1>5, <1>6

LEMMA ChirpMissedStep == ASSUME HostIsSlow, IInv, ChirpMissed PROVE IInv'
<1> USE DEF IInv, ChirpMissed, radarVars, typeVars, spiVars, dmaVars, csVars, timerVars,
            dataVars, cmdVars, ftVars
<1>1. TypeOK'
  BY ChirpFacts DEF TypeOK, Halves, RoomInv
<1>2. CycleInv'
  BY DEF TypeOK, CycleInv, EdgeInv, ReconfigInv, FtInv, FtStarts
<1>3. EdgeInv' /\ DelayInv'
  BY DEF TypeOK, CycleInv, EdgeInv, DelayInv, ReconfigInv, FtInv, FtStarts
<1>4. ReconfigInv' /\ FtInv'
  BY DEF TypeOK, CycleInv, ReconfigInv, FtInv, FtStarts
<1>5. OrderInv'
  BY ChirpFacts DEF TypeOK, CycleInv, OrderInv, Filled, Halves
<1>6. RoomInv'
  BY DEF TypeOK, RoomInv
<1> QED
  BY <1>1, <1>2, <1>3, <1>4, <1>5, <1>6

LEMMA DaemonSetBitStep == ASSUME HostIsSlow, IInv, DaemonSetBit PROVE IInv'
<1> USE DEF IInv, DaemonSetBit, radarVars, typeVars, spiVars, dmaVars, csVars, timerVars,
            dataVars, cmdVars, ftVars
<1>1. TypeOK'
  <2>1. UNCHANGED <<dataType, listType, power, live, next, chirp, spi, dmaHalf, mem, last,
                    irqCnt, queue, itask, armed, daemon, dpc, cur, inOrder, para, session,
                    cpc, ftVars>>
    OBVIOUS
  <2>2. csEdge' \in BOOLEAN /\ csBit' \in BOOLEAN
    BY DEF TypeOK
  <2> QED
    BY ONLY TypeOK, <2>1, <2>2 DEF TypeOK, ftVars
<1>2. CycleInv'
  BY DEF TypeOK, CycleInv, EdgeInv, ReconfigInv, FtInv, FtStarts
<1>3. EdgeInv' /\ DelayInv'
  BY DEF TypeOK, CycleInv, EdgeInv, DelayInv, ReconfigInv, FtInv, FtStarts
<1>4. ReconfigInv' /\ FtInv'
  BY DEF TypeOK, CycleInv, ReconfigInv, FtInv, FtStarts
<1>5. OrderInv'
  BY ChirpFacts DEF TypeOK, CycleInv, OrderInv, Filled, Halves
<1>6. RoomInv'
  BY DEF TypeOK, RoomInv
<1> QED
  BY <1>1, <1>2, <1>3, <1>4, <1>5, <1>6

LEMMA TimerFiresStep == ASSUME HostIsSlow, IInv, TimerFires PROVE IInv'
<1> USE DEF IInv, TimerFires, radarVars, typeVars, spiVars, dmaVars, csVars, timerVars,
            dataVars, cmdVars, ftVars
<1>1. TypeOK'
  <2>1. UNCHANGED <<dataType, listType, next, chirp, spi, dmaHalf, mem, last, irqCnt,
                    queue, csEdge, csBit, itask, dpc, cur, inOrder, para, session, cpc,
                    ftVars>>
    OBVIOUS
  <2>2. armed' \in BOOLEAN /\ daemon' = "delay" /\ power' \in BOOLEAN /\ live' \in BOOLEAN
    BY DEF TypeOK
  <2> QED
    BY ONLY TypeOK, <2>1, <2>2 DEF TypeOK, ftVars
<1>2. CycleInv'
  BY DEF TypeOK, CycleInv, EdgeInv, ReconfigInv, FtInv, FtStarts
<1>3. EdgeInv' /\ DelayInv'
  BY DEF TypeOK, CycleInv, EdgeInv, DelayInv, ReconfigInv, FtInv, FtStarts
<1>4. ReconfigInv' /\ FtInv'
  BY DEF TypeOK, CycleInv, ReconfigInv, FtInv, FtStarts
<1>5. OrderInv'
  BY ChirpFacts DEF TypeOK, CycleInv, OrderInv, Filled, Halves
<1>6. RoomInv'
  BY DEF TypeOK, RoomInv
<1> QED
  BY <1>1, <1>2, <1>3, <1>4, <1>5, <1>6

LEMMA WriteRegsStep == ASSUME HostIsSlow, IInv, WriteRegs PROVE IInv'
<1> USE DEF IInv, WriteRegs, RegsWritten, radarVars, typeVars, spiVars, dmaVars, csVars,
            timerVars, dataVars, cmdVars, ftVars
<1>1. TypeOK'
  BY ChirpFacts DEF TypeOK, Halves, RoomInv
<1>2. CycleInv'
  BY DEF TypeOK, CycleInv, EdgeInv, ReconfigInv, FtInv, FtStarts
<1>3. EdgeInv' /\ DelayInv'
  BY DEF TypeOK, CycleInv, EdgeInv, DelayInv, ReconfigInv, FtInv, FtStarts
<1>4. ReconfigInv' /\ FtInv'
  BY DEF TypeOK, CycleInv, ReconfigInv, FtInv, FtStarts
<1>5. OrderInv'
  BY ChirpFacts DEF TypeOK, CycleInv, OrderInv, Filled, Halves
<1>6. RoomInv'
  BY DEF TypeOK, RoomInv
<1> QED
  BY <1>1, <1>2, <1>3, <1>4, <1>5, <1>6

LEMMA CreateInitTaskStep == ASSUME HostIsSlow, IInv, CreateInitTask PROVE IInv'
<1> USE DEF IInv, CreateInitTask, create_spi_init_task, radarVars, typeVars, spiVars,
            dmaVars, csVars, timerVars, dataVars, cmdVars, ftVars
<1>1. TypeOK'
  <2>1. UNCHANGED <<dataType, listType, power, live, next, chirp, spi, dmaHalf, mem, last,
                    irqCnt, queue, csEdge, csBit, armed, dpc, cur, inOrder, para, session,
                    cpc, factory, done, test, ftSpi>>
    OBVIOUS
  <2>2. /\ daemon' = "idle"
        /\ itask' \in BOOLEAN /\ ftTask' \in BOOLEAN
    BY DEF TypeOK, Halves
  <2> QED
    BY ONLY TypeOK, <2>1, <2>2 DEF TypeOK
<1>2. CycleInv'
  BY DEF TypeOK, CycleInv, EdgeInv, ReconfigInv, FtInv, FtStarts
<1>3. EdgeInv' /\ DelayInv'
  BY DEF TypeOK, CycleInv, EdgeInv, DelayInv, ReconfigInv, FtInv, FtStarts
<1>4. ReconfigInv' /\ FtInv'
  BY DEF TypeOK, CycleInv, ReconfigInv, FtInv, FtStarts
<1>5. OrderInv'
  BY ChirpFacts DEF TypeOK, CycleInv, OrderInv, Filled, Halves
<1>6. RoomInv'
  BY DEF TypeOK, RoomInv
<1> QED
  BY <1>1, <1>2, <1>3, <1>4, <1>5, <1>6

LEMMA SpiInitTaskStep == ASSUME HostIsSlow, IInv, SpiInitTask PROVE IInv'
<1> USE DEF IInv, SpiInitTask, TaskEnds, OpenSpi, radarVars, typeVars, spiVars, dmaVars,
            csVars, timerVars, dataVars, cmdVars, ftVars
<1>1. TypeOK'
  <2>1. UNCHANGED <<dataType, listType, power, live, next, irqCnt, queue, csEdge, armed,
                    daemon, dpc, cur, inOrder, para, session, cpc, factory, done, test,
                    ftTask>>
    OBVIOUS
  <2>2. /\ csBit' \in BOOLEAN /\ itask' \in BOOLEAN /\ spi' \in BOOLEAN
        /\ ftSpi' \in BOOLEAN
        /\ dmaHalf' \in Halves /\ last' = Zeroes
        /\ mem' \in [Halves -> Chirps \cup {Zeroes}]
        /\ chirp' \in {"none", "caught", "missed"}
    BY DEF TypeOK, Halves
  <2> QED
    BY ONLY TypeOK, <2>1, <2>2 DEF TypeOK, ftVars
<1>2. CycleInv'
  BY DEF TypeOK, CycleInv, EdgeInv, ReconfigInv, FtInv, FtStarts
<1>3. EdgeInv' /\ DelayInv'
  BY DEF TypeOK, CycleInv, EdgeInv, DelayInv, ReconfigInv, FtInv, FtStarts
<1>4. ReconfigInv' /\ FtInv'
  BY DEF TypeOK, CycleInv, ReconfigInv, FtInv, FtStarts
<1>5. OrderInv'
  BY ChirpFacts DEF TypeOK, CycleInv, OrderInv, Filled, Halves
<1>6. RoomInv'
  BY DEF TypeOK, RoomInv
<1> QED
  BY <1>1, <1>2, <1>3, <1>4, <1>5, <1>6

LEMMA DataTakeStep == ASSUME HostIsSlow, IInv, DataTake PROVE IInv'
<1> USE DEF IInv, DataTake, DataMayRun, UrgentReady, radarVars, typeVars, spiVars,
            dmaVars, csVars, timerVars, dataVars, cmdVars, ftVars
<1>1. TypeOK'
  <2>1. /\ queue' \in Seq(Chirps \cup {Zeroes}) /\ Len(queue') <= QueueSize
        /\ Head(queue) \in Chirps \cup {Zeroes}
    BY CycleAssumption DEF TypeOK
  <2>2. Parsed(Head(queue)) \subseteq Chirps \cup {Zeroes}
    BY <2>1, ChirpFacts DEF Parsed
  <2>3. dpc' \in {"wait", "check"} /\ cur' \in Chirps \cup {Zeroes}
    BY <2>2 DEF TypeOK
  <2>4. UNCHANGED <<dataType, listType, power, live, next, chirp, spi, dmaHalf, mem, last,
                    irqCnt, csEdge, csBit, itask, armed, daemon, inOrder, para, session,
                    cpc, factory, done, test, ftSpi, ftTask>>
    OBVIOUS
  <2> QED
    BY ONLY TypeOK, <2>1, <2>3, <2>4 DEF TypeOK
<1>2. CycleInv'
  BY DEF TypeOK, CycleInv, EdgeInv, ReconfigInv, FtInv, FtStarts
<1>3. EdgeInv' /\ DelayInv'
  BY DEF TypeOK, CycleInv, EdgeInv, DelayInv, ReconfigInv, FtInv, FtStarts
<1>4. ReconfigInv' /\ FtInv'
  BY DEF TypeOK, CycleInv, ReconfigInv, FtInv, FtStarts
<1>5. OrderInv'
  BY ChirpFacts DEF TypeOK, CycleInv, OrderInv, Filled, Halves
<1>6. RoomInv'
  <2>1. Len(queue') < Len(queue) /\ Len(queue) \in Nat /\ Len(queue') \in Nat
    BY DEF TypeOK
  <2> QED
    BY <2>1, CycleAssumption DEF RoomInv
<1> QED
  BY <1>1, <1>2, <1>3, <1>4, <1>5, <1>6

LEMMA DataCheckStep == ASSUME HostIsSlow, IInv, DataCheck PROVE IInv'
<1> USE DEF IInv, DataCheck, DataMayRun, UrgentReady, QuietInSession, FtQuiet, FullFrame,
            Continued, radarVars, typeVars, spiVars, dmaVars, csVars, timerVars, dataVars, cmdVars,
            ftVars
<1>1. TypeOK'
  <2>1. inOrder' \in 0 .. FrameDepth
    BY CycleAssumption DEF TypeOK, Chirps, Zeroes
  <2> QED
    BY <2>1 DEF TypeOK
<1>2. CycleInv'
  BY DEF TypeOK, CycleInv, EdgeInv, ReconfigInv, FtInv, FtStarts
<1>3. EdgeInv' /\ DelayInv'
  BY DEF TypeOK, CycleInv, EdgeInv, DelayInv, ReconfigInv, FtInv, FtStarts
<1>4. ReconfigInv' /\ FtInv'
  BY DEF TypeOK, CycleInv, ReconfigInv, FtInv, FtStarts
<1>5. OrderInv'
  BY ChirpFacts DEF TypeOK, CycleInv, OrderInv, Filled, Halves
<1>6. RoomInv'
  BY DEF TypeOK, RoomInv
<1> QED
  BY <1>1, <1>2, <1>3, <1>4, <1>5, <1>6

LEMMA DataDeinitStep == ASSUME HostIsSlow, IInv, DataDeinit PROVE IInv'
<1> USE DEF IInv, DataDeinit, DataMayRun, UrgentReady, SpiClosed, radarVars, typeVars,
            spiVars, dmaVars, csVars, timerVars, dataVars, cmdVars, ftVars
<1>1. TypeOK'
  <2>1. UNCHANGED <<dataType, listType, power, live, next, chirp, dmaHalf, mem, last,
                    irqCnt, queue, csEdge, csBit, itask, armed, daemon, cur, inOrder,
                    para, session, cpc, ftVars>>
    OBVIOUS
  <2>2. spi' \in BOOLEAN /\ dpc' = "off"
    BY DEF TypeOK
  <2> QED
    BY ONLY TypeOK, <2>1, <2>2 DEF TypeOK, ftVars
<1>2. CycleInv'
  BY DEF TypeOK, CycleInv, EdgeInv, ReconfigInv, FtInv, FtStarts
<1>3. EdgeInv' /\ DelayInv'
  BY DEF TypeOK, CycleInv, EdgeInv, DelayInv, ReconfigInv, FtInv, FtStarts
<1>4. ReconfigInv' /\ FtInv'
  BY DEF TypeOK, CycleInv, ReconfigInv, FtInv, FtStarts
<1>5. OrderInv'
  BY ChirpFacts DEF TypeOK, CycleInv, OrderInv, Filled, Halves
<1>6. RoomInv'
  BY DEF TypeOK, RoomInv
<1> QED
  BY <1>1, <1>2, <1>3, <1>4, <1>5, <1>6

LEMMA DataPowerOffStep == ASSUME HostIsSlow, IInv, DataPowerOff PROVE IInv'
<1> USE DEF IInv, DataPowerOff, DataMayRun, UrgentReady, radarVars, typeVars, spiVars,
            dmaVars, csVars, timerVars, dataVars, cmdVars, ftVars
<1>1. TypeOK'
  <2>1. UNCHANGED <<dataType, listType, next, spi, dmaHalf, mem, last, irqCnt, queue,
                    csEdge, csBit, itask, armed, daemon, cur, inOrder, para, session, cpc,
                    ftVars>>
    OBVIOUS
  <2>2. power' \in BOOLEAN /\ live' \in BOOLEAN /\ chirp' = "none" /\ dpc' = "reset"
    BY DEF TypeOK
  <2> QED
    BY ONLY TypeOK, <2>1, <2>2 DEF TypeOK, ftVars
<1>2. CycleInv'
  BY DEF TypeOK, CycleInv, EdgeInv, ReconfigInv, FtInv, FtStarts
<1>3. EdgeInv' /\ DelayInv'
  BY DEF TypeOK, CycleInv, EdgeInv, DelayInv, ReconfigInv, FtInv, FtStarts
<1>4. ReconfigInv' /\ FtInv'
  BY DEF TypeOK, CycleInv, ReconfigInv, FtInv, FtStarts
<1>5. OrderInv'
  BY ChirpFacts DEF TypeOK, CycleInv, OrderInv, Filled, Halves
<1>6. RoomInv'
  BY DEF TypeOK, RoomInv
<1> QED
  BY <1>1, <1>2, <1>3, <1>4, <1>5, <1>6

LEMMA DataQueueResetStep == ASSUME HostIsSlow, IInv, DataQueueReset PROVE IInv'
<1> USE DEF IInv, DataQueueReset, DataMayRun, UrgentReady, QueueReset, radarVars,
            typeVars, spiVars, dmaVars, csVars, timerVars, dataVars, cmdVars, ftVars
<1>1. TypeOK'
  <2>1. queue' \in Seq(Chirps \cup {Zeroes}) /\ Len(queue') <= QueueSize
    BY CycleAssumption
  <2> QED
    BY <2>1 DEF TypeOK
<1>2. CycleInv'
  BY DEF TypeOK, CycleInv, EdgeInv, ReconfigInv, FtInv, FtStarts
<1>3. EdgeInv' /\ DelayInv'
  BY DEF TypeOK, CycleInv, EdgeInv, DelayInv, ReconfigInv, FtInv, FtStarts
<1>4. ReconfigInv' /\ FtInv'
  BY DEF TypeOK, CycleInv, ReconfigInv, FtInv, FtStarts
<1>5. OrderInv'
  BY ChirpFacts DEF TypeOK, CycleInv, OrderInv, Filled, Halves
<1>6. RoomInv'
  BY CycleAssumption DEF RoomInv
<1> QED
  BY <1>1, <1>2, <1>3, <1>4, <1>5, <1>6

LEMMA DataTimerStep == ASSUME HostIsSlow, IInv, DataTimer PROVE IInv'
<1> USE DEF IInv, DataTimer, DataMayRun, UrgentReady, TimerStarted, radarVars, typeVars,
            spiVars, dmaVars, csVars, timerVars, dataVars, cmdVars, ftVars
<1>1. TypeOK'
  BY ChirpFacts DEF TypeOK, Halves, RoomInv
<1>2. CycleInv'
  BY DEF TypeOK, CycleInv, EdgeInv, ReconfigInv, FtInv, FtStarts
<1>3. EdgeInv' /\ DelayInv'
  BY DEF TypeOK, CycleInv, EdgeInv, DelayInv, ReconfigInv, FtInv, FtStarts
<1>4. ReconfigInv' /\ FtInv'
  BY DEF TypeOK, CycleInv, ReconfigInv, FtInv, FtStarts
<1>5. OrderInv'
  BY ChirpFacts DEF TypeOK, CycleInv, OrderInv, Filled, Halves
<1>6. RoomInv'
  BY DEF TypeOK, RoomInv
<1> QED
  BY <1>1, <1>2, <1>3, <1>4, <1>5, <1>6

LEMMA StartCfgStep == ASSUME HostIsSlow, IInv, StartCfg PROVE IInv'
<1> USE DEF IInv, StartCfg, CmdMayRun, UrgentReady, radarVars, typeVars, spiVars, dmaVars,
            csVars, timerVars, dataVars, cmdVars, ftVars
<1>1. TypeOK'
  BY ChirpFacts DEF TypeOK, Halves, RoomInv
<1>2. CycleInv'
  BY DEF TypeOK, CycleInv, EdgeInv, ReconfigInv, FtInv, FtStarts
<1>3. EdgeInv' /\ DelayInv'
  BY DEF TypeOK, CycleInv, EdgeInv, DelayInv, ReconfigInv, FtInv, FtStarts
<1>4. ReconfigInv' /\ FtInv'
  BY DEF TypeOK, CycleInv, ReconfigInv, FtInv, FtStarts
<1>5. OrderInv'
  BY ChirpFacts DEF TypeOK, CycleInv, OrderInv, Filled, Halves
<1>6. RoomInv'
  BY DEF TypeOK, RoomInv
<1> QED
  BY <1>1, <1>2, <1>3, <1>4, <1>5, <1>6

LEMMA DoWriteRegStep == ASSUME HostIsSlow, IInv, DoWriteReg PROVE IInv'
<1> USE DEF IInv, DoWriteReg, CmdMayRun, UrgentReady, radarVars, spiVars, dmaVars, csVars,
            timerVars, dataVars, cmdVars, ftVars
<1>1. TypeOK'
  BY DEF TypeOK
<1>2. CycleInv'
  BY DEF CycleInv
<1>3. EdgeInv' /\ DelayInv'
  BY DEF EdgeInv, DelayInv
<1>4. ReconfigInv' /\ FtInv'
  BY DEF ReconfigInv, FtInv, FtStarts
<1>5. OrderInv'
  BY DEF OrderInv, Filled
<1>6. RoomInv'
  BY DEF RoomInv
<1> QED
  BY <1>1, <1>2, <1>3, <1>4, <1>5, <1>6

LEMMA FinishCfgStep == ASSUME HostIsSlow, IInv, FinishCfg PROVE IInv'
<1> USE DEF IInv, FinishCfg, CmdMayRun, UrgentReady, SpiClosed, radarVars, typeVars,
            spiVars, dmaVars, csVars, timerVars, dataVars, cmdVars, ftVars
<1>1. TypeOK'
  <2>1. UNCHANGED <<dataType, listType, power, live, next, chirp, dmaHalf, mem, last,
                    irqCnt, queue, csEdge, csBit, itask, armed, daemon, dpc, cur, inOrder,
                    para, session, factory, done, test, ftSpi, ftTask>>
    OBVIOUS
  <2>2. /\ spi' \in BOOLEAN /\ cpc' = "sleep"
    BY DEF TypeOK, Halves
  <2> QED
    BY ONLY TypeOK, <2>1, <2>2 DEF TypeOK
<1>2. CycleInv'
  BY DEF TypeOK, CycleInv, EdgeInv, ReconfigInv, FtInv, FtStarts
<1>3. EdgeInv' /\ DelayInv'
  BY DEF TypeOK, CycleInv, EdgeInv, DelayInv, ReconfigInv, FtInv, FtStarts
<1>4. ReconfigInv' /\ FtInv'
  BY DEF TypeOK, CycleInv, ReconfigInv, FtInv, FtStarts
<1>5. OrderInv'
  BY ChirpFacts DEF TypeOK, CycleInv, OrderInv, Filled, Halves
<1>6. RoomInv'
  BY DEF TypeOK, RoomInv
<1> QED
  BY <1>1, <1>2, <1>3, <1>4, <1>5, <1>6

LEMMA FinishWakesStep == ASSUME HostIsSlow, IInv, FinishWakes PROVE IInv'
<1> USE DEF IInv, FinishWakes, CmdMayRun, UrgentReady, radarVars, typeVars, spiVars,
            dmaVars, csVars, timerVars, dataVars, cmdVars, ftVars
<1>1. TypeOK'
  BY ChirpFacts DEF TypeOK, Halves, RoomInv
<1>2. CycleInv'
  BY DEF TypeOK, CycleInv, EdgeInv, ReconfigInv, FtInv, FtStarts
<1>3. EdgeInv' /\ DelayInv'
  BY DEF TypeOK, CycleInv, EdgeInv, DelayInv, ReconfigInv, FtInv, FtStarts
<1>4. ReconfigInv' /\ FtInv'
  BY DEF TypeOK, CycleInv, ReconfigInv, FtInv, FtStarts
<1>5. OrderInv'
  BY ChirpFacts DEF TypeOK, CycleInv, OrderInv, Filled, Halves
<1>6. RoomInv'
  BY DEF TypeOK, RoomInv
<1> QED
  BY <1>1, <1>2, <1>3, <1>4, <1>5, <1>6

LEMMA FinishReadsStep == ASSUME HostIsSlow, IInv, FinishReads PROVE IInv'
<1> USE DEF IInv, FinishReads, CmdMayRun, UrgentReady, radarVars, typeVars, spiVars,
            dmaVars, csVars, timerVars, dataVars, cmdVars, ftVars
<1>1. TypeOK'
  <2>1. para' \in Types \cup {"short", "none"}
    BY DEF TypeOK, RadarParas, Format
  <2> QED
    BY <2>1 DEF TypeOK
<1>2. CycleInv'
  BY DEF TypeOK, CycleInv, EdgeInv, ReconfigInv, FtInv, FtStarts
<1>3. EdgeInv' /\ DelayInv'
  BY DEF TypeOK, CycleInv, EdgeInv, DelayInv, ReconfigInv, FtInv, FtStarts
<1>4. ReconfigInv' /\ FtInv'
  BY DEF TypeOK, CycleInv, ReconfigInv, FtInv, FtStarts
<1>5. OrderInv'
  BY ChirpFacts DEF TypeOK, CycleInv, OrderInv, Filled, Halves
<1>6. RoomInv'
  BY DEF TypeOK, RoomInv
<1> QED
  BY <1>1, <1>2, <1>3, <1>4, <1>5, <1>6

LEMMA FinishOpensStep == ASSUME HostIsSlow, IInv, FinishOpens PROVE IInv'
<1> USE DEF IInv, FinishOpens, CmdMayRun, UrgentReady, Reopen, OpenSpi, radarVars,
            typeVars, spiVars, dmaVars, csVars, timerVars, dataVars, cmdVars, ftVars
<1>1. TypeOK'
  <2>1. UNCHANGED <<dataType, listType, power, live, next, irqCnt, queue, csEdge, csBit,
                    itask, armed, daemon, dpc, cur, inOrder, para, session, factory, done,
                    test, ftTask>>
    OBVIOUS
  <2>2. /\ spi' \in BOOLEAN /\ ftSpi' \in BOOLEAN /\ cpc' = "ack"
        /\ dmaHalf' \in Halves /\ last' = Zeroes
        /\ mem' \in [Halves -> Chirps \cup {Zeroes}]
        /\ chirp' \in {"none", "caught", "missed"}
    BY DEF TypeOK, Halves
  <2> QED
    BY ONLY TypeOK, <2>1, <2>2 DEF TypeOK
<1>2. CycleInv'
  BY DEF TypeOK, CycleInv, EdgeInv, ReconfigInv, FtInv, FtStarts
<1>3. EdgeInv' /\ DelayInv'
  BY DEF TypeOK, CycleInv, EdgeInv, DelayInv, ReconfigInv, FtInv, FtStarts
<1>4. ReconfigInv' /\ FtInv'
  BY DEF TypeOK, CycleInv, ReconfigInv, FtInv, FtStarts
<1>5. OrderInv'
  BY ChirpFacts DEF TypeOK, CycleInv, OrderInv, Filled, Halves
<1>6. RoomInv'
  BY DEF TypeOK, RoomInv
<1> QED
  BY <1>1, <1>2, <1>3, <1>4, <1>5, <1>6

LEMMA FinishAcksStep == ASSUME HostIsSlow, IInv, FinishAcks PROVE IInv'
<1> USE DEF IInv, FinishAcks, CmdMayRun, UrgentReady, radarVars, typeVars, spiVars,
            dmaVars, csVars, timerVars, dataVars, cmdVars, ftVars
<1>1. TypeOK'
  <2>1. UNCHANGED <<dataType, listType, power, live, next, chirp, spi, dmaHalf, mem, last,
                    irqCnt, queue, csEdge, csBit, itask, armed, daemon, dpc, cur, inOrder,
                    para, ftVars>>
    OBVIOUS
  <2>2. session' \in BOOLEAN /\ cpc' = "idle"
    BY DEF TypeOK
  <2> QED
    BY ONLY TypeOK, <2>1, <2>2 DEF TypeOK, ftVars
<1>2. CycleInv'
  BY DEF TypeOK, CycleInv, EdgeInv, ReconfigInv, FtInv, FtStarts
<1>3. EdgeInv' /\ DelayInv'
  BY DEF TypeOK, CycleInv, EdgeInv, DelayInv, ReconfigInv, FtInv, FtStarts
<1>4. ReconfigInv' /\ FtInv'
  BY DEF TypeOK, CycleInv, ReconfigInv, FtInv, FtStarts
<1>5. OrderInv'
  BY ChirpFacts DEF TypeOK, CycleInv, OrderInv, Filled, Halves
<1>6. RoomInv'
  BY DEF TypeOK, RoomInv
<1> QED
  BY <1>1, <1>2, <1>3, <1>4, <1>5, <1>6

LEMMA FinishInFactoryStep == ASSUME HostIsSlow, IInv, FinishInFactory PROVE IInv'
<1> USE DEF IInv, FinishInFactory, CmdMayRun, UrgentReady, radarVars, typeVars, spiVars,
            dmaVars, csVars, timerVars, dataVars, cmdVars, ftVars
<1>1. TypeOK'
  <2>1. UNCHANGED <<dataType, listType, power, live, next, chirp, spi, dmaHalf, mem, last,
                    irqCnt, queue, csEdge, csBit, itask, armed, daemon, dpc, cur, inOrder,
                    para, cpc, factory, done, test, ftSpi, ftTask>>
    OBVIOUS
  <2>2. /\ session' \in BOOLEAN
    BY DEF TypeOK, Halves
  <2> QED
    BY ONLY TypeOK, <2>1, <2>2 DEF TypeOK
<1>2. CycleInv'
  BY DEF TypeOK, CycleInv, EdgeInv, ReconfigInv, FtInv, FtStarts
<1>3. EdgeInv' /\ DelayInv'
  BY DEF TypeOK, CycleInv, EdgeInv, DelayInv, ReconfigInv, FtInv, FtStarts
<1>4. ReconfigInv' /\ FtInv'
  BY DEF TypeOK, CycleInv, ReconfigInv, FtInv, FtStarts
<1>5. OrderInv'
  BY ChirpFacts DEF TypeOK, CycleInv, OrderInv, Filled, Halves, FtInv, FtStarts
<1>6. RoomInv'
  BY DEF TypeOK, RoomInv
<1> QED
  BY <1>1, <1>2, <1>3, <1>4, <1>5, <1>6

LEMMA EnterFactoryStep == ASSUME HostIsSlow, IInv, EnterFactory PROVE IInv'
<1> USE DEF IInv, EnterFactory, CmdMayRun, UrgentReady, SpiClosed, radarVars, typeVars,
            spiVars, dmaVars, csVars, timerVars, dataVars, cmdVars, ftVars
<1>1. TypeOK'
  <2>1. UNCHANGED <<dataType, listType, power, live, next, chirp, dmaHalf, mem, last,
                    irqCnt, queue, csEdge, csBit, itask, armed, daemon, dpc, cur, inOrder,
                    para, session, factory, test, ftSpi, ftTask>>
    OBVIOUS
  <2>2. /\ spi' \in BOOLEAN /\ done' \in BOOLEAN
        /\ cpc' \in {"ftoff", "ftflag"}
    BY DEF TypeOK, Halves
  <2> QED
    BY ONLY TypeOK, <2>1, <2>2 DEF TypeOK
<1>2. CycleInv'
  BY DEF TypeOK, CycleInv, EdgeInv, ReconfigInv, FtInv, FtStarts
<1>3. EdgeInv' /\ DelayInv'
  BY DEF TypeOK, CycleInv, EdgeInv, DelayInv, ReconfigInv, FtInv, FtStarts
<1>4. ReconfigInv' /\ FtInv'
  BY DEF TypeOK, CycleInv, ReconfigInv, FtInv, FtStarts
<1>5. OrderInv'
  BY ChirpFacts DEF TypeOK, CycleInv, OrderInv, Filled, Halves, FtInv, FtStarts
<1>6. RoomInv'
  BY DEF TypeOK, RoomInv
<1> QED
  BY <1>1, <1>2, <1>3, <1>4, <1>5, <1>6

LEMMA FtPowerOffStep == ASSUME HostIsSlow, IInv, FtPowerOff PROVE IInv'
<1> USE DEF IInv, FtPowerOff, CmdMayRun, UrgentReady, radarVars, typeVars, spiVars,
            dmaVars, csVars, timerVars, dataVars, cmdVars, ftVars
<1>1. TypeOK'
  <2>1. UNCHANGED <<dataType, listType, next, spi, dmaHalf, mem, last, irqCnt, queue,
                    csEdge, csBit, itask, armed, daemon, dpc, cur, inOrder, para, session,
                    factory, done, test, ftSpi, ftTask>>
    OBVIOUS
  <2>2. /\ power' \in BOOLEAN /\ live' \in BOOLEAN
        /\ chirp' = "none" /\ cpc' = "ftsleep"
    BY DEF TypeOK, Halves
  <2> QED
    BY ONLY TypeOK, <2>1, <2>2 DEF TypeOK
<1>2. CycleInv'
  BY DEF TypeOK, CycleInv, EdgeInv, ReconfigInv, FtInv, FtStarts
<1>3. EdgeInv' /\ DelayInv'
  BY DEF TypeOK, CycleInv, EdgeInv, DelayInv, ReconfigInv, FtInv, FtStarts
<1>4. ReconfigInv' /\ FtInv'
  BY DEF TypeOK, CycleInv, ReconfigInv, FtInv, FtStarts
<1>5. OrderInv'
  BY ChirpFacts DEF TypeOK, CycleInv, OrderInv, Filled, Halves, FtInv, FtStarts
<1>6. RoomInv'
  BY DEF TypeOK, RoomInv
<1> QED
  BY <1>1, <1>2, <1>3, <1>4, <1>5, <1>6

LEMMA FtPowerOnStep == ASSUME HostIsSlow, IInv, FtPowerOn PROVE IInv'
<1> USE DEF IInv, FtPowerOn, CmdMayRun, UrgentReady, radarVars, typeVars, spiVars,
            dmaVars, csVars, timerVars, dataVars, cmdVars, ftVars
<1>1. TypeOK'
  BY ChirpFacts DEF TypeOK, Halves, RoomInv
<1>2. CycleInv'
  BY DEF TypeOK, CycleInv, EdgeInv, ReconfigInv, FtInv, FtStarts
<1>3. EdgeInv' /\ DelayInv'
  BY DEF TypeOK, CycleInv, EdgeInv, DelayInv, ReconfigInv, FtInv, FtStarts
<1>4. ReconfigInv' /\ FtInv'
  BY DEF TypeOK, CycleInv, ReconfigInv, FtInv, FtStarts
<1>5. OrderInv'
  BY ChirpFacts DEF TypeOK, CycleInv, OrderInv, Filled, Halves, FtInv, FtStarts
<1>6. RoomInv'
  BY DEF TypeOK, RoomInv
<1> QED
  BY <1>1, <1>2, <1>3, <1>4, <1>5, <1>6

LEMMA FtWriteRegsStep == ASSUME HostIsSlow, IInv, FtWriteRegs PROVE IInv'
<1> USE DEF IInv, FtWriteRegs, CmdMayRun, UrgentReady, radarVars, typeVars, spiVars,
            dmaVars, csVars, timerVars, dataVars, cmdVars, ftVars
<1>1. TypeOK'
  <2>1. dataType' \in Types
    BY DEF TypeOK, Types
  <2>2. next' \in Chirps
    BY ChirpFacts DEF TypeOK
  <2> QED
    BY <2>1, <2>2 DEF TypeOK
<1>2. CycleInv'
  BY DEF TypeOK, CycleInv, EdgeInv, ReconfigInv, FtInv, FtStarts
<1>3. EdgeInv' /\ DelayInv'
  BY DEF TypeOK, CycleInv, EdgeInv, DelayInv, ReconfigInv, FtInv, FtStarts
<1>4. ReconfigInv' /\ FtInv'
  BY DEF TypeOK, CycleInv, ReconfigInv, FtInv, FtStarts
<1>5. OrderInv'
  BY ChirpFacts DEF TypeOK, CycleInv, OrderInv, Filled, Halves, FtInv, FtStarts
<1>6. RoomInv'
  BY DEF TypeOK, RoomInv
<1> QED
  BY <1>1, <1>2, <1>3, <1>4, <1>5, <1>6

LEMMA FtReadsStep == ASSUME HostIsSlow, IInv, FtReads PROVE IInv'
<1> USE DEF IInv, FtReads, CmdMayRun, UrgentReady, radarVars, typeVars, spiVars, dmaVars,
            csVars, timerVars, dataVars, cmdVars, ftVars
<1>1. TypeOK'
  <2>1. para' \in Types \cup {"short", "none"}
    BY DEF TypeOK, RadarParas, Format
  <2> QED
    BY <2>1 DEF TypeOK
<1>2. CycleInv'
  BY DEF TypeOK, CycleInv, EdgeInv, ReconfigInv, FtInv, FtStarts
<1>3. EdgeInv' /\ DelayInv'
  BY DEF TypeOK, CycleInv, EdgeInv, DelayInv, ReconfigInv, FtInv, FtStarts
<1>4. ReconfigInv' /\ FtInv'
  BY DEF TypeOK, CycleInv, ReconfigInv, FtInv, FtStarts
<1>5. OrderInv'
  BY ChirpFacts DEF TypeOK, CycleInv, OrderInv, Filled, Halves, FtInv, FtStarts
<1>6. RoomInv'
  BY DEF TypeOK, RoomInv
<1> QED
  BY <1>1, <1>2, <1>3, <1>4, <1>5, <1>6

LEMMA FtCreateStep == ASSUME HostIsSlow, IInv, FtCreate PROVE IInv'
<1> USE DEF IInv, FtCreate, CmdMayRun, UrgentReady, create_spi_init_task, radarVars,
            typeVars, spiVars, dmaVars, csVars, timerVars, dataVars, cmdVars, ftVars
<1>1. TypeOK'
  BY ChirpFacts DEF TypeOK, Halves, RoomInv
<1>2. CycleInv'
  BY DEF TypeOK, CycleInv, EdgeInv, ReconfigInv, FtInv, FtStarts
<1>3. EdgeInv' /\ DelayInv'
  BY DEF TypeOK, CycleInv, EdgeInv, DelayInv, ReconfigInv, FtInv, FtStarts
<1>4. ReconfigInv' /\ FtInv'
  BY DEF TypeOK, CycleInv, ReconfigInv, FtInv, FtStarts
<1>5. OrderInv'
  BY ChirpFacts DEF TypeOK, CycleInv, OrderInv, Filled, Halves, FtInv, FtStarts
<1>6. RoomInv'
  BY DEF TypeOK, RoomInv
<1> QED
  BY <1>1, <1>2, <1>3, <1>4, <1>5, <1>6

LEMMA FtFlagStep == ASSUME HostIsSlow, IInv, FtFlag PROVE IInv'
<1> USE DEF IInv, FtFlag, CmdMayRun, UrgentReady, radarVars, typeVars, spiVars, dmaVars,
            csVars, timerVars, dataVars, cmdVars, ftVars
<1>1. TypeOK'
  BY ChirpFacts DEF TypeOK, Halves, RoomInv
<1>2. CycleInv'
  BY DEF TypeOK, CycleInv, EdgeInv, ReconfigInv, FtInv, FtStarts
<1>3. EdgeInv' /\ DelayInv'
  BY DEF TypeOK, CycleInv, EdgeInv, DelayInv, ReconfigInv, FtInv, FtStarts
<1>4. ReconfigInv' /\ FtInv'
  BY DEF TypeOK, CycleInv, ReconfigInv, FtInv, FtStarts
<1>5. OrderInv'
  BY ChirpFacts DEF TypeOK, CycleInv, OrderInv, Filled, Halves, FtInv, FtStarts
<1>6. RoomInv'
  BY DEF TypeOK, RoomInv
<1> QED
  BY <1>1, <1>2, <1>3, <1>4, <1>5, <1>6

LEMMA ExitFactoryStep == ASSUME HostIsSlow, IInv, ExitFactory PROVE IInv'
<1> USE DEF IInv, ExitFactory, CmdMayRun, UrgentReady, radarVars, typeVars, spiVars,
            dmaVars, csVars, timerVars, dataVars, cmdVars, ftVars
<1>1. TypeOK'
  <2>1. UNCHANGED <<dataType, listType, power, live, next, chirp, spi, dmaHalf, mem, last,
                    irqCnt, queue, csEdge, csBit, itask, armed, daemon, dpc, cur, inOrder,
                    para, session, cpc, done, test, ftSpi, ftTask>>
    OBVIOUS
  <2>2. /\ factory' \in BOOLEAN
    BY DEF TypeOK, Halves
  <2> QED
    BY ONLY TypeOK, <2>1, <2>2 DEF TypeOK
<1>2. CycleInv'
  BY DEF TypeOK, CycleInv, EdgeInv, ReconfigInv, FtInv, FtStarts
<1>3. EdgeInv' /\ DelayInv'
  BY DEF TypeOK, CycleInv, EdgeInv, DelayInv, ReconfigInv, FtInv, FtStarts
<1>4. ReconfigInv' /\ FtInv'
  BY DEF TypeOK, CycleInv, ReconfigInv, FtInv, FtStarts
<1>5. OrderInv'
  BY ChirpFacts DEF TypeOK, CycleInv, OrderInv, Filled, Halves, FtInv, FtStarts
<1>6. RoomInv'
  BY DEF TypeOK, RoomInv
<1> QED
  BY <1>1, <1>2, <1>3, <1>4, <1>5, <1>6

LEMMA StutterStep == ASSUME IInv, UNCHANGED vars PROVE IInv'
<1> USE DEF IInv, vars, radarVars, typeVars, spiVars, dmaVars, csVars, timerVars,
            dataVars, cmdVars, ftVars
<1>1. TypeOK'
  BY DEF TypeOK
<1>2. CycleInv' /\ EdgeInv' /\ DelayInv' /\ ReconfigInv' /\ FtInv' /\ RoomInv'
  BY DEF CycleInv, EdgeInv, DelayInv, ReconfigInv, FtInv, FtStarts, RoomInv
<1>3. OrderInv'
  BY DEF OrderInv, Filled
<1> QED
  BY <1>1, <1>2, <1>3

LEMMA NextStep == ASSUME HostIsSlow, IInv, [Next]_vars PROVE IInv'
<1>1. CASE ChirpBegins \/ ChirpReceived \/ TestChirpReceived \/ ChirpMissed
  BY <1>1, ChirpBeginsStep, ChirpReceivedStep, TestChirpReceivedStep, ChirpMissedStep
<1>2. CASE Daemon \/ TimerFires \/ SpiInitTask
  BY <1>2, DaemonSetBitStep, WriteRegsStep, CreateInitTaskStep, TimerFiresStep, SpiInitTaskStep
     DEF Daemon
<1>3. CASE DataTask
  BY <1>3, DataTakeStep, DataCheckStep, DataDeinitStep, DataPowerOffStep, DataQueueResetStep,
     DataTimerStep DEF DataTask
<1>4. CASE StartCfg \/ DoWriteReg \/ FinishCfg \/ Reconfig \/ FinishInFactory
  BY <1>4, StartCfgStep, DoWriteRegStep, FinishCfgStep, FinishWakesStep, FinishReadsStep, FinishOpensStep,
     FinishAcksStep, FinishInFactoryStep DEF Reconfig
<1>5. CASE EnterFactory \/ Ft_System_Reconfig \/ ExitFactory
  BY <1>5, EnterFactoryStep, FtPowerOffStep, FtPowerOnStep, FtWriteRegsStep, FtReadsStep,
     FtCreateStep, FtFlagStep, ExitFactoryStep DEF Ft_System_Reconfig
<1>6. CASE UNCHANGED vars
  BY <1>6, StutterStep
<1> QED
  BY <1>1, <1>2, <1>3, <1>4, <1>5, <1>6 DEF Next

THEOREM Invariance == ASSUME HostIsSlow PROVE Spec => []IInv
<1>1. IInv /\ [Next]_vars => IInv'
  BY NextStep
<1> QED
  BY <1>1, InitIInv, PTL DEF Spec

-----------------------------------------------------------------------------
(***************************************************************************)
(* The state of the cycle keeps its types; in particular the queue never   *)
(* overflows while the data task lags less than its length.                *)
(***************************************************************************)
THEOREM TypeCorrect == ASSUME HostIsSlow PROVE Spec => []TypeOK
  BY Invariance, PTL DEF IInv

(***************************************************************************)
(* The SPI is closed whenever the radar is off: with a host that leaves    *)
(* the radar time to return, FINISH_CFG and the end of a frame never cross.*)
(***************************************************************************)
THEOREM SpiFollowsRadar == ASSUME HostIsSlow PROVE Spec => []SpiOffWithRadar
<1>1. IInv => SpiOffWithRadar
  BY DEF IInv, TypeOK, CycleInv, FtInv, FtStarts, SpiOffWithRadar
<1> QED
  BY <1>1, Invariance, PTL

(***************************************************************************)
(* create_spi_init_task finds the task of the last cycle ended.            *)
(***************************************************************************)
THEOREM ControlBlockIsFree == ASSUME HostIsSlow PROVE Spec => []ControlBlockFree
<1>1. IInv => ControlBlockFree
  BY DEF IInv, CycleInv, FtInv, FtStarts, ControlBlockFree
<1> QED
  BY <1>1, Invariance, PTL

(***************************************************************************)
(* A radar that is off has its timer running or about to be started.       *)
(***************************************************************************)
THEOREM WakeupIsPending == ASSUME HostIsSlow PROVE Spec => []WakeupPending
<1>1. IInv => WakeupPending
  BY DEF IInv, CycleInv, FtInv, WakeupPending
<1> QED
  BY <1>1, Invariance, PTL

(***************************************************************************)
(* No chirp of the frame before is analysed in the next cycle.             *)
(***************************************************************************)
THEOREM ChirpsAreFresh == ASSUME HostIsSlow PROVE Spec => []NoStaleChirps
<1>1. IInv => NoStaleChirps
  BY DEF IInv, CycleInv, FtInv, FtStarts, NoStaleChirps
<1> QED
  BY <1>1, Invariance, PTL

(***************************************************************************)
(* However the halves of the DMA buffer and dma_irq_cnt are out of step,   *)
(* the chirps of one opening of the SPI are queued one after the other.    *)
(***************************************************************************)
THEOREM ChirpsInOrder == ASSUME HostIsSlow PROVE Spec => QueuedInOrder
<1>1. ASSUME IInv, ChirpReceived, last # Zeroes
      PROVE  last' = (last + 1) % FrameDepth
  <2>1. /\ dmaHalf \in {0, 1} /\ irqCnt \in {0, 1} /\ mem \in [{0, 1} -> Chirps \cup {Zeroes}] /\ spi
        /\ ~test
        /\ last' = [mem EXCEPT ![dmaHalf] = next][irqCnt]
    BY <1>1 DEF IInv, TypeOK, Halves, ChirpReceived
  <2>2. last' = IF irqCnt = dmaHalf THEN next ELSE Filled
    BY <2>1 DEF Filled
  <2>3. Filled # Zeroes
    BY <1>1, <2>1 DEF IInv, OrderInv
  <2> QED
    BY ONLY <1>1, <2>1, <2>2, <2>3 DEF IInv, OrderInv
<1>2. IInv /\ [Next]_vars => [ChirpReceived => last = Zeroes \/ last' = (last + 1) % FrameDepth]_vars
  BY <1>1
<1> QED
  BY <1>2, Invariance, PTL DEF Spec, QueuedInOrder

(***************************************************************************)
(* Once the registers of the factory test are written the 60 ms timer is   *)
(* not running, no frame ends, and Ft_System_Reconfig does not run again.  *)
(***************************************************************************)
THEOREM TestIsUndisturbed == ASSUME HostIsSlow PROVE Spec => TestUndisturbed
<1> USE DEF radarVars, typeVars, ftVars
<1>1. ASSUME IInv, Testing, Testing', Next
      PROVE  UNCHANGED <<power, live, test>>
  <2>1. ~armed /\ daemon = "idle" /\ dpc \in {"wait", "check"}
        /\ cpc \notin {"ftoff", "ftsleep", "ftregs"}
    BY <1>1 DEF IInv, ReconfigInv, FtInv, FtStarts, Testing
  <2>2. CASE ChirpBegins \/ ChirpReceived \/ TestChirpReceived \/ ChirpMissed
    BY <2>2 DEF ChirpBegins, ChirpReceived, TestChirpReceived, ChirpMissed
  <2>3. CASE Daemon \/ TimerFires \/ SpiInitTask
    BY <2>1, <2>3 DEF Daemon, DaemonSetBit, WriteRegs, CreateInitTask, TimerFires, SpiInitTask
  <2>4. CASE DataTask
    BY <2>1, <2>4 DEF DataTask, DataTake, DataCheck, DataDeinit, DataPowerOff, DataQueueReset, DataTimer
  <2>5. CASE StartCfg \/ DoWriteReg \/ FinishCfg \/ Reconfig \/ FinishInFactory
    BY <2>5 DEF StartCfg, DoWriteReg, FinishCfg, Reconfig, FinishWakes, FinishReads, FinishOpens, FinishAcks,
       FinishInFactory
  <2>6. CASE EnterFactory \/ Ft_System_Reconfig \/ ExitFactory
    BY <2>1, <2>6 DEF EnterFactory, Ft_System_Reconfig, FtPowerOff, FtPowerOn, FtWriteRegs, FtReads,
       FtCreate, FtFlag, ExitFactory
  <2> QED
    BY <1>1, <2>2, <2>3, <2>4, <2>5, <2>6 DEF Next
<1>2. IInv /\ [Next]_vars => [Testing /\ Testing' => UNCHANGED <<power, live, test>>]_vars
  BY <1>1
<1> QED
  BY <1>2, Invariance, PTL DEF Spec, TestUndisturbed

-----------------------------------------------------------------------------
LEMMA ParaInvInit == ASSUME Init PROVE ParaInv
  BY DEF Init, ParaInv, Settled, Format

LEMMA ParaInvStep == ASSUME HostIsSlow, IInv, ParaInv, [Next]_vars PROVE ParaInv'
<1> USE DEF ParaInv, Settled, Format, radarVars, typeVars, spiVars, dmaVars, csVars,
            timerVars, dataVars, cmdVars, ftVars
<1>1. CASE ChirpBegins \/ ChirpReceived \/ TestChirpReceived \/ ChirpMissed
  BY <1>1 DEF ChirpBegins, ChirpReceived, TestChirpReceived, ChirpMissed
<1>2. CASE DaemonSetBit \/ CreateInitTask \/ SpiInitTask
  BY <1>2 DEF DaemonSetBit, CreateInitTask, create_spi_init_task, SpiInitTask
<1>3. CASE TimerFires
  <2>1. ~power /\ cpc \notin {"sleep", "need", "open", "ack"}
    BY <1>3 DEF IInv, CycleInv, ReconfigInv, TimerFires
  <2> QED
    BY <1>3, <2>1 DEF TimerFires
\* The registers of the list replace those of a test.
<1>4. CASE WriteRegs
  <2>1. power = TRUE /\ cpc = "idle"
    BY <1>4 DEF IInv, TypeOK, CycleInv, ReconfigInv, WriteRegs
  <2>2. live' = TRUE /\ test' = FALSE /\ dataType' = listType
    BY <1>4, <2>1 DEF IInv, TypeOK, WriteRegs, RegsWritten
  <2>3. UNCHANGED <<listType, para, session, factory, cpc>>
    BY <1>4 DEF WriteRegs
  <2> QED
    BY <2>1, <2>2, <2>3
<1>5. CASE DataTake \/ DataCheck \/ DataDeinit \/ DataQueueReset \/ DataTimer
  BY <1>5 DEF DataTake, DataCheck, DataDeinit, DataQueueReset, DataTimer
<1>6. CASE DataPowerOff
  <2>1. cpc \notin {"sleep", "need", "open", "ack"}
    BY <1>6 DEF IInv, ReconfigInv, DataPowerOff
  <2> QED
    BY <1>6, <2>1 DEF DataPowerOff
<1>7. CASE StartCfg \/ FinishWakes \/ FinishOpens \/ FinishAcks \/ FinishInFactory
  BY <1>7 DEF StartCfg, FinishWakes, FinishOpens, FinishAcks, FinishInFactory
\* Inside a session the list may leave what RadarPara holds.
<1>8. CASE DoWriteReg
  <2>1. live /\ power /\ session /\ cpc = "idle"
    BY <1>8 DEF DoWriteReg
  <2> QED
    BY <1>8, <2>1 DEF DoWriteReg
<1>9. CASE FinishCfg
  BY <1>9 DEF FinishCfg
\* FINISH_CFG reads what the radar has been sending.
<1>10. CASE FinishReads
  <2>1. power /\ live
    BY <1>10 DEF IInv, ReconfigInv, FinishReads
  <2>2. para' = Format
    BY <1>10, <2>1 DEF FinishReads, RadarParas
  <2>3. Format \in {listType, "short"}
    BY <2>1 DEF IInv, TypeOK, Types
  <2>4. UNCHANGED <<live, dataType, listType, test>> /\ live' /\ Format' = Format
    BY <1>10, <2>1 DEF FinishReads
  <2> QED
    BY <2>2, <2>3, <2>4
<1>11. CASE EnterFactory \/ ExitFactory
  BY <1>11 DEF EnterFactory, ExitFactory, IInv, ReconfigInv
<1>12. CASE Ft_System_Reconfig
  <2>1. session /\ cpc \notin {"sleep", "need", "open", "ack"}
    BY <1>12 DEF IInv, ReconfigInv, Ft_System_Reconfig, FtPowerOff, FtPowerOn, FtWriteRegs,
       FtReads, FtCreate, FtFlag
  <2>2. session' /\ cpc' \notin {"sleep", "need", "open", "ack"}
    BY <1>12, <2>1 DEF Ft_System_Reconfig, FtPowerOff, FtPowerOn, FtWriteRegs, FtReads,
       FtCreate, FtFlag
  <2>3. live' /\ (dataType' = "peak" \/ ~test') => dataType' = listType'
    <3>1. CASE FtWriteRegs
      BY <3>1 DEF FtWriteRegs
    <3>2. CASE FtPowerOff
      BY <3>2 DEF FtPowerOff
    <3>3. CASE FtPowerOn \/ FtReads \/ FtCreate \/ FtFlag
      BY <3>3 DEF FtPowerOn, FtReads, FtCreate, FtFlag
    <3> QED
      BY <1>12, <3>1, <3>2, <3>3 DEF Ft_System_Reconfig
  <2> QED
    BY <2>2, <2>3
<1>13. CASE UNCHANGED vars
  BY <1>13 DEF vars
<1> QED
  BY <1>1, <1>2, <1>3, <1>4, <1>5, <1>6, <1>7, <1>8, <1>9, <1>10, <1>11, <1>12, <1>13
     DEF Next, Daemon, DataTask, Reconfig

(***************************************************************************)
(* Outside of a session and of the factory test RadarPara has the type of  *)
(* the data the radar sends and their length, or the length of the test:   *)
(* WRITE_REG takes effect for both with FINISH_CFG, and what the registers *)
(* written after every frame change is only the length.                    *)
(***************************************************************************)
THEOREM FormatIsKnown == ASSUME HostIsSlow PROVE Spec => []FormatAgrees
<1>1. IInv /\ ParaInv /\ [Next]_vars => ParaInv'
  BY ParaInvStep
<1>2. IInv /\ ParaInv => FormatAgrees
  BY DEF ParaInv, Settled, FormatAgrees
<1> QED
  BY <1>1, <1>2, ParaInvInit, Invariance, PTL DEF Spec
=============================================================================
