----------------------------- MODULE RadarCycle -----------------------------
(***************************************************************************)
(* The duty cycle of the radar.  A frame of chirps arrives over SPI by     *)
(* ping-pong DMA; the DMA interrupt copies one half into a queue; the data *)
(* task analyses the chirps and, with the last one of a frame, closes the  *)
(* SPI, switches the radar off, empties the queue and starts a one-shot    *)
(* timer of 60 ms.  The timer callback switches the radar on again, writes *)
(* its registers and creates a task with a static control block; that task *)
(* waits for the chip select of the next chirp, opens the SPI and deletes  *)
(* itself.  FINISH_CFG closes and opens the SPI from the command task, and *)
(* ENTER_FACTORYMODE does the whole cycle from there, once, to bring the   *)
(* radar up with the registers of the factory test.                        *)
(*                                                                         *)
(* Nothing but timing and CmdModeFlag keeps these five actors apart.       *)
(***************************************************************************)
EXTENDS Integers, Sequences

CONSTANTS
  FrameDepth,   \* FRAME_DEPTH, 34 chirps; even
  QueueSize,    \* FUNC_QUEUE_SIZE, 34 chirps the data task may lag behind
  HostIsSlow    \* after START_CFG, and in the factory test, the host leaves the
                \* radar time to return: 60 ms, 10 ms and a first chirp

ASSUME CycleAssumption ==
  /\ FrameDepth \in Nat /\ FrameDepth > 1
  /\ QueueSize \in Nat \ {0}
  /\ HostIsSlow \in BOOLEAN

VARIABLES
  power,    \* the supply of the radar is switched on
  live,     \* the radar has been configured since it was switched on
  dataType, \* the type of data its register FUN_SWITCH selects
  listType, \* the one InitRegList holds for it
  next,     \* index of the chirp the radar sends or will send next
  chirp,    \* "none", or the chirp on the wire is "caught" or "missed" by the SPI
  spi,      \* sg_spi_enable: the SPI and its DMA are open
  dmaHalf,  \* the half the DMA writes to, 0 ping and 1 pong
  mem,      \* the chirp in each half, or Zeroes
  irqCnt,   \* dma_irq_cnt, the half the interrupt will copy
  queue,    \* SpiDataQueue
  csEdge,   \* a chip select edge waits for the timer daemon
  csBit,    \* EVT_GROUP_SPI_FLAG
  itask,    \* the task spi_init_t exists and waits
  armed,    \* timer_60ms_handle is running
  daemon,   \* where the timer daemon is in timer_timeout_func
  dpc,      \* where the data task is in DataDispatch
  cur,      \* index of the chirp it is about to analyse, or Zeroes
  para,     \* RadarPara: the type and length of data that were read last
  session,  \* CmdModeFlag
  cpc,      \* where the command task is in FINISH_CFG or ENTER_FACTORYMODE
  factory,  \* g_FtcmdFlag
  done,     \* reconfig_cnt: Ft_System_Reconfig has run
  test,     \* the radar was last loaded with the registers of the factory test
  ftSpi,    \* the SPI was opened with the buffers and the handler of the test
  ftTask,   \* spi_init_t was created with ft_bsp_spi_slave_init
  last,     \* history: the last chirp queued since the SPI was opened
  inOrder   \* history: chirps analysed in order, counted from chirp 0

radarVars == <<power, live, next, chirp>>
typeVars  == <<dataType, listType>>
spiVars   == <<spi, dmaHalf, mem, last>>
dmaVars   == <<irqCnt, queue>>
csVars    == <<csEdge, csBit, itask>>
timerVars == <<armed, daemon>>
dataVars  == <<dpc, cur, inOrder>>
cmdVars   == <<para, session, cpc>>
ftVars    == <<factory, done, test, ftSpi, ftTask>>
vars == <<radarVars, typeVars, spiVars, dmaVars, csVars, timerVars, dataVars, cmdVars,
          ftVars>>

Chirps == 0 .. FrameDepth - 1
Zeroes == -1
Halves == {0, 1}
LastChirp == FrameDepth - 1

\* Of the types of data one has an index in its chirps, like the one of the build,
\* and one has none.
Types == {"fft", "peak"}

\* What the radar sends: with the registers of the factory test a chirp of 40
\* bytes, otherwise one of 48.
Format == IF test /\ dataType = "fft" THEN "short" ELSE dataType

TypeOK ==
  /\ power \in BOOLEAN /\ live \in BOOLEAN
  /\ next \in Chirps /\ chirp \in {"none", "caught", "missed"}
  /\ spi \in BOOLEAN /\ dmaHalf \in Halves
  /\ mem \in [Halves -> Chirps \cup {Zeroes}]
  /\ irqCnt \in Halves
  /\ queue \in Seq(Chirps \cup {Zeroes}) /\ Len(queue) <= QueueSize
  /\ csEdge \in BOOLEAN /\ csBit \in BOOLEAN /\ itask \in BOOLEAN
  /\ armed \in BOOLEAN /\ daemon \in {"idle", "delay", "create"}
  /\ dpc \in {"wait", "check", "deinit", "off", "reset", "timer"}
  /\ cur \in Chirps \cup {Zeroes}
  /\ dataType \in Types /\ listType \in Types
  /\ para \in Types \cup {"short", "none"} /\ session \in BOOLEAN
  /\ cpc \in {"idle", "sleep", "need", "open", "ack", "ftoff", "ftsleep",
              "ftregs", "ftdata", "ftcreate", "ftflag"}
  /\ factory \in BOOLEAN /\ done \in BOOLEAN /\ test \in BOOLEAN
  /\ ftSpi \in BOOLEAN /\ ftTask \in BOOLEAN
  /\ last \in Chirps \cup {Zeroes} /\ inOrder \in 0 .. FrameDepth

(***************************************************************************)
(* After main: the radar was configured by Radar_Init and has sent chirps  *)
(* ever since; the chip select interrupt was enabled last.                 *)
(***************************************************************************)
Init ==
  /\ power = TRUE /\ live = TRUE /\ next \in Chirps /\ chirp = "none"
  /\ spi = FALSE /\ dmaHalf = 0 /\ mem = [h \in Halves |-> Zeroes]
  /\ irqCnt = 0 /\ queue = << >>
  /\ csEdge = FALSE /\ csBit = FALSE /\ itask = TRUE
  /\ armed = FALSE /\ daemon = "idle"
  /\ dpc = "wait" /\ cur = Zeroes
  /\ dataType = "fft" /\ listType = "fft"
  /\ para = "fft" /\ session = FALSE /\ cpc = "idle"
  /\ last = Zeroes /\ inOrder = 0
  /\ factory = FALSE /\ done = FALSE /\ test = FALSE
  /\ ftSpi = FALSE /\ ftTask = FALSE

-----------------------------------------------------------------------------
(***************************************************************************)
(* The radar.  The falling chip select at the start of a chirp raises      *)
(* cs_io_irq.  The data task lags at most QueueSize chirps behind.         *)
(***************************************************************************)
ChirpBegins ==
  /\ power /\ live /\ chirp = "none"
  /\ Len(queue) < QueueSize
  /\ chirp' = IF spi THEN "caught" ELSE "missed"
  /\ csEdge' = TRUE
  /\ UNCHANGED <<typeVars, power, live, next, spiVars, dmaVars, csBit, itask, timerVars,
                 dataVars, cmdVars, ftVars>>

(***************************************************************************)
(* The half the interrupt copies: the one its own counter names.  The      *)
(* variants never turn it over, or count on.                               *)
(***************************************************************************)
IrqHalfStuck == UNCHANGED irqCnt
IrqHalfCounted == irqCnt' = irqCnt + 1
IrqHalfTurned == irqCnt' = 1 - irqCnt

(***************************************************************************)
(* The end of a chirp that the SPI has seen whole: spi_dma_handler_rx.     *)
(***************************************************************************)
ChirpReceived ==
  /\ chirp = "caught" /\ spi /\ ~test
  /\ LET filled == [mem EXCEPT ![dmaHalf] = next]
         copied == filled[irqCnt] IN
     /\ mem' = filled
     /\ queue' = Append(queue, copied)
     /\ last' = copied
  /\ dmaHalf' = 1 - dmaHalf
  /\ IrqHalfTurned
  /\ chirp' = "none"
  /\ next' = (next + 1) % FrameDepth
  /\ UNCHANGED <<typeVars, power, live, spi, csVars, timerVars, dataVars, cmdVars,
                 ftVars>>

(***************************************************************************)
(* A chirp of the test has 40 bytes.  The test's handler queues halves of  *)
(* 40, with a counter of its own that starts with the buffer; the normal   *)
(* one queues halves of 48 that may hold a chirp whole, or none.  The two  *)
(* queues are one here: only one of them is fed at a time, and the tasks   *)
(* behind them do the same.                                                *)
(***************************************************************************)
TestChirpReceived ==
  /\ chirp = "caught" /\ spi /\ test
  /\ \E c \in {next, Zeroes} :
       /\ ftSpi => c = next
       /\ queue' = Append(queue, c)
       /\ mem' = [mem EXCEPT ![dmaHalf] = c]
       /\ last' = c
  /\ dmaHalf' = 1 - dmaHalf
  /\ IF ftSpi THEN UNCHANGED irqCnt ELSE IrqHalfTurned
  /\ chirp' = "none"
  /\ next' = (next + 1) % FrameDepth
  /\ UNCHANGED <<typeVars, power, live, spi, csVars, timerVars, dataVars, cmdVars,
                 ftVars>>

\* The end of a chirp of which the SPI missed a part.
ChirpMissed ==
  /\ chirp = "missed" \/ (chirp = "caught" /\ ~spi)
  /\ chirp' = "none"
  /\ next' = (next + 1) % FrameDepth
  /\ UNCHANGED <<typeVars, power, live, spiVars, dmaVars, csVars, timerVars,
                 dataVars, cmdVars, ftVars>>

-----------------------------------------------------------------------------
\* hosal_spi_dma_pp_recv: the DMA starts with ping, the counter stays as it is.
OpenSpi ==
  /\ spi' = TRUE
  /\ dmaHalf' = 0
  /\ mem' = [h \in Halves |-> Zeroes]
  /\ last' = Zeroes
  /\ chirp' = IF chirp = "caught" THEN "missed" ELSE chirp

\* bsp_spi_deinit, and a variant that leaves the SPI open.
SpiLeftOpen == UNCHANGED spi
SpiClosed == spi' = FALSE

(***************************************************************************)
(* The timer daemon has the highest priority, with the task spi_init_t.    *)
(* xEventGroupSetBitsFromISR is served by the daemon when it is not in its *)
(* timer callback.                                                         *)
(***************************************************************************)
DaemonSetBit ==
  /\ daemon = "idle"
  /\ csEdge
  /\ csEdge' = FALSE
  /\ csBit' = TRUE
  /\ UNCHANGED <<typeVars, radarVars, spiVars, dmaVars, itask, timerVars, dataVars,
                 cmdVars, ftVars>>

\* timer_timeout_func up to the delay of setSOCEnterNormalMode.
TimerFires ==
  /\ armed /\ daemon = "idle"
  /\ armed' = FALSE
  /\ daemon' = "delay"
  /\ power' = TRUE
  /\ live' = (live /\ power)
  /\ UNCHANGED <<typeVars, next, chirp, spiVars, dmaVars, csVars, dataVars, cmdVars,
                 ftVars>>

\* The effect of WriteSocAllReg, and a variant without it.
RegsForgotten == UNCHANGED <<live, test, dataType>>
RegsWritten ==
  /\ live' = power
  /\ test' = (test /\ ~power)
  /\ dataType' = IF power THEN listType ELSE dataType

\* The end of setSOCEnterNormalMode: the radar starts with chirp 0.
WriteRegs ==
  /\ daemon = "delay"
  /\ daemon' = "create"
  /\ RegsWritten
  /\ next' = IF live THEN next ELSE 0
  /\ UNCHANGED <<listType, power, chirp, spiVars, dmaVars, csVars, armed, dataVars,
                 cmdVars, factory, done, ftSpi, ftTask>>

\* create_spi_init_task, for the normal or the test's way to open the SPI.
create_spi_init_task(ft) ==
  /\ itask' = TRUE
  /\ ftTask' = ft

CreateInitTask ==
  /\ daemon = "create"
  /\ daemon' = "idle"
  /\ create_spi_init_task(FALSE)
  /\ UNCHANGED <<typeVars, radarVars, spiVars, dmaVars, csEdge, csBit, armed,
                 dataVars, cmdVars, factory, done, test, ftSpi>>

\* The break out of the loop of spi_init_task, and a variant without it.
TaskLoops == UNCHANGED itask
TaskEnds == itask' = FALSE

(***************************************************************************)
(* spi_init_task: wait for the bit, clear it, bsp_spi_slave_init or        *)
(* ft_bsp_spi_slave_init, vTaskDelete.                                     *)
(***************************************************************************)
SpiInitTask ==
  /\ itask /\ csBit
  /\ csBit' = FALSE
  /\ TaskEnds
  /\ OpenSpi
  /\ ftSpi' = ftTask
  /\ UNCHANGED <<typeVars, power, live, next, dmaVars, csEdge, timerVars, dataVars,
                 cmdVars, factory, done, test, ftTask>>

Daemon == DaemonSetBit \/ WriteRegs \/ CreateInitTask

\* No task below them runs while one of the two is ready.
UrgentReady == (csEdge /\ daemon = "idle") \/ daemon = "create" \/ (itask /\ csBit)

-----------------------------------------------------------------------------
(***************************************************************************)
(* The data task: DataDispatch for one chirp.                              *)
(***************************************************************************)
DataMayRun == ~UrgentReady

(***************************************************************************)
(* The index a chirp is analysed with, or Zeroes when none is found.  Only *)
(* RadarPara.dataLen bytes of a half are taken.  A length of 0 gives       *)
(* nothing to look at; a chirp of the wrong length is accepted only if one *)
(* of its bytes happens to equal a tail; one of another type lacks the     *)
(* identifier.  Peaks have no index, and 0 stands for it.                  *)
(***************************************************************************)
Parsed(c) ==
  IF c = Zeroes THEN {Zeroes}
  ELSE IF para = Format THEN {IF para = "peak" THEN 0 ELSE c}
  ELSE IF {para, Format} = {"fft", "short"} THEN {c, Zeroes}
  ELSE {Zeroes}

DataTake ==
  /\ DataMayRun
  /\ dpc = "wait" /\ queue # << >>
  /\ queue' = Tail(queue)
  /\ \E c \in Parsed(Head(queue)) :
       IF c = Zeroes THEN UNCHANGED <<dpc, cur>> ELSE dpc' = "check" /\ cur' = c
  /\ UNCHANGED <<typeVars, radarVars, spiVars, irqCnt, csVars, timerVars, inOrder,
                 cmdVars, ftVars>>

\* The early return in command mode, and a variant without it.
QuietNever == FALSE
QuietInSession == session

\* The one of the factory test, which sends the chirp as a record; and a variant.
FtQuietNever == FALSE
FtQuiet == factory

\* Chirps seen in order, the one just taken included.
Continued == IF cur = 0 THEN 1
             ELSE IF cur = inOrder THEN inOrder + 1 ELSE 0

\* CheckFullFrame: the last chirp completes the frame, whatever came before.
FullFrame == cur = LastChirp

DataCheck ==
  /\ DataMayRun
  /\ dpc = "check"
  /\ dpc' = IF ~QuietInSession /\ ~FtQuiet /\ FullFrame THEN "deinit" ELSE "wait"
  /\ cur' = Zeroes
  /\ inOrder' = IF session \/ factory THEN inOrder ELSE Continued
  /\ UNCHANGED <<typeVars, radarVars, spiVars, dmaVars, csVars, timerVars, cmdVars,
                 ftVars>>

DataDeinit ==
  /\ DataMayRun
  /\ dpc = "deinit"
  /\ SpiClosed
  /\ dpc' = "off"
  /\ UNCHANGED <<typeVars, radarVars, dmaHalf, mem, last, dmaVars, csVars, timerVars,
                 cur, inOrder, cmdVars, ftVars>>

DataPowerOff ==
  /\ DataMayRun
  /\ dpc = "off"
  /\ power' = FALSE /\ live' = FALSE /\ chirp' = "none"
  /\ dpc' = "reset"
  /\ UNCHANGED <<typeVars, next, spiVars, dmaVars, csVars, timerVars, cur, inOrder,
                 cmdVars, ftVars>>

\* xQueueReset(SpiDataQueue), and a variant without it.
QueueKept == UNCHANGED queue
QueueReset == queue' = << >>

DataQueueReset ==
  /\ DataMayRun
  /\ dpc = "reset"
  /\ QueueReset
  /\ dpc' = "timer"
  /\ UNCHANGED <<typeVars, radarVars, spiVars, irqCnt, csVars, timerVars, cur,
                 inOrder, cmdVars, ftVars>>

\* xTimerReset(timer_60ms_handle).
TimerStarted == armed' = TRUE

\* The report that follows is the business of UartTx.
DataTimer ==
  /\ DataMayRun
  /\ dpc = "timer"
  /\ TimerStarted
  /\ dpc' = "wait"
  /\ UNCHANGED <<typeVars, radarVars, spiVars, dmaVars, csVars, daemon, cur, inOrder,
                 cmdVars, ftVars>>

DataTask ==
  \/ DataTake \/ DataCheck \/ DataDeinit \/ DataPowerOff
  \/ DataQueueReset \/ DataTimer

-----------------------------------------------------------------------------
(***************************************************************************)
(* The command task runs only when the data task has nothing to do.        *)
(***************************************************************************)
CmdMayRun == ~UrgentReady /\ dpc = "wait" /\ queue = << >>

StartCfg ==
  /\ CmdMayRun
  /\ cpc = "idle"
  /\ session' = TRUE
  /\ UNCHANGED <<typeVars, radarVars, spiVars, dmaVars, csVars, timerVars, dataVars,
                 para, cpc, ftVars>>

\* WRITE_REG for FUN_SWITCH: the register, and Radar_UpdateReg.  RadarPara learns
\* of it with FINISH_CFG.
DoWriteReg ==
  /\ CmdMayRun
  /\ cpc = "idle" /\ session
  /\ HostIsSlow => power /\ live /\ daemon = "idle"
  /\ listType' \in Types
  /\ dataType' = IF power THEN listType' ELSE dataType
  /\ UNCHANGED <<radarVars, spiVars, dmaVars, csVars, timerVars, dataVars, cmdVars,
                 ftVars>>

\* FINISH_CFG: System_Reconfig up to its delay.
FinishCfg ==
  /\ CmdMayRun
  /\ cpc = "idle" /\ session /\ ~factory
  /\ HostIsSlow => power /\ live /\ daemon = "idle"
  /\ SpiClosed
  /\ cpc' = "sleep"
  /\ UNCHANGED <<typeVars, radarVars, dmaHalf, mem, last, dmaVars, csVars, timerVars,
                 dataVars, para, session, ftVars>>

FinishWakes ==
  /\ CmdMayRun
  /\ cpc = "sleep"
  /\ cpc' = "need"
  /\ UNCHANGED <<typeVars, radarVars, spiVars, dmaVars, csVars, timerVars, dataVars,
                 para, session, ftVars>>

\* What GetRadarPara may read: a radar without supply answers with zeros, one that
\* has not been configured with anything.
RadarParas ==
  IF ~power THEN {"none"} ELSE IF live THEN {Format} ELSE Types \cup {"short", "none"}

\* DataProc_NeedReconfig.
FinishReads ==
  /\ CmdMayRun
  /\ cpc = "need"
  /\ para' \in RadarParas
  /\ cpc' = "open"
  /\ UNCHANGED <<typeVars, radarVars, spiVars, dmaVars, csVars, timerVars, dataVars,
                 session, ftVars>>

\* bsp_spi_slave_init at the end of System_Reconfig, and a variant without it.
ReopenForgotten == UNCHANGED <<spiVars, chirp, ftSpi>>
Reopen == OpenSpi /\ ftSpi' = FALSE

FinishOpens ==
  /\ CmdMayRun
  /\ cpc = "open"
  /\ Reopen
  /\ cpc' = "ack"
  /\ UNCHANGED <<typeVars, power, live, next, dmaVars, csVars, timerVars, dataVars,
                 para, session, factory, done, test, ftTask>>

FinishAcks ==
  /\ CmdMayRun
  /\ cpc = "ack"
  /\ session' = FALSE
  /\ cpc' = "idle"
  /\ UNCHANGED <<typeVars, radarVars, spiVars, dmaVars, csVars, timerVars, dataVars,
                 para, ftVars>>

Reconfig == FinishWakes \/ FinishReads \/ FinishOpens \/ FinishAcks

\* FINISH_CFG in the factory test only ends the session.
FinishInFactory ==
  /\ CmdMayRun
  /\ cpc = "idle" /\ session /\ factory
  /\ session' = FALSE
  /\ UNCHANGED <<typeVars, radarVars, spiVars, dmaVars, csVars, timerVars, dataVars,
                 para, cpc, ftVars>>

-----------------------------------------------------------------------------
(***************************************************************************)
(* ENTER_FACTORYMODE, which the host sends in a session.  From the second  *)
(* time on Ft_System_Reconfig returns at once.                             *)
(***************************************************************************)
EnterFactory ==
  /\ CmdMayRun
  /\ cpc = "idle" /\ session
  /\ HostIsSlow => power /\ live /\ daemon = "idle" /\ ~itask
  /\ IF done THEN UNCHANGED spi /\ cpc' = "ftflag"
     ELSE SpiClosed /\ cpc' = "ftoff"
  /\ done' = TRUE
  /\ UNCHANGED <<typeVars, radarVars, dmaHalf, mem, last, dmaVars, csVars, timerVars,
                 dataVars, para, session, factory, test, ftSpi, ftTask>>

FtPowerOff ==
  /\ CmdMayRun
  /\ cpc = "ftoff"
  /\ power' = FALSE /\ live' = FALSE /\ chirp' = "none"
  /\ cpc' = "ftsleep"
  /\ UNCHANGED <<typeVars, next, spiVars, dmaVars, csVars, timerVars, dataVars, para,
                 session, ftVars>>

FtPowerOn ==
  /\ CmdMayRun
  /\ cpc = "ftsleep"
  /\ power' = TRUE
  /\ cpc' = "ftregs"
  /\ UNCHANGED <<typeVars, live, next, chirp, spiVars, dmaVars, csVars, timerVars,
                 dataVars, para, session, ftVars>>

\* Ft_Radar_Init up to its delay; its list selects the type of the build.
FtWriteRegs ==
  /\ CmdMayRun
  /\ cpc = "ftregs"
  /\ live' = power /\ test' = (test \/ power)
  /\ dataType' = IF power THEN "fft" ELSE dataType
  /\ next' = IF live THEN next ELSE 0
  /\ cpc' = "ftdata"
  /\ UNCHANGED <<listType, power, chirp, spiVars, dmaVars, csVars, timerVars, dataVars,
                 para, session, factory, done, ftSpi, ftTask>>

\* Ft_DataProc_Init
FtReads ==
  /\ CmdMayRun
  /\ cpc = "ftdata"
  /\ para' \in RadarParas
  /\ cpc' = "ftcreate"
  /\ UNCHANGED <<typeVars, radarVars, spiVars, dmaVars, csVars, timerVars, dataVars,
                 session, ftVars>>

FtCreate ==
  /\ CmdMayRun
  /\ cpc = "ftcreate"
  /\ create_spi_init_task(TRUE)
  /\ cpc' = "ftflag"
  /\ UNCHANGED <<typeVars, radarVars, spiVars, dmaVars, csEdge, csBit, timerVars,
                 dataVars, para, session, factory, done, test, ftSpi>>

FtFlag ==
  /\ CmdMayRun
  /\ cpc = "ftflag"
  /\ factory' = TRUE
  /\ cpc' = "idle"
  /\ UNCHANGED <<typeVars, radarVars, spiVars, dmaVars, csVars, timerVars, dataVars,
                 para, session, done, test, ftSpi, ftTask>>

Ft_System_Reconfig == FtPowerOff \/ FtPowerOn \/ FtWriteRegs \/ FtReads \/ FtCreate \/ FtFlag

\* EXIT_FACTORYMODE; the radar and the SPI stay as they are.
ExitFactory ==
  /\ CmdMayRun
  /\ cpc = "idle" /\ session
  /\ HostIsSlow => ~itask
  /\ factory' = FALSE
  /\ UNCHANGED <<typeVars, radarVars, spiVars, dmaVars, csVars, timerVars, dataVars,
                 cmdVars, done, test, ftSpi, ftTask>>

-----------------------------------------------------------------------------
Next ==
  \/ ChirpBegins \/ ChirpReceived \/ TestChirpReceived \/ ChirpMissed
  \/ Daemon \/ TimerFires \/ SpiInitTask
  \/ DataTask
  \/ StartCfg \/ DoWriteReg \/ FinishCfg \/ Reconfig \/ FinishInFactory
  \/ EnterFactory \/ Ft_System_Reconfig \/ ExitFactory

Spec == Init /\ [][Next]_vars

(***************************************************************************)
(* Fairness: a radar that is on sends chirps, the timer expires, the       *)
(* urgent contexts run when they are ready.  They keep the processor for   *)
(* microseconds in a chirp of a millisecond, so the data task, and below   *)
(* it the command task, get it again and again.                            *)
(***************************************************************************)
Fairness ==
  /\ WF_vars(ChirpBegins)
  /\ WF_vars(ChirpReceived \/ TestChirpReceived \/ ChirpMissed)
  /\ WF_vars(Daemon)
  /\ WF_vars(TimerFires)
  /\ WF_vars(SpiInitTask)
  /\ SF_vars(DataTask)
  /\ SF_vars(Reconfig \/ Ft_System_Reconfig)

FairSpec == Spec /\ Fairness

-----------------------------------------------------------------------------
(***************************************************************************)
(* The SPI is never open while the radar has no supply: a reconfiguration  *)
(* by the command task and the end of a frame never cross.                 *)
(***************************************************************************)
SpiOffWithRadar == ~power => ~spi

(***************************************************************************)
(* create_spi_init_task reuses one static control block: when it is called *)
(* the task it created before has ended, whether the timer callback calls  *)
(* it or Ft_System_Reconfig.                                               *)
(***************************************************************************)
ControlBlockFree == daemon = "create" \/ cpc = "ftcreate" => ~itask

(***************************************************************************)
(* A radar that was switched off is about to be switched on again: the     *)
(* timer runs, or the data task is on its way to start it, or the command  *)
(* task is waiting to switch it on for the factory test.                   *)
(***************************************************************************)
WakeupPending == ~power => armed \/ dpc \in {"reset", "timer"} \/ cpc = "ftsleep"

(***************************************************************************)
(* After the cycle has begun no chirp of the frame before is left in the   *)
(* queue.                                                                  *)
(***************************************************************************)
NoStaleChirps == ~power /\ dpc = "wait" => queue = << >>

(***************************************************************************)
(* dma_irq_cnt is not reset when the DMA restarts, so the interrupt may    *)
(* copy the half before the one just filled.  Even then the chirps of one  *)
(* opening of the SPI are queued one after the other, none twice and none  *)
(* left out.                                                               *)
(***************************************************************************)
QueuedInOrder ==
  [][ChirpReceived => last = Zeroes \/ last' = (last + 1) % FrameDepth]_vars

(***************************************************************************)
(* A radar that is on reaches the end of a frame and is switched off,      *)
(* unless a configuration session begins; this holds also when the SPI was *)
(* opened in the middle of a frame and when the halves are mistaken.  It   *)
(* needs a RadarPara that says what the radar sends, and chirps with an    *)
(* index.  A dataLen of 40 outlives the registers of the factory test:     *)
(* then 48 bytes are cut, and no frame need end.                           *)
(***************************************************************************)
Understood == para = "fft" /\ Format = "fft"

FrameEnds == power /\ ~session /\ ~factory /\ Understood ~> ~power \/ session

(***************************************************************************)
(* Outside of a session and of the factory test RadarPara says what the    *)
(* radar sends, whatever WRITE_REG, FINISH_CFG and the reloading of the    *)
(* registers after every frame did, but for the length of the test, which  *)
(* is kept when the registers of the test are not.                         *)
(***************************************************************************)
FormatAgrees ==
  power /\ live /\ ~session /\ ~factory => para \in {Format, "short"}

(***************************************************************************)
(* A radar that is off is switched on and configured again.                *)
(***************************************************************************)
RadarReturns == ~power ~> power /\ live

(***************************************************************************)
(* The factory test keeps the radar it began with: from the moment its     *)
(* registers are written to EXIT_FACTORYMODE nothing switches the radar or *)
(* writes other registers to it, neither the 60 ms timer of the last frame *)
(* nor the end of a frame of the test.                                     *)
(***************************************************************************)
Testing == factory \/ cpc \in {"ftdata", "ftcreate", "ftflag"}

TestUndisturbed == [][Testing /\ Testing' => UNCHANGED <<power, live, test>>]_vars

(***************************************************************************)
(* CheckFullFrame answers 1 only for a complete frame: "1，接收完整帧".    *)
(***************************************************************************)
OnlyCompleteFrames ==
  [][dpc = "check" /\ dpc' = "deinit" => inOrder' = FrameDepth]_vars
=============================================================================
