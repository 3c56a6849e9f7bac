# Verification of the Ai-Thinker radar firmware

TLA+ models, TLC runs and TLAPS proofs for the presence radar firmware of this
repository (`src/project`): a Bouffalo MCU under FreeRTOS that receives chirps
from a radar SoC over SPI, runs a body presence library on them, reports the
result on a UART and takes configuration commands on the same UART.

Paths below are relative to `src/project/`. `D` stands for `D103/src`.

## 1. The system

### Contexts

| context | priority | code | what it does |
|---|---|---|---|
| UART receive interrupt | ISR | `D/bsp_uart.c:55` | stores bytes, hands over a full buffer |
| UART transmit interrupt | ISR | `D/bsp_uart.c:94` | clears `g_uartDmaSendingFlag` |
| SPI DMA interrupt | ISR | `D/bsp_spi.c:79` | queues one half of the ping-pong buffer |
| chip select interrupt | ISR | `radar/main.c:142` | asks for `EVT_GROUP_SPI_FLAG` |
| timer daemon | highest | FreeRTOS, `D/platform.c:24` | sets event bits for the ISRs, runs the 60 ms callback |
| `spi_init_t` | highest | `radar/main.c:169` | waits for a chip select, opens the SPI, ends |
| `data_pro`, `ft_queue_task` | 14 | `D/bsp_spi.c:218`, `axk_factory/src/ft_bsp_spi.c:77` | parse and analyse chirps, send reports |
| `cmd_pro` | 13 | `radar/main.c:123` | parses and executes commands, sends answers, brings the radar up for the factory test |
| `uart_rec_check` | 12 | `D/bsp_uart.c:178` | polls every 2 ms for the end of a command |
| `_ota_task` | 10 | `ota/src/at_ota_hal.c:26` | one per accepted request: downloads a program, checks it, changes the partition table |

There is no mutex in the program. What keeps the contexts apart is the
priorities, a few flags and the pace of the host; the models make each of these
explicit, and the properties say what they achieve.

### Components, their state and what makes them correct

| component | state | operations | correct when |
|---|---|---|---|
| UART receive path | `g_cmdRecv` (two buffers, index, length, flags), event bit | interrupt, poll, `CmdProc_Recv` | the parser sees the host's byte stream, whole and in order |
| UART transmit path | `g_uartDmaSendingFlag`, `CmdModeFlag` | `uart_dma_send` from two tasks, transmit interrupt | one transfer at a time, none of the data path in a session, no endless wait |
| radar cycle | supply, SPI, DMA halves, queue, 60 ms timer, init task, `RadarPara` | chirp, end of frame, timer, `System_Reconfig` | the radar always comes back, a frame ends when `RadarPara` says what the radar sends, SPI only with supply |
| NV configuration | keys of the store, `InitRegList`, `gAlgorithmParam`, `needFlashWrite`, `g_FtcmdFlag` | boot, `WRITE_REG`, `PARAM_CFG`, `FINISH_CFG` in the factory test and outside, power failure | what a `FINISH_CFG` outside the factory test acknowledged survives |
| command parser | `CmdDataParse` | `CmdProcess` byte by byte | it calls `CmdExec` for whole commands only and is back in step a bounded number of commands after a fault |
| command execution | `CmdModeFlag`, `g_FtcmdFlag`, `masterProtocolVer`, `needFlashWrite` | `CmdExec`, `FillCmdAck` | host and module agree on session and version, answers can be parsed, a failure does not look like a success |
| chirp parser | `RadarDataParse`, `RadarPara` | `DataParse`, a change of the data type, `DataProc_NeedReconfig` | what is analysed is one run of bytes, the buffer is never overrun, the parser finds the heads by itself |
| factory test | `g_FtcmdFlag`, `reconfig_cnt`, test registers, second queue and task | `ENTER_FACTORYMODE` with `Ft_System_Reconfig`, `EXIT_FACTORYMODE` | nothing of the normal cycle touches a radar in the test, and the cycle is safe after it |
| OTA update | request parameters (static), `recv_buf`, `header_bak`, `fw_size`, second partition, partition table | requests, header parser, head of the image, erase, writes, digest, switch | what the module starts next is the program it has or the whole of the one asked for |
| TCP/IP, WiFi | sockets | wrappers, not started (`#if 0` in `main.c`) | - |
| low power code | flags in `mcu_sleep.c` | `McuSetStatus`, `SocSetStatus`: never called | - |

### How they interact

* receive path -> command task: `CMD_PROCESS_BIT`, `bufProc`/`bufLen`
* command task -> data task: `CmdModeFlag` makes the data task discard chirps,
  which is what frees the transmit line for answers
* data task -> radar cycle: the last chirp of a frame closes the SPI, switches
  the radar off and starts the timer; the timer callback undoes this
* command task -> radar cycle: `FINISH_CFG` closes and opens the SPI and reads
  the radar's parameters
* command task -> NV store: `FINISH_CFG` and the algorithm parameters
* timer callback <- NV configuration: `WriteSocAllReg` loads `InitRegList`
* command task -> radar cycle: `ENTER_FACTORYMODE` closes the SPI, switches the
  radar off and on, loads other registers and creates the init task itself
* update task -> flash: the partition table decides what the next start runs;
  the update shares nothing with the other tasks but the processor

The hard parts are the interleavings on shared bytes without a lock, the
priorities that turn a waiting loop into a deadlock, the reopening of the DMA in
the middle of a frame, power failures between two keys of the store, and a
download whose reads may cut the answer anywhere.
`PROJECT.json` lists them as hazards, each at its line.

## 2. Modules

| module | models | state and actions |
|---|---|---|
| `UartRecv` | receive path | `g_cmdRecv` field by field; one action per store an interrupt or a switch can fall between (`Poll`, `PollStore`, ..., `PollSignal`), `RxIsr`, `DaemonSetBit`, the command task |
| `CmdParser` | `CmdProcess` | `CmdDataParse` field by field, one action per byte of a host that breaks off, of a line that loses bytes, of noise |
| `CmdExec` | `CmdExec` and `FillCmdAck` | the mode flags and the version; `CmdExec` is one action with a disjunct per command; the host sends, receives, gives up; the module restarts |
| `UartTx` | transmit path | flag, transfers on the line, `CmdModeFlag`; both tasks statement by statement around the flag |
| `TxLine` | abstract line | what `UartTx` promises: one transfer at a time, no data while quiet |
| `RadarCycle` | radar power and SPI cycle, factory test | supply, registers loaded and the data type and chirp length they select (`Format`), `RadarPara`, chirp on the wire, DMA half and interrupt counter, queue, event bit, init task, timer, program counters of three tasks; `DoWriteReg` for the data type; `Ft_System_Reconfig` in six steps of the command task |
| `FrameParser` | `DataParse` | `RadarDataParse` field by field, one disjunct per parser state; the SPI opens at any byte of a chirp; the host changes the data type in a session, and `DataProc_NeedReconfig` takes it over in two steps |
| `NvConfig` | configuration | the keys of the store one by one, RAM, the radar's registers, whose they are (`test`) and `g_FtcmdFlag` (`factory`); `Crash` between any two steps |
| `OtaHttp` | `ai_parse_http_response` | operators: a header is the places of what is in it, a read is a window of the stream, the result is the next `parse_status` |
| `Ota` | requests, update task, flash | static parameters, the window in `recv_buf`, second partition cell by cell, partition table; one action per read, erase, write, comparison, switch; `PowerFails` anywhere |
| `OtaBoot` | abstract update | what `Ota` promises: the next start runs the old program or the one asked for |
| `...Proofs` | theorems | `UartRecv`, `UartTx`, `RadarCycle`, `NvConfig`, `CmdParser`, `CmdExec`, `FrameParser`, `Ota`; see section 5 |
| `MC...` | instances for TLC | values of the constants |

The chain of a command is `UartRecv` (bytes arrive whole and in order),
`CmdParser` (bytes become commands), `CmdExec` (commands have an effect and an
answer), `UartTx` (the answer gets onto the line). The chain of a chirp is
`RadarCycle` (halves of the DMA buffer are queued), `FrameParser` (halves become
chirps), and the end of a frame, which is in `RadarCycle` again. `NvConfig`
gives the registers and parameters their values. An update is a chain of its own:
`OtaHttp` (reads become a header and a body) inside `Ota` (the body becomes a
program in flash). Each module states as an assumption what it takes from the one
before. Two are composed formally, as the abstract specifications of a detailed
one: `TxLine` of `UartTx` and `OtaBoot` of `Ota`.

Abstractions. A byte in `UartRecv` is its position in the stream, so order, loss
and duplication are visible and contents are not. The bytes of `CmdParser` and
`FrameParser` are bytes, since the parsers are about their values; bodies come
from a small set that holds the head and tail bytes in awkward places. In
`CmdExec` an answer is its length field, its number of bytes, its status and
whether it means success; what registers and parameters contain is left to
`NvConfig`. A command in `UartTx` is one of eight kinds that differ in what they
do to the flag and the mode. A chirp in `RadarCycle` is its index, or `Zeroes`
for a half of the buffer that was never filled; analysis of a chirp is the
decision it leads to. Its data type is one with an index (the one of the build) or
peaks, which have none; of lengths there are the 48 bytes of the normal registers
and the 40 of the factory test. `Format` is what the radar sends, `para` what
`RadarPara` holds of type and length, and `Parsed` what is left of a chirp once
`D/bsp_spi.c:236` has taken `dataLen` bytes of it: all when the two agree, the
chirp or nothing when only the lengths differ (a byte may happen to equal the
tail), nothing when the types do. In `NvConfig` a register is an entry of a list of
addresses and values, and the algorithm parameters are one value, as they are
saved together. A byte of an answer in `Ota` is its place in the stream, and a
cell of flash is erased, spoilt, or holds one byte of one program, so a program
shifted, cut or mixed with another is visible; the digest is that of the bytes it
was computed from and of no others.

## 3. Runs

| run | bounds | distinct states | shows |
|---|---|---|---|
| `uart_recv` | buffers of 4 bytes, commands of 2 and 4, chunks of 1 or 2, 3 commands, timeout 5 polls | 10573 | the stream is parsed whole and in order, no torn read, liveness |
| `cmd_parser` | bodies of 2, 8 and 14 bytes, 4 commands, 2 faults | 1930351 | `CmdExec` is called for whole commands only; on a line that makes up no length of 0 (`NoZeroLength`), after faults at most `LossBound` commands are swallowed and the index stays below the length |
| `cmd_exec` | versions none, 0, 1, 2; counts on both sides of the limits | 7721 | session and version are agreed after any loss or restart, answers are parsable, failures visible, nothing unsaved |
| `uart_tx` | none | 362 | no overlap, silence in a session, refinement of `TxLine`, both waiting loops end |
| `uart_tx_acked` | a host that asks for the version outside a session | violation | endless wait at `D/dataprocess.c:848` |
| `radar_cycle` | frames of 4 chirps, queue of 2, 2 data types | 435950 | with the factory test and changes of the data type at any time: the cycle never stops with the radar off, SPI closed when off, static task never reused alive, a frame ends when `RadarPara` agrees with the radar, nothing touches the radar in the test |
| `radar_cycle_frame` | the same | violation | `CheckFullFrame` accepts an incomplete frame |
| `frame_parser` | bodies of 4 bytes, 2 chirps per frame, every offset, buffer of 24 bytes, 2 data types | 3841886 | what is analysed is one run of bytes, back in step after one chirp |
| `nv_config` | 4 list entries, 1 fixed, 2 stored, 2 power failures | 3939892 | with the factory test at any time: what a `FINISH_CFG` outside of it acknowledged survives; the radar comes back with what the host wrote |
| `nv_config_list` | the same | violation | registers behind the stored head |
| `nv_config_zero` | the same | violation | parameters of zero after a power failure in the first boot |
| `ota` | 5 headers of up to 18 bytes, 3 programs, buffer of 12, `header_bak` of 8, partition of 8 cells, 2 requests, 1 power failure | 230458 | refinement of `OtaBoot`; the body is found and the length seen wherever the reads cut the header; a whole program is started; an update ends |

Why the bounds are enough.

* `UartRecv`: buffers of four bytes have an exactly full command, a shorter one,
  an empty and a partly read FIFO; three commands use buffer 0, 1 and 0 again.
* `CmdParser`: the longest body (14 bytes) is longer than the shortest whole
  command (12), so that a broken command can swallow one completely, and the
  second body holds the bytes of a tail, so that one command can end another, and
  the last byte of a head before a zero. The first body begins with a zero, so that
  the loss of its low length byte, which `LengthSpared` excludes, would matter.
  Four commands let one follow the loss that two faults can cause.
  The run has no deadlock check: the host stops after its last command.
* `CmdExec` has no bound on the length of a run. The counts lie on both sides of
  every limit of `DoReadReg`, `DoReadPara` and `FillCmdAck`.
* `RadarCycle`: frames of four chirps are even, as in the code, so that the two
  halves stay paired, and let the SPI open at the first, the last and a middle
  chirp; a queue of two lets the data task lag behind and catch up. The factory
  test is entered, left and finished in any session, and `FINISH_CFG` may read
  `RadarPara` from a radar with the registers of the test or the normal ones, so that
  either length is carried over a reload. Every register with an effect on the
  cycle is one value, the data type.
* `FrameParser`: one body without special bytes, and one that holds a tail byte,
  a head byte, an identifier and an index, so that a chirp can seem to begin
  inside another. 24 bytes are two chirps, the least `StoresInBounds` allows.
  Of the data types one has an index and one has not; the third differs from the
  first in its identifier only.
* `NvConfig`: the list of four holds each role an entry of `InitRegList` can
  have: in the fixed head and again at the end, stored, and not stored. Two
  power failures give one in the recovery from another. The factory test is entered
  and left between any two commands.
* `UartTx` has no bound at all: a host sends for ever.
* `Ota`: the lengths keep the order they have in the code (a Content-Length line
  is shorter than `HEADER_BAK_LEN`, the status line and it are longer, the buffer
  is longer than `header_bak` and shorter than the answer, what the loop takes off
  is less than the head). The length comes in the last line or before it, or not
  at all, or is 0; the status may not be 200. One program is whole, one has a
  wrong digest, one does not fit the partition. Two requests and one power failure
  give an update after a failed one and one after a restart. The run has no
  deadlock check: when all requests are used up nothing is left to do.

The theorems of section 5 have none of these bounds, except that the number of
chunks, commands, faults, requests and power failures is a constant.

## 4. Assumptions and fairness

* **The host waits for its answer** (`UartRecv`, `UartTx`, `CmdExec`): a command
  arriving during the execution of another is lost by `cmdReady = 0`
  (`D/cmdprocess.c:1212`).
* **The pace of the bytes** (`PaceAssumption` of `UartRecv`): fewer than five
  polls fall into one command; 64 bytes take 2.5 ms at 256000 baud.
* **No length of 0** (`NoZeroLength` of `CmdParser`): the line loses any byte of a
  command but the low one of its length (`LengthSpared`), noise is not a zero byte,
  and no body has a zero behind the bytes of a head (`NoZeroBehindHead`). Nothing in
  the code sees to any of it. It is an explicit hypothesis of the theorems that need
  it and an `ASSUME` of the run, for `TypeOK`, `FillTerminates` and `LossBounded`;
  `CalledWhenFramed` and `FillsUnlessEmpty` do without. A length of 0 makes
  `D/cmdprocess.c:1147` miss its equality test and write beyond the buffer, where the
  model stops. With `LengthSpared = FALSE` TLC finds `FillTerminates` violated:
  `READ_VER`, whose body is 0, 0, without its low length byte. `BufLen` is below 250
  (54 in the code), so that no length can pass for a byte of a head.
* **What the bodies contain** (`CmdParser`): `LossBounded` needs bodies without a
  whole head (`NoHeadInside`) besides. The commands of the protocol are of that kind
  unless a parameter is chosen to break it, but nothing in the code sees to it. The
  bodies of the run fulfil this and `NoZeroBehindHead` (`NothingMisleads`), with a
  last byte of a head and a zero among them; with the two bodies named in section 6
  TLC finds the properties violated.
* **The host of `CmdExec`** (`HostMay`): outside a session it asks for nothing
  whose refusal looks like an answer in version 0; inside one it leaves AMPS
  alone, which would end the session; after an unanswered `START_CFG` or
  `FINISH_CFG`, or after the banner of a restart, it begins with `START_CFG`.
  `CountsAssumption`: its commands fit the buffer and it never asks for exactly
  13 parameters at once.
* **HostFollowsProtocol** (`UartTx`): outside a session the host sends
  `START_CFG`, `AMPS_READ_RESULT` when a result is stored, and what the module
  ignores. `uart_tx_acked` shows what happens otherwise.
* **HostIsSlow** (`RadarCycle`): after `START_CFG`, and in the factory test, the
  host leaves the radar time to return: the 60 ms of the timer, the 10 ms of its
  callback and a first chirp. With `HostIsSlow = FALSE` TLC finds
  `SpiOffWithRadar` and `TestUndisturbed` violated and the parameters of the radar
  read as zero. `ENTER_FACTORYMODE` and `EXIT_FACTORYMODE` come in a session only,
  as `CmdExec` demands.
* **RadarPara agrees** (`Understood` in `FrameEnds`): a frame is promised to end only
  while the radar sends the normal chirps with an index and `RadarPara` says so.
  `FormatAgrees` tells how far this is the rule: outside of a session and of the test
  they agree but for a length of 40, which outlives the registers of the test
  (section 6). In the module of the build the first session after a factory test can
  end in such a state.
* **Lengths of chirps** (`RadarCycle`): 48 bytes normally, for peaks too (their own
  default is 56), and 40 in the test. `WRITE_REG` changes the type, and no register
  that makes a chirp longer than the halves of the DMA buffer.
* **The factory test in `NvConfig`** is entered whether a session is on or not, a
  superset of the code, and fills the radar with any values. Its own keys (its list and
  its result) are left out. `FinishKeeps` counts a `FINISH_CFG` in the test as keeping
  nothing, although it is acknowledged (section 6).
* **Test chirps** (`RadarCycle`): a chirp of 40 bytes in a half of 48 is found
  whole or not at all, as the halves happen to fall. The queue of the test and the
  normal one are one in the model, since only one is fed at a time.
* **The data task lags less than the queue is long** (`QueueSize`, 34 chirps).
* **One length** (`FrameParser`): one channel, and all data types have bodies of
  one length. The SPI may open at any byte of a chirp, a superset of what a chip
  select interrupt gives; `RadarCycle` counts a chirp cut by it as missed. A
  chirp that was in the buffer when the SPI was opened or the parser reset
  (`seam`) may be put together from two and is excepted from `DispatchedWhole`.
  While radar and parser differ in the data type the host is in a session, and
  nothing is analysed.
* **The NV store** writes one key whole or not at all (EasyFlash does).
* **OneAtATime** (`Ota`): a request comes when no update task exists. Nothing in
  the code sees to it; with two tasks TLC finds `BootSpec` violated.
* **FlashFails = FALSE** (`Ota`): `bl_mtd_write` writes what it is given. With
  `TRUE` TLC finds `BootSpec` violated, since its result is ignored
  (`ota/src/ota_hal.c:93`) and the digest is that of the buffer.
* **The digest** (`Ota`) tells any two sequences of bytes apart, though only 4 of
  its 16 bytes are compared (`ota/src/ai_ota.c:320`).
* **The header** (`HttpAssumption` of `OtaHttp`): a Content-Length line is shorter
  than `HEADER_BAK_LEN`, and does not end within the first 32 bytes of the answer.
  What lies before the buffer and is copied to `header_bak` after a first read of
  less than 32 bytes may look like a blank line, never like a Content-Length.
* **One life** (`Ota`): no request follows the change of the partition table; the
  model ends with the old program, since the new one is another program.

Fairness is what FreeRTOS gives: a task or the daemon that is ready and that
nothing above it keeps from running does run (weak fairness). The command task
and, in `RadarCycle`, the data task are pushed aside by contexts that keep the
processor for a fraction of the time, so they get it infinitely often; that is
strong fairness on them. Transfers end, a radar with supply sends chirps, and a
host that waits gives up at last. A task of `Ota` that can go on does, and a read
comes back at last, with bytes or with the end of the connection; a server that
keeps an idle connection open for ever is left out. Nothing is assumed of the host's next
command, of `StartCfg`, of a request, of how a read cuts the answer, or of a
power failure. `CmdParser`, `CmdExec`,
`FrameParser` and `NvConfig` have safety properties only and no fairness.

## 5. Proofs

All theorems are proved with TLAPS (SMT, Zenon, LS4) for every value of the
constants that satisfies the named assumptions.

* `UartRecvProofs` - `TypeCorrect`, `StreamInOrder`, `ReadsNeverTorn`,
  `NoByteLost`, `StoresInBounds`, `LatencyBounded`. The inductive invariant says
  where the bytes received and not yet parsed lie: in the buffer the interrupt
  fills, in the one being handed over, or in the rest of the one being parsed,
  and that in each phase the other contexts are where they cannot disturb it.
  `InOrder` alone is not inductive: it says nothing about the buffers.
* `CmdExecProofs` - `TypeCorrect`, `SessionIsAgreed`, `AnswersAreParsable`,
  `RefusalsAreVisible`, `OutsideIsSettled`. `ModeInv` ties what the host knows to
  `CmdModeFlag` and `masterProtocolVer` in each phase of a command, the phases in
  which the answer is still under way included; that is what the property, which
  speaks of an idle host only, lacks. The lemmas `LengthCounts` and `StatusTells`
  are facts about `FillCmdAck` for any data.
* `UartTxProofs` - `TypeCorrect`, `NoPriorityDeadlock`, `SilenceKept` and
  `TxImplementsLine`, under `HostFollowsProtocol`. The core is that
  `CmdModeFlag` is set whenever the command task is between the switch of
  `CmdExec` and its end, so that the data task cannot be past its early return
  while the command task owes a transfer.
* `RadarCycleProofs` - `TypeCorrect`, `SpiFollowsRadar`, `ControlBlockIsFree`,
  `WakeupIsPending`, `ChirpsAreFresh`, `ChirpsInOrder`, `TestIsUndisturbed`,
  `FormatIsKnown`, under `HostIsSlow`, for every length of frame and queue. The
  invariant follows the cycle: from the end of a frame to the end of the timer
  callback the data task, the timer and the daemon hand the radar on to each other,
  and nothing is left that could open the SPI (`CycleInv`, `EdgeInv`, `DelayInv`); a
  reconfiguration finds the radar on and keeps the data task from switching it off
  (`ReconfigInv`). `OrderInv` relates `dma_irq_cnt`, the half the DMA writes to and
  the chirp queued last, and gives the action property `QueuedInOrder`. `FtInv`
  follows `Ft_System_Reconfig`: from the moment the SPI is closed nobody else can
  open it, and once the test runs the timer and its callback are out of the way.
  `ParaInv` follows the data type from `WRITE_REG` over `InitRegList` and the reload
  after a frame to `RadarPara`: they agree whenever nothing is under way
  (`Settled`), which `FormatAgrees` alone does not say of the list.
* `FrameParserProofs` - `TypeCorrect`, `StoresInBounds`, `ChirpsAreWhole`, for
  every body length, every frame depth, every set of data types and bodies of any
  bytes. `ShapeInv` bounds
  the buffer in each state, with room for a body collected while `needCopyLen`
  is 0 and again after it is set; `HeadInv` ties the index, for types that
  have one, to the bytes it was read from; `ExactInv` gives the length outside of
  a reset; `RunInv` says that the buffer, the rest of the half and the next half
  are one run of bytes. `ParserIsBackInStep` needs to know where on the wire the
  parser is: `Remaining`, the bytes it still takes before it looks for a head,
  decreases with every byte while the position `Pos` of the next byte increases.
  `BackInv` says that either the two add up to a chirp (`InStep`, which then lasts,
  as the body is copied without a look at it), or that no chirp was missed so far
  and the parser will be looking for a head when one without a second head byte
  ends (`OnWay`). `BackInStep` alone says nothing of where the parser is, and so is
  not inductive. `SyncInv` gives the marks of the bytes on the wire, and that
  radar and parser agree on the data type outside of a session.
* `NvConfigProofs` - `TypeCorrect`, `RegsAreDurable`, `AlgIsDurable`,
  `FinishIsKept`, `WritesAreKept`, for every register list of the shape of
  `InitRegList`, any number of power failures and factory tests. The invariant names
  the steps at which RAM, the store and the radar may differ, and what the host may
  count on in each of them; `needFlashWrite` stays set over a `FINISH_CFG` in the
  test, which is why the next one outside of it saves what that one did not; the
  lemma `UpdateHitsLast` shows that `Radar_UpdateReg` changes the entry
  `WriteSocAllReg` loads last.

* `CmdParserProofs` - `WholeCommandsOnly`, `IndexMeetsLength`, for every buffer, any
  bodies, noise and number of faults. `SeenInv` says what each state stands for: the
  parser has seen the first so many bytes of a frame, and they are the last bytes it
  received. `CalledWhenFramed` speaks of one moment only and says nothing of the way
  there. `IndexMeetsLength` is `FillTerminates` for every length but 0, the one the
  equality test of `D/cmdprocess.c:1147` misses. `FillAlwaysTerminates` and
  `TypeCorrect` assume `NoZeroLength` and show that it is enough to keep that length
  away: `RestInv` says that the bytes to come are the rest of a frame, and
  `LengthInv` that a head the parser takes for one inside a command lies, perhaps
  with gaps where bytes were lost, in its body. `LossIsBounded`, under
  `NoZeroLength` and `NoHeadInside`, says where the parser may be while an intact
  command arrives (`StepInv`): at the very byte the host is at (`InStep`), in a body
  it swallows (`Swallowing`) or the tail of one (`Closing`), looking for a head in
  the middle of a command (`Searching`), or with a part of a head or a length left
  behind by a fault (`Misled`). The key is `12 * missed + Gone <= curIndex` of
  `Swallowing`: each command missed has filled at least 12 bytes of the buffer, so
  the buffer bounds their number. `LossBounded` alone knows neither.
* `OtaProofs` - `OtaTypes`, `BodyIsFound`, `LengthIsNotMissed`,
  `UpdateIsAllOrNothing`, for headers of any shape, programs and sectors of any
  length, any number of requests and power failures; the last under `OneAtATime`
  and without `FlashFails`. `LocalInv` is about one task and its answer: the
  window in the buffer begins where no line that is still needed has been cut off,
  `body` and `from` agree with the header once it is found. `BootInv` adds the
  shared state: one task at most (`Alone`), which downloads what was asked for
  (`Asking`), whose writes are what the partition holds up to `top` (`Flashed`),
  and a changed table only over a whole program (`Switched`). `BootSpec` says
  nothing of the partition before the switch, so it is not inductive without
  `Flashed`.

Properties that are theorems and no longer part of a run: `WriteInBounds` and
`BoundedLatency` of `UartRecv`, `WakeupPending` and `FormatAgrees` of `RadarCycle`,
`StoreInBounds` of `FrameParser`, `AlgDurable` of `NvConfig`.

Every invariant and every safety action property of the passing runs is a
theorem. Only model-checked: liveness (`EveryByteParsed`, `HostGetsFree`,
`FrameEnds`, `RadarReturns`, `WholeIsStarted`, `UpdateEnds`), which is out of the
prover's reach.

## 6. Findings

`PROJECT.json` has them with their lines; each is a run TLC finds violated.

* `uart_tx_acked` - a command answered outside a session can make the data task
  wait for a transfer for ever (`D/cmdprocess.c:1053`, `D/dataprocess.c:848`).
* `radar_cycle_frame` - an incomplete frame is taken for a whole one
  (`D/dataprocess.c:116`).
* `nv_config_list` - a quarter of the register list is stored (`D/config.c:84`).
* `nv_config_zero` - parameters of zero after a power failure in the first boot
  (`D/config.c:182`).

Seen while modelling, without a run:

* The answer to `READ_VER` in version 0 has a length field of 8 with 7 bytes behind
  it (`D/cmdprocess.c:156` against the comment at `:130`): the field counts words
  where the data is a string.
* `CMD_RECV_TIMEOUT` is "5 /\*ms\*/" (`D103/inc/bsp_uart.h:21`) and counts polls
  of 2 ms.
* The failure answer of AMPS (`D/cmdprocess.c:1023`) is sent without
  `g_uartDmaSendingFlag`; with `Provisioned = FALSE` TLC finds `LineSpec`
  violated.
* `AMPS_READ_RESULT` inside a session clears `CmdModeFlag` and so ends it.
* `FINISH_CFG` soon after a frame reads the parameters of a radar without supply
  (`HostIsSlow` above).
* `READ_SYS` with 13 parameters in a newer version builds 66 bytes in a buffer of
  64 (`D/cmdprocess.c:103`).
* Failure in version 0 and success in the newer ones are both a status of 0, so a
  host that missed a restart takes a failure for a success.
* A body with a head byte in it can keep the chirp parser out of step for as long
  as the same bytes are repeated; `BackInStep` speaks of chirps without one.
* In the same way a command whose body contains a head, such as 7, 253, 252, 251,
  250, 9, 0, can keep the command parser out of step for as long as it is repeated,
  once a fault has made it begin inside one; and after the loss of a byte a body
  such as 253, 252, 251, 250, 0, 0 is read as a head with a length of 0, for which
  `D/cmdprocess.c:1147` never finds the end.
* The loss of a single byte is enough for that: `READ_VER` without the low byte of
  its length has the length 0 (`LengthSpared` above).
* Between the two statements of `DataProc_NeedReconfig` (`D/dataprocess.c:1036`,
  `:1039`) a chirp without a body can be completed; it is not analysed, since
  `CmdModeFlag` is still set, but one begun there and completed after the session
  is analysed with the length it has (`seam`).
* The comment "没用到" (unused) stands above `SendResultData`, which is used as
  the report callback; `isFirstRun` passes a value as a pointer
  (`D/dataprocess.c:91`), a line that is not reached once `Config_Init` has stored
  the magic number; `debugMode` sets `needFlashWrite` and is not among the bytes
  stored.

* A second `ENTER_FACTORYMODE` does not write the test registers again
  (`axk_factory/src/ft_system.c:19`), and `EXIT_FACTORYMODE` and `FINISH_CFG` leave
  those of the test in the radar (`D/cmdprocess.c:1005`).
* In the same way `RadarPara.dataLen` stays 40 after the test
  (`axk_factory/src/ft_dataprocess.c:33`), and a `FINISH_CFG` reads 40 again as long as the
  radar holds the registers of the test. Once the timer has reloaded the normal ones,
  `D/bsp_spi.c:236` cuts every chirp of 48 bytes to 40; unless one of its bytes happens
  to equal the tail, no frame ends and the radar stays on until a `FINISH_CFG` reads
  the length anew.
* A `FINISH_CFG` in the factory test is acknowledged without saving anything
  (`D/cmdprocess.c:880`): after `WRITE_REG`, `ENTER_FACTORYMODE`, `FINISH_CFG` a
  power failure loses the register.
* With the data type of peaks the index of a chirp stays 0, so no chirp is the
  last of its frame and the radar is never switched off.
* `partition_write_ota_farmware` returns 0 whatever `bl_mtd_write` has returned
  (`ota/src/ota_hal.c:80` promises -1 for a failure).
* The download loop takes `AI_PACK_HEAD_LEN`, 153 bytes, off the length of the body
  where `parse_ai_pack_head` took 169 (`ota/src/ai_ota.c:315`): it asks for more
  when everything has arrived, and a server that keeps the connection open keeps
  the task waiting.
* Over HTTP a first piece of the body shorter than the head gives `memcpy` a
  negative length (`ota/src/ai_ota.c:511`); HTTPS has a test there.
* `header_bak` of a first read of less than 32 bytes is filled from before the
  buffer (`ota/src/ota_parse.c:114`), and cleared before with the `strlen` of memory
  that was just allocated (`:113`).
* Only 4 bytes of the digest are compared: `sizeof(&pack_head_t.md5)` is that of a
  pointer (`ota/src/ai_ota.c:320`).
* `spi_timeout_handle` is never created (`radar/main.c:281`), so the recovery
  `vSpiTimeoutTimerCallback` describes never runs.

## 7. Plan

The order of the modules followed the importance of what they hold: the two
directions of the UART and the radar cycle, where several contexts share state
without a lock, then the NV store, then the sequential parts behind them.

Done: `UartRecv`, `UartTx` with `TxLine`, `RadarCycle` with the factory test,
`NvConfig`, `CmdParser`, `CmdExec`, `FrameParser` with the data types, `Ota` with
`OtaHttp` and `OtaBoot`, and proofs about each of them. Left:

1. Data types of different lengths in `FrameParser`.
2. The lists of `NOP_CONFIG` (`D/cmdprocess.c:401`), the one hazard without a
   property: they have 16 entries and an index nothing bounds.

To keep the runs few, a property that a theorem states for every instance may
give up its place in a run.

## 8. Not modelled, and why

The presence library (binary only; its result is a free choice), the decoding of
single radar registers and the magnitude arithmetic (no state), the low power
code (`McuSetStatus` and `SocSetStatus` are never called), TCP/IP and WiFi (not
started, wrappers of libraries), pins,
banners and logging. The boot of `main` is the initial state of the models; the
banner it sends by DMA without waiting is followed by a delay longer than the
transfer. The two tasks of priority 14 are one in `UartTx` and `RadarCycle`, since
their loops are the same and only one of the two queues is fed at a time. What the
factory test computes from a chirp, and its register list, are data. The OTA code
is compiled and started by nothing in this build (`ota/src/at_ota.c` is commented
out); it is modelled from its entry points. The parsing of an address and of the
digits of a digest, and what a copy of a negative length destroys, are left out.
