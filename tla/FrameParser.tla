---------------------------- MODULE FrameParser ----------------------------
(***************************************************************************)
(* DataParse of src/project/D103/src/dataprocess.c: the state machine that *)
(* finds chirps in the halves of the SPI buffer.  A chirp is a head byte,  *)
(* an identifier and two bytes with its index, a body copied as a block,   *)
(* and a tail of four bytes.  When the SPI is opened in the middle of a    *)
(* chirp, every half holds the end of one chirp and the beginning of the   *)
(* next, and the parser has to find the heads by itself; it keeps its      *)
(* state while the SPI is closed.                                          *)
(*                                                                         *)
(* The data task parses a half without the command task running, but       *)
(* DataProc_NeedReconfig resets the parser in the command task in several  *)
(* statements, between which a half may arrive.  It also takes over the    *)
(* data type, which the host may have changed by writing a register.       *)
(***************************************************************************)
EXTENDS Naturals, Sequences

CONSTANTS
  BodyLen,      \* bytes of a body, 40
  BUF_LEN,      \* bytes of the parser's buffer, 264
  FrameDepth,   \* FRAME_DEPTH, 34 chirps
  DataTypes,    \* the data types the host may choose
  Bodies        \* the bodies of the chirps

HLEN == 4      \* SPI_FRAME_HLEN
TLEN == 4      \* SPI_FRAME_TLEN
DataLen == HLEN + BodyLen + TLEN
Bytes == 0 .. 255

ASSUME LengthAssumption ==
  /\ BodyLen \in Nat \ {0}
  /\ BUF_LEN \in Nat /\ BUF_LEN >= 2 * DataLen
ASSUME FrameAssumption == FrameDepth \in 2 .. 256
ASSUME BodiesAssumption == Bodies \subseteq [1 .. BodyLen -> Bytes]
\* What GetRadarPara supports; all of one length.
ASSUME TypesAssumption == DataTypes \subseteq {"DSRAW", "FFT", "DFFT_PEAK"}

DATA_HEAD == 170
DATA_TAIL == 85
FFT0_ID == 48
FFT1_ID == 112
DSRAW0_ID == 32
DSRAW1_ID == 96
DFFT_PEAK_ID == 64

(***************************************************************************)
(* The index of a chirp: three bits in the identifier, five in the byte    *)
(* after it.  Peaks have none.                                             *)
(***************************************************************************)
Indexed(t) == t # "DFFT_PEAK"
FirstId(t) == CASE t = "FFT" -> FFT0_ID [] t = "DSRAW" -> DSRAW0_ID [] OTHER -> DFFT_PEAK_ID
IdByte(t, k) == FirstId(t) + (IF Indexed(t) THEN k \div 32 ELSE 0)
IndexByte(t, k) == IF Indexed(t) THEN (k % 32) * 8 ELSE 0
HighIndex(id) == ((id % 16) * 32) % 256
LowIndex(b) == b \div 8

\* A byte on the wire with the chirp and the position it has there.
Chirp(t, k, body) ==
  LET v == <<DATA_HEAD, IdByte(t, k), IndexByte(t, k), 0>> \o body \o <<0, 0, 0, DATA_TAIL>>
  IN  [i \in 1 .. DataLen |-> [b |-> v[i], k |-> k, i |-> i - 1]]

Chirps == 0 .. FrameDepth - 1
Next1(k) == (k + 1) % FrameDepth
Offsets == 0 .. DataLen - 1
WireByte == [b : Bytes, k : Chirps, i : 0 .. DataLen - 1]

VARIABLES
  spi,         \* the SPI is open
  off,         \* where in a chirp the next half begins
  chirp,       \* the index of that chirp
  body,        \* its body
  sent,        \* the data type of the radar
  half,        \* bytes of the half the data task is parsing that are still to come
  state,       \* RadarDataParse.state
  buf,         \* RadarDataParse.buf up to curIndex
  need,        \* RadarDataParse.needCopyLen
  type,        \* RadarPara.dataType
  chirpIndex,  \* RadarDataParse.chirpIndex
  session,     \* CmdModeFlag
  cpc,         \* where the command task is in System_Reconfig
  out,         \* the chirp DataDispatch analysed with this byte, if any
  fresh,       \* history: no half was taken since the SPI was opened
  seam,        \* history: the SPI was opened or the parser set anew between two of the bytes in buf
  whole,       \* history: it belongs to a chirp received from its head on, without another head byte
  missed       \* history: such chirps in a row that were not analysed

spiVars == <<spi, off, chirp, body>>
typeVars == <<sent, type>>
parserVars == <<state, buf, need, chirpIndex>>
cmdVars == <<session, cpc>>
pastVars == <<out, fresh, seam, whole, missed>>
vars == <<spiVars, typeVars, half, parserVars, cmdVars, pastVars>>

States == {"HEAD", "ID", "INDEX1", "INDEX2", "DATA", "TAIL0", "TAIL1", "TAIL2", "TAIL3"}

TypeOK ==
  /\ spi \in BOOLEAN /\ off \in 0 .. DataLen - 1 /\ chirp \in Chirps /\ body \in Bodies
  /\ sent \in DataTypes /\ type \in DataTypes
  /\ half \in Seq(WireByte) /\ Len(half) <= DataLen
  /\ state \in States
  /\ buf \in Seq(WireByte)
  /\ need \in 0 .. BodyLen
  /\ chirpIndex \in Bytes
  /\ session \in BOOLEAN
  /\ cpc \in {"idle", "clear", "need", "open"}
  /\ out \in Seq([index : Bytes, data : Seq(WireByte)]) /\ Len(out) <= 1
  /\ fresh \in BOOLEAN /\ seam \in BOOLEAN /\ whole \in BOOLEAN /\ missed \in Nat

Init ==
  /\ spi = FALSE /\ off = 0 /\ chirp = 0 /\ body \in Bodies
  /\ sent \in DataTypes /\ type = sent
  /\ half = << >>
  /\ state = "HEAD" /\ buf = << >> /\ need = BodyLen /\ chirpIndex = 0
  /\ session = FALSE /\ cpc = "idle"
  /\ out = << >>
  /\ fresh = TRUE /\ seam = FALSE /\ whole = FALSE /\ missed = 0

-----------------------------------------------------------------------------
(***************************************************************************)
(* The radar and the SPI.  A half is as long as a chirp.                   *)
(***************************************************************************)
\* bsp_spi_slave_init in the middle of any chirp
Opened(o, k, b) ==
  /\ spi' = TRUE
  /\ off' = o /\ chirp' = k /\ body' = b
  /\ fresh' = TRUE
  /\ UNCHANGED <<typeVars, half, parserVars, out, seam, whole, missed>>

\* spi_init_task, after the timer
SpiOpens(o, k, b) ==
  /\ ~spi
  /\ Opened(o, k, b)
  /\ UNCHANGED cmdVars

\* queue_data_process_task takes the next half, which ends in a chirp with the body b.
HalfArrives(b) ==
  /\ spi /\ half = << >>
  /\ half' = SubSeq(Chirp(sent, chirp, body), off + 1, DataLen) \o SubSeq(Chirp(sent, Next1(chirp), b), 1, off)
  /\ chirp' = Next1(chirp)
  /\ body' = b
  /\ out' = << >>
  /\ fresh' = FALSE
  /\ seam' = (seam \/ (fresh /\ state # "HEAD"))
  /\ whole' = (whole /\ ~fresh)
  /\ missed' = IF fresh THEN 0 ELSE missed
  /\ UNCHANGED <<spi, off, typeVars, parserVars, cmdVars>>

-----------------------------------------------------------------------------
(***************************************************************************)
(* DataParse: what each state does with the byte x.                        *)
(***************************************************************************)
Store(x) == buf' = Append(buf, x)

\* A head empties the buffer.
HeadStarts(x) == buf' = <<x>>

ParseHead(x) ==
  /\ state = "HEAD"
  /\ IF x.b = DATA_HEAD
       THEN HeadStarts(x) /\ state' = "ID"
       ELSE UNCHANGED <<buf, state>>
  /\ UNCHANGED <<need, chirpIndex>>

\* The upper half of the identifier.
Ids(t) == CASE t = "FFT"   -> {FFT0_ID, FFT1_ID}
            [] t = "DSRAW" -> {DSRAW0_ID, DSRAW1_ID}
            [] OTHER       -> {DFFT_PEAK_ID}
IdMatches(x) == 16 * (x.b \div 16) \in Ids(type)

ParseId(x) ==
  /\ state = "ID"
  /\ IF IdMatches(x)
       THEN /\ Store(x) /\ state' = "INDEX1"
            /\ chirpIndex' = IF Indexed(type) THEN HighIndex(x.b) ELSE chirpIndex
       ELSE state' = "HEAD" /\ UNCHANGED <<buf, chirpIndex>>
  /\ UNCHANGED need

ParseIndex1(x) ==
  /\ state = "INDEX1"
  /\ chirpIndex' = IF Indexed(type) THEN (chirpIndex + LowIndex(x.b)) % 256 ELSE chirpIndex
  /\ Store(x) /\ state' = "INDEX2"
  /\ UNCHANGED need

ParseIndex2(x) ==
  /\ state = "INDEX2"
  /\ Store(x) /\ state' = "DATA"
  /\ UNCHANGED <<need, chirpIndex>>

\* The end of DataCopy makes needCopyLen ready for the next chirp; a variant that is one off.
NeedLong == BodyLen + 1
NeedRestored == BodyLen

\* DataCopy, byte by byte.
ParseData(x) ==
  /\ state = "DATA" /\ need > 0
  /\ Store(x)
  /\ IF need = 1
       THEN state' = "TAIL0" /\ need' = NeedRestored
       ELSE need' = need - 1 /\ UNCHANGED state
  /\ UNCHANGED chirpIndex

\* DataCopy with nothing to copy leaves the byte to the next state.
ParseNothing(x) ==
  /\ state = "DATA" /\ need = 0
  /\ need' = BodyLen
  /\ Store(x) /\ state' = "TAIL1"
  /\ UNCHANGED chirpIndex

ParseTail(x) ==
  /\ \/ state = "TAIL0" /\ state' = "TAIL1"
     \/ state = "TAIL1" /\ state' = "TAIL2"
     \/ state = "TAIL2" /\ state' = "TAIL3"
  /\ Store(x)
  /\ UNCHANGED <<need, chirpIndex>>

\* The test of the last byte, and a variant without it.
AnyTail(x) == TRUE
TailMatches(x) == x.b = DATA_TAIL

ParseLast(x) ==
  /\ state = "TAIL3"
  /\ state' = "HEAD"
  /\ IF TailMatches(x) THEN Store(x) ELSE UNCHANGED buf
  /\ UNCHANGED <<need, chirpIndex>>

\* DataDispatch outside of a session is given the first DataLen bytes of the buffer; what
\* lies behind curIndex in a buffer that is shorter is left out.
Finished(x) == state = "TAIL3" /\ TailMatches(x)
Given(b) == SubSeq(b, 1, IF Len(b) < DataLen THEN Len(b) ELSE DataLen)
Dispatched(x) ==
  IF Finished(x) /\ ~session
    THEN <<[index |-> IF Indexed(type) THEN chirpIndex ELSE 0, data |-> Given(Append(buf, x))]>> ELSE << >>

(***************************************************************************)
(* The last chirp of a frame makes DataDispatch close the SPI; the bytes   *)
(* behind it are parsed nevertheless.                                      *)
(***************************************************************************)
EndsFrame == out' # << >> /\ out'[1].index = FrameDepth - 1

DataParse ==
  /\ half # << >>
  /\ LET x == Head(half) IN
     /\ \/ ParseHead(x) \/ ParseId(x) \/ ParseIndex1(x) \/ ParseIndex2(x)
        \/ ParseData(x) \/ ParseNothing(x) \/ ParseTail(x) \/ ParseLast(x)
     /\ out' = Dispatched(x)
     /\ seam' = (state # "HEAD" /\ seam)
     /\ whole' = (x.i = 0 \/ (whole /\ x.b # DATA_HEAD))
     /\ missed' = CASE out' # << >> \/ session                 -> 0
                    [] out' = << >> /\ whole' /\ x.i = DataLen - 1 /\ ~session -> missed + 1
                    [] OTHER                                   -> missed
  /\ half' = Tail(half)
  /\ spi' = (spi /\ ~EndsFrame)
  /\ UNCHANGED <<off, chirp, body, typeVars, fresh, cmdVars>>

-----------------------------------------------------------------------------
(***************************************************************************)
(* The command task runs between two halves.                               *)
(***************************************************************************)
CmdMayRun == half = << >>

StartCfg ==
  /\ CmdMayRun /\ cpc = "idle"
  /\ session' = TRUE
  /\ UNCHANGED <<spiVars, typeVars, half, parserVars, cpc, pastVars>>

\* WRITE_REG: the radar sends another data type from its next identifier on.
WriteType(t) ==
  /\ CmdMayRun /\ cpc = "idle" /\ session
  /\ sent' = t
  /\ UNCHANGED <<spiVars, type, half, parserVars, cmdVars, pastVars>>

\* FINISH_CFG: System_Reconfig closes the SPI, and DataProc_NeedReconfig reads the parameters.
FinishCfg ==
  /\ CmdMayRun /\ cpc = "idle" /\ session
  /\ spi' = FALSE
  /\ cpc' = "clear"
  /\ UNCHANGED <<off, chirp, body, typeVars, half, parserVars, session, pastVars>>

\* GetRadarPara and the memset of RadarDataParse.  Whatever is parsed between
\* the two is cleared.
ReconfigClears ==
  /\ CmdMayRun /\ cpc = "clear"
  /\ type' = sent
  /\ state' = "HEAD" /\ buf' = << >> /\ need' = 0 /\ chirpIndex' = 0
  /\ cpc' = "need"
  /\ out' = << >>
  /\ UNCHANGED <<spiVars, sent, half, session, fresh, seam, whole, missed>>

\* needCopyLen after the memset, and a variant that counts head and tail as body.
NeedUntrimmed == need' = DataLen
NeedSet == need' = BodyLen

ReconfigNeeds ==
  /\ CmdMayRun /\ cpc = "need"
  /\ NeedSet
  /\ cpc' = "open"
  /\ seam' = (seam \/ state # "HEAD")
  /\ UNCHANGED <<spiVars, typeVars, half, state, buf, chirpIndex, session, out, fresh, whole, missed>>

\* bsp_spi_slave_init, the answer and the end of the session.
FinishOpens(o, k, b) ==
  /\ CmdMayRun /\ cpc = "open"
  /\ Opened(o, k, b)
  /\ session' = FALSE
  /\ cpc' = "idle"

Next ==
  \/ \E o \in Offsets, k \in Chirps, b \in Bodies : SpiOpens(o, k, b) \/ FinishOpens(o, k, b)
  \/ \E b \in Bodies : HalfArrives(b)
  \/ DataParse
  \/ \E t \in DataTypes : WriteType(t)
  \/ StartCfg \/ FinishCfg \/ ReconfigClears \/ ReconfigNeeds

Spec == Init /\ [][Next]_vars

-----------------------------------------------------------------------------
(***************************************************************************)
(* The parser never stores past its buffer, also when DataProc_NeedReconfig*)
(* gives needCopyLen its full value in the middle of a chirp.              *)
(***************************************************************************)
StoreInBounds == Len(buf) <= BUF_LEN

(***************************************************************************)
(* What is analysed begins with a head byte, has the index its own bytes   *)
(* encode for the data type the parser works with, and is a run of DataLen *)
(* bytes as they arrived, none twice, none left out and closed by a tail   *)
(* byte.  Only a chirp that was being received when the SPI was opened or  *)
(* the parser set anew can be put together differently.                    *)
(***************************************************************************)
Follows(y, x) == IF x.i < DataLen - 1 THEN y.i = x.i + 1 /\ y.k = x.k ELSE y.i = 0 /\ y.k = Next1(x.k)
Run(d) == \A j \in 1 .. Len(d) - 1 : Follows(d[j + 1], d[j])
DispatchedWhole ==
  out # << >> =>
    LET d == out[1].data IN
    /\ d[1].b = DATA_HEAD
    /\ out[1].index = IF Indexed(type) THEN HighIndex(d[2].b) + LowIndex(d[3].b) ELSE 0
    /\ seam \/ (Len(d) = DataLen /\ d[DataLen].b = DATA_TAIL /\ Run(d))

(***************************************************************************)
(* The parser finds its way back: of the chirps that arrive completely and *)
(* have no head byte but their own it loses one at most before it is in    *)
(* step again.                                                             *)
(***************************************************************************)
BackInStep == missed <= 1
=============================================================================
