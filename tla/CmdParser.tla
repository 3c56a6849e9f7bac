----------------------------- MODULE CmdParser -----------------------------
(***************************************************************************)
(* CmdProcess of src/project/D103/src/cmdprocess.c: the state machine that *)
(* finds commands in the stream of received bytes.  A command is a head of *)
(* four bytes, the length of the body, the body and a tail of four bytes.  *)
(* The parser keeps its state from buffer to buffer, so that the limits of *)
(* the receive buffers (module UartRecv) do not show here, and it has no   *)
(* timeout: a command that breaks off swallows what follows.               *)
(*                                                                         *)
(* The other end of the line is a host that sends commands.  It may break  *)
(* off in the middle of one, bytes may get lost and noise may appear       *)
(* between two commands.                                                   *)
(***************************************************************************)
EXTENDS Naturals, Sequences

CONSTANTS
  BufLen,        \* CMD_BUF_LEN, the longest body
  Bodies,        \* the bodies of the commands of the host
  NoiseBytes,    \* the bytes line noise may leave between two commands
  MaxFrames,     \* bound: commands the host begins
  LengthSpared,  \* the line never loses the low byte of a length
  MaxFaults      \* bound: break-offs, losses and noise bytes

Bytes == 0 .. 255
CmdHead == <<253, 252, 251, 250>>
CmdTail == <<4, 3, 2, 1>>

\* A body holds at least the command type; its length (in the code 54 at
\* most) is not a byte of a head.
CMD_TYPE_LEN == 2
ASSUME BodiesAssumption ==
  /\ BufLen \in CMD_TYPE_LEN .. CmdHead[4] - 1
  /\ \A body \in Bodies : body \in Seq(Bytes) /\ Len(body) \in CMD_TYPE_LEN .. BufLen
ASSUME LineAssumption == NoiseBytes \subseteq Bytes /\ LengthSpared \in BOOLEAN
ASSUME BoundsAssumption == MaxFrames \in Nat /\ MaxFaults \in Nat

Frame(body) == CmdHead \o <<Len(body), 0>> \o body \o CmdTail
FrameMax == BufLen + 10

VARIABLES
  state,      \* CmdDataParse.state
  curIndex,   \* CmdDataParse.curIndex
  len,        \* CmdDataParse.len
  buf,        \* CmdDataParse.buf, from index 0
  call,       \* the body this byte made the parser give to CmdExec, if any
  current,    \* the body of the command on the line
  todo,       \* the bytes of that command still to be sent
  intact,     \* whether nothing happened to that command so far
  frames,     \* commands begun
  faults,     \* faults so far
  recent,     \* the bytes received last, recent[1] being the last one
  missed      \* intact commands in a row that were not executed

parserVars == <<state, curIndex, len, buf, call>>
vars == <<parserVars, current, todo, intact, frames, faults, recent, missed>>

(***************************************************************************)
(* cmdStateEnum: HEAD0 to HEAD3, LEN0, LEN1, DATA, TAIL0 to TAIL3.         *)
(***************************************************************************)
HEAD0 == 0
LEN0  == 4
LEN1  == 5
DATA  == 6
TAIL0 == 7
TAIL3 == 10

TypeOK ==
  /\ state \in HEAD0 .. TAIL3
  /\ curIndex \in 0 .. BufLen
  /\ len \in Nat
  /\ buf \in [0 .. BufLen - 1 -> Bytes]
  /\ call \in Seq(Seq(Bytes)) /\ Len(call) <= 1
  /\ current \in Bodies \cup {<< >>}
  /\ todo \in Seq(Bytes) /\ recent \in [1 .. FrameMax -> Bytes]
  /\ intact \in BOOLEAN
  /\ frames \in 0 .. MaxFrames /\ faults \in 0 .. MaxFaults
  /\ missed \in Nat

Init ==
  /\ state = HEAD0 /\ curIndex = 0 /\ len = 0
  /\ buf = [i \in 0 .. BufLen - 1 |-> 0]
  /\ call = << >>
  /\ current = << >> /\ todo = << >> /\ intact = TRUE
  /\ frames = 0 /\ faults = 0 /\ recent = [i \in 1 .. FrameMax |-> 0] /\ missed = 0

-----------------------------------------------------------------------------
(***************************************************************************)
(* The parser: one byte.                                                   *)
(***************************************************************************)
\* The first byte of a head empties the body; a variant that forgets it.
HeadSeenKeeps(b) == UNCHANGED curIndex
HeadSeen(b) == curIndex' = IF state = HEAD0 /\ b = CmdHead[1] THEN 0 ELSE curIndex

ParseHead(b) ==
  /\ state < LEN0
  /\ state' = IF b = CmdHead[state + 1] THEN state + 1 ELSE HEAD0
  /\ HeadSeen(b)
  /\ call' = << >>
  /\ UNCHANGED <<len, buf>>

ParseLen0(b) ==
  /\ state = LEN0
  /\ len' = b
  /\ state' = LEN1
  /\ call' = << >>
  /\ UNCHANGED <<curIndex, buf>>

\* The test of the length, and a variant that refuses the longest body.
LenShort(l) == l < BufLen
LenFits(l) == l <= BufLen

ParseLen1(b) ==
  /\ state = LEN1
  /\ len' = len + 256 * b
  /\ state' = IF LenFits(len') THEN DATA ELSE HEAD0
  /\ call' = << >>
  /\ UNCHANGED <<curIndex, buf>>

(***************************************************************************)
(* The end of the body is found by equality, so that a length of 0 is      *)
(* never met.  The model stops where the code would write beyond the       *)
(* buffer; FillTerminates says when it gets there.                         *)
(***************************************************************************)
ParseData(b) ==
  /\ state = DATA /\ curIndex < BufLen
  /\ buf' = [buf EXCEPT ![curIndex] = b]
  /\ curIndex' = curIndex + 1
  /\ state' = IF curIndex' = len THEN TAIL0 ELSE DATA
  /\ call' = << >>
  /\ UNCHANGED len

\* The body in the buffer.
Body == [i \in 1 .. len |-> buf[i - 1]]

\* The test of a tail byte, and a variant that looks at the first one only.
TailFirstOnly(b) == state = TAIL0 => b = CmdTail[1]
TailMatches(b) == b = CmdTail[state - TAIL0 + 1]

\* The state after a tail byte, and a variant that does not start over after the last.
TailOn(b) == IF TailMatches(b) THEN state + 1 ELSE HEAD0
TailDone(b) == IF TailMatches(b) /\ state < TAIL3 THEN state + 1 ELSE HEAD0

ParseTail(b) ==
  /\ state >= TAIL0
  /\ state' = TailDone(b)
  /\ call' = IF TailMatches(b) /\ state = TAIL3 THEN <<Body>> ELSE << >>
  /\ UNCHANGED <<curIndex, len, buf>>

CmdProcess(b) ==
  /\ ParseHead(b) \/ ParseLen0(b) \/ ParseLen1(b) \/ ParseData(b) \/ ParseTail(b)
  /\ recent' = [i \in 1 .. FrameMax |-> IF i = 1 THEN b ELSE recent[i - 1]]

-----------------------------------------------------------------------------
(***************************************************************************)
(* The host and the line.                                                  *)
(***************************************************************************)
HostBegin(body) ==
  /\ todo = << >>
  /\ frames < MaxFrames
  /\ current' = body
  /\ todo' = Frame(body)
  /\ intact' = TRUE
  /\ frames' = frames + 1
  /\ UNCHANGED <<parserVars, faults, recent, missed>>

\* The next byte of the command arrives; with the last one it counts as missed or not.
HostByte ==
  /\ todo # << >>
  /\ CmdProcess(Head(todo))
  /\ todo' = Tail(todo)
  /\ missed' = IF todo' # << >> \/ ~intact THEN missed
               ELSE IF call' = <<current>> THEN 0 ELSE missed + 1
  /\ UNCHANGED <<current, intact, frames, faults>>

Fault ==
  /\ faults < MaxFaults
  /\ faults' = faults + 1
  /\ missed' = 0
  /\ UNCHANGED <<current, frames>>

\* The host breaks off.
HostStops ==
  /\ todo # << >>
  /\ Fault
  /\ todo' = << >>
  /\ intact' = FALSE
  /\ UNCHANGED <<parserVars, recent>>

(***************************************************************************)
(* A byte is lost.  Without the low byte of a length the parser takes the  *)
(* high one, which is 0, and the first byte of the body for the length:    *)
(* that is 0 for a body that begins with 0, as READ_VER does.              *)
(***************************************************************************)
LoseByte ==
  /\ todo # << >>
  /\ LengthSpared => Len(todo) # Len(current) + Len(CmdTail) + 2
  /\ Fault
  /\ todo' = Tail(todo)
  /\ intact' = FALSE
  /\ UNCHANGED <<parserVars, recent>>

\* Noise between two commands.
Noise(b) ==
  /\ todo = << >>
  /\ Fault
  /\ CmdProcess(b)
  /\ UNCHANGED <<todo, intact>>

Next ==
  \/ \E body \in Bodies : HostBegin(body)
  \/ HostByte
  \/ HostStops
  \/ LoseByte
  \/ \E b \in NoiseBytes : Noise(b)

Spec == Init /\ [][Next]_vars

-----------------------------------------------------------------------------
(***************************************************************************)
(* What a body should not contain.  A parser that starts inside a command, *)
(* since a byte was lost or the host broke off, reads whatever looks like  *)
(* a head there; nothing in the code keeps a host from sending such a      *)
(* body, so that FillTerminates and LossBounded depend on it.              *)
(***************************************************************************)

\* The first k bytes of a head, in their order, among the first g of a body.
Scattered(k, body, g) ==
  \E place \in [1 .. k -> 1 .. Len(body)] :
    /\ \A i \in 1 .. k : place[i] <= g /\ body[place[i]] = CmdHead[i]
    /\ \A i, j \in 1 .. k : i < j => place[i] < place[j]

\* No zero follows the bytes of a head in a body, so that losses cannot make
\* up a head with a zero for its length.
NoZeroBehindHead ==
  \A body \in Bodies : \A z \in 1 .. Len(body) :
    body[z] = 0 => ~Scattered(4, body, z - 1)

(***************************************************************************)
(* What keeps a length of 0 from the parser.  Nothing in the code does:    *)
(* these are assumptions about the line and the host.                      *)
(***************************************************************************)
NoZeroLength == LengthSpared /\ 0 \notin NoiseBytes /\ NoZeroBehindHead

\* No body contains the four bytes of a head in a row.
NoHeadInside ==
  \A body \in Bodies : \A p \in 0 .. Len(body) - 4 :
    \E i \in 1 .. 4 : body[p + i] # CmdHead[i]

-----------------------------------------------------------------------------
(***************************************************************************)
(* CmdExec is called for nothing but the body of a complete frame, whose   *)
(* bytes have just arrived one after the other, whatever the line did      *)
(* before.                                                                 *)
(***************************************************************************)
CalledWhenFramed ==
  call # << >> =>
    LET frame == Frame(call[1])
    IN  \A i \in 1 .. Len(frame) : recent[i] = frame[Len(frame) + 1 - i]

(***************************************************************************)
(* The index runs up to the length by an equality test: while a body is    *)
(* collected the index is below the length and the length within the       *)
(* buffer, also when a command that broke off left them at any value.      *)
(* This needs NoZeroLength; a length of 0 that does arrive takes the index *)
(* to the end of the buffer and beyond.                                    *)
(***************************************************************************)
FillTerminates == state = DATA => curIndex < len /\ len <= BufLen

(***************************************************************************)
(* After a fault the parser finds its way back: it may swallow as many     *)
(* commands as BufLen + 1 bytes can touch, and no more, although it has no *)
(* timeout.                                                                *)
(***************************************************************************)
MinFrame == Len(CmdHead) + 2 + CMD_TYPE_LEN + Len(CmdTail)
LossBound == (BufLen + MinFrame) \div MinFrame
LossBounded ==
  missed <= IF faults = 0 THEN 0 ELSE LossBound
=============================================================================
