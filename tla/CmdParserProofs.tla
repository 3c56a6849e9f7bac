-------------------------- MODULE CmdParserProofs --------------------------
(***************************************************************************)
(* Proofs about CmdParser, for every buffer length, every set of bodies    *)
(* and any noise and number of faults.                                     *)
(***************************************************************************)
EXTENDS CmdParser, SequenceTheorems, TLAPS

\* TypeOK without a bound on the index, which a length of 0 would exceed.
ParserTypes ==
  /\ state \in HEAD0 .. TAIL3
  /\ curIndex \in Nat /\ len \in Nat
  /\ buf \in [0 .. BufLen - 1 -> Bytes]
  /\ recent \in [1 .. FrameMax -> Bytes]
  /\ todo \in Seq(Bytes)

(***************************************************************************)
(* The index and the length in each state.  A head empties the body, and   *)
(* the only length the index does not meet is 0.                           *)
(***************************************************************************)
IndexInv ==
  /\ state \in 1 .. LEN1 => curIndex = 0
  /\ state = LEN1 => len \in Bytes
  /\ state = DATA => len <= BufLen /\ (len = 0 \/ curIndex < len)
  /\ state >= TAIL0 => len > 0 /\ len <= BufLen

(***************************************************************************)
(* What a state stands for: the parser has seen the first Got bytes of a   *)
(* frame, whose p-th byte is Place(..., p), and they are the last it received.  *)
(***************************************************************************)
Got ==
  CASE state <= LEN1 -> state
    [] state = DATA  -> 6 + curIndex
    [] OTHER         -> 6 + len + (state - TAIL0)

Place(n, body, p) ==
  CASE p <= 4              -> CmdHead[p]
    [] p = 5               -> n
    [] p = 6               -> 0
    [] p > 6 /\ p <= 6 + n -> body[p - 7]
    [] OTHER               -> CmdTail[p - 6 - n]

Empty == state = DATA /\ len = 0

SeenInv == ~Empty => \A i \in 1 .. Got : recent[i] = Place(len, buf, Got + 1 - i)

IInv == ParserTypes /\ IndexInv /\ SeenInv /\ CalledWhenFramed

-----------------------------------------------------------------------------
LEMMA Constants ==
  /\ BufLen \in Nat /\ BufLen >= 2 /\ BufLen < 250 /\ BufLen <= 255
  /\ FrameMax \in Nat /\ FrameMax = BufLen + 10
  BY BodiesAssumption DEF CMD_TYPE_LEN, FrameMax, CmdHead

LEMMA HeadAndTail ==
  /\ CmdHead \in Seq(Bytes) /\ Len(CmdHead) = 4
  /\ CmdTail \in Seq(Bytes) /\ Len(CmdTail) = 4
  /\ \A p \in 1 .. 4 : CmdHead[p] \in Bytes /\ CmdTail[p] \in Bytes
<1>1. CmdHead \in Seq(Bytes) /\ Len(CmdHead) = 4 /\ CmdTail \in Seq(Bytes) /\ Len(CmdTail) = 4
  BY DEF CmdHead, CmdTail, Bytes
<1> QED
  BY <1>1, ElementOfSeq

\* The bytes of a frame, place by place.
LEMMA FrameFacts ==
  ASSUME NEW body \in Seq(Bytes), Len(body) <= BufLen
  PROVE  /\ Frame(body) \in Seq(Bytes) /\ Len(Frame(body)) = Len(body) + 10
         /\ \A p \in 1 .. Len(body) + 10 :
              Frame(body)[p] = CASE p <= 4       -> CmdHead[p]
                                 [] p = 5        -> Len(body)
                                 [] p = 6        -> 0
                                 [] p > 6 /\ p <= 6 + Len(body) -> body[p - 6]
                                 [] OTHER        -> CmdTail[p - 6 - Len(body)]
<1>0. Len(body) \in Nat
  BY LenProperties
<1>9. Len(body) \in Bytes
  <2>1. Len(body) \in 0 .. 255
    <3>1. \A n, m \in Nat : n <= m /\ m <= 255 => n \in 0 .. 255
      OBVIOUS
    <3> QED
      BY <1>0, <3>1, Constants
  <2> QED
    BY ONLY <2>1 DEF Bytes
<1> DEFINE n == Len(body)
           length == <<n, 0>>
           start == CmdHead \o length
           most == start \o body
           all == most \o CmdTail
<1>1. n \in Nat /\ n \in Bytes
  BY <1>0, <1>9
<1>2. length \in Seq(Bytes) /\ Len(length) = 2 /\ length[1] = n /\ length[2] = 0
  <2>1. \A m \in Bytes : /\ <<m, 0>> \in Seq(Bytes) /\ Len(<<m, 0>>) = 2
                         /\ <<m, 0>>[1] = m /\ <<m, 0>>[2] = 0
    BY DEF Bytes
  <2> QED
    BY ONLY <1>1, <2>1 DEF length
<1> HIDE DEF length
<1>3. /\ start \in Seq(Bytes) /\ Len(start) = 6
      /\ \A p \in 1 .. 6 : start[p] = IF p <= 4 THEN CmdHead[p] ELSE length[p - (4)]
  <2>0. CmdHead \in Seq(Bytes) /\ length \in Seq(Bytes)
    BY <1>2, HeadAndTail
  <2>1. /\ CmdHead \o length \in Seq(Bytes) /\ Len(CmdHead \o length) = Len(CmdHead) + Len(length)
        /\ \A p \in 1 .. Len(CmdHead) + Len(length) : (CmdHead \o length)[p] = IF p <= Len(CmdHead) THEN CmdHead[p] ELSE length[p - Len(CmdHead)]
    BY <2>0, ConcatProperties
  <2>2. Len(CmdHead) = 4 /\ Len(CmdHead) + Len(length) = 6
    BY <1>1, <1>2, HeadAndTail
  <2> QED
    BY <2>1, <2>2
<1> HIDE DEF start
<1>4. /\ most \in Seq(Bytes) /\ Len(most) = 6 + n
      /\ \A p \in 1 .. 6 + n : most[p] = IF p <= 6 THEN start[p] ELSE body[p - (6)]
  <2>0. start \in Seq(Bytes) /\ body \in Seq(Bytes)
    BY <1>3
  <2>1. /\ start \o body \in Seq(Bytes) /\ Len(start \o body) = Len(start) + Len(body)
        /\ \A p \in 1 .. Len(start) + Len(body) : (start \o body)[p] = IF p <= Len(start) THEN start[p] ELSE body[p - Len(start)]
    BY <2>0, ConcatProperties
  <2>2. Len(start) = 6 /\ Len(start) + Len(body) = 6 + n
    BY <1>1, <1>3
  <2> QED
    BY <2>1, <2>2
<1> HIDE DEF most
<1>5. /\ all \in Seq(Bytes) /\ Len(all) = 10 + n
      /\ \A p \in 1 .. 10 + n : all[p] = IF p <= 6 + n THEN most[p] ELSE CmdTail[p - (6 + n)]
  <2>0. most \in Seq(Bytes) /\ CmdTail \in Seq(Bytes)
    BY <1>4, HeadAndTail
  <2>1. /\ most \o CmdTail \in Seq(Bytes) /\ Len(most \o CmdTail) = Len(most) + Len(CmdTail)
        /\ \A p \in 1 .. Len(most) + Len(CmdTail) : (most \o CmdTail)[p] = IF p <= Len(most) THEN most[p] ELSE CmdTail[p - Len(most)]
    BY <2>0, ConcatProperties
  <2>2. Len(most) = 6 + n /\ Len(most) + Len(CmdTail) = 10 + n
    BY <1>1, <1>4, HeadAndTail
  <2> QED
    BY <2>1, <2>2
<1> HIDE DEF all
<1>6. Frame(body) = all
  BY DEF Frame, all, most, start, length
<1>7. ASSUME NEW p \in 1 .. n + 10
      PROVE  Frame(body)[p] = CASE p <= 4       -> CmdHead[p]
                                [] p = 5        -> n
                                [] p = 6        -> 0
                                [] p > 6 /\ p <= 6 + n -> body[p - 6]
                                [] OTHER        -> CmdTail[p - 6 - n]
  <2>1. p <= 6 => Frame(body)[p] = start[p]
    BY <1>1, <1>4, <1>5, <1>6
  <2>2. CASE p <= 4
    BY <1>1, <1>3, <2>1, <2>2
  <2>3. CASE p = 5
    BY <1>1, <1>2, <1>3, <2>1, <2>3
  <2>4. CASE p = 6
    BY <1>1, <1>2, <1>3, <2>1, <2>4
  <2>5. CASE p > 6 /\ p <= 6 + n
    BY <1>1, <1>4, <1>5, <1>6, <2>5
  <2>6. CASE p > 6 + n
    BY <1>1, <1>5, <1>6, <2>6
  <2> QED
    BY <1>1, <2>2, <2>3, <2>4, <2>5, <2>6
<1> QED
  BY <1>1, <1>5, <1>6, <1>7

-----------------------------------------------------------------------------
(***************************************************************************)
(* One byte.                                                               *)
(***************************************************************************)
Shifted(b) == recent' = [i \in 1 .. FrameMax |-> IF i = 1 THEN b ELSE recent[i - 1]]

\* A byte that is the next of the frame keeps the parser in step.
LEMMA SeenGrows ==
  ASSUME ParserTypes, SeenInv, ~Empty, NEW b \in Bytes, Shifted(b), NEW g \in Nat, Got = g, g < FrameMax,
         \A p \in 1 .. g : Place(len', buf', p) = Place(len, buf, p),
         Place(len', buf', g + 1) = b
  PROVE  \A i \in 1 .. g + 1 : recent'[i] = Place(len', buf', g + 1 + 1 - i)
<1> SUFFICES ASSUME NEW i \in 1 .. g + 1 PROVE recent'[i] = Place(len', buf', g + 1 + 1 - i)
  OBVIOUS
<1>1. i \in 1 .. FrameMax
  BY Constants
<1>2. recent'[i] = IF i = 1 THEN b ELSE recent[i - 1]
  BY <1>1 DEF Shifted
<1>3. CASE i = 1
  <2>1. g + 1 + 1 - i = g + 1
    BY <1>3
  <2> QED
    BY <1>2, <1>3, <2>1
<1>4. CASE i > 1
  <2>1. i - 1 \in 1 .. g /\ g + 2 - i \in 1 .. g /\ g + 1 + 1 - i = g + 2 - i /\ g + 1 - (i - 1) = g + 2 - i
    BY <1>4
  <2>2. recent[i - 1] = Place(len, buf, g + 2 - i)
    BY <2>1 DEF SeenInv
  <2> QED
    BY <1>2, <1>4, <2>1, <2>2
<1> QED
  BY <1>3, <1>4

(***************************************************************************)
(* Every byte keeps the types, and where it leads.                         *)
(***************************************************************************)
LEMMA ByteTypes ==
  ASSUME ParserTypes, NEW b \in Bytes, CmdProcess(b)
  PROVE  /\ Shifted(b) /\ recent' \in [1 .. FrameMax -> Bytes]
         /\ state' \in HEAD0 .. TAIL3
         /\ curIndex' \in Nat /\ len' \in Nat
         /\ buf' \in [0 .. BufLen - 1 -> Bytes]
<1> USE Constants DEF ParserTypes, CmdProcess, HEAD0, LEN0, LEN1, DATA, TAIL0, TAIL3
<1>1. Shifted(b) /\ recent' \in [1 .. FrameMax -> Bytes]
  <2>1. Shifted(b)
    BY DEF Shifted
  <2>2. \A i \in 1 .. FrameMax : i # 1 => recent[i - 1] \in Bytes
    OBVIOUS
  <2> QED
    BY <2>1, <2>2 DEF Shifted
<1>2. b \in Nat
  BY DEF Bytes
<1>3. CASE ParseHead(b)
  BY <1>1, <1>3 DEF ParseHead, HeadSeen
<1>4. CASE ParseLen0(b)
  BY <1>1, <1>2, <1>4 DEF ParseLen0
<1>5. CASE ParseLen1(b)
  BY <1>1, <1>2, <1>5 DEF ParseLen1
<1>6. CASE ParseData(b)
  <2>1. [buf EXCEPT ![curIndex] = b] \in [0 .. BufLen - 1 -> Bytes]
    OBVIOUS
  <2>2. buf' \in [0 .. BufLen - 1 -> Bytes] /\ UNCHANGED len
    BY <1>6, <2>1 DEF ParseData
  <2>3. state' \in HEAD0 .. TAIL3 /\ curIndex' \in Nat
    BY <1>6 DEF ParseData
  <2> QED
    BY <1>1, <2>2, <2>3
<1>7. CASE ParseTail(b)
  BY <1>1, <1>7 DEF ParseTail, TailDone
<1> QED
  BY <1>3, <1>4, <1>5, <1>6, <1>7

LEMMA ByteIndex ==
  ASSUME ParserTypes, IndexInv, NEW b \in Bytes, CmdProcess(b)
  PROVE  IndexInv'
<1> USE Constants DEF ParserTypes, IndexInv, HEAD0, LEN0, LEN1, DATA, TAIL0, TAIL3
<1>2. b \in Nat
  BY DEF Bytes
<1>3. CASE ParseHead(b)
  BY <1>3 DEF ParseHead, HeadSeen
<1>4. CASE ParseLen0(b)
  BY <1>4 DEF ParseLen0
<1>5. CASE ParseLen1(b)
  BY <1>2, <1>5 DEF ParseLen1, LenFits
<1>6. CASE ParseData(b)
  BY <1>6 DEF ParseData
<1>7. CASE ParseTail(b)
  BY <1>7 DEF ParseTail, TailDone
<1> QED
  BY <1>3, <1>4, <1>5, <1>6, <1>7 DEF CmdProcess

LEMMA ByteSeen ==
  ASSUME ParserTypes, IndexInv, SeenInv, NEW b \in Bytes, CmdProcess(b)
  PROVE  SeenInv'
<1> USE Constants DEF HEAD0, LEN0, LEN1, DATA, TAIL0, TAIL3
<1>1. SUFFICES ASSUME ~Empty' PROVE (\A i \in 1 .. Got : recent[i] = Place(len, buf, Got + 1 - i))'
  BY DEF SeenInv
<1>2. Shifted(b) /\ state' \in 0 .. 10 /\ state \in 0 .. 10 /\ len \in Nat /\ curIndex \in Nat
  BY ByteTypes DEF ParserTypes
<1>3. b \in Nat /\ b <= 255
  BY DEF Bytes
<1>4. CASE state' = 0
  BY <1>4 DEF Got
<1>5. ASSUME state' # 0, ~Empty, NEW g \in Nat, Got = g, g < FrameMax, Got' = g + 1,
             \A p \in 1 .. g : Place(len', buf', p) = Place(len, buf, p),
             Place(len', buf', g + 1) = b
      PROVE  (\A i \in 1 .. Got : recent[i] = Place(len, buf, Got + 1 - i))'
  BY <1>2, <1>5, SeenGrows
<1>6. CASE ParseHead(b) /\ state' # 0
  <2>1. Got = state /\ Got' = state + 1 /\ state \in 0 .. 3 /\ b = CmdHead[state + 1]
    BY <1>2, <1>6 DEF ParseHead, Got
  <2>2. \A p \in 1 .. state + 1 : Place(len', buf', p) = CmdHead[p] /\ Place(len, buf, p) = CmdHead[p]
    <3>1. \A p \in 1 .. state + 1 : p <= 4
      BY ONLY <2>1
    <3> QED
      BY ONLY <3>1, SMTT(30) DEF Place
  <2>3. ~Empty
    BY <2>1 DEF Empty
  <2> QED
    BY <1>5, <1>6, <2>1, <2>2, <2>3
<1>7. CASE ParseLen0(b)
  <2>1. Got = 4 /\ Got' = 5 /\ state' # 0 /\ ~Empty /\ len' = b
    BY <1>7 DEF ParseLen0, Got, Empty
  <2>2. \A p \in 1 .. 4 : Place(len', buf', p) = Place(len, buf, p)
    BY DEF Place
  <2>3. Place(len', buf', 5) = b
    BY <2>1 DEF Place
  <2> QED
    BY <1>5, <2>1, <2>2, <2>3
<1>8. CASE ParseLen1(b) /\ state' # 0
  <2>1. state = 5 /\ state' = 6 /\ curIndex = 0 /\ curIndex' = 0 /\ len \in Bytes
    BY <1>8 DEF ParseLen1, IndexInv
  <2>2. b = 0 /\ len' = len
    BY <1>2, <1>3, <1>8, <2>1 DEF ParseLen1, LenFits, Bytes
  <2>3. Got = 5 /\ Got' = 6 /\ ~Empty
    BY <2>1 DEF Got, Empty
  <2>4. \A p \in 1 .. 5 : Place(len', buf', p) = Place(len, buf, p)
    BY <2>2 DEF Place
  <2>5. Place(len', buf', 6) = b
    BY <2>2 DEF Place
  <2> QED
    BY <1>5, <2>1, <2>3, <2>4, <2>5
<1>9. CASE ParseData(b)
  <2>1. /\ state = 6 /\ state' \in {6, 7} /\ len' = len /\ curIndex' = curIndex + 1
        /\ buf' = [buf EXCEPT ![curIndex] = b] /\ (state' = 7 <=> curIndex' = len)
    BY <1>2, <1>9 DEF ParseData
  <2>2. ~Empty /\ curIndex < len /\ len <= BufLen
    <3>1. CASE len = 0
      <4>1. state' = 6
        BY <1>2, <2>1, <3>1
      <4> QED
        BY <1>1, <2>1, <3>1, <4>1 DEF Empty
    <3>2. CASE len # 0
      BY <2>1, <3>2 DEF IndexInv, Empty
    <3> QED
      BY <3>1, <3>2
  <2>3. Got = 6 + curIndex /\ Got' = 6 + curIndex + 1
    <3>1. CASE state' = 6
      BY <1>2, <2>1, <3>1 DEF Got
    <3>2. CASE state' = 7
      BY <1>2, <2>1, <3>2 DEF Got
    <3> QED
      BY <2>1, <3>1, <3>2
  <2>4. \A p \in 1 .. 6 + curIndex : Place(len', buf', p) = Place(len, buf, p)
    <3> SUFFICES ASSUME NEW p \in 1 .. 6 + curIndex PROVE Place(len', buf', p) = Place(len, buf, p)
      OBVIOUS
    <3>1. CASE p <= 6
      BY <2>1, <3>1 DEF Place
    <3>2. CASE p > 6
      <4>1. p - 7 \in 0 .. BufLen - 1 /\ p - 7 # curIndex
        BY <1>2, <2>2, <3>2
      <4>2. buf'[p - 7] = buf[p - 7]
        BY <2>1, <4>1 DEF ParserTypes
      <4> QED
        BY <1>2, <2>1, <2>2, <3>2, <4>2 DEF Place
    <3> QED
      BY <1>2, <3>1, <3>2
  <2>5. Place(len', buf', 6 + curIndex + 1) = b
    <3>1. buf'[curIndex] = b
      BY <1>2, <2>1, <2>2 DEF ParserTypes
    <3>2. 6 + curIndex + 1 > 6 /\ 6 + curIndex + 1 <= 6 + len' /\ 6 + curIndex + 1 - 7 = curIndex
      BY <1>2, <2>1, <2>2
    <3>3. Place(len', buf', 6 + curIndex + 1) = buf'[6 + curIndex + 1 - 7]
      BY <1>2, <3>2 DEF Place
    <3> QED
      BY <3>1, <3>2, <3>3
  <2>6. 6 + curIndex \in Nat /\ 6 + curIndex < FrameMax /\ state' # 0
    BY <1>2, <2>1, <2>2
  <2> QED
    BY <1>5, <2>2, <2>3, <2>4, <2>5, <2>6
<1>10. CASE ParseTail(b) /\ state' # 0
  <2>1. /\ state \in 7 .. 9 /\ state' = state + 1 /\ len' = len /\ buf' = buf /\ len <= BufLen
        /\ b = CmdTail[state - 7 + 1]
    BY <1>2, <1>10 DEF ParseTail, TailDone, TailMatches, IndexInv
  <2>2. Got = 6 + len + (state - 7) /\ Got' = 6 + len + (state - 7) + 1 /\ ~Empty
    BY <1>2, <2>1 DEF Got, Empty
  <2>3. \A p : Place(len', buf', p) = Place(len, buf, p)
    BY <2>1
  <2>4. Place(len', buf', 6 + len + (state - 7) + 1) = b
    <3>1. 6 + len + (state - 7) + 1 - 6 - len = state - 7 + 1
      BY <1>2, <2>1
    <3>2. Place(len, buf, 6 + len + (state - 7) + 1) = CmdTail[6 + len + (state - 7) + 1 - 6 - len]
      BY <1>2, <2>1 DEF Place
    <3> QED
      BY <2>1, <3>1, <3>2
  <2>5. 6 + len + (state - 7) \in Nat /\ 6 + len + (state - 7) < FrameMax
    BY <1>2, <2>1
  <2> QED
    BY <1>5, <1>10, <2>2, <2>3, <2>4, <2>5
<1> QED
  BY <1>4, <1>6, <1>7, <1>8, <1>9, <1>10 DEF CmdProcess

\* The body the parser hands over is the middle of the frame it has seen.
LEMMA BodyFacts ==
  ASSUME ParserTypes, len <= BufLen
  PROVE  /\ Body \in Seq(Bytes) /\ Len(Body) = len
         /\ \A p \in 1 .. len + 10 : Frame(Body)[p] = Place(len, buf, p)
<1>1. len \in Nat /\ BufLen \in Nat
  BY Constants DEF ParserTypes
<1>2. \A i \in 1 .. len : buf[i - 1] \in Bytes
  BY <1>1 DEF ParserTypes
<1>3. Body \in Seq(Bytes) /\ Len(Body) = len /\ \A i \in 1 .. len : Body[i] = buf[i - 1]
  BY <1>1, <1>2 DEF Body
<1>4. ASSUME NEW p \in 1 .. len + 10 PROVE Frame(Body)[p] = Place(len, buf, p)
  <2>1. Frame(Body)[p] = CASE p <= 4       -> CmdHead[p]
                           [] p = 5        -> len
                           [] p = 6        -> 0
                           [] p > 6 /\ p <= 6 + len -> Body[p - 6]
                           [] OTHER        -> CmdTail[p - 6 - len]
    <3>1. Body \in Seq(Bytes) /\ Len(Body) <= BufLen /\ p \in 1 .. Len(Body) + 10
      BY <1>3
    <3>2. Frame(Body)[p] = CASE p <= 4       -> CmdHead[p]
                             [] p = 5        -> Len(Body)
                             [] p = 6        -> 0
                             [] p > 6 /\ p <= 6 + Len(Body) -> Body[p - 6]
                             [] OTHER        -> CmdTail[p - 6 - Len(Body)]
      BY ONLY <3>1, FrameFacts
    <3> QED
      BY ONLY <1>3, <3>2
  <2>2. CASE p > 6 /\ p <= 6 + len
    <3>1. Body[p - 6] = buf[p - 7]
      BY <1>1, <1>3, <2>2
    <3> QED
      BY <1>1, <2>1, <2>2, <3>1 DEF Place
  <2>3. CASE ~(p > 6 /\ p <= 6 + len)
    BY <1>1, <2>1, <2>3 DEF Place
  <2> QED
    BY <2>2, <2>3
<1> QED
  BY <1>3, <1>4

LEMMA ByteCalled ==
  ASSUME ParserTypes, IndexInv, SeenInv, NEW b \in Bytes, CmdProcess(b)
  PROVE  CalledWhenFramed'
<1> USE Constants DEF HEAD0, LEN0, LEN1, DATA, TAIL0, TAIL3
<1> SUFFICES ASSUME call' # << >> PROVE CalledWhenFramed'
  BY DEF CalledWhenFramed
<1>1. /\ ParseTail(b) /\ state = 10 /\ b = CmdTail[4] /\ call' = <<Body>>
      /\ len' = len /\ buf' = buf
  BY DEF CmdProcess, ParseHead, ParseLen0, ParseLen1, ParseData, ParseTail, TailMatches
<1>2. len \in Nat /\ len <= BufLen
  BY <1>1 DEF ParserTypes, IndexInv
<1>3. Got = len + 9 /\ ~Empty /\ len + 9 \in Nat /\ len + 9 < FrameMax
  BY <1>1, <1>2 DEF Got, Empty
<1>4. Place(len', buf', len + 9 + 1) = b
  <2>1. len + 9 + 1 - 6 - len = 4
    BY <1>2
  <2> QED
    BY <1>1, <1>2, <2>1 DEF Place
<1>5. \A i \in 1 .. len + 9 + 1 : recent'[i] = Place(len', buf', len + 9 + 1 + 1 - i)
  BY <1>1, <1>3, <1>4, ByteTypes, SeenGrows
<1>6. /\ Body \in Seq(Bytes) /\ Len(Body) = len
      /\ \A p \in 1 .. len + 10 : Frame(Body)[p] = Place(len, buf, p)
  BY <1>2, BodyFacts
<1>7. Len(Frame(Body)) = len + 10
  BY <1>2, <1>6, FrameFacts
<1>8. ASSUME NEW i \in 1 .. Len(Frame(Body))
      PROVE  recent'[i] = Frame(Body)[Len(Frame(Body)) + 1 - i]
  <2>1. i \in 1 .. len + 9 + 1 /\ len + 10 + 1 - i \in 1 .. len + 10 /\ len + 9 + 1 + 1 - i = len + 10 + 1 - i
    BY <1>2, <1>7
  <2> QED
    BY <1>1, <1>5, <1>6, <1>7, <2>1
<1>9. call'[1] = Body
  BY <1>1
<1> QED
  BY <1>8, <1>9 DEF CalledWhenFramed

-----------------------------------------------------------------------------
(***************************************************************************)
(* The invariant.                                                          *)
(***************************************************************************)
LEMMA InitInv ==
  ASSUME Init
  PROVE  IInv
<1> USE Constants DEF Init, HEAD0, LEN0, LEN1, DATA, TAIL0, TAIL3
<1>1. ParserTypes
  BY DEF ParserTypes, Bytes
<1>2. IndexInv /\ CalledWhenFramed
  BY DEF IndexInv, CalledWhenFramed
<1>3. SeenInv
  BY DEF SeenInv, Got
<1> QED
  BY <1>1, <1>2, <1>3 DEF IInv

LEMMA ByteInv ==
  ASSUME IInv, NEW b \in Bytes, CmdProcess(b), todo' \in Seq(Bytes)
  PROVE  IInv'
<1>1. ParserTypes'
  BY ByteTypes DEF IInv, ParserTypes
<1> QED
  BY <1>1, ByteIndex, ByteSeen, ByteCalled DEF IInv

\* Steps that bring no byte.
LEMMA QuietInv ==
  ASSUME IInv, UNCHANGED <<parserVars, recent>>, todo' \in Seq(Bytes)
  PROVE  IInv'
<1>1. UNCHANGED <<state, curIndex, len, buf, call, recent>>
  BY DEF parserVars
<1>2. ParserTypes' /\ IndexInv'
  BY <1>1 DEF IInv, ParserTypes, IndexInv
<1>3. SeenInv' /\ CalledWhenFramed'
  BY <1>1 DEF IInv, SeenInv, Got, Empty, CalledWhenFramed
<1> QED
  BY <1>2, <1>3 DEF IInv

LEMMA NextInv == ASSUME IInv, [Next]_vars PROVE IInv'
<1>1. todo \in Seq(Bytes)
  BY DEF IInv, ParserTypes
<1>2. ASSUME NEW body \in Bodies, HostBegin(body) PROVE IInv'
  <2>1. body \in Seq(Bytes) /\ Len(body) <= BufLen
    BY BodiesAssumption, Constants DEF CMD_TYPE_LEN
  <2>2. todo' \in Seq(Bytes)
    BY <1>2, <2>1, FrameFacts DEF HostBegin
  <2> QED
    BY <1>2, <2>2, QuietInv DEF HostBegin
<1>3. CASE HostByte
  <2>1. todo # << >> /\ CmdProcess(Head(todo)) /\ todo' = Tail(todo)
    BY <1>3 DEF HostByte
  <2>2. Head(todo) \in Bytes /\ Tail(todo) \in Seq(Bytes)
    BY <1>1, <2>1, HeadTailProperties
  <2> QED
    BY <2>1, <2>2, ByteInv
<1>4. CASE HostStops
  BY <1>4, QuietInv DEF HostStops
<1>5. CASE LoseByte
  <2>1. todo # << >> /\ todo' = Tail(todo)
    BY <1>5 DEF LoseByte
  <2>2. todo' \in Seq(Bytes)
    BY <1>1, <2>1, HeadTailProperties
  <2> QED
    BY <1>5, <2>2, QuietInv DEF LoseByte
<1>6. ASSUME NEW b \in NoiseBytes, Noise(b) PROVE IInv'
  <2>1. b \in Bytes
    BY LineAssumption
  <2> QED
    BY <1>1, <1>6, <2>1, ByteInv DEF Noise
<1>7. CASE UNCHANGED vars
  BY <1>1, <1>7, QuietInv DEF vars
<1> QED
  BY <1>2, <1>3, <1>4, <1>5, <1>6, <1>7 DEF Next

LEMMA Invariance == Spec => []IInv
<1>1. Init => IInv
  BY InitInv
<1>2. IInv /\ [Next]_vars => IInv'
  BY NextInv
<1> QED
  BY <1>1, <1>2, PTL DEF Spec

(***************************************************************************)
(* Whatever the line lost, added or broke off, CmdExec is called for the   *)
(* body of a whole frame only, whose bytes have just arrived one after the *)
(* other.                                                                  *)
(***************************************************************************)
THEOREM WholeCommandsOnly == Spec => []CalledWhenFramed
<1>1. IInv => CalledWhenFramed
  BY DEF IInv
<1> QED
  BY <1>1, Invariance, PTL

(***************************************************************************)
(* The index meets the length before it leaves the buffer, for any body,   *)
(* any noise and any loss, unless the length read from the line is 0.      *)
(***************************************************************************)
FillsUnlessEmpty == len # 0 => FillTerminates

THEOREM IndexMeetsLength == Spec => []FillsUnlessEmpty
<1>1. IInv => FillsUnlessEmpty
  BY DEF IInv, IndexInv, FillsUnlessEmpty, FillTerminates
<1> QED
  BY <1>1, Invariance, PTL
-----------------------------------------------------------------------------
(***************************************************************************)
(* The bytes of the command on the line that are gone, received or lost,   *)
(* and that the others are what remains of its frame.                      *)
(***************************************************************************)
Gone == IF todo = << >> THEN 0 ELSE Len(current) + 10 - Len(todo)

HostTypes ==
  /\ call \in Seq(Seq(Bytes)) /\ Len(call) <= 1
  /\ current \in Bodies \cup {<< >>}
  /\ intact \in BOOLEAN
  /\ frames \in 0 .. MaxFrames /\ faults \in 0 .. MaxFaults
  /\ missed \in Nat

RestInv ==
  todo # << >> =>
    /\ current \in Bodies /\ Len(todo) <= Len(current) + 10
    /\ \A i \in 1 .. Len(todo) : todo[i] = Frame(current)[Gone + i]

\* What looks like a head, or a part of one, inside a command lies in its body.
LengthInv ==
  /\ todo # << >> /\ Gone >= 5 /\ state \in 1 .. LEN0 => Scattered(state, current, Gone - 6)
  /\ state >= LEN1 => len # 0

(***************************************************************************)
(* Where the parser may be while an intact command arrives or the line is  *)
(* quiet.  Either it is in step, at the very byte the host is at, or it is *)
(* on its way back: it takes the commands for a body (Swallowing) or for   *)
(* the tail of one (Closing), looks for a head in the middle of a command  *)
(* (Searching), or has seen a part of a head or of a length that a fault   *)
(* left behind (Misled).  In each of them the commands missed so far fit   *)
(* into the body it has swallowed.                                         *)
(***************************************************************************)
InStep ==
  /\ Gone <= 6 => state = Gone
  /\ Gone > 4 => len = Len(current)
  /\ Gone > 6 /\ Gone < 6 + len => state = DATA
  /\ Gone >= 6 + len => state = TAIL0 + (Gone - 6 - len)
  /\ Gone >= 6 => /\ curIndex = IF Gone < 6 + len THEN Gone - 6 ELSE len
                  /\ \A i \in 1 .. curIndex : buf[i - 1] = current[i]

Swallowing == state = DATA /\ 12 * missed + Gone <= curIndex

Closing == state >= TAIL0 /\ 12 * missed <= BufLen

Searching ==
  /\ state < LEN0 /\ state < Gone
  /\ 12 * missed <= BufLen
  /\ \A i \in 1 .. state : Frame(current)[Gone + 1 - i] = CmdHead[state + 1 - i]

Misled ==
  /\ 12 * missed <= BufLen
  /\ \/ Gone = 0 /\ state \in 1 .. LEN1
     \/ Gone = 1 /\ state = LEN1 /\ len = CmdHead[1]

StepInv ==
  /\ faults = 0 => intact /\ InStep /\ missed = 0
  /\ ~intact => missed = 0
  /\ 12 * missed <= BufLen + 12
  /\ intact \/ todo = << >> => InStep \/ Swallowing \/ Closing \/ Searching \/ Misled

FillInv == IInv /\ HostTypes /\ RestInv /\ LengthInv /\ curIndex <= BufLen

-----------------------------------------------------------------------------
(***************************************************************************)
(* The bytes of a command and those that remain of it.                     *)
(***************************************************************************)
LEMMA HeadBytes ==
  /\ CmdHead[1] = 253 /\ CmdHead[2] = 252 /\ CmdHead[3] = 251 /\ CmdHead[4] = 250
  /\ CmdTail[1] = 4 /\ CmdTail[2] = 3 /\ CmdTail[3] = 2 /\ CmdTail[4] = 1
  BY DEF CmdHead, CmdTail

LEMMA FrameBytes ==
  ASSUME NEW body \in Bodies
  PROVE  /\ body \in Seq(Bytes) /\ Len(body) \in Nat /\ Len(body) >= 2 /\ Len(body) <= BufLen
         /\ Frame(body) \in Seq(Bytes) /\ Len(Frame(body)) = Len(body) + 10
         /\ Frame(body)[1] = 253 /\ Frame(body)[2] = 252 /\ Frame(body)[3] = 251
         /\ Frame(body)[4] = 250 /\ Frame(body)[5] = Len(body) /\ Frame(body)[6] = 0
         /\ \A p \in 7 .. Len(body) + 6 : Frame(body)[p] = body[p - 6]
         /\ Frame(body)[Len(body) + 7] = 4 /\ Frame(body)[Len(body) + 8] = 3
         /\ Frame(body)[Len(body) + 9] = 2 /\ Frame(body)[Len(body) + 10] = 1
<1> DEFINE n == Len(body)
<1>1. body \in Seq(Bytes) /\ n \in Nat /\ n >= 2 /\ n <= BufLen
  BY BodiesAssumption, Constants DEF CMD_TYPE_LEN
<1>2. /\ Frame(body) \in Seq(Bytes) /\ Len(Frame(body)) = n + 10
      /\ \A p \in 1 .. n + 10 :
           Frame(body)[p] = CASE p <= 4       -> CmdHead[p]
                              [] p = 5        -> n
                              [] p = 6        -> 0
                              [] p > 6 /\ p <= 6 + n -> body[p - 6]
                              [] OTHER        -> CmdTail[p - 6 - n]
  BY <1>1, FrameFacts
<1> HIDE DEF n
<1>3. /\ Frame(body)[1] = 253 /\ Frame(body)[2] = 252 /\ Frame(body)[3] = 251
      /\ Frame(body)[4] = 250 /\ Frame(body)[5] = n /\ Frame(body)[6] = 0
  <2>1. /\ Frame(body)[1] = CmdHead[1] /\ Frame(body)[2] = CmdHead[2]
        /\ Frame(body)[3] = CmdHead[3] /\ Frame(body)[4] = CmdHead[4]
    <3>1. 1 \in 1 .. n + 10 /\ 2 \in 1 .. n + 10 /\ 3 \in 1 .. n + 10 /\ 4 \in 1 .. n + 10
      BY <1>1
    <3> QED
      BY <1>2, <3>1
  <2>2. Frame(body)[5] = n /\ Frame(body)[6] = 0
    <3>1. 5 \in 1 .. n + 10 /\ 6 \in 1 .. n + 10
      BY <1>1
    <3> QED
      BY <1>2, <3>1
  <2> QED
    BY <2>1, <2>2, HeadBytes
<1>4. \A p \in 7 .. n + 6 : Frame(body)[p] = body[p - 6]
  <2> TAKE p \in 7 .. n + 6
  <2>1. p \in 1 .. n + 10 /\ ~(p <= 4) /\ p # 5 /\ p # 6 /\ p > 6 /\ p <= 6 + n
    BY <1>1
  <2> QED
    BY <1>2, <2>1
<1>5. /\ Frame(body)[n + 7] = CmdTail[1] /\ Frame(body)[n + 8] = CmdTail[2]
      /\ Frame(body)[n + 9] = CmdTail[3] /\ Frame(body)[n + 10] = CmdTail[4]
  <2>1. \A k \in 1 .. 4 : Frame(body)[n + 6 + k] = CmdTail[k]
    <3> TAKE k \in 1 .. 4
    <3>1. n + 6 + k \in 1 .. n + 10 /\ n + 6 + k > 6 + n /\ (n + 6 + k) - 6 - n = k
          /\ ~(n + 6 + k <= 4) /\ n + 6 + k # 5 /\ n + 6 + k # 6 /\ ~(n + 6 + k <= 6 + n)
      BY <1>1
    <3>2. Frame(body)[n + 6 + k] = CmdTail[(n + 6 + k) - 6 - n]
      BY ONLY <1>2, <3>1
    <3> QED
      BY ONLY <3>1, <3>2
  <2>2. n + 6 + 1 = n + 7 /\ n + 6 + 2 = n + 8 /\ n + 6 + 3 = n + 9 /\ n + 6 + 4 = n + 10
    BY <1>1
  <2> QED
    BY <2>1, <2>2
<1> QED
  BY <1>1, <1>2, <1>3, <1>4, <1>5, HeadBytes DEF n

\* The first byte of what remains goes.
LEMMA RestShrinks ==
  ASSUME RestInv, todo \in Seq(Bytes), todo # << >>, todo' = Tail(todo), UNCHANGED current
  PROVE  /\ Gone \in 0 .. Len(current) + 9
         /\ Head(todo) = todo[1] /\ Head(todo) = Frame(current)[Gone + 1]
         /\ Head(todo) \in Bytes /\ todo' \in Seq(Bytes)
         /\ todo' = << >> <=> Gone = Len(current) + 9
         /\ Gone' = IF todo' = << >> THEN 0 ELSE Gone + 1
         /\ \A i \in 1 .. Len(todo') : todo'[i] = todo[i + 1]
         /\ RestInv'
<1> DEFINE n == Len(current)
<1>1. current \in Bodies /\ n \in Nat /\ Len(todo) <= n + 10 /\ Gone = n + 10 - Len(todo)
  BY FrameBytes DEF RestInv, Gone
<1>2. /\ todo' \in Seq(Bytes) /\ Len(todo') = Len(todo) - 1 /\ Len(todo) \in Nat /\ Len(todo) > 0
      /\ Head(todo) = todo[1] /\ todo[1] \in Bytes
      /\ \A i \in 1 .. Len(todo) - 1 : todo'[i] = todo[i + 1]
      /\ todo' = << >> <=> Len(todo') = 0
  <2>1. /\ Tail(todo) \in Seq(Bytes) /\ Len(Tail(todo)) = Len(todo) - 1 /\ Len(todo) \in Nat
        /\ Len(todo) > 0 /\ Head(todo) = todo[1] /\ todo[1] \in Bytes
        /\ \A i \in 1 .. Len(todo) - 1 : Tail(todo)[i] = todo[i + 1]
    OBVIOUS
  <2>2. Tail(todo) = << >> <=> Len(Tail(todo)) = 0
    BY <2>1, EmptySeq
  <2> QED
    BY <2>1, <2>2
<1>3. Gone' = IF todo' = << >> THEN 0 ELSE n + 10 - Len(todo')
  BY DEF Gone
<1> HIDE DEF n
<1>4. Gone \in 0 .. n + 9 /\ (todo' = << >> <=> Gone = n + 9) /\ Gone' = IF todo' = << >> THEN 0 ELSE Gone + 1
  BY <1>1, <1>2, <1>3
<1>5. \A i \in 1 .. Len(todo) : todo[i] = Frame(current)[Gone + i]
  BY DEF RestInv
<1>6. todo[1] = Frame(current)[Gone + 1]
  BY <1>2, <1>5
<1>7. RestInv'
  <2>1. SUFFICES ASSUME todo' # << >>
                 PROVE  /\ Len(todo') <= n + 10
                        /\ \A i \in 1 .. Len(todo') : todo'[i] = Frame(current)[Gone' + i]
    BY <1>1 DEF RestInv, n
  <2>2. ASSUME NEW i \in 1 .. Len(todo') PROVE todo'[i] = Frame(current)[Gone' + i]
    <3>1. i + 1 \in 1 .. Len(todo) /\ i \in 1 .. Len(todo) - 1 /\ Gone + (i + 1) = Gone' + i
      BY <1>1, <1>2, <1>4, <2>1
    <3> QED
      BY <1>2, <1>5, <3>1
  <2> QED
    BY <1>1, <1>2, <2>2
<1> QED
  BY <1>2, <1>4, <1>6, <1>7 DEF n

LEMMA RestBegins ==
  ASSUME NEW body \in Bodies, HostBegin(body)
  PROVE  RestInv' /\ Gone = 0 /\ Gone' = 0 /\ todo' # << >> /\ todo' \in Seq(Bytes)
<1>1. todo = << >> /\ todo' = Frame(body) /\ current' = body
  BY DEF HostBegin
<1>2. /\ Len(body) \in Nat /\ Frame(body) \in Seq(Bytes) /\ Len(Frame(body)) = Len(body) + 10
      /\ Frame(body) # << >>
  <2>1. Len(body) \in Nat /\ Frame(body) \in Seq(Bytes) /\ Len(Frame(body)) = Len(body) + 10
    BY FrameBytes
  <2> QED
    BY <2>1, EmptySeq
<1>3. Gone' = 0
  BY <1>1, <1>2 DEF Gone
<1>4. \A i \in 1 .. Len(Frame(body)) : 0 + i = i
  BY <1>2
<1> QED
  BY <1>1, <1>2, <1>3, <1>4 DEF RestInv, Gone

-----------------------------------------------------------------------------
(***************************************************************************)
(* No length of 0 is received.                                             *)
(***************************************************************************)

LEMMA ScatteredNone ==
  ASSUME NEW body, NEW g
  PROVE  Scattered(0, body, g)
<1> DEFINE place == [i \in 1 .. 0 |-> 1]
<1>1. place \in [1 .. 0 -> 1 .. Len(body)] /\ \A i \in 1 .. 0 : FALSE
  OBVIOUS
<1> HIDE DEF place
<1> QED
  BY <1>1 DEF Scattered

LEMMA ScatteredStays ==
  ASSUME NEW body \in Seq(Bytes), NEW k \in Nat, NEW g \in Int, NEW h \in Int, g <= h,
         Scattered(k, body, g)
  PROVE  Scattered(k, body, h)
<1>1. PICK place \in [1 .. k -> 1 .. Len(body)] :
        /\ \A i \in 1 .. k : place[i] <= g /\ body[place[i]] = CmdHead[i]
        /\ \A i, j \in 1 .. k : i < j => place[i] < place[j]
  BY DEF Scattered
<1>2. \A i \in 1 .. k : place[i] <= h
  <2> TAKE i \in 1 .. k
  <2>1. place[i] \in 1 .. Len(body) /\ Len(body) \in Nat
    BY LenProperties
  <2> QED
    BY <1>1, <2>1
<1> QED
  BY <1>1, <1>2 DEF Scattered

\* The next byte of a head comes behind those before it.
LEMMA ScatteredOn ==
  ASSUME NEW body \in Seq(Bytes), NEW k \in Nat, NEW z \in 1 .. Len(body),
         Scattered(k, body, z - 1), body[z] = CmdHead[k + 1]
  PROVE  Scattered(k + 1, body, z)
<1>1. PICK place \in [1 .. k -> 1 .. Len(body)] :
        /\ \A i \in 1 .. k : place[i] <= z - 1 /\ body[place[i]] = CmdHead[i]
        /\ \A i, j \in 1 .. k : i < j => place[i] < place[j]
  BY DEF Scattered
<1> DEFINE longer == [i \in 1 .. k + 1 |-> IF i = k + 1 THEN z ELSE place[i]]
<1>2. \A i \in 1 .. k + 1 : i \in 1 .. k \/ i = k + 1
  OBVIOUS
<1>3. longer \in [1 .. k + 1 -> 1 .. Len(body)]
  BY <1>2
<1>4. longer[k + 1] = z /\ \A i \in 1 .. k : longer[i] = place[i] /\ place[i] \in 1 .. Len(body)
  OBVIOUS
<1>5. Len(body) \in Nat
  BY LenProperties
<1> HIDE DEF longer
<1>6. ASSUME NEW i \in 1 .. k + 1 PROVE longer[i] <= z /\ body[longer[i]] = CmdHead[i]
  <2>1. CASE i = k + 1
    BY <1>4, <2>1
  <2>2. CASE i \in 1 .. k
    <3>1. longer[i] = place[i] /\ place[i] <= z - 1 /\ place[i] \in 1 .. Len(body)
      BY <1>1, <1>4, <2>2
    <3>2. longer[i] <= z
      BY <1>5, <3>1
    <3> QED
      BY <1>1, <2>2, <3>1, <3>2
  <2> QED
    BY <1>2, <2>1, <2>2
<1>7. ASSUME NEW i \in 1 .. k + 1, NEW j \in 1 .. k + 1, i < j PROVE longer[i] < longer[j]
  <2>1. i \in 1 .. k
    BY <1>7
  <2>2. CASE j = k + 1
    <3>1. longer[j] = z /\ longer[i] = place[i] /\ place[i] <= z - 1
      BY <1>1, <1>4, <2>1, <2>2
    <3>2. place[i] \in 1 .. Len(body)
      BY <1>4, <2>1
    <3> QED
      BY ONLY <1>5, <3>1, <3>2, z \in 1 .. Len(body)
  <2>3. CASE j # k + 1
    <3>1. j \in 1 .. k
      BY <2>3
    <3> QED
      BY <1>1, <1>4, <1>7, <2>1, <3>1
  <2> QED
    BY <2>2, <2>3
<1> QED
  BY <1>3, <1>6, <1>7 DEF Scattered

\* The parser is no further in a head than the last byte lets it be.
LEMMA HeadOn ==
  ASSUME ParserTypes, NEW b \in Bytes, CmdProcess(b), state' \in 1 .. LEN0
  PROVE  state \in 0 .. 3 /\ state' = state + 1 /\ b = CmdHead[state + 1]
<1> USE DEF ParserTypes, HEAD0, LEN0, LEN1, DATA, TAIL0, TAIL3
<1>1. CASE ParseHead(b)
  BY <1>1 DEF ParseHead
<1>2. CASE ParseLen0(b) \/ ParseLen1(b) \/ ParseData(b) \/ ParseTail(b)
  BY <1>2 DEF ParseLen0, ParseLen1, ParseData, ParseTail, TailDone
<1> QED
  BY <1>1, <1>2 DEF CmdProcess

\* Where the parser goes, as far as the length is concerned.
LEMMA ByteLength ==
  ASSUME ParserTypes, NEW b \in Bytes, CmdProcess(b)
  PROVE  /\ state' = LEN0 => b = CmdHead[4]
         /\ state' = LEN1 => state = LEN0 /\ len' = b
         /\ state' = DATA /\ state = LEN1 => len' = len + 256 * b
         /\ state' > LEN1 => state >= LEN1 /\ (state # LEN1 => len' = len)
<1> USE DEF ParserTypes, HEAD0, LEN0, LEN1, DATA, TAIL0, TAIL3
<1>1. CASE ParseHead(b)
  BY <1>1 DEF ParseHead
<1>2. CASE ParseLen0(b)
  BY <1>2 DEF ParseLen0
<1>3. CASE ParseLen1(b)
  BY <1>3 DEF ParseLen1
<1>4. CASE ParseData(b)
  BY <1>4 DEF ParseData
<1>5. CASE ParseTail(b)
  BY <1>5 DEF ParseTail, TailDone
<1> QED
  BY <1>1, <1>2, <1>3, <1>4, <1>5 DEF CmdProcess

\* A byte that is not 0 when the parser waits for a length.
LEMMA LengthStays ==
  ASSUME ParserTypes, LengthInv, NEW b \in Bytes, CmdProcess(b), state = LEN0 => b # 0
  PROVE  state' >= LEN1 => len' # 0
<1>1. /\ state \in 0 .. 10 /\ state' \in 0 .. 10 /\ len \in Nat /\ b \in Nat
  <2>1. state \in HEAD0 .. TAIL3 /\ state' \in HEAD0 .. TAIL3 /\ len \in Nat
    BY ByteTypes DEF ParserTypes
  <2> QED
    BY <2>1 DEF HEAD0, TAIL3, Bytes
<1>2. /\ state' = 5 => state = 4 /\ len' = b
      /\ state' = 6 /\ state = 5 => len' = len + 256 * b
      /\ state' > 5 => state >= 5 /\ (state # 5 => len' = len)
  BY ByteLength DEF LEN0, LEN1, DATA
<1>3. state' > 6 => state # 5
  <2>1. CASE ParseLen1(b)
    BY <2>1 DEF ParseLen1, DATA, HEAD0
  <2>2. CASE ~ParseLen1(b)
    BY <2>2 DEF CmdProcess, ParseHead, ParseLen0, ParseData, ParseTail, LEN0, LEN1, DATA, TAIL0
  <2> QED
    BY <2>1, <2>2
<1>4. (state >= 5 => len # 0) /\ (state = 4 => b # 0)
  BY DEF LengthInv, LEN0, LEN1
<1> QED
  BY <1>1, <1>2, <1>3, <1>4 DEF LEN1

LEMMA HostByteLength ==
  ASSUME NoZeroLength, FillInv, HostByte
  PROVE  LengthInv'
<1> DEFINE n == Len(current)
           F == Frame(current)
           b == Head(todo)
<1>1. todo # << >> /\ CmdProcess(b) /\ todo' = Tail(todo) /\ UNCHANGED current
  BY DEF HostByte
<1>2. ParserTypes /\ RestInv /\ LengthInv /\ todo \in Seq(Bytes)
  BY DEF FillInv, IInv, ParserTypes
<1>3. current \in Bodies
  BY <1>1, <1>2 DEF RestInv
<1>4. /\ Gone \in 0 .. n + 9 /\ b = todo[1] /\ b = F[Gone + 1] /\ b \in Bytes
      /\ todo' \in Seq(Bytes)
      /\ todo' = << >> <=> Gone = n + 9
      /\ Gone' = IF todo' = << >> THEN 0 ELSE Gone + 1
      /\ \A i \in 1 .. Len(todo') : todo'[i] = todo[i + 1]
      /\ RestInv'
  BY <1>1, <1>2, RestShrinks
<1>5. /\ n \in Nat /\ n >= 2 /\ n < 250 /\ current \in Seq(Bytes)
      /\ F[1] = 253 /\ F[2] = 252 /\ F[3] = 251 /\ F[4] = 250 /\ F[5] = n /\ F[6] = 0
      /\ \A p \in 7 .. n + 6 : F[p] = current[p - 6]
      /\ F[n + 7] = 4 /\ F[n + 8] = 3 /\ F[n + 9] = 2 /\ F[n + 10] = 1
  <2>1. n < 250
    <3>1. n \in Nat /\ n <= BufLen
      BY <1>3, FrameBytes
    <3> QED
      BY <3>1, Constants
  <2> QED
    BY <1>3, <2>1, FrameBytes
<1>6. Gone >= 5 /\ state \in 1 .. 4 => Scattered(state, current, Gone - 6)
  BY <1>1, <1>2 DEF LengthInv, LEN0
<1>7. \A z \in 1 .. n : current[z] = 0 => ~Scattered(4, current, z - 1)
  BY <1>3 DEF NoZeroLength, NoZeroBehindHead
<1> HIDE DEF b, n, F
\* The places of the bytes that are neither of a body nor before it.
<1>8. Gone >= 6 => (Gone - 5 \in 1 .. n /\ b = current[Gone - 5]) \/ b \in {1, 2, 3, 4}
  <2> SUFFICES ASSUME Gone >= 6 PROVE (Gone - 5 \in 1 .. n /\ b = current[Gone - 5]) \/ b \in {1, 2, 3, 4}
    OBVIOUS
  <2>1. CASE Gone + 1 \in 7 .. n + 6
    <3>1. Gone + 1 - 6 = Gone - 5 /\ Gone - 5 \in 1 .. n
      BY <1>4, <1>5, <2>1
    <3> QED
      BY <1>4, <1>5, <2>1, <3>1
  <2>2. CASE Gone + 1 \in {n + 7, n + 8, n + 9, n + 10}
    BY <1>4, <1>5, <2>2
  <2> QED
    BY <1>4, <1>5, <2>1, <2>2
<1>9. ASSUME state = 4 PROVE b # 0
  <2>1. CASE Gone < 5
    <3>1. Gone \in {0, 1, 2, 3, 4}
      BY <1>4, <1>5, <2>1
    <3>2. /\ 0 + 1 = 1 /\ 1 + 1 = 2 /\ 2 + 1 = 3 /\ 3 + 1 = 4 /\ 4 + 1 = 5
          /\ b = F[Gone + 1] /\ F[1] = 253 /\ F[2] = 252 /\ F[3] = 251 /\ F[4] = 250
          /\ F[5] = n /\ n # 0
      BY <1>4, <1>5
    <3> QED
      BY ONLY <3>1, <3>2
  <2>2. CASE Gone >= 5
    <3>1. Scattered(4, current, Gone - 6)
      BY <1>6, <1>9, <2>2
    <3>2. Gone >= 6
      <4> SUFFICES ASSUME Gone = 5 PROVE FALSE
        BY <1>4, <1>5, <2>2
      <4>1. PICK place \in [1 .. 4 -> 1 .. n] : \A i \in 1 .. 4 : place[i] <= Gone - 6
        BY <3>1 DEF Scattered, n
      <4>2. place[1] \in 1 .. n /\ place[1] <= Gone - 6
        BY <4>1
      <4> QED
        BY <1>5, <4>2
    <3>3. (Gone - 5) - 1 = Gone - 6
      BY <1>4, <1>5
    <3> QED
      BY <1>7, <1>8, <3>1, <3>2, <3>3
  <2> QED
    BY <1>4, <1>5, <2>1, <2>2
<1>10. state' >= LEN1 => len' # 0
  BY <1>1, <1>2, <1>4, <1>9, LengthStays DEF b, LEN0
<1>11. ASSUME state' \in 1 .. LEN0, todo' # << >>, Gone' >= 5
       PROVE  Scattered(state', current, Gone' - 6)
  <2>1. state \in 0 .. 3 /\ state' = state + 1 /\ b = CmdHead[state + 1]
    BY <1>1, <1>2, <1>4, <1>11, HeadOn DEF b
  <2>2. b \in {253, 252, 251, 250}
    <3>1. state \in {0, 1, 2, 3}
      BY <2>1
    <3> QED
      BY <2>1, <3>1, HeadBytes
  <2>3. Gone' = Gone + 1 /\ Gone >= 4 /\ Gone \in Nat
    BY <1>4, <1>5, <1>11
  <2>4. Gone # 4 /\ Gone # 5
    <3>1. b = F[Gone + 1] /\ F[5] = n /\ F[6] = 0 /\ n \in Nat /\ n < 250
      BY <1>4, <1>5
    <3> QED
      BY ONLY <2>2, <2>3, <3>1
  <2>5. Gone - 5 \in 1 .. n /\ b = current[Gone - 5] /\ Gone >= 6
    BY <1>8, <2>2, <2>3, <2>4
  <2>6. Scattered(state, current, Gone - 6)
    <3>1. CASE state = 0
      BY <3>1, ScatteredNone
    <3>2. CASE state # 0
      <4>1. state \in 1 .. 4
        BY <2>1, <3>2
      <4> QED
        BY <1>6, <2>3, <2>5, <4>1
    <3> QED
      BY <3>1, <3>2
  <2>7. (Gone - 5) - 1 = Gone - 6 /\ Gone' - 6 = Gone - 5
    BY <2>3
  <2>8. \A z \in 1 .. n : Scattered(state, current, z - 1) /\ current[z] = CmdHead[state + 1]
                          => Scattered(state + 1, current, z)
    <3>1. state \in Nat
      BY <2>1
    <3> QED
      BY <1>5, <3>1, ScatteredOn DEF n
  <2>9. Scattered(state + 1, current, Gone - 5)
    BY <2>1, <2>5, <2>6, <2>7, <2>8
  <2> QED
    BY <2>1, <2>7, <2>9
<1> QED
  BY <1>1, <1>10, <1>11 DEF LengthInv

LEMMA LoseByteLength ==
  ASSUME NoZeroLength, FillInv, LoseByte
  PROVE  LengthInv'
<1> DEFINE n == Len(current)
<1>1. /\ todo # << >> /\ todo' = Tail(todo) /\ UNCHANGED <<current, state, len>>
      /\ Len(todo) # n + 6
  <2>1. Len(CmdTail) = 4
    BY HeadAndTail
  <2>2. Len(todo) # n + 4 + 2
    BY <2>1 DEF NoZeroLength, LoseByte
  <2>3. n \in Nat
    BY FrameBytes DEF FillInv, RestInv, LoseByte
  <2> QED
    BY <2>2, <2>3 DEF LoseByte, Fault, parserVars
<1>2. RestInv /\ LengthInv /\ todo \in Seq(Bytes)
  BY DEF FillInv, IInv, ParserTypes
<1>3. n \in Nat
  BY <1>1, <1>2, FrameBytes DEF RestInv
<1>4. /\ Gone \in 0 .. n + 9 /\ todo' \in Seq(Bytes)
      /\ Gone' = IF todo' = << >> THEN 0 ELSE Gone + 1
      /\ \A i \in 1 .. Len(todo') : todo'[i] = todo[i + 1]
  BY <1>1, <1>2, RestShrinks
<1>5. Gone = n + 10 - Len(todo) /\ Len(todo) \in Nat
  BY <1>1, <1>2, LenProperties DEF Gone
<1>6. Gone # 4
  BY <1>1, <1>3, <1>5
<1>7. ASSUME state' \in 1 .. LEN0, todo' # << >>, Gone' >= 5
      PROVE  Scattered(state', current', Gone' - 6)
  <2>1. Gone' = Gone + 1 /\ Gone >= 5 /\ Gone - 6 \in Int /\ Gone' - 6 \in Int /\ Gone - 6 <= Gone' - 6
    BY <1>3, <1>4, <1>6, <1>7
  <2>2. Scattered(state, current, Gone - 6) /\ state \in Nat
    BY <1>1, <1>2, <1>7, <2>1 DEF LengthInv, LEN0
  <2>3. current \in Seq(Bytes)
    BY <1>1, <1>2, FrameBytes DEF RestInv
  <2> QED
    BY <1>1, <2>1, <2>2, <2>3, ScatteredStays
<1>8. state' >= LEN1 => len' # 0
  BY <1>1, <1>2 DEF LengthInv
<1> QED
  BY <1>7, <1>8 DEF LengthInv

-----------------------------------------------------------------------------
(***************************************************************************)
(* The invariant behind FillTerminates, and the types.                     *)
(***************************************************************************)
LEMMA FillHolds == ASSUME FillInv PROVE FillTerminates /\ TypeOK
<1> USE Constants DEF FillInv, IInv, ParserTypes, HostTypes
<1>1. FillTerminates
  BY DEF FillTerminates, IndexInv, LengthInv, DATA, LEN1
<1>2. curIndex \in 0 .. BufLen
  OBVIOUS
<1>3. TypeOK
  BY <1>2 DEF TypeOK
<1> QED
  BY <1>1, <1>3

\* The body handed over and the index, with any byte.
LEMMA ByteCall ==
  ASSUME FillInv, NEW b \in Bytes, CmdProcess(b)
  PROVE  /\ call' \in Seq(Seq(Bytes)) /\ Len(call') <= 1
         /\ curIndex' <= BufLen
<1>1. ParserTypes /\ FillTerminates /\ IndexInv /\ curIndex <= BufLen
  BY FillHolds DEF FillInv, IInv
<1>2. call' = << >> \/ (call' = <<Body>> /\ state >= TAIL0)
  BY DEF CmdProcess, ParseHead, ParseLen0, ParseLen1, ParseData, ParseTail
<1>3. call' \in Seq(Seq(Bytes)) /\ Len(call') <= 1
  <2>1. CASE call' = << >>
    BY <2>1
  <2>2. CASE call' = <<Body>> /\ state >= TAIL0
    <3>1. Body \in Seq(Bytes)
      BY <1>1, <2>2, BodyFacts DEF IndexInv
    <3> QED
      BY <2>2, <3>1
  <2> QED
    BY <1>2, <2>1, <2>2
<1>4. curIndex' <= BufLen
  <2> USE Constants DEF ParserTypes
  <2>1. CASE ParseHead(b)
    BY <1>1, <2>1 DEF ParseHead, HeadSeen
  <2>2. CASE ParseData(b)
    BY <1>1, <2>2 DEF ParseData, FillTerminates
  <2>3. CASE ParseLen0(b) \/ ParseLen1(b) \/ ParseTail(b)
    BY <1>1, <2>3 DEF ParseLen0, ParseLen1, ParseTail
  <2> QED
    BY <2>1, <2>2, <2>3 DEF CmdProcess
<1> QED
  BY <1>3, <1>4

LEMMA InitFill == ASSUME Init PROVE FillInv
<1>1. IInv
  BY InitInv
<1>2. HostTypes
  BY BoundsAssumption DEF Init, HostTypes
<1>3. RestInv /\ LengthInv /\ curIndex <= BufLen
  BY Constants DEF Init, RestInv, LengthInv, HEAD0, LEN0, LEN1
<1> QED
  BY <1>1, <1>2, <1>3 DEF FillInv

LEMMA NextFill ==
  ASSUME NoZeroLength, FillInv, [Next]_vars
  PROVE  FillInv'
<1> USE DEF FillInv
<1>1. IInv'
  BY NextInv
<1>2. IInv /\ ParserTypes /\ todo \in Seq(Bytes) /\ HostTypes /\ RestInv /\ LengthInv
  BY DEF IInv, ParserTypes
<1>3. ASSUME NEW body \in Bodies, HostBegin(body) PROVE FillInv'
  <2>1. UNCHANGED <<state, curIndex, len, buf, call, faults, missed>>
    BY <1>3 DEF HostBegin, parserVars
  <2>2. HostTypes'
    BY <1>2, <1>3, <2>1, BoundsAssumption DEF HostBegin, HostTypes
  <2>3. RestInv' /\ Gone' = 0
    BY <1>3, RestBegins
  <2>4. LengthInv'
    BY <1>2, <2>1, <2>3 DEF LengthInv, LEN1
  <2> QED
    BY <1>1, <2>1, <2>2, <2>3, <2>4
<1>4. CASE HostByte
  <2>1. todo # << >> /\ CmdProcess(Head(todo)) /\ todo' = Tail(todo) /\ UNCHANGED current
    BY <1>4 DEF HostByte
  <2>2. Head(todo) \in Bytes /\ RestInv'
    BY <1>2, <2>1, RestShrinks
  <2>3. call' \in Seq(Seq(Bytes)) /\ Len(call') <= 1 /\ curIndex' <= BufLen
    BY <2>1, <2>2, ByteCall
  <2>4. missed' \in Nat
    BY <1>2, <1>4 DEF HostByte, HostTypes
  <2>5. HostTypes'
    BY <1>2, <1>4, <2>3, <2>4 DEF HostByte, HostTypes
  <2> QED
    BY <1>1, <1>4, <2>2, <2>3, <2>5, HostByteLength
<1>5. CASE HostStops
  <2>1. UNCHANGED <<state, curIndex, len, buf, call>> /\ todo' = << >>
    BY <1>5 DEF HostStops, parserVars
  <2>2. HostTypes'
    <3>1. faults' \in 0 .. MaxFaults /\ missed' \in Nat /\ UNCHANGED <<current, frames>>
      BY <1>2, <1>5, BoundsAssumption DEF HostStops, Fault, HostTypes
    <3>2. intact' \in BOOLEAN
      BY <1>5 DEF HostStops
    <3> QED
      BY <1>2, <2>1, <3>1, <3>2 DEF HostTypes
  <2>3. RestInv' /\ LengthInv'
    BY <1>2, <2>1 DEF RestInv, LengthInv
  <2> QED
    BY <1>1, <2>1, <2>2, <2>3
<1>6. CASE LoseByte
  <2>1. /\ UNCHANGED <<state, curIndex, len, buf, call, current>>
        /\ todo # << >> /\ todo' = Tail(todo)
    BY <1>6 DEF LoseByte, Fault, parserVars
  <2>2. HostTypes'
    <3>1. faults' \in 0 .. MaxFaults /\ missed' \in Nat /\ UNCHANGED <<current, frames>>
      BY <1>2, <1>6, BoundsAssumption DEF LoseByte, Fault, HostTypes
    <3>2. intact' \in BOOLEAN
      BY <1>6 DEF LoseByte
    <3> QED
      BY <1>2, <2>1, <3>1, <3>2 DEF HostTypes
  <2>3. RestInv'
    BY <1>2, <2>1, RestShrinks
  <2> QED
    BY <1>1, <1>6, <2>1, <2>2, <2>3, LoseByteLength
<1>7. ASSUME NEW b \in NoiseBytes, Noise(b) PROVE FillInv'
  <2>1. b \in Bytes /\ b # 0 /\ CmdProcess(b) /\ todo = << >> /\ todo' = << >>
    BY <1>7, LineAssumption DEF NoZeroLength, Noise
  <2>2. call' \in Seq(Seq(Bytes)) /\ Len(call') <= 1 /\ curIndex' <= BufLen
    BY <2>1, ByteCall
  <2>3. HostTypes'
    BY <1>2, <1>7, <2>2, BoundsAssumption DEF Noise, Fault, HostTypes
  <2>4. state' >= LEN1 => len' # 0
    BY <1>2, <2>1, LengthStays
  <2>5. RestInv' /\ LengthInv'
    BY <2>1, <2>4 DEF RestInv, LengthInv
  <2> QED
    BY <1>1, <2>2, <2>3, <2>5
<1>8. CASE UNCHANGED vars
  <2>1. UNCHANGED <<state, curIndex, len, buf, call, current, todo, intact, frames, faults, missed>>
    BY <1>8 DEF vars, parserVars
  <2>2. HostTypes' /\ RestInv' /\ LengthInv'
    BY <1>2, <2>1 DEF HostTypes, RestInv, LengthInv, Gone
  <2> QED
    BY <1>1, <2>1, <2>2
<1> QED
  BY <1>3, <1>4, <1>5, <1>6, <1>7, <1>8 DEF Next

LEMMA FillInvariance == ASSUME NoZeroLength PROVE Spec => []FillInv
<1>1. Init => FillInv
  BY InitFill
<1>2. FillInv /\ [Next]_vars => FillInv'
  BY NextFill
<1> QED
  BY <1>1, <1>2, PTL DEF Spec

(***************************************************************************)
(* The body is always left again, with the index meeting the length within *)
(* the buffer, wherever the host broke off, as long as no length of 0 can  *)
(* come about: the line loses any byte but the low one of a length, no     *)
(* zero byte is noise, and no body has a zero behind the bytes of a head.  *)
(* Without that assumption a length of 0 is received and the code writes   *)
(* beyond its buffer.                                                      *)
(***************************************************************************)
THEOREM FillAlwaysTerminates ==
  ASSUME NoZeroLength PROVE Spec => []FillTerminates
<1>1. FillInv => FillTerminates
  BY FillHolds
<1> QED
  BY <1>1, FillInvariance, PTL

(***************************************************************************)
(* The parser and the line keep their types.  That the index stays within  *)
(* the buffer is a part of it, and needs the same of the line and the      *)
(* bodies.                                                                 *)
(***************************************************************************)
THEOREM TypeCorrect ==
  ASSUME NoZeroLength PROVE Spec => []TypeOK
<1>1. FillInv => TypeOK
  BY FillHolds
<1> QED
  BY <1>1, FillInvariance, PTL

-----------------------------------------------------------------------------
(***************************************************************************)
(* The way back after a fault.                                             *)
(***************************************************************************)

\* The next byte of a command, for the parser and for the line.
LEMMA Arrival ==
  ASSUME FillInv, HostByte
  PROVE  /\ current \in Bodies /\ UNCHANGED <<current, intact, faults>>
         /\ Head(todo) \in Bytes /\ CmdProcess(Head(todo))
         /\ Gone \in 0 .. Len(current) + 9
         /\ Head(todo) = Frame(current)[Gone + 1]
         /\ todo' = << >> <=> Gone = Len(current) + 9
         /\ Gone' = IF todo' = << >> THEN 0 ELSE Gone + 1
         /\ Len(current) \in Nat /\ Len(current) >= 2 /\ Len(current) <= BufLen
<1>1. /\ todo # << >> /\ CmdProcess(Head(todo)) /\ todo' = Tail(todo)
      /\ UNCHANGED <<current, intact, faults>>
  BY DEF HostByte
<1>2. RestInv /\ todo \in Seq(Bytes)
  BY DEF FillInv, IInv, ParserTypes
<1>3. current \in Bodies
  BY <1>1, <1>2 DEF RestInv
<1>4. Len(current) \in Nat /\ Len(current) >= 2 /\ Len(current) <= BufLen
  BY <1>3, FrameBytes
<1>5. /\ Gone \in 0 .. Len(current) + 9 /\ Head(todo) = Frame(current)[Gone + 1]
      /\ Head(todo) \in Bytes /\ (todo' = << >> <=> Gone = Len(current) + 9)
      /\ Gone' = IF todo' = << >> THEN 0 ELSE Gone + 1
  BY <1>1, <1>2, RestShrinks
<1> QED
  BY <1>1, <1>3, <1>4, <1>5

\* The state decides what is done with a byte.
LEMMA ByState ==
  ASSUME FillInv, NEW b \in Bytes, CmdProcess(b)
  PROVE  /\ state \in 0 .. 10 /\ state' \in 0 .. 10 /\ b \in Nat
         /\ len \in Nat /\ curIndex \in Nat /\ curIndex' \in Nat /\ missed \in Nat
         /\ state < 4 => ParseHead(b)
         /\ state = 4 => ParseLen0(b)
         /\ state = 5 => ParseLen1(b) /\ curIndex = 0 /\ len \in Bytes
         /\ state = 6 => ParseData(b) /\ curIndex < len /\ len <= BufLen
         /\ state >= 7 => ParseTail(b)
<1>1. ParserTypes /\ IndexInv /\ FillTerminates /\ missed \in Nat
  BY FillHolds DEF FillInv, IInv, HostTypes
<1>2. /\ state \in HEAD0 .. TAIL3 /\ state' \in HEAD0 .. TAIL3
      /\ len \in Nat /\ curIndex \in Nat /\ curIndex' \in Nat
  BY <1>1, ByteTypes DEF ParserTypes
<1>3. state \in 0 .. 10 /\ state' \in 0 .. 10 /\ b \in Nat
  BY <1>2 DEF HEAD0, TAIL3, Bytes
<1>4. /\ ParseHead(b) => state < 4
      /\ ParseLen0(b) => state = 4
      /\ ParseLen1(b) => state = 5
      /\ ParseData(b) => state = 6
      /\ ParseTail(b) => state >= 7
  BY DEF ParseHead, ParseLen0, ParseLen1, ParseData, ParseTail, LEN0, LEN1, DATA, TAIL0
<1>5. /\ state = 5 => curIndex = 0 /\ len \in Bytes
      /\ state = 6 => curIndex < len /\ len <= BufLen
  BY <1>1 DEF IndexInv, FillTerminates, LEN1, DATA
<1> QED
  BY <1>1, <1>2, <1>3, <1>4, <1>5 DEF CmdProcess

\* A parser in step takes the next byte for what it is, and executes the command.
LEMMA InStepByte ==
  ASSUME FillInv, HostByte, InStep
  PROVE  InStep' /\ (todo' = << >> => call' = <<current>>)
<1> DEFINE b == Head(todo)
           n == Len(current)
           F == Frame(current)
<1>1. /\ current \in Bodies /\ current' = current /\ b \in Bytes /\ CmdProcess(b)
      /\ Gone \in 0 .. n + 9 /\ b = F[Gone + 1]
      /\ todo' = << >> <=> Gone = n + 9
      /\ Gone' = IF todo' = << >> THEN 0 ELSE Gone + 1
      /\ n \in Nat /\ n >= 2 /\ n <= BufLen
  BY Arrival
<1>2. /\ F[1] = 253 /\ F[2] = 252 /\ F[3] = 251 /\ F[4] = 250 /\ F[5] = n /\ F[6] = 0
      /\ \A p \in 7 .. n + 6 : F[p] = current[p - 6]
      /\ F[n + 7] = 4 /\ F[n + 8] = 3 /\ F[n + 9] = 2 /\ F[n + 10] = 1
  <2>1. current \in Bodies
    BY <1>1
  <2> QED
    BY <2>1, FrameBytes
<1>3. /\ state \in 0 .. 10 /\ state' \in 0 .. 10 /\ len \in Nat /\ curIndex \in Nat
      /\ state < 4 => ParseHead(b)
      /\ state = 4 => ParseLen0(b)
      /\ state = 5 => ParseLen1(b) /\ curIndex = 0 /\ len \in Bytes
      /\ state = 6 => ParseData(b) /\ curIndex < len /\ len <= BufLen
      /\ state >= 7 => ParseTail(b)
  BY <1>1, ByState
<1>4. /\ Gone <= 6 => state = Gone
      /\ Gone > 4 => len = n
      /\ Gone > 6 /\ Gone < 6 + len => state = 6
      /\ Gone >= 6 + len => state = 7 + (Gone - 6 - len)
      /\ Gone >= 6 => /\ curIndex = IF Gone < 6 + len THEN Gone - 6 ELSE len
                      /\ \A i \in 1 .. curIndex : buf[i - 1] = current[i]
  BY DEF InStep, DATA, TAIL0
<1>5. len' \in Nat
  BY <1>1, ByteTypes DEF FillInv, IInv
<1>6. BufLen \in Nat
  BY Constants
<1> HIDE DEF b, n, F
<1>7. CASE Gone < 4
  <2>1. state = Gone /\ Gone \in {0, 1, 2, 3} /\ ParseHead(b)
    BY <1>1, <1>3, <1>4, <1>7
  <2>2. b = CmdHead[state + 1]
    <3>1. /\ 0 + 1 = 1 /\ 1 + 1 = 2 /\ 2 + 1 = 3 /\ 3 + 1 = 4
          /\ b = F[Gone + 1] /\ F[1] = 253 /\ F[2] = 252 /\ F[3] = 251 /\ F[4] = 250
      BY <1>1, <1>2
    <3> QED
      BY ONLY <2>1, <3>1, HeadBytes
  <2>3. state' = Gone + 1 /\ Gone' = Gone + 1 /\ todo' # << >>
    BY <1>1, <2>1, <2>2 DEF ParseHead
  <2>4. Gone' \in 1 .. 4 /\ state' = Gone'
    BY <2>1, <2>3
  <2>5. Gone' <= 6 /\ ~(Gone' > 4) /\ ~(Gone' >= 6) /\ ~(Gone' > 6) /\ ~(Gone' >= 6 + len')
    <3>1. Gone' \in {1, 2, 3, 4}
      BY <2>1, <2>3
    <3>2. \A g \in {1, 2, 3, 4}, k \in Nat : g <= 6 /\ ~(g > 4) /\ ~(g >= 6) /\ ~(g > 6) /\ ~(g >= 6 + k)
      OBVIOUS
    <3> QED
      BY <1>5, <3>1, <3>2
  <2>6. InStep'
    BY ONLY <2>4, <2>5 DEF InStep
  <2> QED
    BY <2>3, <2>6
<1>8. CASE Gone = 4
  <2>1. state' = 5 /\ len' = n /\ Gone' = 5 /\ todo' # << >>
    BY <1>1, <1>2, <1>3, <1>4, <1>8 DEF ParseLen0, LEN1
  <2> QED
    BY <1>1, <2>1 DEF InStep, n
<1>9. CASE Gone = 5
  <2>1. /\ b = 0 /\ ParseLen1(b) /\ curIndex = 0 /\ len = n /\ Gone' = 6 /\ todo' # << >>
    BY <1>1, <1>2, <1>3, <1>4, <1>9
  <2>2. len' = n /\ state' = 6 /\ curIndex' = 0
    BY <1>1, <1>6, <2>1 DEF ParseLen1, LenFits, DATA
  <2> QED
    BY <1>1, <2>1, <2>2 DEF InStep, n, DATA
<1>10. CASE Gone >= 6 /\ Gone < 6 + n
  <2>1. /\ state = 6 /\ ParseData(b) /\ len = n /\ curIndex = Gone - 6 /\ todo' # << >>
        /\ Gone' = Gone + 1 /\ \A i \in 1 .. curIndex : buf[i - 1] = current[i]
    BY <1>1, <1>3, <1>4, <1>10
  <2>2. /\ buf' = [buf EXCEPT ![curIndex] = b] /\ curIndex' = curIndex + 1 /\ len' = len
        /\ state' = IF curIndex' = len THEN 7 ELSE 6
    BY <2>1 DEF ParseData, DATA, TAIL0
  <2>3. b = current[curIndex + 1]
    <3>1. Gone + 1 \in 7 .. n + 6 /\ Gone + 1 - 6 = curIndex + 1
      BY <1>1, <1>10, <2>1
    <3> QED
      BY <1>1, <1>2, <3>1
  <2>4. \A i \in 1 .. curIndex' : buf'[i - 1] = current'[i]
    <3> SUFFICES ASSUME NEW i \in 1 .. curIndex + 1 PROVE buf'[i - 1] = current[i]
      BY <1>1, <2>2
    <3>1. buf \in [0 .. BufLen - 1 -> Bytes] /\ curIndex \in 0 .. BufLen - 1
      BY <1>1, <1>3, <1>6, <1>10, <2>1 DEF FillInv, IInv, ParserTypes
    <3>2. CASE i = curIndex + 1
      <4>1. i - 1 = curIndex
        BY <1>3, <3>2
      <4> QED
        BY <2>2, <2>3, <3>1, <3>2, <4>1
    <3>3. CASE i # curIndex + 1
      <4>1. i \in 1 .. curIndex /\ i - 1 \in 0 .. BufLen - 1 /\ i - 1 # curIndex
        BY <1>3, <1>6, <3>1, <3>3
      <4> QED
        BY <2>1, <2>2, <3>1, <4>1
    <3> QED
      BY <3>2, <3>3
  <2>5. Gone' > 6 /\ len' = n /\ (Gone' < 6 + n <=> curIndex' # n) /\ curIndex' = Gone' - 6 /\ Gone' <= 6 + n
    BY <1>1, <1>3, <1>10, <2>1, <2>2
  <2>6. Len(current') = n
    BY <1>1 DEF n
  <2>7. /\ Gone' > 6 /\ Gone' < 6 + len' => state' = 6
        /\ Gone' >= 6 + len' => state' = 7 + (Gone' - 6 - len') /\ curIndex' = len'
    BY <1>1, <2>1, <2>2, <2>5
  <2> QED
    BY <1>1, <2>1, <2>4, <2>5, <2>6, <2>7 DEF InStep, DATA, TAIL0
<1>11. CASE Gone >= 6 + n
  <2>1. /\ state = 7 + (Gone - 6 - n) /\ ParseTail(b) /\ len = n /\ curIndex = n
        /\ \A i \in 1 .. n : buf[i - 1] = current[i]
    BY <1>1, <1>3, <1>4, <1>11
  <2>2. UNCHANGED <<curIndex, len, buf>>
    BY <2>1 DEF ParseTail
  <2>3. b = CmdTail[state - 7 + 1]
    <3>1. Gone \in {n + 6, n + 7, n + 8, n + 9}
      BY <1>1, <1>11
    <3>2. CASE Gone = n + 6
      BY <1>1, <1>2, <2>1, <3>2, HeadBytes
    <3>3. CASE Gone = n + 7
      BY <1>1, <1>2, <2>1, <3>3, HeadBytes
    <3>4. CASE Gone = n + 8
      BY <1>1, <1>2, <2>1, <3>4, HeadBytes
    <3>5. CASE Gone = n + 9
      BY <1>1, <1>2, <2>1, <3>5, HeadBytes
    <3> QED
      BY <3>1, <3>2, <3>3, <3>4, <3>5
  <2>4. CASE Gone = n + 9
    <3>1. state = 10 /\ Gone' = 0 /\ todo' = << >>
      BY <1>1, <2>1, <2>4
    <3>2. state' = 0 /\ call' = <<Body>>
      BY <2>1, <2>3, <3>1 DEF ParseTail, TailDone, TailMatches, HEAD0, TAIL0, TAIL3
    <3>3. Body = current
      <4>1. Body = [i \in 1 .. n |-> buf[i - 1]]
        BY <2>1 DEF Body
      <4>2. current \in Seq(Bytes)
        BY <1>1, FrameBytes
      <4>3. current = [i \in 1 .. n |-> current[i]]
        BY <4>2 DEF n
      <4> QED
        BY <2>1, <4>1, <4>3
    <3>4. InStep'
      BY <1>1, <2>1, <2>2, <3>1, <3>2 DEF InStep
    <3> QED
      BY <3>2, <3>3, <3>4
  <2>5. CASE Gone # n + 9
    <3>1. state < 10 /\ Gone' = Gone + 1 /\ todo' # << >>
      BY <1>1, <1>11, <2>1, <2>5
    <3>2. state' = state + 1
      BY <2>1, <2>3, <3>1 DEF ParseTail, TailDone, TailMatches, TAIL0, TAIL3
    <3>3. state' = 7 + (Gone' - 6 - n) /\ Gone' > 6 /\ Gone' >= 6 + n
      BY <1>1, <1>11, <2>1, <3>1, <3>2
    <3>4. len' = n /\ Len(current') = n /\ curIndex' = n /\ \A i \in 1 .. n : buf'[i - 1] = current'[i]
      BY <1>1, <2>1, <2>2 DEF n
    <3> QED
      BY <1>1, <3>1, <3>3, <3>4 DEF InStep, DATA, TAIL0
  <2> QED
    BY <2>4, <2>5
<1> QED
  BY <1>1, <1>7, <1>8, <1>9, <1>10, <1>11

\* The commands missed, when the next byte of an intact one has arrived.
LEMMA MissedByte ==
  ASSUME HostByte, intact, missed \in Nat
  PROVE  /\ todo' # << >> => missed' = missed
         /\ todo' = << >> => missed' \in {0, missed + 1}
         /\ todo' = << >> /\ call' = <<current>> => missed' = 0
  BY DEF HostByte

LEMMA SwallowingByte ==
  ASSUME FillInv, HostByte, intact, Swallowing
  PROVE  (Swallowing \/ Closing)' /\ 12 * missed' <= BufLen
<1> DEFINE b == Head(todo)
           n == Len(current)
<1>1. /\ Gone \in 0 .. n + 9 /\ n \in Nat /\ n >= 2 /\ CmdProcess(b) /\ b \in Bytes
      /\ todo' = << >> <=> Gone = n + 9
      /\ Gone' = IF todo' = << >> THEN 0 ELSE Gone + 1
  BY Arrival
<1>2. /\ state = 6 /\ ParseData(b) /\ curIndex < len /\ len <= BufLen
      /\ len \in Nat /\ curIndex \in Nat /\ missed \in Nat
      /\ 12 * missed + Gone <= curIndex
  BY <1>1, ByState DEF Swallowing, DATA
<1>3. curIndex' = curIndex + 1 /\ len' = len /\ state' = IF curIndex' = len THEN 7 ELSE 6
  BY <1>2 DEF ParseData, DATA, TAIL0
<1> HIDE DEF b, n
<1>4. 12 * missed' + Gone' <= curIndex'
  <2>1. CASE todo' = << >>
    <3>1. missed' \in {0, missed + 1}
      BY <1>2, <2>1, MissedByte
    <3>2. Gone >= 11 /\ Gone' = 0 /\ Gone \in Nat
      BY <1>1, <2>1
    <3>3. 12 * (missed + 1) <= curIndex + 1
      BY <1>2, <3>2
    <3>4. CASE missed' = 0
      BY <1>2, <1>3, <3>2, <3>4
    <3>5. CASE missed' = missed + 1
      BY <1>2, <1>3, <3>2, <3>3, <3>5
    <3> QED
      BY <3>1, <3>4, <3>5
  <2>2. CASE todo' # << >>
    <3>1. missed' = missed
      BY <1>2, <2>2, MissedByte
    <3> QED
      BY <1>1, <1>2, <1>3, <2>2, <3>1
  <2> QED
    BY <2>1, <2>2
<1>5. curIndex' <= BufLen /\ Gone' >= 0 /\ Gone' \in Nat /\ missed' \in Nat /\ BufLen \in Nat
  <2>1. missed' \in {0, missed, missed + 1}
    BY <1>2, MissedByte
  <2> QED
    BY <1>1, <1>2, <1>3, <2>1, Constants
<1>6. 12 * missed' <= BufLen /\ 12 * missed' + Gone' <= BufLen
  <2>1. \A m, g, c, l \in Nat : 12 * m + g <= c /\ c <= l => 12 * m <= l /\ 12 * m + g <= l
    OBVIOUS
  <2>2. curIndex' \in Nat
    BY <1>2, <1>3
  <2> QED
    BY <1>4, <1>5, <2>1, <2>2
<1>7. CASE state' = 6
  BY <1>4, <1>6, <1>7 DEF Swallowing, DATA
<1>8. CASE state' = 7
  BY <1>6, <1>8 DEF Closing, TAIL0
<1> QED
  BY <1>3, <1>7, <1>8

\* No head begins inside a command but its own.
LEMMA NoHeadInFrame ==
  ASSUME NoHeadInside, NEW body \in Bodies, NEW q \in 2 .. Len(body) + 7,
         Frame(body)[q] = 253, Frame(body)[q + 1] = 252,
         Frame(body)[q + 2] = 251, Frame(body)[q + 3] = 250
  PROVE  FALSE
<1> DEFINE n == Len(body)
           F == Frame(body)
<1>1. /\ n \in Nat /\ n >= 2
      /\ F[2] = 252 /\ F[3] = 251 /\ F[4] = 250 /\ F[6] = 0
      /\ \A p \in 7 .. n + 6 : F[p] = body[p - 6]
      /\ F[n + 7] = 4 /\ F[n + 8] = 3 /\ F[n + 9] = 2 /\ F[n + 10] = 1
  BY FrameBytes
<1>2. F[q] = 253 /\ F[q + 1] = 252 /\ F[q + 2] = 251 /\ F[q + 3] = 250
  OBVIOUS
<1>3. q \in 2 .. n + 7
  OBVIOUS
<1>4. \A p \in 0 .. n - 4 : \E i \in 1 .. 4 : body[p + i] # CmdHead[i]
  BY DEF NoHeadInside
<1> HIDE DEF n, F
<1>5. q \notin {2, 3, 4, 6}
  <2>1. F[q] \notin {F[2], F[3], F[4], F[6]}
    BY ONLY <1>1, <1>2
  <2> QED
    BY ONLY <2>1
<1>6. q # 5
  <2>1. ASSUME q = 5 PROVE FALSE
    <3>1. F[6] = 252
      BY <1>2, <2>1
    <3> QED
      BY <1>1, <3>1
  <2> QED
    BY <2>1
<1>7. q + 3 \notin {n + 7, n + 8, n + 9, n + 10}
  <2>1. F[q + 3] \notin {F[n + 7], F[n + 8], F[n + 9], F[n + 10]}
    BY <1>1, <1>2
  <2> QED
    BY ONLY <2>1
<1>8. PICK p \in 0 .. n - 4 : q = p + 7
  <2>1. q - 7 \in 0 .. n - 4 /\ q = (q - 7) + 7
    BY <1>1, <1>3, <1>5, <1>6, <1>7
  <2> QED
    BY <2>1
<1>9. body[p + 1] = 253 /\ body[p + 2] = 252 /\ body[p + 3] = 251 /\ body[p + 4] = 250
  <2>1. /\ p + 7 \in 7 .. n + 6 /\ p + 8 \in 7 .. n + 6 /\ p + 9 \in 7 .. n + 6
        /\ p + 10 \in 7 .. n + 6
        /\ (p + 7) - 6 = p + 1 /\ (p + 8) - 6 = p + 2 /\ (p + 9) - 6 = p + 3
        /\ (p + 10) - 6 = p + 4
        /\ (p + 7) + 1 = p + 8 /\ (p + 7) + 2 = p + 9 /\ (p + 7) + 3 = p + 10
    BY <1>1
  <2>2. \A r \in 7 .. n + 6 : F[r] = body[r - 6]
    BY <1>1
  <2>3. /\ F[p + 7] = body[p + 1] /\ F[p + 8] = body[p + 2]
        /\ F[p + 9] = body[p + 3] /\ F[p + 10] = body[p + 4]
    BY ONLY <2>1, <2>2
  <2>4. F[p + 7] = 253 /\ F[p + 8] = 252 /\ F[p + 9] = 251 /\ F[p + 10] = 250
    BY ONLY <1>2, <1>8, <2>1
  <2> QED
    BY ONLY <2>3, <2>4
<1>10. \E i \in 1 .. 4 : body[p + i] # CmdHead[i]
  BY <1>4
<1>11. PICK i \in 1 .. 4 : body[p + i] # CmdHead[i]
  BY <1>10
<1>12. i = 1 \/ i = 2 \/ i = 3 \/ i = 4
  BY <1>11
<1>13. /\ i = 1 => body[p + i] = 253 /\ CmdHead[i] = 253
       /\ i = 2 => body[p + i] = 252 /\ CmdHead[i] = 252
       /\ i = 3 => body[p + i] = 251 /\ CmdHead[i] = 251
       /\ i = 4 => body[p + i] = 250 /\ CmdHead[i] = 250
  BY ONLY <1>9, HeadBytes
<1> QED
  BY ONLY <1>11, <1>12, <1>13

\* A parser that waits for a head while the line is quiet is in step.
LEMMA InStepAtRest ==
  ASSUME state' = 0, Gone' = 0, len' \in Nat
  PROVE  InStep'
<1>1. Gone' <= 6 /\ ~(Gone' > 4) /\ ~(Gone' > 6) /\ ~(Gone' >= 6) /\ ~(Gone' >= 6 + len')
  <2>1. \A k \in Nat : 0 <= 6 /\ ~(0 > 4) /\ ~(0 > 6) /\ ~(0 >= 6) /\ ~(0 >= 6 + k)
    OBVIOUS
  <2> QED
    BY <2>1
<1> QED
  BY <1>1 DEF InStep

\* The count of the missed commands with the last byte of one and before it.
LEMMA MissedCount ==
  ASSUME FillInv, HostByte, intact
  PROVE  /\ missed \in Nat /\ missed' \in Nat /\ missed' <= missed + 1
         /\ todo' # << >> => missed' = missed
<1>1. missed \in Nat
  BY DEF FillInv, HostTypes
<1>2. missed' \in {0, missed, missed + 1} /\ (todo' # << >> => missed' = missed)
  BY <1>1, MissedByte
<1> QED
  BY <1>1, <1>2

LEMMA ClosingByte ==
  ASSUME FillInv, HostByte, intact, Closing
  PROVE  (InStep \/ Closing \/ Searching)' /\ 12 * missed' <= BufLen + 12
<1> DEFINE b == Head(todo)
           n == Len(current)
           F == Frame(current)
<1>1. /\ Gone \in 0 .. n + 9 /\ n \in Nat /\ n >= 2 /\ CmdProcess(b) /\ b \in Bytes
      /\ todo' = << >> <=> Gone = n + 9
      /\ Gone' = IF todo' = << >> THEN 0 ELSE Gone + 1
      /\ b = F[Gone + 1] /\ current \in Bodies
  BY Arrival
<1>2. F[n + 10] = 1
  <2>1. current \in Bodies
    BY <1>1
  <2> QED
    BY <2>1, FrameBytes
<1>3. /\ state \in 0 .. 10 /\ state >= 7 /\ ParseTail(b) /\ 12 * missed <= BufLen
  BY <1>1, ByState DEF Closing, TAIL0
<1>4. /\ missed \in Nat /\ missed' \in Nat /\ missed' <= missed + 1
      /\ todo' # << >> => missed' = missed
  BY MissedCount
<1>5. len' \in Nat /\ BufLen \in Nat
  BY <1>1, ByteTypes, Constants DEF FillInv, IInv
<1>6. 12 * missed' <= BufLen + 12
  <2>1. \A m, k, l \in Nat : 12 * m <= l /\ k <= m + 1 => 12 * k <= l + 12
    OBVIOUS
  <2> QED
    BY <1>3, <1>4, <1>5, <2>1
<1> HIDE DEF b, n, F
<1>7. state' = IF TailMatches(b) /\ state < 10 THEN state + 1 ELSE 0
  BY <1>3 DEF ParseTail, TailDone, TAIL3, HEAD0
<1>8. CASE todo' = << >>
  <2>1. Gone + 1 = n + 10 /\ Gone' = 0
    BY <1>1, <1>8
  <2>2. b = 1
    BY <1>1, <1>2, <2>1
  <2>3. ~(TailMatches(b) /\ state < 10)
    <3>1. state \in {7, 8, 9, 10}
      BY <1>3
    <3> QED
      BY <2>2, <3>1, HeadBytes DEF TailMatches, TAIL0
  <2> QED
    BY <1>5, <1>6, <1>7, <2>1, <2>3, InStepAtRest
<1>9. CASE todo' # << >> /\ TailMatches(b) /\ state < 10
  <2>1. state' >= 7 /\ 12 * missed' <= BufLen
    BY <1>3, <1>4, <1>7, <1>9
  <2> QED
    BY <1>6, <2>1 DEF Closing, TAIL0
<1>10. CASE todo' # << >> /\ ~(TailMatches(b) /\ state < 10)
  <2>1. state' = 0 /\ Gone' > 0 /\ 12 * missed' <= BufLen
    BY <1>1, <1>3, <1>4, <1>7, <1>10
  <2> QED
    BY <1>6, <2>1 DEF Searching, LEN0
<1> QED
  BY <1>8, <1>9, <1>10

LEMMA SearchingByte ==
  ASSUME NoHeadInside, FillInv, HostByte, intact, Searching
  PROVE  (InStep \/ Searching)' /\ 12 * missed' <= BufLen + 12
<1> DEFINE b == Head(todo)
           n == Len(current)
           F == Frame(current)
<1>1. /\ Gone \in 0 .. n + 9 /\ n \in Nat /\ n >= 2 /\ CmdProcess(b) /\ b \in Bytes
      /\ todo' = << >> <=> Gone = n + 9
      /\ Gone' = IF todo' = << >> THEN 0 ELSE Gone + 1
      /\ b = F[Gone + 1] /\ current \in Bodies /\ current' = current
  BY Arrival
<1>2. F[n + 10] = 1
  <2>1. current \in Bodies
    BY <1>1
  <2> QED
    BY <2>1, FrameBytes
<1>3. /\ state \in 0 .. 10 /\ state < 4 /\ state < Gone /\ 12 * missed <= BufLen
      /\ \A i \in 1 .. state : F[Gone + 1 - i] = CmdHead[state + 1 - i]
      /\ ParseHead(b)
  BY <1>1, ByState DEF Searching, LEN0
<1>4. /\ missed \in Nat /\ missed' \in Nat /\ missed' <= missed + 1
      /\ todo' # << >> => missed' = missed
  BY MissedCount
<1>5. len' \in Nat /\ BufLen \in Nat
  BY <1>1, ByteTypes, Constants DEF FillInv, IInv
<1>6. 12 * missed' <= BufLen + 12
  <2>1. \A m, k, l \in Nat : 12 * m <= l /\ k <= m + 1 => 12 * k <= l + 12
    OBVIOUS
  <2> QED
    BY <1>3, <1>4, <1>5, <2>1
<1>7. NoHeadInside => ~(/\ Gone - 2 \in 2 .. n + 7
                        /\ F[Gone - 2] = 253 /\ F[(Gone - 2) + 1] = 252
                        /\ F[(Gone - 2) + 2] = 251 /\ F[(Gone - 2) + 3] = 250)
  BY <1>1, NoHeadInFrame
<1> HIDE DEF b, n, F
<1>8. state' = IF b = CmdHead[state + 1] THEN state + 1 ELSE 0
  BY <1>3 DEF ParseHead, HEAD0
<1>9. CASE todo' = << >>
  <2>1. Gone + 1 = n + 10 /\ Gone' = 0
    BY <1>1, <1>9
  <2>2. b = 1
    BY <1>1, <1>2, <2>1
  <2>3. b # CmdHead[state + 1]
    <3>1. state \in {0, 1, 2, 3}
      BY <1>3
    <3> QED
      BY <2>2, <3>1, HeadBytes
  <2> QED
    BY <1>5, <1>6, <1>8, <2>1, <2>3, InStepAtRest
<1>10. CASE todo' # << >> /\ b # CmdHead[state + 1]
  <2>1. state' = 0 /\ Gone' > 0 /\ 12 * missed' <= BufLen
    BY <1>1, <1>3, <1>4, <1>8, <1>10
  <2> QED
    BY <1>6, <2>1 DEF Searching, LEN0
<1>11. CASE todo' # << >> /\ b = CmdHead[state + 1]
  <2>1. state' = state + 1 /\ Gone' = Gone + 1 /\ state' < Gone' /\ 12 * missed' <= BufLen
    BY <1>1, <1>3, <1>4, <1>8, <1>11
  <2>2. ASSUME NEW i \in 1 .. state' PROVE F[Gone' + 1 - i] = CmdHead[state' + 1 - i]
    <3>1. CASE i = 1
      <4>1. Gone' + 1 - i = Gone + 1 /\ state' + 1 - i = state + 1
        BY <1>1, <1>3, <2>1, <3>1
      <4> QED
        BY <1>1, <1>11, <4>1
    <3>2. CASE i # 1
      <4>1. PICK k \in 1 .. state : i = k + 1
        <5>1. i - 1 \in 1 .. state /\ i = (i - 1) + 1
          BY <1>3, <2>1, <3>2
        <5> QED
          BY <5>1
      <4>2. Gone' + 1 - i = Gone + 1 - k /\ state' + 1 - i = state + 1 - k
        BY <1>1, <1>3, <2>1, <4>1
      <4> QED
        BY <1>3, <4>2
    <3> QED
      BY <3>1, <3>2
  <2>3. state # 3
    <3> SUFFICES ASSUME state = 3 PROVE FALSE
      OBVIOUS
    <3>1. /\ F[Gone + 1 - 1] = CmdHead[3 + 1 - 1]
          /\ F[Gone + 1 - 2] = CmdHead[3 + 1 - 2]
          /\ F[Gone + 1 - 3] = CmdHead[3 + 1 - 3]
      BY <1>3
    <3>2. /\ Gone + 1 - 1 = (Gone - 2) + 2 /\ Gone + 1 - 2 = (Gone - 2) + 1
          /\ Gone + 1 - 3 = Gone - 2 /\ Gone + 1 = (Gone - 2) + 3
          /\ 3 + 1 - 1 = 3 /\ 3 + 1 - 2 = 2 /\ 3 + 1 - 3 = 1 /\ 3 + 1 = 4
          /\ Gone - 2 \in 2 .. n + 7
      BY <1>1, <1>3, <1>11
    <3>3. F[(Gone - 2) + 2] = 251 /\ F[(Gone - 2) + 1] = 252 /\ F[Gone - 2] = 253
      BY <3>1, <3>2, HeadBytes
    <3>4. F[(Gone - 2) + 3] = 250
      <4>1. F[Gone + 1] = CmdHead[3 + 1]
        BY <1>1, <1>11
      <4> QED
        BY <3>2, <4>1, HeadBytes
    <3> QED
      BY <1>7, <3>2, <3>3, <3>4
  <2>4. state' < 4 /\ Frame(current') = F
    BY <1>1, <1>3, <2>1, <2>3 DEF F
  <2>5. \A i \in 1 .. state' : Frame(current')[Gone' + 1 - i] = CmdHead[state' + 1 - i]
    BY <2>2, <2>4
  <2> QED
    BY <1>6, <2>1, <2>4, <2>5 DEF Searching, LEN0
<1> QED
  BY <1>9, <1>10, <1>11

LEMMA MisledByte ==
  ASSUME FillInv, HostByte, intact, Misled
  PROVE  (Misled \/ Searching)' /\ 12 * missed' <= BufLen
<1> DEFINE b == Head(todo)
           n == Len(current)
           F == Frame(current)
<1>1. /\ Gone \in 0 .. n + 9 /\ n \in Nat /\ n >= 2 /\ CmdProcess(b) /\ b \in Bytes
      /\ todo' = << >> <=> Gone = n + 9
      /\ Gone' = IF todo' = << >> THEN 0 ELSE Gone + 1
      /\ b = F[Gone + 1] /\ current \in Bodies
  BY Arrival
<1>2. F[1] = 253 /\ F[2] = 252
  <2>1. current \in Bodies
    BY <1>1
  <2> QED
    BY <2>1, FrameBytes
<1>3. /\ 12 * missed <= BufLen /\ Gone \in {0, 1}
      /\ Gone = 0 => state \in 1 .. 5
      /\ Gone = 1 => state = 5 /\ len = 253
  BY HeadBytes DEF Misled, LEN1
<1>4. /\ state \in 0 .. 10
      /\ state < 4 => ParseHead(b)
      /\ state = 4 => ParseLen0(b)
      /\ state = 5 => ParseLen1(b) /\ len \in Nat
  BY <1>1, ByState
<1>5. /\ todo' # << >> /\ Gone' = Gone + 1 /\ 12 * missed' <= BufLen
  BY <1>1, <1>3, MissedCount
<1>6. BufLen \in Nat /\ BufLen <= 255
  BY Constants
<1> HIDE DEF b, n, F
<1>7. ASSUME state' = 0 PROVE Searching'
  <2>1. Gone' > 0
    BY <1>1, <1>5
  <2> QED
    BY <1>5, <1>7, <2>1 DEF Searching, LEN0
<1>8. CASE Gone = 0 /\ state < 4
  <2>1. b = 253 /\ state \in {1, 2, 3} /\ ParseHead(b)
    BY <1>1, <1>2, <1>3, <1>4, <1>8
  <2>2. state' = 0
    BY <2>1, HeadBytes DEF ParseHead, HEAD0
  <2> QED
    BY <1>5, <1>7, <2>2
<1>9. CASE Gone = 0 /\ state = 4
  <2>1. b = 253 /\ ParseLen0(b)
    BY <1>1, <1>2, <1>4, <1>9
  <2>2. state' = 5 /\ len' = 253 /\ Gone' = 1
    BY <1>5, <1>9, <2>1 DEF ParseLen0, LEN1
  <2> QED
    BY <1>5, <2>2, HeadBytes DEF Misled, LEN1
<1>10. CASE state = 5
  <2>1. b >= 252 /\ b \in Nat /\ ParseLen1(b) /\ len \in Nat
    BY <1>1, <1>2, <1>3, <1>4, <1>10
  <2>2. len' > BufLen
    <3>1. len' = len + 256 * b
      BY <2>1 DEF ParseLen1
    <3> QED
      BY <1>6, <2>1, <3>1
  <2>3. state' = 0
    <3>1. len' \in Nat
      BY <1>1, ByteTypes DEF FillInv, IInv
    <3> QED
      BY <1>6, <2>1, <2>2, <3>1 DEF ParseLen1, LenFits, HEAD0
  <2> QED
    BY <1>5, <1>7, <2>3
<1> QED
  BY <1>3, <1>4, <1>8, <1>9, <1>10

\* A parser that waits for the next command without having missed one.
LEMMA AnyAtRest ==
  ASSUME FillInv', todo' = << >>, missed' = 0
  PROVE  (InStep \/ Swallowing \/ Closing \/ Searching \/ Misled)'
<1>1. state' \in 0 .. 10 /\ len' \in Nat /\ curIndex' \in Nat /\ BufLen \in Nat
  BY Constants DEF FillInv, IInv, ParserTypes, HEAD0, TAIL3
<1>2. Gone' = 0
  BY DEF Gone
<1>3. 12 * missed' = 0 /\ 12 * missed' <= BufLen /\ 12 * missed' + Gone' <= curIndex'
  BY <1>1, <1>2
<1>4. CASE state' = 0
  BY <1>1, <1>2, <1>4, InStepAtRest
<1>5. CASE state' \in 1 .. 5
  BY <1>2, <1>3, <1>5 DEF Misled, LEN1
<1>6. CASE state' = 6
  BY <1>3, <1>6 DEF Swallowing, DATA
<1>7. CASE state' >= 7
  BY <1>3, <1>7 DEF Closing, TAIL0
<1> QED
  BY <1>1, <1>4, <1>5, <1>6, <1>7

LEMMA InitStep == ASSUME Init PROVE StepInv
<1>1. /\ state = 0 /\ todo = << >> /\ intact = TRUE /\ missed = 0 /\ faults = 0 /\ len = 0
  BY DEF Init, HEAD0
<1>2. Gone = 0
  BY <1>1 DEF Gone
<1>3. InStep
  <2>1. 0 <= 6 /\ ~(0 > 4) /\ ~(0 > 6) /\ ~(0 >= 6) /\ ~(0 >= 6 + 0)
    OBVIOUS
  <2> QED
    BY <1>1, <1>2, <2>1 DEF InStep
<1> QED
  BY <1>1, <1>3, Constants DEF StepInv

\* The next command does not move the parser.
LEMMA BeginStep ==
  ASSUME FillInv, StepInv, NEW body \in Bodies, HostBegin(body)
  PROVE  StepInv'
<1>1. /\ todo = << >> /\ intact' = TRUE /\ Gone = 0 /\ Gone' = 0
      /\ UNCHANGED <<state, curIndex, len, buf, faults, missed>>
  BY RestBegins DEF HostBegin, parserVars
<1>2. len' \in Nat /\ state \in 0 .. 10
  BY <1>1 DEF FillInv, IInv, ParserTypes, HEAD0, TAIL3
<1>3. InStep \/ Swallowing \/ Closing \/ Searching \/ Misled
  BY <1>1 DEF StepInv
<1>4. ASSUME InStep PROVE InStep'
  <2>1. state' = 0
    BY <1>1, <1>4 DEF InStep
  <2> QED
    BY <1>1, <1>2, <2>1, InStepAtRest
<1>5. ~Searching
  BY <1>1, <1>2 DEF Searching
<1>6. Swallowing => Swallowing'
  BY <1>1 DEF Swallowing
<1>7. Closing => Closing'
  BY <1>1 DEF Closing
<1>8. Misled => Misled'
  BY <1>1 DEF Misled
<1> QED
  BY <1>1, <1>3, <1>4, <1>5, <1>6, <1>7, <1>8 DEF StepInv

\* A byte of the command.
LEMMA ByteStep ==
  ASSUME NoHeadInside, FillInv, FillInv', StepInv, HostByte
  PROVE  StepInv'
<1>1. /\ UNCHANGED <<intact, faults>> /\ intact \in BOOLEAN
      /\ missed' = IF todo' # << >> \/ ~intact THEN missed
                   ELSE IF call' = <<current>> THEN 0 ELSE missed + 1
  BY DEF HostByte, FillInv, HostTypes
<1>2. BufLen \in Nat
  BY Constants
<1>3. CASE ~intact
  <2>1. missed' = 0 /\ ~intact' /\ faults' # 0
    BY <1>1, <1>3 DEF StepInv
  <2>2. todo' = << >> => (InStep \/ Swallowing \/ Closing \/ Searching \/ Misled)'
    BY <2>1, AnyAtRest
  <2> QED
    BY <1>2, <2>1, <2>2 DEF StepInv
<1>4. CASE intact
  <2>1. /\ intact' /\ 12 * missed <= BufLen + 12
        /\ faults = 0 => InStep /\ missed = 0
        /\ InStep \/ Swallowing \/ Closing \/ Searching \/ Misled
    BY <1>1, <1>4 DEF StepInv
  <2>2. ASSUME InStep
        PROVE  InStep' /\ 12 * missed' <= BufLen + 12 /\ (faults = 0 => missed' = 0)
    <3>1. InStep' /\ (todo' = << >> => call' = <<current>>)
      BY <2>2, InStepByte
    <3>2. missed' \in {0, missed}
      BY <1>1, <1>4, <3>1
    <3>3. CASE missed' = 0
      BY <1>2, <3>1, <3>3
    <3>4. CASE missed' = missed
      BY <1>2, <2>1, <3>1, <3>4
    <3> QED
      BY <3>2, <3>3, <3>4
  <2>3. CASE InStep
    BY <1>1, <2>1, <2>2, <2>3 DEF StepInv
  <2>4. ASSUME ~InStep
        PROVE  /\ (InStep \/ Swallowing \/ Closing \/ Searching \/ Misled)'
               /\ 12 * missed' <= BufLen + 12 /\ faults' # 0
    <3>1. faults' # 0 /\ (Swallowing \/ Closing \/ Searching \/ Misled)
      BY <1>1, <2>1, <2>4
    <3>2. missed' \in Nat /\ (12 * missed' <= BufLen => 12 * missed' <= BufLen + 12)
      <4>1. missed' \in Nat
        BY <1>4, MissedCount
      <4>2. \A m, l \in Nat : 12 * m <= l => 12 * m <= l + 12
        OBVIOUS
      <4> QED
        BY <1>2, <4>1, <4>2
    <3>3. CASE Swallowing
      BY <1>4, <3>1, <3>2, <3>3, SwallowingByte
    <3>4. CASE Closing
      BY <1>4, <3>1, <3>4, ClosingByte
    <3>5. CASE Searching
      BY <1>4, <3>1, <3>5, SearchingByte
    <3>6. CASE Misled
      BY <1>4, <3>1, <3>2, <3>6, MisledByte
    <3> QED
      BY <3>1, <3>3, <3>4, <3>5, <3>6
  <2>5. CASE ~InStep
    BY <2>1, <2>4, <2>5 DEF StepInv
  <2> QED
    BY <2>3, <2>5
<1> QED
  BY <1>1, <1>3, <1>4

LEMMA NextStep ==
  ASSUME NoZeroLength, NoHeadInside, FillInv, StepInv, [Next]_vars
  PROVE  StepInv'
<1>1. FillInv'
  BY NextFill
<1>2. BufLen \in Nat /\ faults \in Nat /\ intact \in BOOLEAN
  BY BoundsAssumption, Constants DEF FillInv, HostTypes
<1>3. CASE \E body \in Bodies : HostBegin(body)
  BY <1>3, BeginStep
<1>4. CASE HostByte
  BY <1>1, <1>4, ByteStep
<1>5. ASSUME Fault, todo' = << >> \/ ~intact', intact' \in BOOLEAN PROVE StepInv'
  <2>1. missed' = 0 /\ faults' # 0
    BY <1>2, <1>5 DEF Fault
  <2>2. todo' = << >> => (InStep \/ Swallowing \/ Closing \/ Searching \/ Misled)'
    BY <1>1, <2>1, AnyAtRest
  <2> QED
    BY <1>2, <1>5, <2>1, <2>2 DEF StepInv
<1>6. CASE HostStops
  BY <1>5, <1>6 DEF HostStops
<1>7. CASE LoseByte
  BY <1>5, <1>7 DEF LoseByte
<1>8. CASE \E b \in NoiseBytes : Noise(b)
  BY <1>2, <1>5, <1>8 DEF Noise
<1>9. CASE UNCHANGED vars
  BY <1>9 DEF StepInv, InStep, Swallowing, Closing, Searching, Misled, Gone, vars, parserVars
<1> QED
  BY <1>3, <1>4, <1>6, <1>7, <1>8, <1>9 DEF Next

LEMMA StepInvariance ==
  ASSUME NoZeroLength, NoHeadInside
  PROVE  Spec => [](FillInv /\ StepInv)
<1>1. Init => FillInv /\ StepInv
  BY InitFill, InitStep
<1>2. FillInv /\ StepInv /\ [Next]_vars => (FillInv /\ StepInv)'
  BY NextFill, NextStep
<1> QED
  BY <1>1, <1>2, PTL DEF Spec

(***************************************************************************)
(* Without a fault no command is missed; after the last fault the parser   *)
(* misses no more of them in a row than its buffer and one of the shortest *)
(* commands have room for, although it has no timeout: what it swallows as *)
(* one body counts, byte by byte, against the buffer.  A body that         *)
(* contains a head would keep it out of step for as long as it is sent, and *)
(* a length of 0 would overrun the buffer; both are assumed away.          *)
(***************************************************************************)
THEOREM LossIsBounded ==
  ASSUME NoZeroLength, NoHeadInside PROVE Spec => []LossBounded
<1>1. FillInv /\ StepInv => LossBounded
  <2> SUFFICES ASSUME FillInv, StepInv PROVE LossBounded
    OBVIOUS
  <2>1. missed \in Nat /\ BufLen \in Nat /\ 12 * missed <= BufLen + 12
    BY Constants DEF FillInv, HostTypes, StepInv
  <2>2. MinFrame = 12
    <3>1. Len(CmdHead) = 4 /\ Len(CmdTail) = 4
      BY HeadAndTail
    <3> QED
      BY <3>1 DEF MinFrame, CMD_TYPE_LEN
  <2>3. LossBound = (BufLen + 12) \div 12
    BY <2>2 DEF LossBound
  <2>4. missed <= (BufLen + 12) \div 12
    BY <2>1
  <2> QED
    BY <2>1, <2>3, <2>4 DEF LossBounded, StepInv
<1> QED
  BY <1>1, StepInvariance, PTL
=============================================================================
