------------------------- MODULE FrameParserProofs -------------------------
(***************************************************************************)
(* Proofs about FrameParser, for every length of a body, every number of   *)
(* chirps in a frame, bodies of any bytes, every data type and a SPI that  *)
(* is opened at any byte of a chirp.                                       *)
(***************************************************************************)
EXTENDS FrameParser, SequenceTheorems, TLAPS

(***************************************************************************)
(* How full the buffer is in each state.  While needCopyLen is 0 (cpc =    *)
(* "need") a body is shorter than it should be, and one that is collected  *)
(* when it is set anew may become twice as long.                           *)
(***************************************************************************)
Room == IF cpc = "need" THEN BodyLen ELSE 2 * BodyLen

ShapeInv ==
  /\ state = "HEAD"   => Len(buf) <= HLEN + 2 * BodyLen + TLEN
  /\ state = "ID"     => Len(buf) = 1
  /\ state = "INDEX1" => Len(buf) = 2
  /\ state = "INDEX2" => Len(buf) = 3
  /\ state = "DATA"   => Len(buf) >= HLEN /\ Len(buf) + need <= HLEN + Room
  /\ state \in {"TAIL0", "TAIL1", "TAIL2", "TAIL3"} => Len(buf) >= HLEN
  /\ state = "TAIL0"  => Len(buf) <= HLEN + Room
  /\ state = "TAIL1"  => Len(buf) <= HLEN + Room + 1
  /\ state = "TAIL2"  => Len(buf) <= HLEN + Room + 2
  /\ state = "TAIL3"  => Len(buf) <= HLEN + Room + 3

\* The head and the index of the chirp in the buffer.
HeadInv ==
  /\ state # "HEAD" => buf[1].b = DATA_HEAD
  /\ state = "INDEX1" /\ Indexed(type) => chirpIndex = HighIndex(buf[2].b)
  /\ state \notin {"HEAD", "ID", "INDEX1"} /\ Indexed(type) =>
       chirpIndex = HighIndex(buf[2].b) + LowIndex(buf[3].b)

\* Outside of a reconfiguration a chirp without a seam is as long as it should be.
ExactInv ==
  /\ cpc # "idle" => session
  /\ cpc # "need" =>
       /\ state = "DATA" => need > 0
       /\ state # "DATA" => need = BodyLen
       /\ ~seam => /\ state = "DATA"  => Len(buf) + need = HLEN + BodyLen
                   /\ state = "TAIL0" => Len(buf) = HLEN + BodyLen
                   /\ state = "TAIL1" => Len(buf) = HLEN + BodyLen + 1
                   /\ state = "TAIL2" => Len(buf) = HLEN + BodyLen + 2
                   /\ state = "TAIL3" => Len(buf) = HLEN + BodyLen + 3

\* The byte at position i of chirp k follows x on the wire.
Leads(x, k, i) == IF x.i < DataLen - 1 THEN i = x.i + 1 /\ k = x.k ELSE i = 0 /\ k = Next1(x.k)

\* Without a seam the buffer, the rest of the half and the next half are one run of bytes.
RunInv ==
  /\ Run(half)
  /\ half # << >> /\ ~fresh => Leads(half[Len(half)], chirp, off)
  /\ ~seam /\ state # "HEAD" =>
       /\ Run(buf)
       /\ half # << >> => Follows(half[1], buf[Len(buf)])
       /\ half = << >> /\ ~fresh => Leads(buf[Len(buf)], chirp, off)

IInv == TypeOK /\ ShapeInv /\ HeadInv /\ ExactInv /\ RunInv /\ DispatchedWhole

-----------------------------------------------------------------------------
(***************************************************************************)
(* The bytes on the wire.                                                  *)
(***************************************************************************)
LEMMA LenFacts ==
  /\ BodyLen \in Nat /\ BodyLen > 0 /\ DataLen \in Nat /\ DataLen = BodyLen + 8
  /\ BUF_LEN \in Nat /\ BUF_LEN >= 2 * BodyLen + 16
  BY LengthAssumption DEF DataLen, HLEN, TLEN

LEMMA NextFacts == \A k \in Chirps : Next1(k) \in Chirps
  BY FrameAssumption DEF Chirps, Next1

LEMMA IdFacts ==
  ASSUME NEW t \in DataTypes, NEW k \in Chirps
  PROVE  IdByte(t, k) \in Bytes /\ IndexByte(t, k) \in Bytes
<1>1. k \div 32 \in 0 .. 7 /\ (k % 32) * 8 \in Bytes
  BY FrameAssumption DEF Chirps, Bytes
<1>2. FirstId(t) \in {FFT0_ID, DSRAW0_ID, DFFT_PEAK_ID}
  BY DEF FirstId
<1> QED
  BY <1>1, <1>2 DEF IdByte, IndexByte, Bytes, FFT0_ID, DSRAW0_ID, DFFT_PEAK_ID

LEMMA ChirpType ==
  ASSUME NEW t \in DataTypes, NEW k \in Chirps, NEW c \in Bodies
  PROVE  /\ Chirp(t, k, c) \in [1 .. DataLen -> WireByte]
         /\ \A i \in 1 .. DataLen : Chirp(t, k, c)[i].k = k /\ Chirp(t, k, c)[i].i = i - 1
<1> DEFINE h == <<DATA_HEAD, IdByte(t, k), IndexByte(t, k), 0>>
           e == <<0, 0, 0, DATA_TAIL>>
           v == h \o c \o e
<1>1. c \in Seq(Bytes) /\ Len(c) = BodyLen
  BY BodiesAssumption, LenFacts
<1>2. h \in Seq(Bytes) /\ e \in Seq(Bytes) /\ Len(h) = 4 /\ Len(e) = 4
  BY IdFacts DEF Bytes, DATA_HEAD, DATA_TAIL
<1>3. h \o c \in Seq(Bytes) /\ Len(h \o c) = 4 + BodyLen
  BY <1>1, <1>2, ConcatProperties
<1>4. v \in Seq(Bytes) /\ Len(v) = DataLen
  BY <1>2, <1>3, ConcatProperties, LenFacts
<1>5. \A i \in 1 .. DataLen : v[i] \in Bytes
  BY <1>4, ElementOfSeq
<1>6. Chirp(t, k, c) = [i \in 1 .. DataLen |-> [b |-> v[i], k |-> k, i |-> i - 1]]
  BY DEF Chirp
<1>7. ASSUME NEW i \in 1 .. DataLen PROVE [b |-> v[i], k |-> k, i |-> i - 1] \in WireByte
  <2>1. i - 1 \in 0 .. DataLen - 1
    BY LenFacts
  <2>2. v[i] \in Bytes
    BY <1>5
  <2> HIDE DEF v
  <2> QED
    BY <2>1, <2>2 DEF WireByte
<1> HIDE DEF v
<1> QED
  BY <1>6, <1>7

\* A half that begins at position o of chirp k.
HalfOf(t, o, k, c, d) ==
  SubSeq(Chirp(t, k, c), o + 1, DataLen) \o SubSeq(Chirp(t, Next1(k), d), 1, o)

LEMMA HalfFacts ==
  ASSUME NEW t \in DataTypes, NEW o \in Offsets, NEW k \in Chirps,
         NEW c \in Bodies, NEW d \in Bodies
  PROVE  /\ HalfOf(t, o, k, c, d) \in Seq(WireByte)
         /\ Len(HalfOf(t, o, k, c, d)) = DataLen
         /\ \A j \in 1 .. DataLen :
              HalfOf(t, o, k, c, d)[j].k = (IF j <= DataLen - o THEN k ELSE Next1(k)) /\
              HalfOf(t, o, k, c, d)[j].i = (IF j <= DataLen - o THEN o + j - 1 ELSE j - (DataLen - o) - 1)
<1> DEFINE s == Chirp(t, k, c)
           u == Chirp(t, Next1(k), d)
           s1 == SubSeq(s, o + 1, DataLen)
           u1 == SubSeq(u, 1, o)
<1>1. o \in 0 .. DataLen - 1 /\ DataLen \in Nat
  BY LenFacts DEF Offsets
<1>2. s \in [1 .. DataLen -> WireByte] /\ u \in [1 .. DataLen -> WireByte]
  BY ChirpType, NextFacts
<1>3. s \in Seq(WireByte) /\ u \in Seq(WireByte) /\ Len(s) = DataLen /\ Len(u) = DataLen
  BY <1>1, <1>2
<1>4. /\ s1 \in Seq(WireByte) /\ Len(s1) = DataLen - o
      /\ \A j \in 1 .. DataLen - o : s1[j] = s[o + j]
  BY <1>1, <1>3
<1>5. /\ u1 \in Seq(WireByte) /\ Len(u1) = o
      /\ \A j \in 1 .. o : u1[j] = u[j]
  BY <1>1, <1>3
<1>7. /\ \A i \in 1 .. DataLen : s[i].k = k /\ s[i].i = i - 1
      /\ \A i \in 1 .. DataLen : u[i].k = Next1(k) /\ u[i].i = i - 1
  BY ChirpType, NextFacts
<1> HIDE DEF s, u, s1, u1
<1>6. /\ s1 \o u1 \in Seq(WireByte) /\ Len(s1 \o u1) = DataLen
      /\ \A j \in 1 .. DataLen : (s1 \o u1)[j] = IF j <= DataLen - o THEN s1[j] ELSE u1[j - (DataLen - o)]
  <2>1. /\ s1 \o u1 \in Seq(WireByte) /\ Len(s1 \o u1) = Len(s1) + Len(u1)
        /\ \A j \in 1 .. Len(s1) + Len(u1) : (s1 \o u1)[j] = IF j <= Len(s1) THEN s1[j] ELSE u1[j - Len(s1)]
    BY <1>4, <1>5, ConcatProperties
  <2>2. Len(s1) + Len(u1) = DataLen
    BY <1>1, <1>4, <1>5
  <2> QED
    BY <1>4, <2>1, <2>2
<1>8. ASSUME NEW j \in 1 .. DataLen
      PROVE  /\ (s1 \o u1)[j].k = (IF j <= DataLen - o THEN k ELSE Next1(k))
             /\ (s1 \o u1)[j].i = (IF j <= DataLen - o THEN o + j - 1 ELSE j - (DataLen - o) - 1)
  <2>1. CASE j <= DataLen - o
    <3>1. (s1 \o u1)[j] = s[o + j] /\ o + j \in 1 .. DataLen
      BY <1>1, <1>4, <1>6, <2>1
    <3> QED
      BY <1>1, <1>7, <2>1, <3>1
  <2>2. CASE ~(j <= DataLen - o)
    <3>1. (s1 \o u1)[j] = u[j - (DataLen - o)] /\ j - (DataLen - o) \in 1 .. o /\ o \in 1 .. DataLen
      BY <1>1, <1>5, <1>6, <2>2
    <3>2. j - (DataLen - o) \in 1 .. DataLen
      BY <1>1, <3>1
    <3> QED
      BY <1>1, <1>7, <2>2, <3>1, <3>2
  <2> QED
    BY <2>1, <2>2
<1>9. HalfOf(t, o, k, c, d) = s1 \o u1
  BY DEF HalfOf, s, u, s1, u1
<1> QED
  BY <1>6, <1>8, <1>9

\* Where a half begins, and that it is a run that leads to the next one.
LEMMA HalfRuns ==
  ASSUME NEW t \in DataTypes, NEW o \in Offsets, NEW k \in Chirps,
         NEW c \in Bodies, NEW d \in Bodies
  PROVE  /\ HalfOf(t, o, k, c, d)[1].k = k /\ HalfOf(t, o, k, c, d)[1].i = o
         /\ Run(HalfOf(t, o, k, c, d))
         /\ Leads(HalfOf(t, o, k, c, d)[DataLen], Next1(k), o)
<1> DEFINE h == HalfOf(t, o, k, c, d)
<1>1. /\ Len(h) = DataLen /\ DataLen \in Nat /\ DataLen > 0 /\ o \in 0 .. DataLen - 1
      /\ \A j \in 1 .. DataLen :
           /\ h[j].k = (IF j <= DataLen - o THEN k ELSE Next1(k))
           /\ h[j].i = (IF j <= DataLen - o THEN o + j - 1 ELSE j - (DataLen - o) - 1)
  BY HalfFacts, LenFacts DEF Offsets
<1> HIDE DEF h
<1>2. h[1].k = k /\ h[1].i = o
  BY <1>1
<1>3. ASSUME NEW j \in 1 .. Len(h) - 1 PROVE Follows(h[j + 1], h[j])
  <2>1. j \in 1 .. DataLen /\ j + 1 \in 1 .. DataLen
    BY <1>1
  <2>2. CASE j + 1 <= DataLen - o
    BY <1>1, <2>1, <2>2 DEF Follows
  <2>3. CASE j = DataLen - o
    BY <1>1, <2>1, <2>3 DEF Follows
  <2>4. CASE j > DataLen - o
    BY <1>1, <2>1, <2>4 DEF Follows
  <2> QED
    BY <1>1, <2>1, <2>2, <2>3, <2>4
<1>4. Leads(h[DataLen], Next1(k), o)
  <2>1. CASE o = 0
    BY <1>1, <2>1 DEF Leads
  <2>2. CASE o > 0
    BY <1>1, <2>2 DEF Leads
  <2> QED
    BY <1>1, <2>1, <2>2
<1> QED
  BY <1>2, <1>3, <1>4 DEF Run, h

LEMMA AppendFacts ==
  ASSUME NEW b \in Seq(WireByte), NEW x \in WireByte
  PROVE  /\ Append(b, x) \in Seq(WireByte)
         /\ Len(Append(b, x)) = Len(b) + 1 /\ Len(b) \in Nat
         /\ \A j \in 1 .. Len(b) : Append(b, x)[j] = b[j]
         /\ Append(b, x)[Len(b) + 1] = x
  OBVIOUS

\* A run stays one when the byte that follows is stored.
LEMMA RunGrows ==
  ASSUME NEW b \in Seq(WireByte), NEW x \in WireByte, Run(b), b # << >> => Follows(x, b[Len(b)])
  PROVE  Run(Append(b, x))
<1> SUFFICES ASSUME NEW j \in 1 .. Len(Append(b, x)) - 1
             PROVE  Follows(Append(b, x)[j + 1], Append(b, x)[j])
  BY DEF Run
<1>1. Len(b) \in Nat /\ j \in 1 .. Len(b)
  BY AppendFacts
<1>2. CASE j = Len(b)
  BY <1>1, <1>2, AppendFacts
<1>3. CASE j < Len(b)
  <2>1. j \in 1 .. Len(b) - 1 /\ j + 1 \in 1 .. Len(b)
    BY <1>1, <1>3
  <2> QED
    BY <2>1, <1>1, AppendFacts DEF Run
<1> QED
  BY <1>1, <1>2, <1>3

\* What the rest of a half keeps.
LEMMA TailFacts ==
  ASSUME NEW h \in Seq(WireByte), h # << >>
  PROVE  /\ h[1] \in WireByte /\ Head(h) = h[1]
         /\ Tail(h) \in Seq(WireByte) /\ Len(Tail(h)) = Len(h) - 1 /\ Len(h) \in Nat /\ Len(h) > 0
         /\ \A j \in 1 .. Len(h) - 1 : Tail(h)[j] = h[j + 1]
  OBVIOUS

LEMMA RunShrinks ==
  ASSUME NEW h \in Seq(WireByte), h # << >>, Run(h)
  PROVE  /\ Run(Tail(h))
         /\ Tail(h) # << >> => Follows(Tail(h)[1], h[1]) /\ Tail(h)[Len(Tail(h))] = h[Len(h)]
<1>1. /\ Len(Tail(h)) = Len(h) - 1 /\ Len(h) \in Nat /\ Len(h) > 0
      /\ \A j \in 1 .. Len(h) - 1 : Tail(h)[j] = h[j + 1]
      /\ Tail(h) \in Seq(WireByte)
  BY TailFacts
<1>2. ASSUME NEW j \in 1 .. Len(Tail(h)) - 1 PROVE Follows(Tail(h)[j + 1], Tail(h)[j])
  <2>1. j \in 1 .. Len(h) - 1 /\ j + 1 \in 1 .. Len(h) - 1
    BY <1>1
  <2> QED
    BY <1>1, <2>1 DEF Run
<1>3. ASSUME Tail(h) # << >> PROVE Follows(Tail(h)[1], h[1]) /\ Tail(h)[Len(Tail(h))] = h[Len(h)]
  <2>1. Len(Tail(h)) > 0 /\ 1 \in 1 .. Len(h) - 1
    BY <1>1, <1>3
  <2>2. Tail(h)[1] = h[2] /\ Tail(h)[Len(Tail(h))] = h[Len(h)]
    BY <1>1, <2>1
  <2> QED
    BY <2>1, <2>2 DEF Run
<1> QED
  BY <1>2, <1>3 DEF Run

-----------------------------------------------------------------------------
(***************************************************************************)
(* One byte: what happens to the buffer.                                   *)
(***************************************************************************)
ParseByte(x) ==
  \/ ParseHead(x) \/ ParseId(x) \/ ParseIndex1(x) \/ ParseIndex2(x)
  \/ ParseData(x) \/ ParseNothing(x) \/ ParseTail(x) \/ ParseLast(x)

LEMMA ByteFacts ==
  ASSUME TypeOK, DataParse
  PROVE  /\ half[1] \in WireByte /\ ParseByte(half[1])
         /\ half # << >> /\ half \in Seq(WireByte) /\ half' = Tail(half)
         /\ out' = Dispatched(half[1])
         /\ half[1].b \in Bytes
<1>1. half # << >> /\ half \in Seq(WireByte)
  BY DEF DataParse, TypeOK
<1>2. half[1] \in WireByte /\ Head(half) = half[1]
  BY <1>1, TailFacts
<1>3. half[1].b \in Bytes
  BY <1>2 DEF WireByte
<1> QED
  BY <1>1, <1>2, <1>3 DEF DataParse, ParseByte

LEMMA BufferFacts ==
  ASSUME TypeOK, NEW x \in WireByte, ParseByte(x)
  PROVE  /\ state' \in States
         /\ buf' \in Seq(WireByte)
         /\ buf' = << >> \/ buf' = buf \/ buf' = <<x>> \/ buf' = Append(buf, x)
         /\ state = "HEAD" /\ state' # "HEAD" => buf' = <<x>> /\ x.b = DATA_HEAD
         /\ state # "HEAD" /\ state' # "HEAD" => buf' = Append(buf, x)
<1> USE DEF ParseByte, Store, HeadStarts, States, TypeOK
<1>1. Append(buf, x) \in Seq(WireByte) /\ <<x>> \in Seq(WireByte)
  BY AppendFacts
<1>2. CASE ParseHead(x)
  BY <1>1, <1>2 DEF ParseHead
<1>3. CASE ParseId(x)
  BY <1>1, <1>3 DEF ParseId
<1>4. CASE ParseIndex1(x)
  BY <1>1, <1>4 DEF ParseIndex1
<1>5. CASE ParseIndex2(x)
  BY <1>1, <1>5 DEF ParseIndex2
<1>6. CASE ParseData(x)
  BY <1>1, <1>6 DEF ParseData
<1>7. CASE ParseNothing(x)
  BY <1>1, <1>7 DEF ParseNothing
<1>8. CASE ParseTail(x)
  BY <1>1, <1>8 DEF ParseTail
<1>9. CASE ParseLast(x)
  BY <1>1, <1>9 DEF ParseLast
<1> QED
  BY <1>2, <1>3, <1>4, <1>5, <1>6, <1>7, <1>8, <1>9

\* The index of a chirp fits into its byte.
LEMMA IndexFacts ==
  ASSUME NEW a \in Bytes, NEW b \in Bytes
  PROVE  /\ HighIndex(a) \in Bytes /\ LowIndex(b) \in Bytes
         /\ HighIndex(a) + LowIndex(b) \in Bytes
         /\ (HighIndex(a) + LowIndex(b)) % 256 = HighIndex(a) + LowIndex(b)
<1>1. HighIndex(a) \in 0 .. 224
  BY DEF HighIndex, Bytes
<1>2. LowIndex(b) \in 0 .. 31
  BY DEF LowIndex, Bytes
<1> QED
  BY <1>1, <1>2 DEF Bytes

-----------------------------------------------------------------------------
(***************************************************************************)
(* Type correctness, one lemma for each part of the next-state relation.   *)
(***************************************************************************)
LEMMA InitTypeOK ==
  ASSUME Init
  PROVE  TypeOK
<1>1. /\ spi \in BOOLEAN /\ off \in 0 .. DataLen - 1 /\ chirp \in Chirps /\ body \in Bodies
  <2>1. 0 \in 0 .. DataLen - 1
    BY LenFacts
  <2>2. 0 \in Chirps
    BY FrameAssumption DEF Chirps
  <2> QED
    BY <2>1, <2>2 DEF Init
<1>2. half \in Seq(WireByte) /\ Len(half) <= DataLen /\ buf \in Seq(WireByte)
  BY LenFacts DEF Init
<1>3. state \in States /\ need \in 0 .. BodyLen /\ chirpIndex \in Bytes
  BY LenFacts DEF Init, States, Bytes
<1>4. out \in Seq([index : Bytes, data : Seq(WireByte)]) /\ Len(out) <= 1
  BY DEF Init
<1>5. session \in BOOLEAN /\ cpc \in {"idle", "clear", "need", "open"} /\ sent \in DataTypes /\ type \in DataTypes
  BY DEF Init
<1>6. fresh \in BOOLEAN /\ seam \in BOOLEAN /\ whole \in BOOLEAN /\ missed \in Nat
  BY DEF Init
<1> QED
  BY ONLY <1>1, <1>2, <1>3, <1>4, <1>5, <1>6 DEF TypeOK

LEMMA ParserType ==
  ASSUME TypeOK, NEW x \in WireByte, ParseByte(x)
  PROVE  need' \in 0 .. BodyLen /\ chirpIndex' \in Bytes
<1> USE LenFacts DEF ParseByte, NeedRestored, TypeOK
<1>1. x.b \in Bytes
  BY DEF WireByte
<1>2. HighIndex(x.b) \in Bytes /\ LowIndex(x.b) \in Bytes
  BY <1>1, IndexFacts
<1>3. (chirpIndex + LowIndex(x.b)) % 256 \in Bytes
  <2>1. chirpIndex \in Bytes
    BY DEF TypeOK
  <2>2. chirpIndex \in Nat /\ LowIndex(x.b) \in Nat
    BY ONLY <1>2, <2>1 DEF Bytes
  <2> QED
    BY ONLY <2>2 DEF Bytes
<1>4. CASE ParseHead(x)
  BY <1>4 DEF ParseHead
<1>5. CASE ParseId(x)
  BY <1>2, <1>5 DEF ParseId
<1>6. CASE ParseIndex1(x)
  BY <1>3, <1>6 DEF ParseIndex1
<1>7. CASE ParseIndex2(x)
  BY <1>7 DEF ParseIndex2
<1>8. CASE ParseData(x)
  BY <1>8 DEF ParseData
<1>9. CASE ParseNothing(x)
  BY <1>9 DEF ParseNothing
<1>10. CASE ParseTail(x)
  BY <1>10 DEF ParseTail
<1>11. CASE ParseLast(x)
  BY <1>11 DEF ParseLast
<1> QED
  BY <1>4, <1>5, <1>6, <1>7, <1>8, <1>9, <1>10, <1>11

LEMMA DispatchedType ==
  ASSUME TypeOK, NEW x \in WireByte
  PROVE  Dispatched(x) \in Seq([index : Bytes, data : Seq(WireByte)]) /\ Len(Dispatched(x)) <= 1
<1>1. Append(buf, x) \in Seq(WireByte) /\ Len(Append(buf, x)) \in Nat
  BY AppendFacts DEF TypeOK
<1>2. Given(Append(buf, x)) \in Seq(WireByte)
  BY <1>1, LenFacts DEF Given
<1>6. (IF Indexed(type) THEN chirpIndex ELSE 0) \in Bytes
  BY DEF TypeOK, Bytes
<1>3. [index |-> IF Indexed(type) THEN chirpIndex ELSE 0, data |-> Given(Append(buf, x))]
        \in [index : Bytes, data : Seq(WireByte)]
  BY <1>2, <1>6
<1> HIDE DEF Given
<1> DEFINE R == [index : Bytes, data : Seq(WireByte)]
<1>4. ASSUME NEW r \in R PROVE <<r>> \in Seq(R) /\ Len(<<r>>) <= 1
  OBVIOUS
<1>5. << >> \in Seq(R) /\ Len(<< >>) <= 1
  OBVIOUS
<1> QED
  BY <1>3, <1>4, <1>5 DEF Dispatched

LEMMA ParseTypeOK ==
  ASSUME TypeOK, DataParse
  PROVE  TypeOK'
<1>1. half[1] \in WireByte /\ ParseByte(half[1]) /\ half' = Tail(half) /\ out' = Dispatched(half[1])
  BY ByteFacts
<1>2. half' \in Seq(WireByte) /\ Len(half') <= DataLen
  BY <1>1, ByteFacts, TailFacts, LenFacts DEF TypeOK
<1>3. state' \in States /\ buf' \in Seq(WireByte)
  BY <1>1, BufferFacts
<1>4. need' \in 0 .. BodyLen /\ chirpIndex' \in Bytes
  BY <1>1, ParserType
<1>5. out' \in Seq([index : Bytes, data : Seq(WireByte)]) /\ Len(out') <= 1
  BY <1>1, DispatchedType
<1>6. spi' \in BOOLEAN /\ seam' \in BOOLEAN /\ whole' \in BOOLEAN
  BY DEF DataParse, TypeOK
<1>7. missed' \in Nat
  BY DEF DataParse, TypeOK
<1>8. UNCHANGED <<off, chirp, body, fresh, session, cpc, sent, type>>
  BY DEF DataParse, cmdVars, typeVars
<1> QED
  BY ONLY TypeOK, <1>2, <1>3, <1>4, <1>5, <1>6, <1>7, <1>8 DEF TypeOK

LEMMA HalfTypeOK ==
  ASSUME TypeOK, NEW b \in Bodies, HalfArrives(b)
  PROVE  TypeOK'
<1>1. half' = HalfOf(sent, off, chirp, body, b)
  BY DEF HalfArrives, HalfOf
<1>2. half' \in Seq(WireByte) /\ Len(half') <= DataLen
  <2>1. sent \in DataTypes /\ off \in Offsets /\ chirp \in Chirps /\ body \in Bodies
    BY DEF TypeOK, Offsets
  <2>2. half' \in Seq(WireByte) /\ Len(half') = DataLen
    BY <1>1, <2>1, HalfFacts
  <2> QED
    BY <2>2, LenFacts
<1>3. chirp' \in Chirps /\ body' \in Bodies /\ out' = << >> /\ fresh' = FALSE
  BY NextFacts DEF HalfArrives, TypeOK
<1>4. seam' \in BOOLEAN /\ whole' \in BOOLEAN /\ missed' \in Nat
  BY DEF HalfArrives, TypeOK
<1>5. UNCHANGED <<spi, off, state, buf, need, chirpIndex, session, cpc, sent, type>>
  BY DEF HalfArrives, parserVars, cmdVars, typeVars
<1>6. out' \in Seq([index : Bytes, data : Seq(WireByte)]) /\ Len(out') <= 1
  BY <1>3
<1> QED
  BY ONLY TypeOK, <1>2, <1>3, <1>4, <1>5, <1>6 DEF TypeOK

LEMMA OpenedTypeOK ==
  ASSUME TypeOK, NEW o \in Offsets, NEW k \in Chirps, NEW b \in Bodies,
         SpiOpens(o, k, b) \/ FinishOpens(o, k, b)
  PROVE  TypeOK'
<1>1. Opened(o, k, b) /\ session' \in BOOLEAN /\ cpc' \in {"idle", "clear", "need", "open"}
  BY DEF SpiOpens, FinishOpens, cmdVars, TypeOK
<1>2. UNCHANGED <<half, state, buf, need, chirpIndex, sent, type, out, seam, whole, missed>>
  BY <1>1 DEF Opened, parserVars, typeVars
<1>3. spi' = TRUE /\ off' \in 0 .. DataLen - 1 /\ chirp' \in Chirps /\ body' \in Bodies /\ fresh' = TRUE
  BY <1>1 DEF Opened, Offsets
<1> QED
  BY ONLY TypeOK, <1>1, <1>2, <1>3 DEF TypeOK

\* The command task changes little.
CmdStep ==
  \/ \E t \in DataTypes : WriteType(t)
  \/ StartCfg \/ FinishCfg \/ ReconfigClears \/ ReconfigNeeds

LEMMA CmdTypeOK ==
  ASSUME TypeOK, CmdStep
  PROVE  TypeOK'
<1> USE DEF spiVars, typeVars, parserVars, cmdVars, pastVars
<1>1. CASE StartCfg
  BY <1>1 DEF StartCfg, TypeOK
<1>2. CASE FinishCfg
  BY <1>2 DEF FinishCfg, TypeOK
<1>3. CASE ReconfigClears
  BY <1>3, LenFacts DEF ReconfigClears, TypeOK, States, Bytes
<1>4. CASE ReconfigNeeds
  BY <1>4, LenFacts DEF ReconfigNeeds, NeedSet, TypeOK
<1>5. CASE \E t \in DataTypes : WriteType(t)
  BY <1>5 DEF WriteType, TypeOK
<1> QED
  BY <1>1, <1>2, <1>3, <1>4, <1>5 DEF CmdStep

-----------------------------------------------------------------------------
(***************************************************************************)
(* How full the buffer is, and what it begins with.                        *)
(***************************************************************************)
LEMMA RoomFacts == Room \in Nat /\ Room >= BodyLen /\ Room <= 2 * BodyLen
  BY LenFacts DEF Room

LEMMA StoreFacts ==
  ASSUME TypeOK, NEW x \in WireByte
  PROVE  /\ Len(buf) \in Nat /\ need \in Nat /\ need <= BodyLen
         /\ Store(x) => /\ Len(buf') = Len(buf) + 1
                        /\ buf'[Len(buf) + 1] = x
                        /\ \A j \in 1 .. Len(buf) : buf'[j] = buf[j]
         /\ HeadStarts(x) => Len(buf') = 1 /\ buf'[1] = x
<1>1. Len(buf) \in Nat /\ need \in Nat /\ need <= BodyLen
  BY LenFacts DEF TypeOK
<1>2. ASSUME Store(x)
      PROVE  /\ Len(buf') = Len(buf) + 1
             /\ buf'[Len(buf) + 1] = x
             /\ \A j \in 1 .. Len(buf) : buf'[j] = buf[j]
  BY <1>2, AppendFacts DEF TypeOK, Store
<1>3. ASSUME HeadStarts(x) PROVE Len(buf') = 1 /\ buf'[1] = x
  BY <1>3 DEF HeadStarts
<1> QED
  BY <1>1, <1>2, <1>3

LEMMA ParseShape ==
  ASSUME TypeOK, ShapeInv, DataParse
  PROVE  ShapeInv'
<1> DEFINE x == half[1]
<1>1. x \in WireByte /\ ParseByte(x)
  BY ByteFacts
<1>2. Room' = Room
  BY DEF DataParse, cmdVars, Room
<1> HIDE DEF x
<1>3. /\ Len(buf) \in Nat /\ need \in Nat /\ need <= BodyLen
      /\ Store(x) => Len(buf') = Len(buf) + 1
      /\ HeadStarts(x) => Len(buf') = 1
  BY <1>1, StoreFacts
<1> USE <1>2, <1>3, LenFacts, RoomFacts DEF ShapeInv, HLEN, TLEN, NeedRestored
<1>4. CASE ParseHead(x)
  BY <1>4 DEF ParseHead
<1>5. CASE ParseId(x)
  <2>1. state = "ID" /\ Len(buf) = 1
    BY <1>5 DEF ParseId
  <2>2. (state' = "INDEX1" /\ Len(buf') = 2) \/ (state' = "HEAD" /\ Len(buf') = 1)
    BY <1>5, <2>1 DEF ParseId
  <2> QED
    BY ONLY <2>2, LenFacts DEF ShapeInv, HLEN, TLEN
<1>6. CASE ParseIndex1(x)
  <2>1. Len(buf) = 2
    BY <1>6 DEF ParseIndex1
  <2>2. state' = "INDEX2" /\ Len(buf') = 3
    BY <1>6, <2>1 DEF ParseIndex1
  <2> QED
    BY ONLY <2>2 DEF ShapeInv
<1>7. CASE ParseIndex2(x)
  <2>1. Len(buf) = 3
    BY <1>7 DEF ParseIndex2
  <2>2. state' = "DATA" /\ Len(buf') = 4 /\ need' = need
    BY <1>7, <2>1 DEF ParseIndex2
  <2> QED
    BY <2>2 DEF ShapeInv
<1>8. CASE ParseData(x)
  BY <1>8 DEF ParseData
<1>9. CASE ParseNothing(x)
  BY <1>9 DEF ParseNothing
<1>10. CASE ParseTail(x)
  BY <1>10 DEF ParseTail
<1>11. CASE ParseLast(x)
  BY <1>11 DEF ParseLast
<1> QED
  BY ONLY <1>1, <1>4, <1>5, <1>6, <1>7, <1>8, <1>9, <1>10, <1>11 DEF ParseByte

LEMMA CmdShape ==
  ASSUME TypeOK, ShapeInv, CmdStep
  PROVE  ShapeInv'
<1>1. Len(buf) \in Nat /\ need \in Nat /\ need <= BodyLen
  BY LenFacts DEF TypeOK
<1> USE <1>1, LenFacts DEF ShapeInv, HLEN, TLEN, Room, spiVars, typeVars, parserVars, cmdVars, pastVars
<1>2. CASE StartCfg
  BY <1>2 DEF StartCfg
<1>3. CASE FinishCfg
  BY <1>3 DEF FinishCfg
<1>4. CASE ReconfigClears
  BY <1>4 DEF ReconfigClears
<1>5. CASE ReconfigNeeds
  BY <1>5 DEF ReconfigNeeds, NeedSet
<1>6. CASE \E t \in DataTypes : WriteType(t)
  BY <1>6 DEF WriteType
<1> QED
  BY <1>2, <1>3, <1>4, <1>5, <1>6 DEF CmdStep

LEMMA ParseHeadInv ==
  ASSUME TypeOK, ShapeInv, HeadInv, DataParse
  PROVE  HeadInv'
<1> DEFINE x == half[1]
<1>1. x \in WireByte /\ ParseByte(x) /\ x.b \in Bytes
  BY ByteFacts
<1> HIDE DEF x
<1>2. /\ Len(buf) \in Nat
      /\ Store(x) => /\ buf'[Len(buf) + 1] = x
                     /\ \A j \in 1 .. Len(buf) : buf'[j] = buf[j]
      /\ HeadStarts(x) => buf'[1] = x
  BY <1>1, StoreFacts
<1>12. type' = type
  BY DEF DataParse, typeVars
<1>3. state = "INDEX1" => buf[2].b \in Bytes
  <2>1. ASSUME state = "INDEX1" PROVE 2 \in 1 .. Len(buf)
    BY <2>1 DEF ShapeInv
  <2>2. ASSUME state = "INDEX1" PROVE buf[2] \in WireByte
    BY <2>1, <2>2, ElementOfSeq DEF TypeOK
  <2> QED
    BY <2>2 DEF WireByte
<1> USE <1>2, <1>12 DEF HeadInv, ShapeInv, HLEN
<1>4. CASE ParseHead(x)
  BY <1>4 DEF ParseHead
<1>5. CASE ParseId(x)
  <2>1. Len(buf) = 1 /\ buf[1].b = DATA_HEAD
    BY <1>5 DEF ParseId
  <2>2. CASE state' = "INDEX1"
    <3>1. buf'[1] = buf[1] /\ buf'[2] = x /\ (Indexed(type) => chirpIndex' = HighIndex(x.b))
      BY <1>5, <2>1, <2>2 DEF ParseId
    <3> QED
      BY ONLY <1>12, <2>1, <2>2, <3>1 DEF HeadInv, Indexed
  <2>3. CASE state' = "HEAD"
    BY ONLY <2>3 DEF HeadInv
  <2> QED
    BY <1>5, <2>2, <2>3 DEF ParseId
<1>6. CASE ParseIndex1(x)
  <2>1. Len(buf) = 2
    BY <1>6 DEF ParseIndex1
  <2>2. buf'[1] = buf[1] /\ buf'[2] = buf[2] /\ buf'[3] = x
    BY <1>6, <2>1 DEF ParseIndex1
  <2>3. Indexed(type) => chirpIndex' = HighIndex(buf[2].b) + LowIndex(x.b)
    BY <1>1, <1>3, <1>6, IndexFacts DEF ParseIndex1
  <2> QED
    BY <1>6, <2>2, <2>3 DEF ParseIndex1
<1>7. CASE ParseIndex2(x)
  <2>1. Len(buf) = 3
    BY <1>7 DEF ParseIndex2
  <2>2. \A j \in 1 .. 3 : buf'[j] = buf[j]
    BY <1>7, <2>1 DEF ParseIndex2
  <2>3. buf'[1] = buf[1] /\ buf'[2] = buf[2] /\ buf'[3] = buf[3]
    BY <2>2
  <2> QED
    BY <1>7, <2>3 DEF ParseIndex2
<1>8. CASE ParseData(x)
  BY <1>8 DEF ParseData
<1>9. CASE ParseNothing(x)
  BY <1>9 DEF ParseNothing
<1>10. CASE ParseTail(x)
  BY <1>10 DEF ParseTail
<1>11. CASE ParseLast(x)
  BY <1>11 DEF ParseLast
<1> QED
  BY ONLY <1>1, <1>4, <1>5, <1>6, <1>7, <1>8, <1>9, <1>10, <1>11 DEF ParseByte

LEMMA CmdHeadInv ==
  ASSUME HeadInv, CmdStep
  PROVE  HeadInv'
<1> USE DEF HeadInv, spiVars, typeVars, parserVars, cmdVars, pastVars
<1>1. CASE StartCfg
  BY <1>1 DEF StartCfg
<1>2. CASE FinishCfg
  BY <1>2 DEF FinishCfg
<1>3. CASE ReconfigClears
  BY <1>3 DEF ReconfigClears
<1>4. CASE ReconfigNeeds
  BY <1>4 DEF ReconfigNeeds, NeedSet
<1>5. CASE \E t \in DataTypes : WriteType(t)
  BY <1>5 DEF WriteType
<1> QED
  BY <1>1, <1>2, <1>3, <1>4, <1>5 DEF CmdStep

LEMMA ParseExact ==
  ASSUME TypeOK, ShapeInv, ExactInv, DataParse
  PROVE  ExactInv'
<1> DEFINE x == half[1]
<1>1. x \in WireByte /\ ParseByte(x)
  BY ByteFacts
<1>2. UNCHANGED <<session, cpc>> /\ (~seam' => state = "HEAD" \/ ~seam)
  BY DEF DataParse, cmdVars
<1> HIDE DEF x
<1>3. /\ Len(buf) \in Nat /\ need \in Nat /\ need <= BodyLen
      /\ Store(x) => Len(buf') = Len(buf) + 1
      /\ HeadStarts(x) => Len(buf') = 1
  BY <1>1, StoreFacts
<1> USE <1>2, <1>3, LenFacts DEF ExactInv, ShapeInv, HLEN, NeedRestored
<1>4. CASE ParseHead(x)
  BY <1>4 DEF ParseHead
<1>5. CASE ParseId(x)
  BY <1>5 DEF ParseId
<1>6. CASE ParseIndex1(x)
  BY <1>6 DEF ParseIndex1
<1>7. CASE ParseIndex2(x)
  <2>1. Len(buf) = 3 /\ (cpc # "need" => need = BodyLen)
    BY <1>7 DEF ParseIndex2
  <2>2. state' = "DATA" /\ Len(buf') = 4 /\ need' = need
    BY <1>7, <2>1 DEF ParseIndex2
  <2> QED
    BY <2>1, <2>2 DEF ExactInv
<1>8. CASE ParseData(x)
  BY <1>8 DEF ParseData
<1>9. CASE ParseNothing(x)
  BY <1>9 DEF ParseNothing
<1>10. CASE ParseTail(x)
  BY <1>10 DEF ParseTail
<1>11. CASE ParseLast(x)
  BY <1>11 DEF ParseLast
<1> QED
  BY ONLY <1>1, <1>4, <1>5, <1>6, <1>7, <1>8, <1>9, <1>10, <1>11 DEF ParseByte

LEMMA CmdExact ==
  ASSUME ExactInv, CmdStep
  PROVE  ExactInv'
<1> USE LenFacts DEF ExactInv, spiVars, typeVars, parserVars, cmdVars, pastVars
<1>1. CASE StartCfg
  BY <1>1 DEF StartCfg
<1>2. CASE FinishCfg
  BY <1>2 DEF FinishCfg
<1>3. CASE ReconfigClears
  BY <1>3 DEF ReconfigClears
<1>4. CASE ReconfigNeeds
  BY <1>4 DEF ReconfigNeeds, NeedSet
<1>5. CASE \E t \in DataTypes : WriteType(t)
  BY <1>5 DEF WriteType
<1> QED
  BY <1>1, <1>2, <1>3, <1>4, <1>5 DEF CmdStep

-----------------------------------------------------------------------------
(***************************************************************************)
(* The buffer, the rest of the half and the wire are one run of bytes.     *)
(***************************************************************************)
LEMMA ParseRun ==
  ASSUME TypeOK, RunInv, DataParse
  PROVE  RunInv'
<1> DEFINE x == half[1]
<1>1. /\ x \in WireByte /\ ParseByte(x)
      /\ half # << >> /\ half \in Seq(WireByte) /\ half' = Tail(half)
  BY ByteFacts
<1>2. UNCHANGED <<off, chirp, fresh>> /\ (~seam' => state = "HEAD" \/ ~seam)
  BY DEF DataParse
<1>3. Run(half) /\ (~fresh => Leads(half[Len(half)], chirp, off))
  BY <1>1 DEF RunInv
<1>4. /\ Run(half')
      /\ half' # << >> => Follows(half'[1], x) /\ half'[Len(half')] = half[Len(half)]
  BY <1>1, <1>3, RunShrinks
<1>5. half' = << >> => half[Len(half)] = x
  <2>1. Len(half') = Len(half) - 1 /\ Len(half) \in Nat
    BY <1>1, TailFacts
  <2> QED
    BY <2>1
<1> HIDE DEF x
<1>6. half' # << >> /\ ~fresh' => Leads(half'[Len(half')], chirp', off')
  BY <1>2, <1>3, <1>4
<1>7. ASSUME ~seam', state' # "HEAD"
      PROVE  /\ Run(buf')
             /\ half' # << >> => Follows(half'[1], buf'[Len(buf')])
             /\ half' = << >> /\ ~fresh' => Leads(buf'[Len(buf')], chirp', off')
  <2>1. Run(buf') /\ buf'[Len(buf')] = x
    <3>1. CASE state = "HEAD"
      <4>1. buf' = <<x>>
        BY <1>1, <1>7, <3>1, BufferFacts
      <4> QED
        BY <4>1 DEF Run
    <3>2. CASE state # "HEAD"
      <4>1. buf' = Append(buf, x) /\ buf \in Seq(WireByte)
        BY <1>1, <1>7, <3>2, BufferFacts DEF TypeOK
      <4>2. Run(buf) /\ Follows(x, buf[Len(buf)])
        BY <1>1, <1>2, <1>7, <3>2 DEF RunInv, x
      <4>3. Run(Append(buf, x))
        BY <1>1, <4>1, <4>2, RunGrows
      <4>4. Append(buf, x)[Len(Append(buf, x))] = x
        BY <1>1, <4>1, AppendFacts
      <4> QED
        BY <4>1, <4>3, <4>4
    <3> QED
      BY <3>1, <3>2
  <2> QED
    BY <1>2, <1>3, <1>4, <1>5, <2>1
<1> QED
  BY ONLY <1>4, <1>6, <1>7 DEF RunInv

LEMMA HalfRun ==
  ASSUME TypeOK, RunInv, NEW b \in Bodies, HalfArrives(b)
  PROVE  RunInv'
<1>1. sent \in DataTypes /\ off \in Offsets /\ chirp \in Chirps /\ body \in Bodies
  BY DEF TypeOK, Offsets
<1>2. half' = HalfOf(sent, off, chirp, body, b) /\ half = << >>
  BY DEF HalfArrives, HalfOf
<1>3. /\ half'[1].k = chirp /\ half'[1].i = off /\ Run(half')
      /\ Leads(half'[DataLen], Next1(chirp), off) /\ Len(half') = DataLen
  BY <1>1, <1>2, HalfRuns, HalfFacts
<1>4. chirp' = Next1(chirp) /\ UNCHANGED <<off, state, buf>> /\ (~seam' /\ state # "HEAD" => ~seam /\ ~fresh)
  BY DEF HalfArrives, parserVars
<1>5. half' # << >>
  BY <1>3, LenFacts
<1>6. ASSUME ~seam', state' # "HEAD" PROVE Run(buf') /\ Follows(half'[1], buf'[Len(buf')])
  <2>1. Run(buf) /\ Leads(buf[Len(buf)], chirp, off)
    BY <1>2, <1>4, <1>6 DEF RunInv
  <2>2. Follows(half'[1], buf[Len(buf)])
    BY <1>3, <2>1 DEF Leads, Follows
  <2> QED
    BY <1>4, <2>1, <2>2
<1> QED
  BY <1>3, <1>4, <1>5, <1>6 DEF RunInv

LEMMA OpenedRun ==
  ASSUME RunInv, NEW o, NEW k, NEW b, Opened(o, k, b)
  PROVE  RunInv'
  BY DEF Opened, RunInv, parserVars

LEMMA CmdRun ==
  ASSUME RunInv, CmdStep
  PROVE  RunInv'
<1> USE DEF RunInv, spiVars, typeVars, parserVars, cmdVars, pastVars
<1>1. CASE StartCfg
  BY <1>1 DEF StartCfg
<1>2. CASE FinishCfg
  BY <1>2 DEF FinishCfg
<1>3. CASE ReconfigClears
  BY <1>3 DEF ReconfigClears
<1>4. CASE ReconfigNeeds
  BY <1>4 DEF ReconfigNeeds
<1>5. CASE \E t \in DataTypes : WriteType(t)
  BY <1>5 DEF WriteType
<1> QED
  BY <1>1, <1>2, <1>3, <1>4, <1>5 DEF CmdStep

-----------------------------------------------------------------------------
(***************************************************************************)
(* What is dispatched is the buffer and the byte that closes it.           *)
(***************************************************************************)
LEMMA ParseDispatched ==
  ASSUME TypeOK, ShapeInv, HeadInv, ExactInv, RunInv, DataParse
  PROVE  DispatchedWhole'
<1> DEFINE x == half[1]
           d == Append(buf, x)
<1>1. x \in WireByte /\ out' = Dispatched(x) /\ half # << >>
  BY ByteFacts
<1> SUFFICES ASSUME out' # << >> PROVE DispatchedWhole'
  BY DEF DispatchedWhole
<1>2. state = "TAIL3" /\ x.b = DATA_TAIL /\ ~session
  BY <1>1 DEF Dispatched, Finished, TailMatches
<1>3. /\ out'[1].index = (IF Indexed(type) THEN chirpIndex ELSE 0) /\ out'[1].data = Given(d)
      /\ type' = type
  BY <1>1 DEF Dispatched, DataParse, typeVars
<1>4. buf \in Seq(WireByte) /\ d \in Seq(WireByte) /\ Len(d) = Len(buf) + 1 /\ Len(buf) \in Nat
  BY <1>1, AppendFacts DEF TypeOK
<1>5. (\A j \in 1 .. Len(buf) : d[j] = buf[j]) /\ d[Len(buf) + 1] = x
  BY <1>1, <1>4, AppendFacts
<1> HIDE DEF d, x
<1>6. /\ Len(buf) >= 4 /\ buf[1].b = DATA_HEAD
      /\ Indexed(type) => chirpIndex = HighIndex(buf[2].b) + LowIndex(buf[3].b)
  BY <1>2 DEF ShapeInv, HeadInv, HLEN
<1>7. Given(d)[1] = buf[1] /\ Given(d)[2] = buf[2] /\ Given(d)[3] = buf[3]
  <2>1. \A j \in 1 .. 3 : Given(d)[j] = d[j]
    BY <1>4, <1>6, LenFacts DEF Given
  <2>2. \A j \in 1 .. 3 : d[j] = buf[j]
    BY <1>4, <1>5, <1>6
  <2> QED
    BY <2>1, <2>2
<1>8. ASSUME ~seam'
      PROVE  Len(Given(d)) = DataLen /\ Given(d)[DataLen].b = DATA_TAIL /\ Run(Given(d))
  <2>1. ~seam
    BY <1>2, <1>8 DEF DataParse
  <2>2. cpc # "need"
    BY <1>2 DEF ExactInv
  <2>3. Len(buf) = HLEN + BodyLen + 3
    BY <1>2, <2>1, <2>2 DEF ExactInv
  <2>4. Len(d) = DataLen
    BY <1>4, <2>3, LenFacts DEF HLEN
  <2>5. Given(d) = d
    BY <1>4, <2>4, LenFacts DEF Given
  <2>6. Run(buf) /\ Follows(x, buf[Len(buf)])
    BY <1>1, <1>2, <2>1 DEF RunInv, x
  <2>7. Run(d)
    BY <1>1, <1>4, <2>6, RunGrows DEF d
  <2> QED
    BY <1>2, <1>4, <1>5, <2>4, <2>5, <2>7
<1> QED
  BY <1>3, <1>6, <1>7, <1>8 DEF DispatchedWhole, Indexed

-----------------------------------------------------------------------------
(***************************************************************************)
(* The invariant.                                                          *)
(***************************************************************************)
LEMMA InitInv ==
  ASSUME Init
  PROVE  IInv
<1>1. ShapeInv /\ HeadInv /\ ExactInv
  BY LenFacts DEF Init, ShapeInv, HeadInv, ExactInv, HLEN, TLEN
<1>2. RunInv
  BY DEF Init, RunInv, Run
<1>3. DispatchedWhole
  BY DEF Init, DispatchedWhole
<1> QED
  BY <1>1, <1>2, <1>3, InitTypeOK DEF IInv

LEMMA ParseInv ==
  ASSUME IInv, DataParse
  PROVE  IInv'
  BY ParseTypeOK, ParseShape, ParseHeadInv, ParseExact, ParseRun, ParseDispatched DEF IInv

LEMMA HalfInv ==
  ASSUME IInv, NEW b \in Bodies, HalfArrives(b)
  PROVE  IInv'
<1> USE DEF IInv
<1>1. TypeOK'
  BY HalfTypeOK
<1>2. UNCHANGED <<state, buf, need, chirpIndex, type, session, cpc>> /\ (~seam' => ~seam) /\ out' = << >>
  BY DEF HalfArrives, parserVars, cmdVars, typeVars
<1>3. ShapeInv' /\ HeadInv'
  BY <1>2 DEF ShapeInv, HeadInv, Room
<1>4. ExactInv'
  BY <1>2 DEF ExactInv
<1>5. RunInv'
  BY HalfRun
<1>6. DispatchedWhole'
  BY <1>2 DEF DispatchedWhole
<1> QED
  BY <1>1, <1>3, <1>4, <1>5, <1>6

LEMMA OpenedInv ==
  ASSUME IInv, NEW o \in Offsets, NEW k \in Chirps, NEW b \in Bodies,
         SpiOpens(o, k, b) \/ FinishOpens(o, k, b)
  PROVE  IInv'
<1> USE DEF IInv
<1>1. TypeOK'
  BY OpenedTypeOK
<1>2. Opened(o, k, b)
  BY DEF SpiOpens, FinishOpens
<1>3. UNCHANGED <<state, buf, need, chirpIndex, type, seam, out>>
  BY <1>2 DEF Opened, parserVars, typeVars
<1>4. (cpc' = cpc /\ session' = session) \/ (cpc = "open" /\ cpc' = "idle")
  BY DEF SpiOpens, FinishOpens, cmdVars
<1>5. ShapeInv' /\ HeadInv'
  BY <1>3, <1>4 DEF ShapeInv, HeadInv, Room
<1>6. ExactInv'
  BY <1>3, <1>4 DEF ExactInv
<1>7. RunInv'
  BY <1>2, OpenedRun
<1>8. DispatchedWhole'
  BY <1>3 DEF DispatchedWhole
<1> QED
  BY <1>1, <1>5, <1>6, <1>7, <1>8

LEMMA CmdInv ==
  ASSUME IInv, CmdStep
  PROVE  IInv'
<1> USE DEF IInv
<1>1. out' = << >> \/ (out' = out /\ type' = type /\ (~seam' => ~seam))
  <2>1. CASE StartCfg \/ FinishCfg
    BY <2>1 DEF StartCfg, FinishCfg, pastVars, typeVars
  <2>2. CASE ReconfigNeeds
    BY <2>2 DEF ReconfigNeeds, typeVars
  <2>3. CASE ReconfigClears
    BY <2>3 DEF ReconfigClears
  <2>4. CASE \E t \in DataTypes : WriteType(t)
    BY <2>4 DEF WriteType, pastVars
  <2> QED
    BY <2>1, <2>2, <2>3, <2>4 DEF CmdStep
<1>2. DispatchedWhole'
  BY <1>1 DEF DispatchedWhole
<1> QED
  BY <1>2, CmdTypeOK, CmdShape, CmdHeadInv, CmdExact, CmdRun

LEMMA Invariance == Spec => []IInv
<1>1. Init => IInv
  BY InitInv
<1>2. IInv /\ [Next]_vars => IInv'
  <2> SUFFICES ASSUME IInv, [Next]_vars PROVE IInv'
    OBVIOUS
  <2>1. ASSUME NEW o \in Offsets, NEW k \in Chirps, NEW b \in Bodies, SpiOpens(o, k, b) \/ FinishOpens(o, k, b)
        PROVE  IInv'
    BY <2>1, OpenedInv
  <2>2. ASSUME NEW b \in Bodies, HalfArrives(b) PROVE IInv'
    BY <2>2, HalfInv
  <2>3. CASE DataParse
    BY <2>3, ParseInv
  <2>4. CASE CmdStep
    BY <2>4, CmdInv
  <2>5. CASE UNCHANGED vars
    <3>1. UNCHANGED <<spi, off, chirp, body, sent, type, half, state, buf, need, chirpIndex, session, cpc,
                      out, fresh, seam, whole, missed>>
      BY <2>5 DEF vars, spiVars, typeVars, parserVars, cmdVars, pastVars
    <3>2. TypeOK' /\ ShapeInv' /\ HeadInv'
      BY <3>1 DEF IInv, TypeOK, ShapeInv, HeadInv, Room
    <3>3. ExactInv' /\ RunInv' /\ DispatchedWhole'
      BY <3>1 DEF IInv, ExactInv, RunInv, DispatchedWhole
    <3> QED
      BY <3>2, <3>3 DEF IInv
  <2> QED
    BY <2>1, <2>2, <2>3, <2>4, <2>5 DEF Next, CmdStep
<1> QED
  BY <1>1, <1>2, PTL DEF Spec

(***************************************************************************)
(* The parser keeps its types: needCopyLen never exceeds a body and the    *)
(* index of a chirp fits into its byte.                                    *)
(***************************************************************************)
THEOREM TypeCorrect == Spec => []TypeOK
<1>1. IInv => TypeOK
  BY DEF IInv
<1> QED
  BY <1>1, Invariance, PTL

(***************************************************************************)
(* Nothing is stored past RadarDataParse.buf, whatever the chirps contain  *)
(* and whenever DataProc_NeedReconfig resets the parser: a buffer of two   *)
(* chirps is always enough.                                                *)
(***************************************************************************)
THEOREM StoresInBounds == Spec => []StoreInBounds
<1>1. ASSUME IInv PROVE StoreInBounds
  <2>1. TypeOK /\ ShapeInv
    BY <1>1 DEF IInv
  <2>2. Len(buf) \in Nat /\ need \in Nat /\ state \in States
    BY <2>1, LenFacts DEF TypeOK
  <2>3. Len(buf) <= 2 * BodyLen + 8
    <3>1. CASE state \in {"HEAD", "DATA", "TAIL0", "TAIL1", "TAIL2", "TAIL3"}
      BY <3>1, <2>1, <2>2, RoomFacts, LenFacts DEF ShapeInv, HLEN, TLEN
    <3>2. CASE state \in {"ID", "INDEX1", "INDEX2"}
      <4>1. Len(buf) = 1 \/ Len(buf) = 2 \/ Len(buf) = 3
        BY <3>2, <2>1, Zenon DEF ShapeInv
      <4>2. \A n \in {1, 2, 3} : n <= 2 * BodyLen + 8
        BY LenFacts
      <4> QED
        BY <4>1, <4>2, Zenon
    <3> QED
      BY <2>2, <3>1, <3>2 DEF States
  <2> QED
    BY <2>2, <2>3, LenFacts DEF StoreInBounds
<1> QED
  BY <1>1, Invariance, PTL

(***************************************************************************)
(* A chirp handed to the analysis is one run of bytes as the radar sent    *)
(* them, for bodies of any bytes and a SPI opened anywhere in a chirp.     *)
(***************************************************************************)
THEOREM ChirpsAreWhole == Spec => []DispatchedWhole
<1>1. IInv => DispatchedWhole
  BY DEF IInv
<1> QED
  BY <1>1, Invariance, PTL

-----------------------------------------------------------------------------
(***************************************************************************)
(* The way back into step.                                                 *)
(***************************************************************************)

\* What the parser and the radar know of each other: outside of a session they
\* agree on the data type, and the half has the marks of that type at their places.
Marked(t, x) ==
  /\ x.i = 0 => x.b = DATA_HEAD
  /\ x.i = 1 => 16 * (x.b \div 16) \in Ids(t)
  /\ x.i = DataLen - 1 => x.b = DATA_TAIL

SyncInv ==
  /\ ~session \/ cpc \in {"need", "open"} => type = sent
  /\ \A j \in 1 .. Len(half) : Marked(sent, half[j])

\* The position of the next byte, and how many bytes the parser still takes
\* before it looks for a head again.
Pos == IF half = << >> THEN off ELSE half[1].i
Remaining ==
  CASE state = "ID"     -> need + 7
    [] state = "INDEX1" -> need + 6
    [] state = "INDEX2" -> need + 5
    [] state = "DATA"   -> need + 4
    [] state = "TAIL0"  -> 4
    [] state = "TAIL1"  -> 3
    [] state = "TAIL2"  -> 2
    [] state = "TAIL3"  -> 1
    [] OTHER            -> 0

(***************************************************************************)
(* In step, the parser takes each byte for what it is.  Otherwise it looks *)
(* for a head when a chirp without a second one ends, and is in step with  *)
(* the chirp behind it.                                                    *)
(***************************************************************************)
InStep == IF state = "HEAD" THEN Pos = 0 ELSE Remaining = DataLen - Pos
OnWay == IF state = "HEAD" THEN Pos >= 1 ELSE Remaining <= DataLen - Pos

BackInv ==
  /\ BackInStep
  /\ ~session /\ (half # << >> \/ ~fresh) => InStep \/ (missed = 0 /\ (whole => OnWay))

-----------------------------------------------------------------------------
(***************************************************************************)
(* The marks of a data type.                                               *)
(***************************************************************************)
LEMMA IdMark ==
  ASSUME NEW t \in DataTypes, NEW k \in Chirps
  PROVE  16 * (IdByte(t, k) \div 16) \in Ids(t)
<1>1. k \div 32 \in 0 .. 7
  BY FrameAssumption DEF Chirps
<1>2. \A a \in 0 .. 7 : /\ 16 * ((48 + a) \div 16) = 48
                        /\ 16 * ((32 + a) \div 16) = 32
                        /\ 16 * ((64 + 0) \div 16) = 64
  OBVIOUS
<1>3. t \in {"FFT", "DSRAW", "DFFT_PEAK"}
  BY TypesAssumption
<1> USE DEF IdByte, FirstId, Ids, Indexed, FFT0_ID, FFT1_ID, DSRAW0_ID, DSRAW1_ID, DFFT_PEAK_ID
<1>4. CASE t = "FFT"
  BY <1>1, <1>2, <1>4
<1>5. CASE t = "DSRAW"
  BY <1>1, <1>2, <1>5
<1>6. CASE t = "DFFT_PEAK"
  BY <1>2, <1>6
<1> QED
  BY <1>3, <1>4, <1>5, <1>6

LEMMA ChirpMarks ==
  ASSUME NEW t \in DataTypes, NEW k \in Chirps, NEW c \in Bodies
  PROVE  \A i \in 1 .. DataLen : Marked(t, Chirp(t, k, c)[i])
<1> DEFINE h == <<DATA_HEAD, IdByte(t, k), IndexByte(t, k), 0>>
           e == <<0, 0, 0, DATA_TAIL>>
           a == h \o c
           v == a \o e
<1>1. c \in Seq(Bytes) /\ Len(c) = BodyLen
  BY BodiesAssumption, LenFacts
<1>2. /\ h \in Seq(Bytes) /\ e \in Seq(Bytes) /\ Len(h) = 4 /\ Len(e) = 4
      /\ h[1] = DATA_HEAD /\ h[2] = IdByte(t, k) /\ e[4] = DATA_TAIL
  BY IdFacts DEF Bytes, DATA_HEAD, DATA_TAIL
<1> HIDE DEF h, e
<1>3. /\ a \in Seq(Bytes) /\ Len(a) = 4 + BodyLen /\ a[1] = h[1] /\ a[2] = h[2]
  <2>1. /\ a \in Seq(Bytes) /\ Len(a) = Len(h) + Len(c)
        /\ \A i \in 1 .. Len(h) + Len(c) : a[i] = IF i <= Len(h) THEN h[i] ELSE c[i - Len(h)]
    BY <1>1, <1>2, ConcatProperties
  <2>2. 1 \in 1 .. Len(h) + Len(c) /\ 2 \in 1 .. Len(h) + Len(c) /\ 1 <= Len(h) /\ 2 <= Len(h)
    BY <1>1, <1>2, LenFacts
  <2> QED
    BY <1>1, <1>2, <2>1, <2>2
<1> HIDE DEF a
<1>4. v[1] = DATA_HEAD /\ v[2] = IdByte(t, k) /\ v[DataLen] = DATA_TAIL
  <2>1. \A i \in 1 .. Len(a) + Len(e) : v[i] = IF i <= Len(a) THEN a[i] ELSE e[i - Len(a)]
    BY <1>2, <1>3, ConcatProperties
  <2>2. /\ 1 \in 1 .. Len(a) + Len(e) /\ 2 \in 1 .. Len(a) + Len(e) /\ 1 <= Len(a) /\ 2 <= Len(a)
        /\ DataLen \in 1 .. Len(a) + Len(e) /\ ~(DataLen <= Len(a)) /\ DataLen - Len(a) = 4
    BY <1>2, <1>3, LenFacts
  <2>3. v[1] = a[1] /\ v[2] = a[2] /\ v[DataLen] = e[4]
    BY <2>1, <2>2
  <2> QED
    BY <1>2, <1>3, <2>3
<1>5. Chirp(t, k, c) = [i \in 1 .. DataLen |-> [b |-> v[i], k |-> k, i |-> i - 1]]
  BY DEF Chirp, v, a, h, e
<1> HIDE DEF v
<1> TAKE i \in 1 .. DataLen
<1>6. Chirp(t, k, c)[i].b = v[i] /\ Chirp(t, k, c)[i].i = i - 1
  BY <1>5
<1>7. /\ i - 1 = 0 => i = 1
      /\ i - 1 = 1 => i = 2
      /\ i - 1 = DataLen - 1 => i = DataLen
  BY LenFacts
<1> QED
  BY <1>4, <1>6, <1>7, IdMark DEF Marked

LEMMA HalfMarks ==
  ASSUME NEW t \in DataTypes, NEW o \in Offsets, NEW k \in Chirps,
         NEW c \in Bodies, NEW d \in Bodies
  PROVE  \A j \in 1 .. DataLen : Marked(t, HalfOf(t, o, k, c, d)[j])
<1> DEFINE s == Chirp(t, k, c)
           u == Chirp(t, Next1(k), d)
           s1 == SubSeq(s, o + 1, DataLen)
           u1 == SubSeq(u, 1, o)
<1>1. o \in 0 .. DataLen - 1 /\ DataLen \in Nat
  BY LenFacts DEF Offsets
<1>2. s \in [1 .. DataLen -> WireByte] /\ u \in [1 .. DataLen -> WireByte]
  BY ChirpType, NextFacts
<1>3. s \in Seq(WireByte) /\ u \in Seq(WireByte) /\ Len(s) = DataLen /\ Len(u) = DataLen
  BY <1>1, <1>2
<1>4. /\ s1 \in Seq(WireByte) /\ Len(s1) = DataLen - o
      /\ \A j \in 1 .. DataLen - o : s1[j] = s[o + j]
  BY <1>1, <1>3
<1>5. /\ u1 \in Seq(WireByte) /\ Len(u1) = o
      /\ \A j \in 1 .. o : u1[j] = u[j]
  BY <1>1, <1>3
<1>6. (\A i \in 1 .. DataLen : Marked(t, s[i])) /\ (\A i \in 1 .. DataLen : Marked(t, u[i]))
  BY ChirpMarks, NextFacts
<1>7. HalfOf(t, o, k, c, d) = s1 \o u1
  BY DEF HalfOf
<1> HIDE DEF s, u, s1, u1
<1>8. \A j \in 1 .. DataLen : (s1 \o u1)[j] = IF j <= DataLen - o THEN s1[j] ELSE u1[j - (DataLen - o)]
  <2>1. \A j \in 1 .. Len(s1) + Len(u1) : (s1 \o u1)[j] = IF j <= Len(s1) THEN s1[j] ELSE u1[j - Len(s1)]
    BY <1>4, <1>5, ConcatProperties
  <2>2. Len(s1) + Len(u1) = DataLen
    BY <1>1, <1>4, <1>5
  <2> QED
    BY <1>4, <2>1, <2>2
<1>9. ASSUME NEW j \in 1 .. DataLen PROVE Marked(t, (s1 \o u1)[j])
  <2>1. CASE j <= DataLen - o
    <3>1. j \in 1 .. DataLen - o /\ o + j \in 1 .. DataLen
      BY <1>1, <2>1
    <3> QED
      BY <1>4, <1>6, <1>8, <2>1, <3>1
  <2>2. CASE ~(j <= DataLen - o)
    <3>1. j - (DataLen - o) \in 1 .. o /\ j - (DataLen - o) \in 1 .. DataLen
      BY <1>1, <2>2
    <3> QED
      BY <1>5, <1>6, <1>8, <2>2, <3>1
  <2> QED
    BY <2>1, <2>2
<1> QED
  BY <1>7, <1>9

-----------------------------------------------------------------------------
(***************************************************************************)
(* One byte.                                                               *)
(***************************************************************************)

\* The byte the parser takes and the one that comes after it.
LEMMA PosFacts ==
  ASSUME TypeOK, RunInv, SyncInv, DataParse
  PROVE  /\ Pos = half[1].i /\ Pos \in 0 .. DataLen - 1 /\ Marked(sent, half[1])
         /\ half' # << >> \/ ~fresh' => Pos' = IF Pos < DataLen - 1 THEN Pos + 1 ELSE 0
<1> DEFINE x == half[1]
<1>1. x \in WireByte /\ half # << >> /\ half \in Seq(WireByte) /\ half' = Tail(half)
  BY ByteFacts
<1>2. UNCHANGED <<off, fresh>>
  BY DEF DataParse
<1>3. /\ Len(half) \in Nat /\ Len(half) > 0 /\ Len(half') = Len(half) - 1
      /\ half' # << >> => Follows(half'[1], x)
  BY <1>1, TailFacts, RunShrinks DEF RunInv
<1>4. half' = << >> /\ ~fresh => Leads(x, chirp, off)
  <2>1. half' = << >> => Len(half) = 1
    BY <1>3
  <2> QED
    BY <1>1, <2>1 DEF RunInv
<1>5. x.i \in 0 .. DataLen - 1 /\ Marked(sent, x) /\ Pos = x.i
  <2>1. 1 \in 1 .. Len(half)
    BY <1>3
  <2> QED
    BY <1>1, <2>1 DEF WireByte, SyncInv, Pos
<1> HIDE DEF x
<1>6. CASE half' # << >>
  <2>1. Pos' = half'[1].i
    BY <1>6 DEF Pos
  <2> QED
    BY <1>3, <1>5, <1>6, <2>1 DEF Follows, x
<1>7. CASE half' = << >>
  <2>1. Pos' = off
    BY <1>2, <1>7 DEF Pos
  <2> QED
    BY <1>2, <1>4, <1>5, <1>7, <2>1 DEF Leads, x
<1> QED
  BY <1>6, <1>7

\* Each byte brings the parser nearer to the next head it looks for.
LEMMA RemainingFacts ==
  ASSUME TypeOK, ExactInv, cpc # "need", NEW x \in WireByte, ParseByte(x)
  PROVE  /\ Remaining \in Nat /\ Remaining <= DataLen - 1
         /\ state = "HEAD" => state' = (IF x.b = DATA_HEAD THEN "ID" ELSE "HEAD")
                              /\ (state' = "ID" => Remaining' = DataLen - 1)
         /\ state # "HEAD" => /\ Remaining >= 1 /\ (Remaining = 1 <=> state = "TAIL3")
                              /\ Remaining = DataLen - 1 /\ IdMatches(x) => state' # "HEAD"
                              /\ Remaining > 1 /\ Remaining # DataLen - 1 => state' # "HEAD"
                              /\ state' # "HEAD" => Remaining' = Remaining - 1
                              /\ state = "TAIL3" => state' = "HEAD"
<1>1. /\ need \in Nat /\ need <= BodyLen /\ state \in States
      /\ state = "DATA" => need > 0
      /\ state # "DATA" => need = BodyLen
  BY LenFacts DEF TypeOK, ExactInv
<1> USE <1>1, LenFacts DEF Remaining, NeedRestored
<1>2. CASE ParseHead(x)
  BY <1>2 DEF ParseHead
<1>3. CASE ParseId(x)
  BY <1>3 DEF ParseId
<1>4. CASE ParseIndex1(x)
  BY <1>4 DEF ParseIndex1
<1>5. CASE ParseIndex2(x)
  BY <1>5 DEF ParseIndex2
<1>6. CASE ParseData(x)
  BY <1>6 DEF ParseData
<1>7. CASE ParseNothing(x)
  BY <1>7 DEF ParseNothing
<1>8. CASE ParseTail(x)
  BY <1>8 DEF ParseTail
<1>9. CASE ParseLast(x)
  BY <1>9 DEF ParseLast
<1> QED
  BY ONLY <1>2, <1>3, <1>4, <1>5, <1>6, <1>7, <1>8, <1>9, ParseByte(x) DEF ParseByte

-----------------------------------------------------------------------------
(***************************************************************************)
(* The invariant behind BackInStep.                                        *)
(***************************************************************************)
LEMMA MissedFacts ==
  ASSUME TypeOK, DataParse
  PROVE  /\ session \/ out' # << >> => missed' = 0
         /\ missed' \in {0, missed, missed + 1}
         /\ ~(whole' /\ half[1].i = DataLen - 1) => missed' \in {0, missed}
         /\ whole' <=> (half[1].i = 0 \/ (whole /\ half[1].b # DATA_HEAD))
         /\ out' # << >> <=> state = "TAIL3" /\ half[1].b = DATA_TAIL /\ ~session
<1>1. half # << >> /\ half \in Seq(WireByte) /\ Head(half) = half[1] /\ out' = Dispatched(half[1])
  BY ByteFacts, TailFacts
<1> DEFINE x == half[1]
<1>2. /\ whole' = (x.i = 0 \/ (whole /\ x.b # DATA_HEAD))
      /\ missed' = CASE out' # << >> \/ session                 -> 0
                     [] out' = << >> /\ whole' /\ x.i = DataLen - 1 /\ ~session -> missed + 1
                     [] OTHER                                   -> missed
  BY <1>1 DEF DataParse
<1>3. out' # << >> <=> state = "TAIL3" /\ x.b = DATA_TAIL /\ ~session
  BY <1>1 DEF Dispatched, Finished, TailMatches
<1> HIDE DEF x
<1>4. CASE out' # << >> \/ session
  <2>1. missed' = 0
    BY <1>2, <1>4
  <2> QED
    BY <1>2, <1>3, <2>1 DEF x
<1>5. CASE out' = << >> /\ ~session /\ whole' /\ x.i = DataLen - 1
  <2>1. missed' = missed + 1
    BY <1>2, <1>5
  <2> QED
    BY <1>2, <1>3, <1>5, <2>1 DEF x
<1>6. CASE out' = << >> /\ ~session /\ ~(whole' /\ x.i = DataLen - 1)
  <2>1. missed' = missed
    BY <1>2, <1>6
  <2> QED
    BY <1>2, <1>3, <1>6, <2>1 DEF x
<1> QED
  BY <1>4, <1>5, <1>6

LEMMA ParseSync ==
  ASSUME TypeOK, SyncInv, DataParse
  PROVE  SyncInv'
<1>1. half # << >> /\ half \in Seq(WireByte) /\ half' = Tail(half)
  BY ByteFacts
<1>2. UNCHANGED <<session, cpc, type, sent>>
  BY DEF DataParse, cmdVars, typeVars
<1>3. /\ Len(half) \in Nat /\ Len(half') = Len(half) - 1
      /\ \A j \in 1 .. Len(half) - 1 : half'[j] = half[j + 1]
  BY <1>1, TailFacts
<1>4. ASSUME NEW j \in 1 .. Len(half') PROVE Marked(sent, half'[j])
  <2>1. j \in 1 .. Len(half) - 1 /\ j + 1 \in 1 .. Len(half)
    BY <1>3
  <2> QED
    BY <1>3, <2>1 DEF SyncInv
<1> QED
  BY <1>2, <1>4 DEF SyncInv

\* A byte outside of a session, when the place of the next one is known.
LEMMA ParseBackOn ==
  ASSUME IInv, SyncInv, BackInv, DataParse, ~session, half' # << >> \/ ~fresh'
  PROVE  missed' <= 1 /\ (InStep' \/ (missed' = 0 /\ (whole' => OnWay')))
<1> DEFINE x == half[1]
           p == Pos
           r == Remaining
<1>1. TypeOK /\ ExactInv /\ RunInv /\ cpc # "need" /\ type = sent
  BY DEF IInv, ExactInv, SyncInv
<1>2. x \in WireByte /\ ParseByte(x) /\ half # << >>
  BY <1>1, ByteFacts
<1>3. /\ p = x.i /\ p \in 0 .. DataLen - 1 /\ Marked(sent, x)
      /\ Pos' = IF p < DataLen - 1 THEN p + 1 ELSE 0
  BY <1>1, PosFacts
<1>4. /\ r \in Nat /\ r <= DataLen - 1
      /\ state = "HEAD" => state' = (IF x.b = DATA_HEAD THEN "ID" ELSE "HEAD")
                           /\ (state' = "ID" => Remaining' = DataLen - 1)
      /\ state # "HEAD" => /\ r >= 1 /\ (r = 1 <=> state = "TAIL3")
                           /\ r = DataLen - 1 /\ IdMatches(x) => state' # "HEAD"
                           /\ r > 1 /\ r # DataLen - 1 => state' # "HEAD"
                           /\ state' # "HEAD" => Remaining' = r - 1
                           /\ state = "TAIL3" => state' = "HEAD"
  BY <1>1, <1>2, RemainingFacts
<1>5. /\ out' # << >> => missed' = 0
      /\ missed' \in {0, missed, missed + 1}
      /\ ~(whole' /\ p = DataLen - 1) => missed' \in {0, missed}
      /\ whole' <=> (p = 0 \/ (whole /\ x.b # DATA_HEAD))
      /\ state = "TAIL3" /\ x.b = DATA_TAIL => out' # << >>
  BY <1>1, <1>3, MissedFacts
<1>6. missed \in Nat /\ missed <= 1
  BY <1>1 DEF TypeOK, BackInv, BackInStep
<1>7. InStep \/ (missed = 0 /\ (whole => OnWay))
  BY <1>2 DEF BackInv
<1>8. /\ InStep <=> (IF state = "HEAD" THEN p = 0 ELSE r = DataLen - p)
      /\ OnWay <=> (IF state = "HEAD" THEN p >= 1 ELSE r <= DataLen - p)
      /\ InStep' <=> (IF state' = "HEAD" THEN Pos' = 0 ELSE Remaining' = DataLen - Pos')
      /\ OnWay' <=> (IF state' = "HEAD" THEN Pos' >= 1 ELSE Remaining' <= DataLen - Pos')
  BY DEF InStep, OnWay
<1>9. DATA_HEAD # DATA_TAIL
  BY DEF DATA_HEAD, DATA_TAIL
<1>10. /\ p = 0 => x.b = DATA_HEAD
       /\ p = 1 => IdMatches(x)
       /\ p = DataLen - 1 => x.b = DATA_TAIL
  BY <1>1, <1>3 DEF Marked, IdMatches
<1> HIDE DEF x, p, r
<1> USE LenFacts
<1>11. CASE InStep /\ state = "HEAD"
  <2>1. p = 0 /\ state' = "ID" /\ Remaining' = DataLen - 1 /\ Pos' = 1
    BY <1>3, <1>4, <1>8, <1>10, <1>11
  <2>2. missed' \in {0, missed}
    BY <1>5, <2>1
  <2> QED
    BY <1>6, <1>8, <2>1, <2>2
<1>12. CASE InStep /\ state # "HEAD" /\ p = DataLen - 1
  <2>1. state = "TAIL3" /\ state' = "HEAD" /\ Pos' = 0 /\ missed' = 0
    BY <1>3, <1>4, <1>5, <1>8, <1>10, <1>12
  <2> QED
    BY <1>8, <2>1
<1>13. CASE InStep /\ state # "HEAD" /\ p # DataLen - 1
  <2>1. r = DataLen - p /\ Pos' = p + 1 /\ r > 1
    BY <1>3, <1>4, <1>8, <1>13
  <2>2. state' # "HEAD"
    <3>1. CASE p = 1
      BY <1>4, <1>10, <1>13, <2>1, <3>1
    <3>2. CASE p # 1
      BY <1>3, <1>4, <1>13, <2>1, <3>2
    <3> QED
      BY <3>1, <3>2
  <2>3. Remaining' = DataLen - Pos'
    BY <1>3, <1>4, <1>13, <2>1, <2>2
  <2>4. missed' \in {0, missed}
    BY <1>5, <1>13
  <2> QED
    BY <1>6, <1>8, <2>2, <2>3, <2>4
<1>14. CASE ~InStep /\ p = DataLen - 1
  <2>1. missed = 0 /\ (whole => OnWay) /\ Pos' = 0 /\ x.b = DATA_TAIL /\ missed' \in {0, 1}
    BY <1>3, <1>5, <1>7, <1>10, <1>14
  <2>2. CASE whole
    <3>1. state' = "HEAD"
      BY <1>4, <1>8, <1>9, <1>14, <2>1, <2>2
    <3> QED
      BY <1>8, <2>1, <3>1
  <2>3. CASE ~whole
    <3>1. ~whole'
      <4>1. p # 0
        BY <1>14
      <4> QED
        BY <1>5, <2>3, <4>1
    <3>2. missed' = 0
      BY <1>5, <2>1, <3>1
    <3> QED
      BY <3>1, <3>2
  <2> QED
    BY <2>2, <2>3
<1>15. CASE ~InStep /\ p # DataLen - 1
  <2>1. missed' = 0 /\ (whole => OnWay) /\ Pos' = p + 1 /\ p \in Nat
    BY <1>3, <1>5, <1>7, <1>15
  <2>2. ASSUME whole' PROVE OnWay'
    <3>1. CASE p = 0
      <4>1. state # "HEAD"
        BY <1>8, <1>15, <3>1
      <4> QED
        BY <1>4, <1>8, <2>1, <3>1, <4>1
    <3>2. CASE p # 0
      <4>1. OnWay /\ x.b # DATA_HEAD
        BY <1>5, <2>1, <2>2, <3>2
      <4>2. CASE state = "HEAD"
        BY <1>4, <1>8, <2>1, <4>1, <4>2
      <4>3. CASE state # "HEAD"
        BY <1>3, <1>4, <1>8, <2>1, <4>1, <4>3
      <4> QED
        BY <4>2, <4>3
    <3> QED
      BY <3>1, <3>2
  <2> QED
    BY <2>1, <2>2
<1> QED
  BY <1>11, <1>12, <1>13, <1>14, <1>15

\* And whether or not that place is known.
LEMMA ParseMissed ==
  ASSUME IInv, SyncInv, BackInv, DataParse, ~session
  PROVE  missed' <= 1
<1> DEFINE x == half[1]
           p == Pos
<1>1. TypeOK /\ ExactInv /\ RunInv /\ cpc # "need" /\ type = sent
  BY DEF IInv, ExactInv, SyncInv
<1>2. x \in WireByte /\ ParseByte(x) /\ half # << >>
  BY <1>1, ByteFacts
<1>3. p = x.i /\ p \in 0 .. DataLen - 1 /\ (p = DataLen - 1 => x.b = DATA_TAIL)
  BY <1>1, PosFacts DEF Marked
<1>4. /\ out' # << >> => missed' = 0
      /\ missed' \in {0, missed, missed + 1}
      /\ p # DataLen - 1 => missed' \in {0, missed}
      /\ state = "TAIL3" /\ x.b = DATA_TAIL => out' # << >>
  BY <1>1, <1>3, MissedFacts
<1>5. missed \in Nat /\ missed <= 1
  BY <1>1 DEF TypeOK, BackInv, BackInStep
<1>6. missed = 0 \/ InStep
  BY <1>2 DEF BackInv
<1>7. InStep /\ p = DataLen - 1 => state = "TAIL3"
  <2> SUFFICES ASSUME InStep, p = DataLen - 1 PROVE state = "TAIL3"
    OBVIOUS
  <2>1. state # "HEAD" => (Remaining = 1 <=> state = "TAIL3")
    BY <1>1, <1>2, RemainingFacts
  <2>2. IF state = "HEAD" THEN p = 0 ELSE Remaining = DataLen - p
    BY DEF InStep
  <2> HIDE DEF p
  <2> QED
    BY <2>1, <2>2, LenFacts
<1> HIDE DEF x, p
<1>8. CASE missed = 0
  BY <1>4, <1>8
<1>9. CASE InStep /\ p = DataLen - 1
  BY <1>3, <1>4, <1>7, <1>9
<1>10. CASE InStep /\ p # DataLen - 1
  BY <1>4, <1>5, <1>10
<1> QED
  BY <1>6, <1>8, <1>9, <1>10

LEMMA ParseBack ==
  ASSUME IInv, SyncInv, BackInv, DataParse
  PROVE  BackInv'
<1>1. TypeOK /\ UNCHANGED <<session, fresh>>
  BY DEF IInv, DataParse, cmdVars
<1>2. CASE session
  <2>1. missed' = 0
    BY <1>1, <1>2, MissedFacts
  <2> QED
    BY <1>1, <1>2, <2>1 DEF BackInv, BackInStep
<1>3. CASE ~session /\ (half' # << >> \/ ~fresh')
  BY <1>3, ParseBackOn DEF BackInv, BackInStep
<1>4. CASE ~session /\ half' = << >> /\ fresh'
  BY <1>4, ParseMissed DEF BackInv, BackInStep
<1> QED
  BY <1>1, <1>2, <1>3, <1>4

\* The next half begins where the wire is; behind an opening nothing is known of it.
LEMMA HalfBack ==
  ASSUME IInv, SyncInv, BackInv, NEW b \in Bodies, HalfArrives(b)
  PROVE  SyncInv' /\ BackInv'
<1>1. sent \in DataTypes /\ off \in Offsets /\ chirp \in Chirps /\ body \in Bodies /\ missed \in Nat
  BY DEF IInv, TypeOK, Offsets
<1>2. half' = HalfOf(sent, off, chirp, body, b) /\ half = << >>
  BY DEF HalfArrives, HalfOf
<1>3. half'[1].i = off /\ Len(half') = DataLen /\ half' # << >>
  <2>1. half'[1].i = off /\ Len(half') = DataLen
    BY <1>1, <1>2, HalfRuns, HalfFacts
  <2> QED
    BY <2>1, LenFacts
<1>4. UNCHANGED <<off, state, need, session, cpc, sent, type>>
  BY DEF HalfArrives, parserVars, cmdVars, typeVars
<1>5. /\ whole' = (whole /\ ~fresh)
      /\ missed' = IF fresh THEN 0 ELSE missed
  BY DEF HalfArrives
<1>6. SyncInv'
  <2>1. \A j \in 1 .. Len(half') : Marked(sent, half'[j])
    BY <1>1, <1>2, <1>3, HalfMarks
  <2> QED
    BY <1>4, <2>1 DEF SyncInv
<1>7. Pos' = off /\ Pos = off
  BY <1>2, <1>3, <1>4 DEF Pos
<1>8. (InStep <=> InStep') /\ (OnWay <=> OnWay')
  BY <1>4, <1>7 DEF InStep, OnWay, Remaining
<1>9. CASE fresh
  <2>1. missed' = 0 /\ ~whole'
    BY <1>5, <1>9
  <2> QED
    BY <1>6, <2>1 DEF BackInv, BackInStep
<1>10. CASE ~fresh
  <2>1. missed' = missed /\ (whole' => whole)
    BY <1>5, <1>10
  <2> QED
    BY <1>4, <1>6, <1>8, <1>10, <2>1 DEF BackInv, BackInStep
<1> QED
  BY <1>9, <1>10

LEMMA OpenedBack ==
  ASSUME IInv, SyncInv, BackInv, NEW o, NEW k, NEW b,
         SpiOpens(o, k, b) \/ FinishOpens(o, k, b)
  PROVE  SyncInv' /\ BackInv'
<1>1. Opened(o, k, b)
  BY DEF SpiOpens, FinishOpens
<1>2. UNCHANGED <<half, state, need, sent, type, whole, missed>> /\ fresh' = TRUE
  BY <1>1 DEF Opened, parserVars, typeVars
<1>3. \/ UNCHANGED cmdVars
      \/ half = << >> /\ cpc = "open" /\ cpc' = "idle"
  BY DEF SpiOpens, FinishOpens, CmdMayRun
<1>4. SyncInv'
  BY <1>2, <1>3 DEF SyncInv, cmdVars
<1>5. CASE half = << >>
  BY <1>2, <1>4, <1>5 DEF BackInv, BackInStep
<1>6. CASE half # << >>
  <2>1. Pos' = Pos /\ session' = session
    BY <1>2, <1>3, <1>6 DEF Pos, cmdVars
  <2>2. (InStep <=> InStep') /\ (OnWay <=> OnWay')
    BY <1>2, <2>1 DEF InStep, OnWay, Remaining
  <2> QED
    BY <1>2, <1>4, <1>6, <2>1, <2>2 DEF BackInv, BackInStep
<1> QED
  BY <1>5, <1>6

LEMMA CmdBack ==
  ASSUME IInv, SyncInv, BackInv, CmdStep
  PROVE  SyncInv' /\ BackInv'
<1> USE DEF spiVars, typeVars, parserVars, cmdVars, pastVars
<1>1. UNCHANGED <<half, missed>> /\ half = << >> /\ (cpc # "idle" => session)
  BY DEF CmdStep, StartCfg, FinishCfg, ReconfigClears, ReconfigNeeds, WriteType, CmdMayRun, IInv, ExactInv
<1>2. session'
  BY <1>1 DEF CmdStep, StartCfg, FinishCfg, ReconfigClears, ReconfigNeeds, WriteType
<1>3. cpc' \in {"need", "open"} => type' = sent'
  BY <1>1 DEF SyncInv, CmdStep, StartCfg, FinishCfg, ReconfigClears, ReconfigNeeds, WriteType
<1>4. \A j \in 1 .. Len(half') : FALSE
  BY <1>1
<1> QED
  BY <1>1, <1>2, <1>3, <1>4 DEF SyncInv, BackInv, BackInStep

LEMMA BackInvariance == Spec => [](SyncInv /\ BackInv)
<1>1. Init => SyncInv /\ BackInv
  BY DEF Init, SyncInv, BackInv, BackInStep
<1>2. IInv /\ SyncInv /\ BackInv /\ [Next]_vars => (SyncInv /\ BackInv)'
  <2> SUFFICES ASSUME IInv, SyncInv, BackInv, [Next]_vars PROVE SyncInv' /\ BackInv'
    OBVIOUS
  <2>1. ASSUME NEW o \in Offsets, NEW k \in Chirps, NEW b \in Bodies, SpiOpens(o, k, b) \/ FinishOpens(o, k, b)
        PROVE  SyncInv' /\ BackInv'
    BY <2>1, OpenedBack
  <2>2. ASSUME NEW b \in Bodies, HalfArrives(b) PROVE SyncInv' /\ BackInv'
    BY <2>2, HalfBack
  <2>3. CASE DataParse
    BY <2>3, ParseSync, ParseBack DEF IInv
  <2>4. CASE CmdStep
    BY <2>4, CmdBack
  <2>5. CASE UNCHANGED vars
    <3>1. UNCHANGED <<off, sent, type, half, state, need, session, cpc, fresh, whole, missed>>
      BY <2>5 DEF vars, spiVars, typeVars, parserVars, cmdVars, pastVars
    <3> QED
      BY <3>1 DEF SyncInv, BackInv, BackInStep, InStep, OnWay, Remaining, Pos
  <2> QED
    BY <2>1, <2>2, <2>3, <2>4, <2>5 DEF Next, CmdStep
<1> QED
  BY <1>1, <1>2, Invariance, PTL DEF Spec

(***************************************************************************)
(* Of the chirps that arrive completely and have no head byte but their    *)
(* own the parser loses one at most before it is in step again, wherever   *)
(* in a chirp the SPI was opened, in whatever state the parser was left    *)
(* and whatever head bytes the chirps before it had in them.               *)
(***************************************************************************)
THEOREM ParserIsBackInStep == Spec => []BackInStep
<1>1. BackInv => BackInStep
  BY DEF BackInv
<1> QED
  BY <1>1, BackInvariance, PTL
=============================================================================
