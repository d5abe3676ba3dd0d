-------------------------- MODULE CobsCoderProofs --------------------------
(***************************************************************************)
(* Proofs about the COBS coder, for every width of a byte, every input and *)
(* every chunk a link may deliver.                                         *)
(***************************************************************************)
EXTENDS CobsCoder, SequenceTheorems, TLAPS

EncoderT == [out : Seq(Bytes), code_idx : Nat, code : Nat]
DecoderT == [in_idx : Nat, out : Seq(Bytes), rc : {"ARC_OK", "ARC_ERR_BAD_COBS"}]

----------------------------------------------------------------------------
(* What the encoder has written.                                           *)

\* The hole of the current run is the only zero of s.out, and s.code counts the
\* bytes from the hole on.
WellFormed(s) ==
  /\ s \in EncoderT
  /\ s.code_idx \in 1 .. Len(s.out)
  /\ s.code = Len(s.out) - s.code_idx + 1
  /\ s.code <= MAX_CODE
  /\ \A k \in 1 .. Len(s.out) : s.out[k] = 0 <=> k = s.code_idx

\* The s.out of a run that is closed, before the next byte.
Filled(s) == [s.out EXCEPT ![s.code_idx] = s.code]

\* Filling the hole leaves no zero.
LEMMA FilledHole ==
  ASSUME NEW s, WellFormed(s)
  PROVE  /\ Filled(s) \in Seq(Bytes) /\ Len(Filled(s)) = Len(s.out)
         /\ \A k \in 1 .. Len(s.out) :
              /\ Filled(s)[k] = IF k = s.code_idx THEN s.code ELSE s.out[k]
              /\ Filled(s)[k] # 0
<1>1. s.out \in Seq(Bytes) /\ s.code \in Bytes /\ s.code # 0 /\ Len(s.out) \in Nat
  BY ByteWidth DEF WellFormed, EncoderT, Bytes, MAX_CODE
<1>2. s.code_idx \in 1 .. Len(s.out)
  BY DEF WellFormed
<1>3. /\ Filled(s) \in Seq(Bytes) /\ Len(Filled(s)) = Len(s.out)
      /\ \A k \in 1 .. Len(s.out) :
            Filled(s)[k] = IF k = s.code_idx THEN s.code ELSE s.out[k]
  BY <1>1, <1>2, ExceptSeq DEF Filled
<1> QED BY <1>1, <1>3 DEF WellFormed

\* What Append returns, element by element.
LEMMA AppendByte ==
  ASSUME NEW w \in Seq(Bytes), NEW b \in Bytes
  PROVE  /\ Append(w, b) \in Seq(Bytes) /\ Len(Append(w, b)) = Len(w) + 1
         /\ \A k \in 1 .. Len(w) : Append(w, b)[k] = w[k]
         /\ Append(w, b)[Len(w) + 1] = b
OBVIOUS

\* Zero is a byte.
LEMMA ZeroByte == 0 \in Bytes
BY ByteWidth DEF Bytes

\* Closing a run opens a new one after it.
LEMMA CloseRunWellFormed ==
  ASSUME NEW s, WellFormed(s)
  PROVE  /\ WellFormed(CloseRun(s))
         /\ Len(CloseRun(s).out) = Len(s.out) + 1
         /\ CloseRun(s).code = 1 /\ CloseRun(s).code_idx = Len(s.out) + 1
         /\ \A k \in 1 .. Len(s.out) : CloseRun(s).out[k] = Filled(s)[k]
<1> DEFINE c == CloseRun(s)
<1>1. c.out = Append(Filled(s), 0) /\ c.code_idx = Len(s.out) + 1 /\ c.code = 1
  BY DEF CloseRun, Filled
<1>2. Len(s.out) \in Nat
  BY DEF WellFormed, EncoderT
<1>3. /\ c.out \in Seq(Bytes) /\ Len(c.out) = Len(s.out) + 1
      /\ \A k \in 1 .. Len(s.out) : c.out[k] = Filled(s)[k]
      /\ c.out[Len(s.out) + 1] = 0
  BY <1>1, FilledHole, AppendByte, ZeroByte
<1>4. c \in EncoderT
  BY <1>1, <1>2, <1>3 DEF CloseRun, EncoderT
<1>5. \A k \in 1 .. Len(c.out) : c.out[k] = 0 <=> k = c.code_idx
  BY <1>1, <1>2, <1>3, FilledHole
<1>6. c.code_idx \in 1 .. Len(c.out) /\ c.code = Len(c.out) - c.code_idx + 1
  BY <1>1, <1>2, <1>3
<1>7. c.code <= MAX_CODE
  BY <1>1, ByteWidth DEF MAX_CODE
<1> HIDE DEF c
<1>8. WellFormed(c)
  BY <1>4, <1>5, <1>6, <1>7 DEF WellFormed
<1> QED BY <1>1, <1>3, <1>8 DEF c

\* A literal makes the run longer.
LEMMA LiteralWellFormed ==
  ASSUME NEW s, WellFormed(s), s.code < MAX_CODE, NEW b \in Bytes, b # 0
  PROVE  /\ WellFormed(Literal(s, b))
         /\ Literal(s, b).out = Append(s.out, b)
         /\ Literal(s, b).code = s.code + 1
         /\ Literal(s, b).code_idx = s.code_idx
<1> DEFINE c == Literal(s, b)
<1>1. s \in EncoderT /\ Len(s.out) \in Nat /\ s.code \in Nat /\ s.out \in Seq(Bytes)
  BY DEF WellFormed, EncoderT
<1>2. c.out = Append(s.out, b) /\ c.code_idx = s.code_idx /\ c.code = s.code + 1
  BY <1>1 DEF Literal, EncoderT
<1>3. c \in EncoderT
  <2>1. Append(s.out, b) \in Seq(Bytes) /\ s.code + 1 \in Nat
    BY <1>1, AppendByte
  <2> QED BY <1>1, <2>1 DEF Literal, EncoderT
<1> HIDE DEF c
<1>4. \A k \in 1 .. Len(c.out) : c.out[k] = 0 <=> k = c.code_idx
  BY <1>1, <1>2, AppendByte DEF WellFormed
<1>5. /\ c.code_idx \in 1 .. Len(c.out) /\ c.code = Len(c.out) - c.code_idx + 1
      /\ c.code <= MAX_CODE
  BY <1>1, <1>2, AppendByte, ByteWidth DEF WellFormed, MAX_CODE
<1>6. WellFormed(c)
  BY <1>3, <1>4, <1>5 DEF WellFormed
<1> QED BY <1>2, <1>6 DEF c

----------------------------------------------------------------------------
(* How the coder's state is laid out, step by step.                        *)

\* The encoder after i bytes of in.  While no run can have reached the
\* greatest length, each byte of the input has added exactly one byte.
EncoderInv ==
  /\ in \in Seq(Bytes) /\ i \in 0 .. Len(in) /\ out_capacity \in Nat
  /\ WellFormed(e) /\ e.code < MAX_CODE
  /\ e.code <= i + 1
  /\ i <= ARC_MAX_FRAME_SIZE => Len(e.out) = i + 1

\* A wire that comes from the encoder.
WireInv ==
  /\ wire \in Seq(Bytes)
  /\ encoded \in BOOLEAN
  /\ encoded => /\ i = Len(in)
                /\ EncodeFits(Len(in), out_capacity)
                /\ wire = EncodeEnd(e)

\* The decoder has made at most one byte of each one it consumed, and the last
\* run adds no zero.
DecoderInv ==
  /\ d \in DecoderT
  /\ pc \in {"encode", "refused"} => d = DecodeStart
  /\ Len(d.out) <= d.in_idx
  /\ d.in_idx # 0 => d.in_idx <= Len(wire) - 1
  /\ d.in_idx # 0 /\ d.in_idx = Len(wire) - 1 => Len(d.out) <= Len(wire) - 2
  /\ pc = "done" => d.rc # "ARC_OK" \/ (d.in_idx # 0 /\ d.in_idx = Len(wire) - 1)

CoderInv == EncoderInv /\ WireInv /\ DecoderInv

\* EncoderInv holds before the loop.
LEMMA EncoderInit == Init => EncoderInv
<1> SUFFICES ASSUME Init PROVE EncoderInv
  OBVIOUS
<1>1. in \in Seq(Bytes) /\ i \in 0 .. Len(in) /\ out_capacity \in Nat
  <2>1. in \in Seq(Bytes)
    BY ByteStrings, EmptySeq DEF Init
  <2>2. Len(in) \in Nat
    BY <2>1
  <2> QED BY <2>1, <2>2 DEF Init
<1>2. e = EncodeStart /\ i = 0
  BY DEF Init
<1>3. <<0>> \in Seq(Bytes) /\ Len(<<0>>) = 1 /\ <<0>>[1] = 0
  BY ZeroByte
<1>4. e \in EncoderT /\ e.out = <<0>> /\ e.code = 1 /\ e.code_idx = 1
  BY <1>2, <1>3 DEF EncodeStart, EncoderT
<1>5. WellFormed(e)
  BY <1>3, <1>4, ByteWidth DEF WellFormed, MAX_CODE
<1> QED BY <1>1, <1>2, <1>3, <1>4, <1>5, ByteWidth DEF EncoderInv, MAX_CODE

\* One turn of the encoder's loop.
LEMMA EncodeByteWellFormed ==
  ASSUME NEW s, WellFormed(s), s.code < MAX_CODE, NEW b \in Bytes
  PROVE  /\ WellFormed(EncodeByte(s, b))
         /\ EncodeByte(s, b).code < MAX_CODE
         /\ EncodeByte(s, b).code <= s.code + 1
         /\ s.code + 1 # MAX_CODE => Len(EncodeByte(s, b).out) = Len(s.out) + 1
<1>1. s.code \in Nat /\ Len(s.out) \in Nat /\ s.code >= 1 /\ s.out \in Seq(Bytes)
  BY DEF WellFormed, EncoderT
<1>2. CASE b = 0
  BY <1>1, <1>2, CloseRunWellFormed, ByteWidth DEF EncodeByte, MAX_CODE
<1>3. CASE b # 0
  <2>1. /\ WellFormed(Literal(s, b)) /\ Literal(s, b).code = s.code + 1
        /\ Len(Literal(s, b).out) = Len(s.out) + 1
    BY <1>1, <1>3, LiteralWellFormed, AppendByte
  <2>2. CASE s.code + 1 = MAX_CODE
    BY <1>1, <1>3, <2>1, <2>2, CloseRunWellFormed, ByteWidth DEF EncodeByte, MAX_CODE
  <2>3. CASE s.code + 1 # MAX_CODE
    BY <1>1, <1>3, <2>1, <2>3, ByteWidth DEF EncodeByte, MAX_CODE
  <2> QED BY <2>2, <2>3
<1> QED BY <1>2, <1>3

\* EncoderInv holds through the loop.
LEMMA EncoderStep == EncoderInv /\ [Next]_vars => EncoderInv'
<1> SUFFICES ASSUME EncoderInv, [Next]_vars PROVE EncoderInv'
  OBVIOUS
<1>1. CASE EncodeStep
  <2>1. /\ in[i + 1] \in Bytes /\ i' = i + 1 /\ i' \in 0 .. Len(in)
        /\ UNCHANGED <<in, out_capacity>> /\ e' = EncodeByte(e, in[i + 1])
    BY <1>1 DEF EncodeStep, EncoderInv
  <2>2. /\ WellFormed(e') /\ e'.code < MAX_CODE /\ e'.code <= e.code + 1
        /\ e.code + 1 # MAX_CODE => Len(e'.out) = Len(e.out) + 1
    BY <2>1, EncodeByteWellFormed DEF EncoderInv
  <2>3. e.code \in Nat /\ e'.code \in Nat /\ Len(e.out) \in Nat /\ Len(e'.out) \in Nat
    BY <2>2 DEF EncoderInv, WellFormed, EncoderT
  <2>4. e'.code <= i' + 1
    BY <2>1, <2>2, <2>3 DEF EncoderInv
  <2>5. i' <= ARC_MAX_FRAME_SIZE => Len(e'.out) = i' + 1
    BY <2>1, <2>2, <2>3, ByteWidth
    DEF EncoderInv, ARC_MAX_FRAME_SIZE, ARC_MAX_ENCODED_SIZE, ARC_COBS_OVERHEAD, MAX_CODE
  <2> QED BY <2>1, <2>2, <2>4, <2>5 DEF EncoderInv
<1>2. CASE UNCHANGED <<in, out_capacity, i, e>>
  BY <1>2 DEF EncoderInv
<1> QED BY <1>1, <1>2
      DEF Next, vars, EncodeRefused, EncodeReturn, DecodeRefused, DecodeStep, DecodeReturn

\* The encoded frame: the runs with their codes, and the delimiter.
LEMMA EncodedFrame ==
  ASSUME NEW s, WellFormed(s)
  PROVE  /\ EncodeEnd(s) \in Seq(Bytes) /\ Len(EncodeEnd(s)) = Len(s.out) + 1
         /\ \A k \in 1 .. Len(s.out) : EncodeEnd(s)[k] = Filled(s)[k]
         /\ EncodeEnd(s)[Len(s.out) + 1] = 0
BY FilledHole, AppendByte, ZeroByte DEF EncodeEnd, Filled

\* WireInv holds before the coder runs.
LEMMA WireInit == Init => WireInv
BY ByteStrings, EmptySeq DEF Init, WireInv

\* WireInv holds when the encoder returns and afterwards.
LEMMA WireStep == EncoderInv /\ WireInv /\ [Next]_vars => WireInv'
<1> SUFFICES ASSUME EncoderInv, WireInv, [Next]_vars PROVE WireInv'
  OBVIOUS
<1>1. CASE EncodeReturn
  BY <1>1, EncodedFrame DEF EncodeReturn, EncoderInv, WireInv
<1>2. CASE EncodeStep
  <2>1. ~encoded
    BY <1>2 DEF EncodeStep, WireInv, EncoderInv
  <2> QED BY <1>2, <2>1 DEF EncodeStep, WireInv
<1>3. CASE UNCHANGED <<in, out_capacity, i, e, wire, encoded>>
  BY <1>3 DEF WireInv
<1> QED BY <1>1, <1>2, <1>3
      DEF Next, vars, EncodeRefused, DecodeRefused, DecodeStep, DecodeReturn

----------------------------------------------------------------------------
(* What the decoder does with a run.                                       *)

\* The literals of the run that starts after m bytes of the wire: w.
Copied(w, m, o) == o \o SubSeq(w, m + 2, m + w[m + 1])

\* The literals lie before the delimiter, so they are as many as the code says.
LEMMA CopiedLiterals ==
  ASSUME NEW w \in Seq(Bytes), NEW m \in Nat, NEW o \in Seq(Bytes),
         m < Len(w) - 1, w[m + 1] # 0, m + w[m + 1] <= Len(w) - 1
  PROVE  /\ w[m + 1] \in 1 .. MAX_CODE
         /\ Copied(w, m, o) \in Seq(Bytes)
         /\ Len(Copied(w, m, o)) = Len(o) + w[m + 1] - 1
         /\ \A k \in 1 .. Len(o) : Copied(w, m, o)[k] = o[k]
         /\ \A k \in 1 .. w[m + 1] - 1 : Copied(w, m, o)[Len(o) + k] = w[m + 1 + k]
<1> DEFINE c == w[m + 1]
           l == SubSeq(w, m + 2, m + c)
<1>1. c \in Bytes /\ c \in 1 .. MAX_CODE /\ Len(w) \in Nat /\ Len(o) \in Nat
  BY ByteWidth, ElementOfSeq DEF Bytes, MAX_CODE
<1> HIDE DEF c
<1>2. \A k \in m + 2 .. m + c : w[k] \in Bytes
  BY <1>1, ElementOfSeq DEF c
<1>3. /\ l \in Seq(Bytes) /\ Len(l) = c - 1
      /\ \A k \in 1 .. c - 1 : l[k] = w[m + 1 + k]
  <2>1. m + 2 \in Int /\ m + c \in Int /\ (m + c) - (m + 2) + 1 = c - 1
    BY <1>1
  <2>2. /\ l \in Seq(Bytes) /\ Len(l) = IF m + 2 <= m + c THEN c - 1 ELSE 0
        /\ \A k \in 1 .. c - 1 : l[k] = w[(m + 2) + k - 1]
    BY <1>2, <2>1, SubSeqProperties, SMTT(30)
  <2>3. \A k \in 1 .. c - 1 : (m + 2) + k - 1 = m + 1 + k
    BY <1>1
  <2> QED BY <1>1, <2>2, <2>3
<1> HIDE DEF l
<1>4. /\ o \o l \in Seq(Bytes) /\ Len(o \o l) = Len(o) + c - 1
      /\ \A k \in 1 .. Len(o) : (o \o l)[k] = o[k]
      /\ \A k \in 1 .. c - 1 : (o \o l)[Len(o) + k] = l[k]
  <2>1. /\ o \o l \in Seq(Bytes) /\ Len(o \o l) = Len(o) + Len(l)
        /\ \A k \in 1 .. Len(o) + Len(l) :
             (o \o l)[k] = IF k <= Len(o) THEN o[k] ELSE l[k - Len(o)]
    BY <1>3, ConcatProperties
  <2>2. \A k \in 1 .. c - 1 : (Len(o) + k) - Len(o) = k
    BY <1>1
  <2> QED BY <1>1, <1>3, <2>1, <2>2
<1>5. Copied(w, m, o) = o \o l
  BY DEF Copied, l, c
<1> QED BY <1>1, <1>3, <1>4, <1>5 DEF c

\* With room for Len(w) - 2 bytes and no more bytes out than in, a run is
\* malformed or decoded: the checks of the capacity never refuse it.
LEMMA DecodeRunOutcomes ==
  ASSUME NEW w \in Seq(Bytes), NEW t \in DecoderT, t.rc = "ARC_OK",
         t.in_idx < Len(w) - 1, Len(t.out) <= t.in_idx,
         NEW c, c = w[t.in_idx + 1], NEW r, r = DecodeRun(w, Len(w) - 2, t)
  PROVE  /\ c = 0 \/ t.in_idx + c > Len(w) - 1 =>
              r = [t EXCEPT !.rc = "ARC_ERR_BAD_COBS"]
         /\ c # 0 /\ t.in_idx + c <= Len(w) - 1 =>
              /\ r \in DecoderT /\ r.rc = "ARC_OK" /\ r.in_idx = t.in_idx + c
              /\ r.out = IF ImplicitZero(c, t.in_idx + c, Len(w) - 1)
                         THEN Append(Copied(w, t.in_idx, t.out), 0)
                         ELSE Copied(w, t.in_idx, t.out)
<1> DEFINE m == t.in_idx + c
           o == Copied(w, t.in_idx, t.out)
<1>1. /\ t.in_idx \in Nat /\ t.out \in Seq(Bytes) /\ c \in Nat /\ Len(w) \in Nat
      /\ Len(t.out) \in Nat
  BY ElementOfSeq, ByteWidth DEF DecoderT, Bytes
<1>2. CASE c = 0 \/ m > Len(w) - 1
  BY <1>1, <1>2 DEF DecodeRun
<1>3. CASE c # 0 /\ m <= Len(w) - 1
  <2>1. o \in Seq(Bytes) /\ Len(o) = Len(t.out) + c - 1
    BY <1>1, <1>3, CopiedLiterals, ZenonT(40)
  <2>2. ~(Len(o) > Len(w) - 2)
    BY <1>1, <1>3, <2>1, SMTT(30)
  <2>3. ImplicitZero(c, m, Len(w) - 1) => ~(Len(o) >= Len(w) - 2)
    BY <1>1, <1>3, <2>1, SMTT(30) DEF ImplicitZero
  <2>4. o = t.out \o SubSeq(w, t.in_idx + 2, m)
    BY DEF Copied
  <2> HIDE DEF o
  <2>5. r = IF ~ImplicitZero(c, m, Len(w) - 1)
            THEN [t EXCEPT !.in_idx = m, !.out = o]
            ELSE [t EXCEPT !.in_idx = m, !.out = Append(o, 0)]
    BY <1>1, <1>3, <2>2, <2>3, <2>4, SMTT(30) DEF DecodeRun
  <2>6. Append(o, 0) \in Seq(Bytes) /\ m \in Nat
    BY <1>1, <2>1, AppendByte, ZeroByte
  <2>7. /\ r \in DecoderT /\ r.rc = "ARC_OK" /\ r.in_idx = m
        /\ r.out = IF ImplicitZero(c, m, Len(w) - 1) THEN Append(o, 0) ELSE o
    BY <2>1, <2>5, <2>6 DEF DecoderT
  <2> QED BY <1>1, <1>3, <2>7 DEF o
<1> QED BY <1>1, <1>2, <1>3

\* DecoderInv holds before the coder runs.
LEMMA DecoderInit == Init => DecoderInv
<1> SUFFICES ASSUME Init PROVE DecoderInv
  OBVIOUS
<1>1. d = DecodeStart /\ pc # "done"
  BY DEF Init
<1>2. d \in DecoderT /\ d.in_idx = 0 /\ d.out = <<>> /\ Len(d.out) = 0
  BY <1>1, EmptySeq DEF DecodeStart, DecoderT
<1> QED BY <1>1, <1>2 DEF DecoderInv

\* DecoderInv holds through the decoder's loop.
LEMMA DecoderStep == WireInv /\ DecoderInv /\ [Next]_vars => DecoderInv'
<1> SUFFICES ASSUME WireInv, DecoderInv, [Next]_vars PROVE DecoderInv'
  OBVIOUS
<1>1. CASE EncodeReturn
  <2>1. d = DecodeStart /\ d' = d /\ pc' = "decode"
    BY <1>1 DEF EncodeReturn, DecoderInv
  <2>2. d.in_idx = 0
    BY <2>1 DEF DecodeStart
  <2> QED BY <2>1, <2>2 DEF DecoderInv
<1>2. CASE DecodeRefused
  <2>1. /\ d' = [d EXCEPT !.rc = "ARC_ERR_BAD_COBS"] /\ pc' = "done" /\ wire' = wire
    BY <1>2 DEF DecodeRefused
  <2>2. d' \in DecoderT /\ d'.rc # "ARC_OK" /\ d'.in_idx = d.in_idx /\ d'.out = d.out
    BY <2>1 DEF DecoderInv, DecoderT
  <2> QED BY <2>1, <2>2 DEF DecoderInv
<1>3. CASE DecodeStep
  <2>1. /\ pc = "decode" /\ pc' = "decode" /\ wire' = wire
        /\ d' = DecodeRun(wire, Len(wire) - 2, d)
        /\ d.rc = "ARC_OK" /\ d.in_idx < Len(wire) - 1 /\ wire \in Seq(Bytes)
    <3>1. d.in_idx \in Nat /\ Len(wire) \in Nat
      BY DEF WireInv, DecoderInv, DecoderT
    <3> QED BY <1>3, <3>1 DEF DecodeStep, DecodeDone, WireInv
  <2> DEFINE c == wire[d.in_idx + 1]
             o == Copied(wire, d.in_idx, d.out)
  <2>2. /\ d \in DecoderT /\ Len(d.out) <= d.in_idx /\ d.in_idx \in Nat
        /\ d.out \in Seq(Bytes) /\ Len(wire) \in Nat /\ Len(d.out) \in Nat
    BY <2>1 DEF DecoderInv, DecoderT
  <2>3. CASE c = 0 \/ d.in_idx + c > Len(wire) - 1
    <3>1. d' = [d EXCEPT !.rc = "ARC_ERR_BAD_COBS"]
      BY <2>1, <2>2, <2>3, DecodeRunOutcomes
    <3>2. d' \in DecoderT /\ d'.in_idx = d.in_idx /\ d'.out = d.out
      BY <2>2, <3>1 DEF DecoderT
    <3> QED BY <2>1, <3>2 DEF DecoderInv
  <2>4. CASE ~(c = 0 \/ d.in_idx + c > Len(wire) - 1)
    <3>1. c \in Nat
      BY <2>1, <2>2, ElementOfSeq, ByteWidth DEF Bytes
    <3>2. c # 0 /\ d.in_idx + c <= Len(wire) - 1
      BY <2>2, <2>4, <3>1
    <3>3. /\ d' \in DecoderT /\ d'.in_idx = d.in_idx + c
          /\ d'.out = IF ImplicitZero(c, d.in_idx + c, Len(wire) - 1)
                      THEN Append(o, 0) ELSE o
      BY <2>1, <2>2, <3>2, DecodeRunOutcomes
    <3>4. o \in Seq(Bytes) /\ Len(o) = Len(d.out) + c - 1
      BY <2>1, <2>2, <3>2, CopiedLiterals
    <3> HIDE DEF c, o
    <3>5. Len(Append(o, 0)) = Len(d.out) + c
      <4>1. Len(Append(o, 0)) = Len(o) + 1
        BY <3>4, AppendByte, ZeroByte
      <4> QED BY <2>2, <3>1, <3>4, <4>1
    <3>6. Len(d'.out) <= d'.in_idx
      BY <2>2, <3>1, <3>3, <3>4, <3>5
    <3>7. d'.in_idx = Len(wire) - 1 => Len(d'.out) <= Len(wire) - 2
      BY <2>2, <3>1, <3>3, <3>4 DEF ImplicitZero
    <3> QED BY <2>1, <2>2, <3>1, <3>2, <3>3, <3>6, <3>7 DEF DecoderInv
  <2> QED BY <2>3, <2>4
<1>4. CASE DecodeReturn
  <2>1. /\ UNCHANGED <<wire, d>> /\ pc' = "done" /\ Len(wire) >= 2
        /\ d.rc # "ARC_OK" \/ d.in_idx >= Len(wire) - 1
    BY <1>4 DEF DecodeReturn, DecodeDone, DecodeAccepts
  <2>2. d.in_idx \in Nat /\ Len(wire) \in Nat
    BY DEF WireInv, DecoderInv, DecoderT
  <2> QED BY <2>1, <2>2 DEF DecoderInv
<1>5. CASE EncodeStep \/ EncodeRefused \/ UNCHANGED vars
  BY <1>5 DEF EncodeStep, EncodeRefused, vars, DecoderInv
<1> QED BY <1>1, <1>2, <1>3, <1>4, <1>5 DEF Next

\* The invariant of the whole coder.
LEMMA CoderInvariant == Spec => []CoderInv
<1>1. Init => CoderInv
  BY EncoderInit, WireInit, DecoderInit DEF CoderInv
<1>2. CoderInv /\ [Next]_vars => CoderInv'
  BY EncoderStep, WireStep, DecoderStep DEF CoderInv
<1> QED BY <1>1, <1>2, PTL DEF Spec

----------------------------------------------------------------------------
\* The encoder stays within out_capacity on every input as long as a frame.
THEOREM EncoderStaysInBuffer == Spec => []EncodedFits
<1>1. CoderInv => EncodedFits
  <2> SUFFICES ASSUME CoderInv, encoded, Len(in) <= ARC_MAX_FRAME_SIZE
               PROVE  Len(wire) <= out_capacity
    BY DEF EncodedFits
  <2>1. /\ i = Len(in) /\ out_capacity >= Len(in) + 2 /\ wire = EncodeEnd(e)
        /\ WellFormed(e) /\ Len(e.out) = Len(in) + 1 /\ in \in Seq(Bytes)
    BY DEF CoderInv, WireInv, EncoderInv, EncodeFits
  <2>2. Len(wire) = Len(e.out) + 1
    BY <2>1, EncodedFrame
  <2>3. out_capacity \in Nat /\ Len(in) \in Nat
    BY <2>1 DEF CoderInv, EncoderInv
  <2> QED BY <2>1, <2>2, <2>3
<1> QED BY <1>1, CoderInvariant, PTL

\* The delimiter is the only zero of every encoded frame.
THEOREM EncodedHasOneZero == Spec => []DelimiterIsOnlyZero
<1>1. CoderInv => DelimiterIsOnlyZero
  <2> SUFFICES ASSUME CoderInv, encoded, NEW k \in 1 .. Len(wire)
               PROVE  wire[k] = 0 <=> k = Len(wire)
    BY DEF DelimiterIsOnlyZero
  <2>1. wire = EncodeEnd(e) /\ WellFormed(e) /\ Len(e.out) \in Nat
    BY DEF CoderInv, WireInv, EncoderInv, WellFormed, EncoderT
  <2> QED BY <2>1, EncodedFrame, FilledHole
<1> QED BY <1>1, CoderInvariant, PTL

\* A buffer of len - 2 bytes holds what the decoder makes of any len bytes.
THEOREM DecoderStaysInBuffer == Spec => []DecodedFits
<1>1. CoderInv => DecodedFits
  <2> SUFFICES ASSUME CoderInv PROVE DecodedFits
    OBVIOUS
  <2>1. d.rc # "ARC_ERR_BUFFER" /\ d.in_idx \in Nat /\ d.out \in Seq(Bytes)
    BY DEF CoderInv, DecoderInv, DecoderT
  <2>2. Len(d.out) \in Nat /\ Len(wire) \in Nat
    BY <2>1 DEF CoderInv, WireInv
  <2> QED BY <2>1, <2>2 DEF CoderInv, DecoderInv, DecodedFits
<1> QED BY <1>1, CoderInvariant, PTL

----------------------------------------------------------------------------
(* Which bytes of the input a run stands for.                              *)

\* The literals of the run at h, whose code is c, are the bytes of x after the
\* first p ones.
LiteralRun(x, w, h, p, c) == \A k \in 1 .. c - 1 : w[h + k] = x[p + k]

\* The bytes of x that are used up after a run with code c that starts at p: its
\* literals, and a zero unless the run has the greatest length.
AfterRun(p, c) == IF c = MAX_CODE THEN p + c - 1 ELSE p + c

\* src gives for the place of every code byte of w, up to the one at last, how
\* many bytes of x the runs before it stand for.
Parsed(x, w, last, src) ==
  /\ 1 \in DOMAIN src /\ src[1] = 0
  /\ last \in DOMAIN src /\ DOMAIN src \subseteq 1 .. last
  /\ \A h \in DOMAIN src : src[h] \in 0 .. Len(x)
  /\ \A h \in DOMAIN src \ {last} :
       /\ w[h] \in 1 .. MAX_CODE
       /\ h + w[h] \in DOMAIN src
       /\ LiteralRun(x, w, h, src[h], w[h])
       /\ src[h + w[h]] = AfterRun(src[h], w[h])
       /\ w[h] # MAX_CODE => x[src[h] + w[h]] = 0

\* Only the bytes before the last code byte matter.
LEMMA ParsedPrefix ==
  ASSUME NEW x \in Seq(Bytes), NEW w, NEW v, NEW last \in Nat, NEW src,
         Parsed(x, w, last, src), \A k \in 1 .. last - 1 : v[k] = w[k]
  PROVE  Parsed(x, v, last, src)
<1> SUFFICES ASSUME NEW h \in DOMAIN src \ {last}
             PROVE  v[h] = w[h] /\ LiteralRun(x, v, h, src[h], w[h])
  BY DEF Parsed
<1>1. /\ h \in 1 .. last /\ h # last /\ w[h] \in 1 .. MAX_CODE /\ h + w[h] <= last
      /\ LiteralRun(x, w, h, src[h], w[h])
  BY DEF Parsed
<1>2. v[h] = w[h]
  BY <1>1
<1>3. ASSUME NEW k \in 1 .. w[h] - 1 PROVE v[h + k] = x[src[h] + k]
  <2>1. h + k \in 1 .. last - 1
    BY <1>1, ByteWidth DEF MAX_CODE
  <2> QED BY <1>1, <2>1 DEF LiteralRun
<1> QED BY <1>2, <1>3 DEF LiteralRun

\* A further run.
LEMMA ParsedNextRun ==
  ASSUME NEW x \in Seq(Bytes), NEW w, NEW last \in Nat, NEW src,
         Parsed(x, w, last, src),
         w[last] \in 1 .. MAX_CODE, LiteralRun(x, w, last, src[last], w[last]),
         AfterRun(src[last], w[last]) \in 0 .. Len(x),
         w[last] # MAX_CODE => x[src[last] + w[last]] = 0
  PROVE  \E new : /\ Parsed(x, w, last + w[last], new)
                  /\ new[last + w[last]] = AfterRun(src[last], w[last])
<1> DEFINE next == last + w[last]
           new == [h \in DOMAIN src \cup {next} |->
                     IF h = next THEN AfterRun(src[last], w[last]) ELSE src[h]]
<1>1. last \in DOMAIN src /\ next \in Nat /\ next > last
  BY ByteWidth DEF Parsed, MAX_CODE
<1>2. /\ DOMAIN new = DOMAIN src \cup {next} /\ next \notin DOMAIN src
      /\ DOMAIN src \subseteq 1 .. last
  BY <1>1 DEF Parsed
<1>3. /\ new[next] = AfterRun(src[last], w[last])
      /\ \A h \in DOMAIN src : new[h] = src[h]
  BY <1>2
<1> HIDE DEF new
<1>4. 1 \in DOMAIN new /\ new[1] = 0
  BY <1>2, <1>3 DEF Parsed
<1>5. DOMAIN new \subseteq 1 .. next
  BY <1>1, <1>2
<1>6. \A h \in DOMAIN new : new[h] \in 0 .. Len(x)
  BY <1>2, <1>3 DEF Parsed
<1>7. ASSUME NEW h \in DOMAIN new \ {next}
      PROVE  /\ w[h] \in 1 .. MAX_CODE
             /\ h + w[h] \in DOMAIN new
             /\ LiteralRun(x, w, h, new[h], w[h])
             /\ new[h + w[h]] = AfterRun(new[h], w[h])
             /\ w[h] # MAX_CODE => x[new[h] + w[h]] = 0
  <2>1. CASE h = last
    BY <1>1, <1>2, <1>3, <2>1
  <2>2. CASE h # last
    BY <1>2, <1>3, <2>2 DEF Parsed
  <2> QED BY <2>1, <2>2
<1>8. Parsed(x, w, next, new)
  BY <1>2, <1>4, <1>5, <1>6, <1>7 DEF Parsed
<1> QED BY <1>3, <1>8

\* src accounts for the first n bytes of x, the literals of the open run included.
Accounts(x, n, s, src) ==
  /\ Parsed(x, s.out, s.code_idx, src)
  /\ LiteralRun(x, s.out, s.code_idx, src[s.code_idx], s.code)
  /\ src[s.code_idx] + s.code - 1 = n

\* Closing a run accounts for its zero, or for none when the run has the greatest
\* length.
LEMMA CloseRunAccounts ==
  ASSUME NEW x \in Seq(Bytes), NEW n \in 0 .. Len(x), NEW s, WellFormed(s),
         NEW src, Accounts(x, n, s, src),
         s.code # MAX_CODE => n < Len(x) /\ x[n + 1] = 0
  PROVE  \E new : Accounts(x, IF s.code = MAX_CODE THEN n ELSE n + 1, CloseRun(s), new)
<1> DEFINE c == CloseRun(s)
           last == s.code_idx
           to == IF s.code = MAX_CODE THEN n ELSE n + 1
<1>1. /\ s.code \in Nat /\ last \in 1 .. Len(s.out) /\ Len(s.out) \in Nat
      /\ s.code = Len(s.out) - last + 1 /\ s.code <= MAX_CODE /\ last \in Nat
  BY DEF WellFormed, EncoderT
<1>2. /\ c.code = 1 /\ c.code_idx = Len(s.out) + 1 /\ c.code_idx = last + s.code
      /\ \A k \in 1 .. Len(s.out) : c.out[k] = IF k = last THEN s.code ELSE s.out[k]
  <2>1. /\ c.code = 1 /\ c.code_idx = Len(s.out) + 1
        /\ \A k \in 1 .. Len(s.out) : c.out[k] = Filled(s)[k]
    BY CloseRunWellFormed
  <2>2. \A k \in 1 .. Len(s.out) : Filled(s)[k] = IF k = last THEN s.code ELSE s.out[k]
    BY FilledHole
  <2>3. Len(s.out) + 1 = last + s.code
    BY <1>1
  <2> HIDE DEF c, last
  <2> QED BY <2>1, <2>2, <2>3
<1>3. /\ Parsed(x, s.out, last, src) /\ src[last] + s.code - 1 = n
      /\ LiteralRun(x, s.out, last, src[last], s.code) /\ src[last] \in 0 .. Len(x)
  BY DEF Accounts, Parsed
<1> HIDE DEF c, last
<1>4. Parsed(x, c.out, last, src)
  <2>1. \A k \in 1 .. last - 1 : c.out[k] = s.out[k]
    BY <1>1, <1>2
  <2> QED BY <1>1, <1>3, <2>1, ParsedPrefix
<1>5. c.out[last] = s.code /\ c.out[last] \in 1 .. MAX_CODE
  BY <1>1, <1>2, ByteWidth DEF MAX_CODE
<1>6. LiteralRun(x, c.out, last, src[last], s.code)
  <2> SUFFICES ASSUME NEW k \in 1 .. s.code - 1
               PROVE  c.out[last + k] = x[src[last] + k]
    BY DEF LiteralRun
  <2>1. last + k \in 1 .. Len(s.out) /\ last + k # last
    BY <1>1
  <2> QED BY <1>2, <1>3, <2>1 DEF LiteralRun
<1>7. /\ AfterRun(src[last], s.code) = to /\ to \in 0 .. Len(x)
      /\ s.code # MAX_CODE => x[src[last] + s.code] = 0
  <2>1. s.code # MAX_CODE => src[last] + s.code = n + 1
    BY <1>1, <1>3
  <2>2. src[last] + s.code - 1 = n
    BY <1>3
  <2> QED BY <2>1, <2>2 DEF AfterRun
<1>8. PICK new : Parsed(x, c.out, c.code_idx, new) /\ new[c.code_idx] = to
  <2> HIDE DEF to
  <2>1. \E new : /\ Parsed(x, c.out, last + c.out[last], new)
                 /\ new[last + c.out[last]] = AfterRun(src[last], c.out[last])
    <3>1. /\ LiteralRun(x, c.out, last, src[last], c.out[last])
          /\ AfterRun(src[last], c.out[last]) \in 0 .. Len(x)
          /\ c.out[last] # MAX_CODE => x[src[last] + c.out[last]] = 0
      BY <1>5, <1>6, <1>7
    <3>2. last \in Nat
      BY <1>1
    <3> QED BY <1>4, <1>5, <3>1, <3>2, ParsedNextRun, ZenonT(40)
  <2> QED BY <1>2, <1>5, <1>7, <2>1
<1>9. LiteralRun(x, c.out, c.code_idx, new[c.code_idx], c.code)
  BY <1>2 DEF LiteralRun
<1>10. new[c.code_idx] + c.code - 1 = to
  BY <1>2, <1>7, <1>8
<1>11. Accounts(x, to, c, new)
  BY <1>8, <1>9, <1>10 DEF Accounts
<1> QED BY <1>11 DEF c

\* A literal accounts for itself.
LEMMA LiteralAccounts ==
  ASSUME NEW x \in Seq(Bytes), NEW n \in 0 .. Len(x) - 1, NEW s, WellFormed(s),
         s.code < MAX_CODE, NEW src, Accounts(x, n, s, src), x[n + 1] # 0
  PROVE  Accounts(x, n + 1, Literal(s, x[n + 1]), src)
<1> DEFINE c == Literal(s, x[n + 1])
           last == s.code_idx
<1>1. /\ s.code \in Nat /\ last \in 1 .. Len(s.out) /\ Len(s.out) \in Nat
      /\ s.code = Len(s.out) - last + 1 /\ last \in Nat /\ s.out \in Seq(Bytes)
      /\ x[n + 1] \in Bytes
  BY DEF WellFormed, EncoderT
<1>2. c.out = Append(s.out, x[n + 1]) /\ c.code = s.code + 1 /\ c.code_idx = last
  BY <1>1, LiteralWellFormed
<1>3. /\ \A k \in 1 .. Len(s.out) : c.out[k] = s.out[k]
      /\ c.out[Len(s.out) + 1] = x[n + 1]
  BY <1>1, <1>2, AppendByte
<1>4. /\ Parsed(x, s.out, last, src) /\ src[last] + s.code - 1 = n
      /\ LiteralRun(x, s.out, last, src[last], s.code) /\ src[last] \in 0 .. Len(x)
  BY DEF Accounts, Parsed
<1> HIDE DEF c, last
<1>5. Parsed(x, c.out, last, src)
  <2>1. \A k \in 1 .. last - 1 : c.out[k] = s.out[k]
    BY <1>1, <1>3
  <2> QED BY <1>1, <1>4, <2>1, ParsedPrefix
<1>6. ASSUME NEW k \in 1 .. c.code - 1 PROVE c.out[last + k] = x[src[last] + k]
  <2>1. CASE k = s.code
    <3>1. last + k = Len(s.out) + 1 /\ src[last] + k = n + 1
      BY <1>1, <1>4, <2>1
    <3> QED BY <1>3, <3>1
  <2>2. CASE k # s.code
    <3>1. k \in 1 .. s.code - 1
      <4>1. k \in 1 .. (s.code + 1) - 1
        BY <1>2
      <4> QED BY <1>1, <2>2, <4>1
    <3>2. last + k \in 1 .. Len(s.out)
      BY <1>1, <3>1
    <3> QED BY <1>3, <1>4, <3>1, <3>2 DEF LiteralRun
  <2> QED BY <2>1, <2>2
<1>7. src[last] + c.code - 1 = n + 1
  <2>1. src[last] \in Int /\ n \in Int
    BY <1>4
  <2>2. src[last] + (s.code + 1) - 1 = n + 1
    BY <1>1, <1>4, <2>1
  <2> QED BY <1>2, <2>2
<1>8. Accounts(x, n + 1, c, src)
  BY <1>2, <1>5, <1>6, <1>7 DEF Accounts, LiteralRun
<1> QED BY <1>8 DEF c

\* One turn of the encoder's loop accounts for one more byte of the input.
LEMMA EncodeByteAccounts ==
  ASSUME NEW x \in Seq(Bytes), NEW n \in 0 .. Len(x) - 1, NEW s, WellFormed(s),
         s.code < MAX_CODE, NEW src, Accounts(x, n, s, src)
  PROVE  \E new : Accounts(x, n + 1, EncodeByte(s, x[n + 1]), new)
<1> DEFINE b == x[n + 1]
<1>1. b \in Bytes /\ s.code \in Nat /\ MAX_CODE \in Nat /\ Len(x) \in Nat
  BY ByteWidth DEF WellFormed, EncoderT, MAX_CODE
<1>2. CASE b = 0
  <2>1. n \in 0 .. Len(x) /\ n < Len(x) /\ s.code # MAX_CODE
    BY <1>1
  <2>2. \E new : Accounts(x, n + 1, CloseRun(s), new)
    BY <1>2, <2>1, CloseRunAccounts
  <2> QED BY <1>2, <2>2 DEF EncodeByte
<1>3. CASE b # 0
  <2> DEFINE c == Literal(s, b)
  <2>1. Accounts(x, n + 1, c, src) /\ WellFormed(c) /\ c.code = s.code + 1
    BY <1>1, <1>3, LiteralAccounts, LiteralWellFormed
  <2> HIDE DEF c
  <2>2. CASE s.code + 1 = MAX_CODE
    <3>1. n + 1 \in 0 .. Len(x)
      BY <1>1
    <3>2. \E new : Accounts(x, n + 1, CloseRun(c), new)
      BY <2>1, <2>2, <3>1, CloseRunAccounts
    <3> QED BY <1>3, <2>2, <3>2 DEF EncodeByte, c
  <2>3. CASE s.code + 1 # MAX_CODE
    BY <1>3, <2>1, <2>3 DEF EncodeByte, c
  <2> QED BY <2>2, <2>3
<1> QED BY <1>2, <1>3

----------------------------------------------------------------------------
(* The decoder retraces the runs of the encoder.                           *)

\* src accounts for x in the encoded frame w, whose last run has its code at last.
Frame(x, w, last, src) ==
  /\ Parsed(x, w, last, src)
  /\ w[last] \in 1 .. MAX_CODE /\ last + w[last] = Len(w)
  /\ LiteralRun(x, w, last, src[last], w[last])
  /\ src[last] + w[last] - 1 = Len(x)

\* The encoder's runs, once they are closed, are those of the frame.
LEMMA EncodeEndFrame ==
  ASSUME NEW x \in Seq(Bytes), NEW s, WellFormed(s), NEW src,
         Accounts(x, Len(x), s, src)
  PROVE  Frame(x, EncodeEnd(s), s.code_idx, src)
<1> DEFINE w == EncodeEnd(s)
           last == s.code_idx
<1>1. /\ s.code \in Nat /\ last \in 1 .. Len(s.out) /\ Len(s.out) \in Nat
      /\ s.code = Len(s.out) - last + 1 /\ s.code <= MAX_CODE /\ last \in Nat
  BY DEF WellFormed, EncoderT
<1>2. /\ Len(w) = Len(s.out) + 1
      /\ \A k \in 1 .. Len(s.out) : w[k] = IF k = last THEN s.code ELSE s.out[k]
  <2>1. /\ Len(w) = Len(s.out) + 1
        /\ \A k \in 1 .. Len(s.out) : w[k] = Filled(s)[k]
    BY EncodedFrame
  <2>2. \A k \in 1 .. Len(s.out) : Filled(s)[k] = IF k = last THEN s.code ELSE s.out[k]
    BY FilledHole
  <2> QED BY <2>1, <2>2
<1>3. /\ Parsed(x, s.out, last, src) /\ src[last] + s.code - 1 = Len(x)
      /\ LiteralRun(x, s.out, last, src[last], s.code)
  BY DEF Accounts
<1> HIDE DEF w, last
<1>4. Parsed(x, w, last, src)
  <2>1. \A k \in 1 .. last - 1 : w[k] = s.out[k]
    BY <1>1, <1>2
  <2> QED BY <1>1, <1>3, <2>1, ParsedPrefix
<1>5. w[last] = s.code /\ s.code \in 1 .. MAX_CODE /\ last + s.code = Len(w)
  BY <1>1, <1>2, ByteWidth DEF MAX_CODE
<1>6. ASSUME NEW k \in 1 .. s.code - 1 PROVE w[last + k] = x[src[last] + k]
  <2>1. last + k \in 1 .. Len(s.out) /\ last + k # last
    BY <1>1
  <2> QED BY <1>2, <1>3, <2>1 DEF LiteralRun
<1>7. Frame(x, w, last, src)
  BY <1>3, <1>4, <1>5, <1>6 DEF Frame, LiteralRun
<1> QED BY <1>7 DEF w, last

\* The decoder has consumed the runs before one of the code bytes, or all runs,
\* and its output is what they stand for.
Retraced(x, w, src, t) ==
  \/ t.in_idx + 1 \in DOMAIN src /\ t.out = SubSeq(x, 1, src[t.in_idx + 1])
  \/ t.in_idx = Len(w) - 1 /\ t.out = x

\* A run of the frame is well formed, and decoding it retraces it.
LEMMA DecodeRunRetraces ==
  ASSUME NEW x \in Seq(Bytes), NEW w \in Seq(Bytes), NEW last \in Nat, NEW src,
         Frame(x, w, last, src),
         NEW t \in DecoderT, t.rc = "ARC_OK", Len(t.out) <= t.in_idx,
         t.in_idx < Len(w) - 1, Retraced(x, w, src, t),
         NEW r, r = DecodeRun(w, Len(w) - 2, t)
  PROVE  r.rc = "ARC_OK" /\ Retraced(x, w, src, r)
<1> DEFINE h == t.in_idx + 1
           c == w[h]
           o == Copied(w, t.in_idx, t.out)
           after == AfterRun(src[h], c)
           zero == ImplicitZero(c, t.in_idx + c, Len(w) - 1)
<1>1. /\ t.in_idx \in Nat /\ t.out \in Seq(Bytes) /\ Len(w) \in Nat /\ Len(x) \in Nat
      /\ Len(t.out) \in Nat
  BY DEF DecoderT
<1>2. /\ h \in DOMAIN src /\ t.out = SubSeq(x, 1, src[h]) /\ src[h] \in 0 .. Len(x)
      /\ h \in 1 .. last
  BY <1>1 DEF Retraced, Frame, Parsed
<1>3. Len(t.out) = src[h] /\ \A k \in 1 .. src[h] : t.out[k] = x[k]
  <2>1. \A k \in 1 .. src[h] : x[k] \in Bytes
    BY <1>1, <1>2, ElementOfSeq
  <2>2. src[h] \in Int /\ src[h] - 1 + 1 = src[h] /\ src[h] >= 0
    BY <1>1, <1>2
  <2>3. /\ Len(t.out) = IF 1 <= src[h] THEN src[h] - 1 + 1 ELSE 0
        /\ \A k \in 1 .. src[h] - 1 + 1 : t.out[k] = x[1 + k - 1]
    BY <1>2, <2>1, <2>2, SubSeqProperties
  <2>4. \A k \in 1 .. src[h] : 1 + k - 1 = k
    BY <2>2
  <2> QED BY <2>2, <2>3, <2>4
<1>4. /\ c \in 1 .. MAX_CODE /\ MAX_CODE \in Nat
      /\ LiteralRun(x, w, h, src[h], c) /\ h + c <= Len(w)
      /\ h # last => /\ h + c \in DOMAIN src /\ h + c <= last /\ src[h + c] = after
                     /\ c # MAX_CODE => x[src[h] + c] = 0
      /\ h # last => after \in 0 .. Len(x)
      /\ h = last => h + c = Len(w) /\ src[h] + c - 1 = Len(x)
      /\ last < Len(w)
  <2>1. MAX_CODE \in Nat /\ last \in DOMAIN src /\ last < Len(w)
    BY <1>1, ByteWidth, SMTT(30) DEF Frame, Parsed, MAX_CODE
  <2>2. CASE h = last
    <3>1. /\ c \in 1 .. MAX_CODE /\ h + c = Len(w) /\ src[h] + c - 1 = Len(x)
          /\ LiteralRun(x, w, h, src[h], c)
      BY <2>2, Zenon DEF Frame
    <3>2. h + c <= Len(w)
      BY <1>1, <3>1
    <3> HIDE DEF h, c
    <3> QED BY <2>1, <2>2, <3>1, <3>2
  <2>3. CASE h # last
    <3>1. /\ c \in 1 .. MAX_CODE /\ h + c \in DOMAIN src /\ h + c \in 1 .. last
          /\ LiteralRun(x, w, h, src[h], c) /\ src[h + c] = after
          /\ src[h + c] \in 0 .. Len(x)
          /\ c # MAX_CODE => x[src[h] + c] = 0
      BY <1>2, <2>3 DEF Frame, Parsed
    <3> QED BY <1>1, <2>1, <2>3, <3>1
  <2> QED BY <2>2, <2>3
<1>5. c # 0 /\ t.in_idx + c <= Len(w) - 1 /\ t.in_idx + c \in Nat
  BY <1>1, <1>4, SMTT(30)
<1>6. /\ r \in DecoderT /\ r.rc = "ARC_OK" /\ r.in_idx = t.in_idx + c
      /\ r.out = IF zero THEN Append(o, 0) ELSE o
  BY <1>1, <1>5, DecodeRunOutcomes
<1>7. /\ o \in Seq(Bytes) /\ Len(o) = src[h] + c - 1
      /\ \A k \in 1 .. src[h] : o[k] = x[k]
      /\ \A k \in 1 .. c - 1 : o[src[h] + k] = x[src[h] + k]
  <2>1. /\ o \in Seq(Bytes) /\ Len(o) = Len(t.out) + c - 1
        /\ \A k \in 1 .. Len(t.out) : o[k] = t.out[k]
        /\ \A k \in 1 .. c - 1 : o[Len(t.out) + k] = w[h + k]
    BY <1>1, <1>5, CopiedLiterals, ZenonT(40)
  <2> HIDE DEF o
  <2> QED BY <1>3, <1>4, <2>1 DEF LiteralRun
<1> HIDE DEF o, h, c
<1>8. \A k \in 1 .. Len(o) : o[k] = x[k]
  <2> SUFFICES ASSUME NEW k \in 1 .. Len(o) PROVE o[k] = x[k]
    OBVIOUS
  <2>1. CASE k <= src[h]
    BY <1>2, <1>7, <2>1
  <2>2. CASE k > src[h]
    <3>1. k - src[h] \in 1 .. c - 1 /\ src[h] + (k - src[h]) = k
      BY <1>2, <1>4, <1>7, <2>2, SMTT(30)
    <3>2. o[src[h] + (k - src[h])] = x[src[h] + (k - src[h])]
      BY <1>7, <3>1
    <3> QED BY <3>1, <3>2
  <2> QED BY <1>2, <1>7, <2>1, <2>2
<1>9. CASE h = last
  <2>1. ~zero /\ t.in_idx + c = Len(w) - 1
    <3>1. c \in Nat /\ h + c = Len(w)
      BY <1>4, <1>9
    <3>2. t.in_idx + c = Len(w) - 1
      BY <1>1, <3>1 DEF h
    <3> QED BY <1>1, <3>2 DEF ImplicitZero
  <2>2. Len(o) = Len(x)
    BY <1>4, <1>7, <1>9
  <2>3. o = x
    BY <1>7, <1>8, <2>2, SeqEqual
  <2> QED BY <1>6, <2>1, <2>3 DEF Retraced
<1>10. CASE h # last
  <2>1. t.in_idx + c + 1 = h + c /\ (zero <=> c # MAX_CODE)
    <3>1. c \in Nat /\ h + c <= last /\ last < Len(w)
      BY <1>4, <1>10
    <3>2. t.in_idx + c + 1 = h + c /\ t.in_idx + c < Len(w) - 1
      BY <1>1, <3>1 DEF h
    <3> QED BY <3>2 DEF ImplicitZero
  <2>2. /\ r.out \in Seq(Bytes) /\ Len(r.out) = after
        /\ \A k \in 1 .. after : r.out[k] = x[k]
    <3>1. CASE c = MAX_CODE
      <4>1. r.out = o /\ after = Len(o)
        BY <1>6, <1>7, <2>1, <3>1 DEF AfterRun
      <4> QED BY <1>7, <1>8, <4>1
    <3>2. CASE c # MAX_CODE
      <4>1. /\ r.out \in Seq(Bytes) /\ Len(r.out) = Len(o) + 1
            /\ \A k \in 1 .. Len(o) : r.out[k] = o[k]
            /\ r.out[Len(o) + 1] = 0
        <5>1. r.out = Append(o, 0)
          BY <1>6, <2>1, <3>2
        <5>2. /\ Append(o, 0) \in Seq(Bytes) /\ Len(Append(o, 0)) = Len(o) + 1
              /\ \A k \in 1 .. Len(o) : Append(o, 0)[k] = o[k]
              /\ Append(o, 0)[Len(o) + 1] = 0
          BY <1>7, AppendByte, ZeroByte, Zenon
        <5> QED BY <5>1, <5>2, Zenon
      <4>2. Len(o) + 1 = src[h] + c /\ after = src[h] + c /\ src[h] + c \in Nat
        BY <1>2, <1>4, <1>7, <3>2 DEF AfterRun
      <4>3. x[src[h] + c] = 0
        BY <1>4, <1>10, <3>2
      <4>4. \A k \in 1 .. src[h] + c : k \in 1 .. Len(o) \/ k = Len(o) + 1
        BY <1>2, <1>4, <1>7, <4>2, SMTT(30)
      <4> QED BY <1>8, <4>1, <4>2, <4>3, <4>4
    <3> QED BY <3>1, <3>2
  <2>3. after \in 0 .. Len(x)
    BY <1>4, <1>10
  <2> HIDE DEF after
  <2>4. /\ SubSeq(x, 1, after) \in Seq(Bytes) /\ Len(SubSeq(x, 1, after)) = after
        /\ \A k \in 1 .. after : SubSeq(x, 1, after)[k] = x[k]
    <3>1. \A k \in 1 .. after : x[k] \in Bytes
      BY <1>1, <2>3, ElementOfSeq
    <3>2. after \in Int /\ after - 1 + 1 = after /\ after >= 0
      BY <1>1, <2>3
    <3>3. /\ SubSeq(x, 1, after) \in Seq(Bytes)
          /\ Len(SubSeq(x, 1, after)) = IF 1 <= after THEN after - 1 + 1 ELSE 0
          /\ \A k \in 1 .. after - 1 + 1 : SubSeq(x, 1, after)[k] = x[1 + k - 1]
      BY <3>1, <3>2, SubSeqProperties
    <3>4. \A k \in 1 .. after : 1 + k - 1 = k
      BY <3>2
    <3> QED BY <3>2, <3>3, <3>4
  <2>5. r.out = SubSeq(x, 1, after)
    BY <2>2, <2>4, SeqEqual
  <2> QED BY <1>4, <1>6, <1>10, <2>1, <2>5 DEF Retraced
<1> QED BY <1>9, <1>10

\* The encoder accounts for what it has read; once it has returned, the wire is a
\* frame for the input and the decoder retraces it.
RoundTripInv ==
  /\ pc = "encode" => ~encoded
  /\ pc = "encode" => \E src : Accounts(in, i, e, src)
  /\ encoded => /\ d.rc = "ARC_OK"
                /\ \E src : /\ Frame(in, wire, e.code_idx, src)
                            /\ Retraced(in, wire, src, d)

\* RoundTripInv holds before the coder runs.
LEMMA RoundTripInit == Init => RoundTripInv
<1> SUFFICES ASSUME Init PROVE RoundTripInv
  OBVIOUS
<1>1. ~encoded /\ i = 0 /\ e = EncodeStart /\ in \in Seq(Bytes)
  BY EncoderInit DEF Init, EncoderInv
<1> DEFINE src == [h \in {1} |-> 0]
<1>2. DOMAIN src = {1} /\ src[1] = 0 /\ e.code_idx = 1 /\ e.code = 1
  BY <1>1 DEF EncodeStart
<1> HIDE DEF src
<1>3. Len(in) \in Nat
  BY <1>1
<1>4. Parsed(in, e.out, 1, src) /\ LiteralRun(in, e.out, 1, src[1], 1)
  BY <1>2, <1>3 DEF Parsed, LiteralRun
<1>5. Accounts(in, i, e, src)
  BY <1>1, <1>2, <1>4 DEF Accounts
<1> QED BY <1>1, <1>5 DEF RoundTripInv

\* RoundTripInv holds through both loops.
LEMMA RoundTripStep == CoderInv /\ RoundTripInv /\ [Next]_vars => RoundTripInv'
<1> SUFFICES ASSUME CoderInv, RoundTripInv, [Next]_vars PROVE RoundTripInv'
  OBVIOUS
<1>1. /\ in \in Seq(Bytes) /\ i \in 0 .. Len(in) /\ WellFormed(e) /\ e.code < MAX_CODE
      /\ Len(in) \in Nat /\ wire \in Seq(Bytes) /\ d \in DecoderT
      /\ Len(d.out) <= d.in_idx /\ Len(wire) \in Nat /\ e.code_idx \in Nat
  BY DEF CoderInv, EncoderInv, WireInv, DecoderInv, WellFormed, EncoderT
<1>2. CASE EncodeStep
  <2>1. /\ pc = "encode" /\ i < Len(in) /\ e' = EncodeByte(e, in[i + 1]) /\ i' = i + 1
        /\ in' = in /\ encoded' = encoded
    BY <1>2 DEF EncodeStep
  <2>2. i \in 0 .. Len(in) - 1
    BY <1>1, <2>1
  <2>3. PICK src : Accounts(in, i, e, src)
    BY <2>1 DEF RoundTripInv
  <2>4. \E new : Accounts(in, i + 1, EncodeByte(e, in[i + 1]), new)
    BY <1>1, <2>2, <2>3, EncodeByteAccounts
  <2> QED BY <2>1, <2>4 DEF RoundTripInv
<1>3. CASE EncodeReturn
  <2>1. /\ pc = "encode" /\ i = Len(in) /\ wire' = EncodeEnd(e) /\ pc' = "decode"
        /\ in' = in /\ e' = e /\ d' = d /\ d = DecodeStart
    BY <1>3 DEF EncodeReturn, CoderInv, DecoderInv
  <2>2. PICK src : Accounts(in, Len(in), e, src)
    BY <2>1 DEF RoundTripInv
  <2>3. Frame(in, wire', e.code_idx, src)
    BY <1>1, <2>1, <2>2, EncodeEndFrame
  <2>4. d.in_idx = 0 /\ d.out = <<>> /\ d.rc = "ARC_OK"
    BY <2>1 DEF DecodeStart
  <2>5. 1 \in DOMAIN src /\ src[1] = 0
    BY <2>3 DEF Frame, Parsed
  <2>6. d.out = SubSeq(in, 1, src[d.in_idx + 1]) /\ d.in_idx + 1 \in DOMAIN src
    BY <2>4, <2>5, SubSeqEmpty
  <2>7. Retraced(in, wire', src, d)
    BY <2>6 DEF Retraced
  <2> QED BY <2>1, <2>3, <2>4, <2>7 DEF RoundTripInv
<1>4. CASE DecodeStep
  <2>1. /\ pc = "decode" /\ pc' = "decode" /\ UNCHANGED <<in, e, wire, encoded>>
        /\ d' = DecodeRun(wire, Len(wire) - 2, d)
        /\ d.rc = "ARC_OK" /\ d.in_idx < Len(wire) - 1
    <3>1. d.in_idx \in Nat
      BY <1>1 DEF DecoderT
    <3> QED BY <1>1, <1>4, <3>1 DEF DecodeStep, DecodeDone
  <2>2. CASE ~encoded
    BY <2>1, <2>2 DEF RoundTripInv
  <2>3. CASE encoded
    <3>1. PICK src : /\ Frame(in, wire, e.code_idx, src)
                     /\ Retraced(in, wire, src, d)
      BY <2>3 DEF RoundTripInv
    <3>2. d'.rc = "ARC_OK" /\ Retraced(in, wire, src, d')
      BY <1>1, <2>1, <3>1, DecodeRunRetraces
    <3> QED BY <2>1, <3>1, <3>2 DEF RoundTripInv
  <2> QED BY <2>2, <2>3
<1>5. CASE DecodeRefused
  <2>1. encoded => DecodeAccepts(wire)
    <3> SUFFICES ASSUME encoded PROVE Len(wire) >= 2 /\ wire[Len(wire)] = 0
      BY DEF DecodeAccepts
    <3>1. wire = EncodeEnd(e) /\ e.code_idx \in 1 .. Len(e.out) /\ Len(e.out) \in Nat
      BY DEF CoderInv, WireInv, EncoderInv, WellFormed, EncoderT
    <3>2. Len(wire) = Len(e.out) + 1 /\ wire[Len(e.out) + 1] = 0
      BY <1>1, <3>1, EncodedFrame
    <3> QED BY <3>1, <3>2
  <2>2. ~encoded /\ encoded' = encoded /\ pc' = "done"
    BY <1>5, <2>1 DEF DecodeRefused
  <2> QED BY <2>2 DEF RoundTripInv
<1>6. CASE EncodeRefused \/ DecodeReturn
  BY <1>6 DEF EncodeRefused, DecodeReturn, RoundTripInv
<1>7. CASE UNCHANGED vars
  BY <1>7 DEF vars, RoundTripInv
<1> QED BY <1>2, <1>3, <1>4, <1>5, <1>6, <1>7 DEF Next

\* Decoding what the encoder made of an input gives back the input.
THEOREM DecodingInvertsEncoding == Spec => []RoundTrip
<1>1. Init => RoundTripInv
  BY RoundTripInit
<1>2. CoderInv /\ RoundTripInv /\ [Next]_vars => RoundTripInv'
  BY RoundTripStep
<1>3. CoderInv /\ RoundTripInv => RoundTrip
  <2> SUFFICES ASSUME CoderInv, RoundTripInv, encoded, pc = "done"
               PROVE  d.rc = "ARC_OK" /\ d.out = in
    BY DEF RoundTrip
  <2>1. PICK src : /\ Frame(in, wire, e.code_idx, src)
                   /\ Retraced(in, wire, src, d)
    BY DEF RoundTripInv
  <2>2. d.rc = "ARC_OK" /\ d.in_idx = Len(wire) - 1
    BY DEF RoundTripInv, CoderInv, DecoderInv
  <2>3. /\ e.code_idx \in Nat /\ wire[e.code_idx] \in 1 .. MAX_CODE
        /\ e.code_idx + wire[e.code_idx] = Len(wire)
        /\ DOMAIN src \subseteq 1 .. e.code_idx
    BY <2>1 DEF Frame, Parsed, CoderInv, EncoderInv, WellFormed, EncoderT
  <2>4. Len(wire) \in Nat /\ MAX_CODE \in Nat
    BY ByteWidth DEF CoderInv, WireInv, MAX_CODE
  <2>5. d.in_idx + 1 \notin DOMAIN src
    BY <2>2, <2>3, <2>4
  <2> QED BY <2>1, <2>2, <2>5 DEF Retraced
<1> QED BY <1>1, <1>2, <1>3, CoderInvariant, PTL DEF Spec

=============================================================================
