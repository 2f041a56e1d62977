---------------------------- MODULE FormatProofs ----------------------------
(***************************************************************************)
(* The Daikatana codec and the directory layouts, for all their inputs.    *)
(*                                                                         *)
(* The buffers of the codec, for every text and every code: the decoder    *)
(* stays within the code and the declared length, the encoder within the   *)
(* worst case it has checked, and the numbers it casts to unsigned char    *)
(* are bytes.  And the round trip: the decoder accepts what the encoder    *)
(* makes of a text and gives the text back.                                *)
(*                                                                         *)
(* Then the directories: whatever the format, the width of its names and   *)
(* the entries, open reads back what was written, or says that it cannot   *)
(* tell the two layouts of a "PACK" apart.                                 *)
(***************************************************************************)
EXTENDS DkCodec, PakProbe, SequenceTheorems, FiniteSetTheorems, WellFoundedInduction, TLAPS

TypeOK ==
    /\ phase \in {"encode", "decode", "ok", "error"}
    /\ text \in Seq(Byte) /\ code \in Seq(Byte) /\ out \in Seq(Byte)
    /\ taken \in Nat /\ literals \in Nat /\ size \in Nat /\ read \in Nat

\* The literals not yet written out are the last of what is taken, and fewer
\* than one token holds.
Counters ==
    /\ taken <= Len(text)
    /\ literals <= taken
    /\ literals < MaxLiteral
    /\ phase = "encode" => read = 0 /\ out = <<>>

\* What is written has at most one byte more than it stands for per W bytes:
\* a full literal token has one opcode to W bytes, and a run or a reference
\* saves the opcode of the shorter literal token in front of it.
Written ==
    \E q \in Nat : q * W <= taken - literals /\ Len(code) <= taken - literals + q

CodecInv ==
    /\ TypeOK
    /\ Counters
    /\ phase = "encode" => Written
    /\ phase # "encode" => EncodingFits
    /\ StaysInBuffers

-----------------------------------------------------------------------------

\* The quotient of the worst case is no less than a multiple of W taken.
LEMMA QuotientBound ==
    ASSUME NEW a \in Nat, NEW q \in Nat, q * W <= a PROVE q <= a \div W
<1> DEFINE d == a \div W  r == a % W
<1>1. W \in Nat /\ W > 0
  BY CodecAssumption
<1>2. d \in Nat /\ r \in Nat /\ r < W /\ a = W * d + r
  BY <1>1
<1> HIDE DEF d, r
<1>3. CASE q > d
  <2>1. PICK k \in Nat : q = d + 1 + k
    BY <1>2, <1>3, q = d + 1 + (q - d - 1), q - d - 1 \in Nat
  <2>2. q * W = W * d + W + k * W /\ k * W >= 0
    BY <2>1, <1>1, <1>2
  <2> QED  BY <2>2, <1>1, <1>2
<1> QED  BY <1>2, <1>3 DEF d

\* One piece of a text in a token.
LEMMA LiteralTokenType ==
    ASSUME TypeOK, Counters
    PROVE  /\ LiteralToken(literals) \in Seq(Byte)
           /\ Len(LiteralToken(literals)) = IF literals = 0 THEN 0 ELSE literals + 1
<1>1. CASE literals = 0
  BY <1>1 DEF LiteralToken
<1>2. CASE literals # 0
  <2> DEFINE s == SubSeq(text, taken - literals + 1, taken)
  <2>1. s \in Seq(Byte) /\ Len(s) = literals
    BY <1>2, SubSeqProperties DEF TypeOK, Counters
  <2>2. <<literals - 1>> \in Seq(Byte) /\ Len(<<literals - 1>>) = 1
    BY <1>2, CodecAssumption DEF TypeOK, Counters, Byte, MaxLiteral
  <2> HIDE DEF s
  <2>3. <<literals - 1>> \o s \in Seq(Byte) /\ Len(<<literals - 1>> \o s) = literals + 1
    BY <2>1, <2>2, ConcatProperties DEF TypeOK
  <2> QED  BY <1>2, <2>3 DEF LiteralToken, s
<1> QED  BY <1>1, <1>2

\* A token that is shorter than what it stands for pays for the literals in
\* front of it.
LEMMA EmitStep ==
    ASSUME CodecInv, phase = "encode",
           NEW len \in Nat, NEW token \in Seq(Byte),
           len > Len(token), len <= Left,
           Emit(len, token),
           UNCHANGED <<phase, text, size, read, out>>
    PROVE  CodecInv'
<1> DEFINE lits == LiteralToken(literals)
<1>0. TypeOK /\ Counters /\ Written
  BY DEF CodecInv
<1>1. lits \in Seq(Byte) /\ Len(lits) = IF literals = 0 THEN 0 ELSE literals + 1
  BY <1>0, LiteralTokenType
<1> HIDE DEF lits
<1>2. code' = code \o lits \o token /\ literals' = 0 /\ taken' = taken + len
  BY DEF Emit, lits
<1>3. code' \in Seq(Byte) /\ Len(code') = Len(code) + Len(lits) + Len(token)
  <2>1. code \o lits \in Seq(Byte) /\ Len(code \o lits) = Len(code) + Len(lits)
    BY <1>0, <1>1, ConcatProperties DEF TypeOK
  <2>2. (code \o lits) \o token \in Seq(Byte)
        /\ Len((code \o lits) \o token) = Len(code \o lits) + Len(token)
    BY <2>1, ConcatProperties
  <2> QED  BY <1>2, <2>1, <2>2
<1>4. TypeOK'
  BY <1>0, <1>2, <1>3 DEF TypeOK
<1>5. Counters'
  BY <1>0, <1>2, CodecAssumption DEF TypeOK, Counters, Left, MaxLiteral
<1>6. Written'
  <2>1. PICK q \in Nat : q * W <= taken - literals /\ Len(code) <= taken - literals + q
    BY <1>0 DEF Written
  <2>2. Len(code) \in Nat /\ Len(token) \in Nat
    BY <1>0 DEF TypeOK
  <2>3. q * W \in Nat
    BY CodecAssumption
  <2>4. q * W <= taken' - literals'
    BY <1>0, <1>2, <2>1, <2>3 DEF TypeOK
  <2>5. Len(code') <= taken' - literals' + q
    BY <1>0, <1>1, <1>2, <1>3, <2>1, <2>2 DEF TypeOK
  <2> QED  BY <2>4, <2>5 DEF Written
<1>7. StaysInBuffers'
  BY <1>0, <1>3 DEF StaysInBuffers, CodecInv, Counters, TypeOK
<1> QED  BY <1>4, <1>5, <1>6, <1>7 DEF CodecInv

\* A byte joins the literals; a full token of them is written out.
LEMMA TakeLiteralStep ==
    ASSUME CodecInv, phase = "encode", taken < Len(text),
           TakeLiteral, UNCHANGED <<phase, text, size, read, out>>
    PROVE  CodecInv'
<1>0. TypeOK /\ Counters /\ Written
  BY DEF CodecInv
<1>1. taken' = taken + 1 /\ Len(code) \in Nat
  BY <1>0 DEF TakeLiteral, TypeOK
<1>q. PICK q \in Nat : q * W <= taken - literals /\ Len(code) <= taken - literals + q
  BY <1>0 DEF Written
<1>2. CASE literals + 1 # MaxLiteral
  <2>1. literals' = literals + 1 /\ code' = code
    BY <1>2 DEF TakeLiteral
  <2>2. TypeOK' /\ Counters'
    BY <1>0, <1>1, <1>2, <2>1, CodecAssumption DEF TypeOK, Counters, MaxLiteral
  <2>3. Written'
    BY <1>0, <1>1, <1>q, <2>1 DEF Written, TypeOK
  <2>4. StaysInBuffers'
    BY <2>1 DEF CodecInv, StaysInBuffers
  <2> QED  BY <2>2, <2>3, <2>4 DEF CodecInv
<1>3. CASE literals + 1 = MaxLiteral
  <2> DEFINE s == SubSeq(text, taken + 1 - literals, taken + 1)
  <2>1. s \in Seq(Byte) /\ Len(s) = W
    BY <1>0, <1>3, SubSeqProperties, CodecAssumption DEF TypeOK, Counters, MaxLiteral
  <2>2. <<literals>> \in Seq(Byte) /\ Len(<<literals>>) = 1
    BY <1>0, <1>3, CodecAssumption DEF TypeOK, Byte, MaxLiteral
  <2>3. code' = code \o <<literals>> \o s /\ literals' = 0
    BY <1>3 DEF TakeLiteral
  <2> HIDE DEF s
  <2>4. code \o <<literals>> \in Seq(Byte) /\ Len(code \o <<literals>>) = Len(code) + 1
    BY <1>0, <2>2, ConcatProperties DEF TypeOK
  <2>5. code' \in Seq(Byte) /\ Len(code') = Len(code) + 1 + W
    <3> DEFINE head == code \o <<literals>>
    <3>1. head \in Seq(Byte) /\ s \in Seq(Byte) /\ Len(head) = Len(code) + 1 /\ Len(s) = W
      BY <2>1, <2>4
    <3> HIDE DEF head
    <3>2. head \o s \in Seq(Byte) /\ Len(head \o s) = Len(head) + Len(s)
      BY <3>1, ConcatProperties, Zenon
    <3>3. Len(head \o s) = Len(code) + 1 + W
      BY <3>1, <3>2
    <3> QED  BY <2>3, <3>2, <3>3 DEF head
  <2>6. TypeOK' /\ Counters'
    BY <1>0, <1>1, <2>3, <2>5, CodecAssumption DEF TypeOK, Counters, MaxLiteral
  <2>7. Written'
    <3>1. (q + 1) * W = q * W + W /\ q * W \in Nat
      BY CodecAssumption
    <3>2. (q + 1) * W <= taken' - literals' /\ Len(code') <= taken' - literals' + (q + 1)
      BY <1>0, <1>1, <1>3, <1>q, <2>3, <2>5, <3>1, CodecAssumption DEF TypeOK, MaxLiteral
    <3> QED  BY <3>2, q + 1 \in Nat DEF Written
  <2>8. StaysInBuffers'
    BY <1>0, <2>5 DEF CodecInv, StaysInBuffers, Counters, TypeOK
  <2> QED  BY <2>6, <2>7, <2>8 DEF CodecInv
<1> QED  BY <1>2, <1>3

\* The encoder picks literals or one of three tokens.
LEMMA EncodeStepInv == ASSUME CodecInv, EncodeStep PROVE CodecInv'
<1>0. /\ phase = "encode" /\ taken < Len(text)
      /\ UNCHANGED <<phase, text, size, read, out>>
  BY DEF EncodeStep
<1>1. TypeOK /\ Counters
  BY DEF CodecInv
<1>2. PICK zeros \in Runs(0, MaxZeroRun), same \in Runs(text[taken + 1], MaxByteRun),
           m \in Matches :
        LET z == Effective(zeros, MinZeroRun)
            r == Effective(same, MinByteRun)
            zerosWin == 2 * z > r /\ 2 * z > m.len
        IN  \/ z = 0 /\ r = 0 /\ m = NoMatch /\ TakeLiteral
            \/ zerosWin /\ Emit(z, <<z + W - 2>>)
            \/ /\ ~zerosWin /\ m.len > r
               /\ Emit(m.len, <<m.len + 3 * W - 2, m.dist - 2>>)
            \/ /\ ~zerosWin /\ m.len <= r /\ r > 0
               /\ Emit(r, <<r + 2 * W - 2, text[taken + 1]>>)
  BY DEF EncodeStep
<1> DEFINE z == Effective(zeros, MinZeroRun)
           r == Effective(same, MinByteRun)
<1>3. /\ z \in Nat /\ (z = 0 \/ (z >= 2 /\ z <= W /\ z <= Left))
      /\ r \in Nat /\ (r = 0 \/ (r >= 3 /\ r <= W /\ r <= Left))
  BY CodecAssumption DEF Runs, Effective, MinZeroRun, MinByteRun, MaxZeroRun, MaxByteRun
<1>4. /\ m.len \in Nat /\ m.dist \in Nat
      /\ \/ m.len = 0
         \/ /\ m.len >= 3 /\ m.len <= W - 2 /\ m.len <= Left
            /\ m.dist >= 2 /\ m.dist <= 4 * W + 1
  BY CodecAssumption DEF Matches, NoMatch, MinBackRef, MaxBackRef, MaxBackDist
<1>5. text[taken + 1] \in Byte
  BY <1>0, <1>1 DEF TypeOK, Counters
<1>6. \/ TakeLiteral
      \/ 2 * z > r /\ Emit(z, <<z + W - 2>>)
      \/ m.len > r /\ Emit(m.len, <<m.len + 3 * W - 2, m.dist - 2>>)
      \/ r > 0 /\ Emit(r, <<r + 2 * W - 2, text[taken + 1]>>)
  BY <1>2
<1> HIDE DEF z, r
<1>7. CASE TakeLiteral
  BY <1>0, <1>7, TakeLiteralStep
<1>8. CASE 2 * z > r /\ Emit(z, <<z + W - 2>>)
  <2> DEFINE token == <<z + W - 2>>
  <2>1. z >= 2 /\ z <= W /\ z <= Left
    BY <1>3, <1>8
  <2>2. token \in Seq(Byte) /\ Len(token) = 1
    BY <1>3, <2>1, CodecAssumption DEF Byte
  <2> HIDE DEF token
  <2>3. Emit(z, token)
    BY <1>8 DEF token
  <2>4. z \in Nat /\ z > Len(token)
    BY <1>3, <2>1, <2>2
  <2> QED  BY <1>0, <2>1, <2>2, <2>3, <2>4, EmitStep, Zenon
<1>9. CASE m.len > r /\ Emit(m.len, <<m.len + 3 * W - 2, m.dist - 2>>)
  <2> DEFINE token == <<m.len + 3 * W - 2, m.dist - 2>>
  <2>1. m.len >= 3 /\ m.len <= Left
    BY <1>3, <1>4, <1>9
  <2>2. m.len + 3 * W - 2 \in Byte /\ m.dist - 2 \in Byte
    BY <1>4, <2>1, CodecAssumption DEF Byte
  <2>3. token \in Seq(Byte) /\ Len(token) = 2
    BY <2>2
  <2> HIDE DEF token
  <2>4. Emit(m.len, token)
    BY <1>9 DEF token
  <2>5. m.len \in Nat /\ m.len > Len(token)
    BY <1>4, <2>1, <2>3
  <2> QED  BY <1>0, <2>1, <2>3, <2>4, <2>5, EmitStep, Zenon
<1>10. CASE r > 0 /\ Emit(r, <<r + 2 * W - 2, text[taken + 1]>>)
  <2> DEFINE token == <<r + 2 * W - 2, text[taken + 1]>>
  <2>1. r >= 3 /\ r <= Left
    BY <1>3, <1>10
  <2>2. r + 2 * W - 2 \in Byte
    BY <1>3, <2>1, CodecAssumption DEF Byte
  <2>3. token \in Seq(Byte) /\ Len(token) = 2
    BY <2>2, <1>5
  <2> HIDE DEF token
  <2>4. Emit(r, token)
    BY <1>10 DEF token
  <2>5. r \in Nat /\ r > Len(token)
    BY <1>3, <2>1, <2>3
  <2> QED  BY <1>0, <2>1, <2>3, <2>4, <2>5, EmitStep, Zenon
<1> QED  BY <1>6, <1>7, <1>8, <1>9, <1>10

\* The encoder ends with the rest of the literals and the terminator.
LEMMA EncodeEndInv == ASSUME CodecInv, EncodeEnd PROVE CodecInv'
<1> DEFINE lits == LiteralToken(literals)  end == <<4 * W - 1>>
<1>0. /\ TypeOK /\ Counters /\ Written
      /\ phase = "encode" /\ taken = Len(text)
      /\ code' = code \o lits \o end
      /\ literals' = 0 /\ size' = Len(text) /\ phase' = "decode"
      /\ UNCHANGED <<text, taken, read, out>>
  BY DEF EncodeEnd, CodecInv
<1>1. lits \in Seq(Byte) /\ Len(lits) = IF literals = 0 THEN 0 ELSE literals + 1
  BY <1>0, LiteralTokenType
<1>2. end \in Seq(Byte) /\ Len(end) = 1
  BY CodecAssumption DEF Byte
<1> HIDE DEF lits, end
<1>3. code' \in Seq(Byte) /\ Len(code') = Len(code) + Len(lits) + 1
  <2>1. code \o lits \in Seq(Byte) /\ Len(code \o lits) = Len(code) + Len(lits)
    BY <1>0, <1>1, ConcatProperties DEF TypeOK
  <2>2. (code \o lits) \o end \in Seq(Byte)
        /\ Len((code \o lits) \o end) = Len(code \o lits) + Len(end)
    BY <1>2, <2>1, ConcatProperties
  <2> QED  BY <1>0, <1>2, <2>1, <2>2
<1>4. TypeOK'
  BY <1>0, <1>3 DEF TypeOK
<1>5. Counters'
  BY <1>0, CodecAssumption DEF TypeOK, Counters, MaxLiteral
<1>6. StaysInBuffers'
  BY <1>0, <1>3 DEF StaysInBuffers, Counters, TypeOK
<1>7. EncodingFits'
  <2> DEFINE n == Len(text)
  <2>1. PICK q \in Nat : q * W <= taken - literals /\ Len(code) <= taken - literals + q
    BY <1>0 DEF Written
  <2>2. n \in Nat /\ q * W \in Nat /\ W \in Nat /\ W > 0
    BY <1>0, CodecAssumption DEF TypeOK
  <2>3. (n + W - 1) \div W \in Nat
    BY <2>2
  <2>4. CASE literals = 0
    <3>1. n + W - 1 \in Nat /\ q * W <= n + W - 1
      BY <1>0, <2>1, <2>2, <2>4 DEF TypeOK, Counters
    <3>2. q <= (n + W - 1) \div W
      BY <3>1, QuotientBound
    <3> QED  BY <1>0, <1>1, <1>3, <2>1, <2>2, <2>3, <2>4, <3>2 DEF EncodingFits, Worst, TypeOK
  <2>5. CASE literals # 0
    <3>1. (q + 1) * W = q * W + W
      BY <2>2
    <3>2. n + W - 1 \in Nat /\ (q + 1) * W <= n + W - 1
      BY <1>0, <2>1, <2>2, <2>5, <3>1 DEF TypeOK, Counters
    <3>3. q + 1 <= (n + W - 1) \div W
      BY <3>2, q + 1 \in Nat, QuotientBound
    <3> QED  BY <1>0, <1>1, <1>3, <2>1, <2>2, <2>3, <2>5, <3>3 DEF EncodingFits, Worst, TypeOK
  <2> QED  BY <2>4, <2>5
<1> QED  BY <1>0, <1>4, <1>5, <1>6, <1>7 DEF CodecInv

-----------------------------------------------------------------------------

\* A token the decoder accepts stands for RunLength bytes.
LEMMA ProducedType ==
    ASSUME TypeOK, More, Acceptable
    PROVE  Produced \in Seq(Byte) /\ Len(Produced) = RunLength /\ OperandLength \in Nat
<1>1. Len(code) \in Nat /\ Len(out) \in Nat /\ read \in Nat /\ W \in Nat /\ W >= 5
  BY CodecAssumption DEF TypeOK
<1>2. Op \in 0 .. 4 * W - 1
  <2>1. read + 1 \in 1 .. Len(code)
    BY <1>1 DEF More
  <2> QED  BY <2>1, ElementOfSeq DEF Op, TypeOK, Byte
<1>3. ASSUME ~IsLiteral, ~IsZeros PROVE Operand \in Byte /\ OperandLength = 1
  <2>1. OperandLength = 1
    BY <1>3 DEF OperandLength
  <2>2. read + 2 \in 1 .. Len(code)
    BY <1>1, <2>1 DEF Acceptable
  <2> QED  BY <2>1, <2>2, ElementOfSeq DEF Operand, TypeOK
<1>4. CASE IsLiteral
  <2>1. RunLength = Op + 1 /\ OperandLength = RunLength
    BY <1>4 DEF RunLength, OperandLength
  <2>2. read + 1 + RunLength <= Len(code)
    BY <2>1 DEF Acceptable
  <2>3. Produced = SubSeq(code, read + 2, read + 1 + RunLength)
    BY <1>4 DEF Produced
  <2> QED  BY <1>1, <1>2, <2>1, <2>2, <2>3, SubSeqProperties DEF TypeOK
<1>5. CASE IsZeros
  <2>1. ~IsLiteral
    BY <1>1, <1>2, <1>5 DEF IsLiteral, IsZeros
  <2>2. RunLength = Op - (W - 2) /\ OperandLength = 0
    BY <1>5, <2>1 DEF RunLength, OperandLength
  <2>3. RunLength \in Nat
    BY <1>1, <1>2, <1>5, <2>2 DEF IsZeros
  <2>4. Produced = [k \in 1 .. RunLength |-> 0]
    BY <1>5, <2>1 DEF Produced
  <2>5. 0 \in Byte
    BY <1>1 DEF Byte
  <2> QED  BY <2>2, <2>3, <2>4, <2>5
<1>6. CASE IsCopies
  <2>1. ~IsLiteral /\ ~IsZeros
    BY <1>1, <1>2, <1>6 DEF IsLiteral, IsZeros, IsCopies
  <2>2. RunLength = Op - (2 * W - 2)
    BY <1>6, <2>1 DEF RunLength
  <2>3. RunLength \in Nat
    BY <1>1, <1>2, <1>6, <2>2 DEF IsCopies
  <2>4. Produced = [k \in 1 .. RunLength |-> Operand]
    BY <1>6, <2>1 DEF Produced
  <2> QED  BY <1>3, <2>1, <2>3, <2>4
<1>7. CASE IsBackRef
  <2>1. ~IsLiteral /\ ~IsZeros /\ ~IsCopies
    BY <1>1, <1>2, <1>7 DEF IsLiteral, IsZeros, IsCopies, IsBackRef
  <2>2. RunLength = Op - (3 * W - 2)
    BY <2>1 DEF RunLength
  <2>3. RunLength \in Nat
    BY <1>1, <1>2, <1>7, <2>2 DEF IsBackRef
  <2>4. Distance \in Nat /\ Distance > 0 /\ Distance <= Len(out)
    BY <1>1, <1>3, <1>7, <2>1 DEF Distance, Acceptable, Byte
  <2>5. Produced = [k \in 1 .. RunLength |->
                       out[Len(out) - Distance + 1 + ((k - 1) % Distance)]]
    BY <2>1 DEF Produced
  <2> HIDE DEF Distance
  <2>6. ASSUME NEW k \in 1 .. RunLength
        PROVE  out[Len(out) - Distance + 1 + ((k - 1) % Distance)] \in Byte
    <3>1. (k - 1) % Distance \in 0 .. Distance - 1
      BY <2>3, <2>4
    <3>2. Len(out) - Distance + 1 + ((k - 1) % Distance) \in 1 .. Len(out)
      BY <1>1, <2>4, <3>1
    <3> QED  BY <3>2, ElementOfSeq DEF TypeOK
  <2> QED  BY <1>3, <2>1, <2>3, <2>5, <2>6
<1> QED  BY <1>4, <1>5, <1>6, <1>7 DEF Acceptable

\* The decoder takes a token whole or not at all.
LEMMA DecodeTokenInv == ASSUME CodecInv, DecodeToken PROVE CodecInv'
<1>0. TypeOK /\ Counters /\ EncodingFits /\ More /\ Acceptable
  BY DEF CodecInv, DecodeToken, More
<1>1. Produced \in Seq(Byte) /\ Len(Produced) = RunLength /\ OperandLength \in Nat
  BY <1>0, ProducedType
<1>2. /\ out' = out \o Produced /\ read' = read + 1 + OperandLength
      /\ UNCHANGED <<phase, text, taken, literals, code, size>>
  BY DEF DecodeToken
<1>3. out' \in Seq(Byte) /\ Len(out') = Len(out) + RunLength
  BY <1>0, <1>1, <1>2, ConcatProperties DEF TypeOK
<1>4. TypeOK'
  BY <1>0, <1>1, <1>2, <1>3 DEF TypeOK
<1>5. Counters' /\ phase' # "encode"
  BY <1>0, <1>2 DEF Counters, More
<1>6. StaysInBuffers'
  BY <1>0, <1>2, <1>3 DEF StaysInBuffers, Acceptable
<1>7. EncodingFits'
  BY <1>0, <1>2 DEF EncodingFits, Worst
<1> QED  BY <1>4, <1>5, <1>6, <1>7 DEF CodecInv

\* Where the decoder stops only its verdict changes.
LEMMA DecodeStopInv ==
    ASSUME CodecInv, DecodeRefused \/ DecodeEnd PROVE CodecInv'
<1>1. /\ phase # "encode" /\ phase' \in {"ok", "error"}
      /\ UNCHANGED <<text, taken, literals, code, size, read, out>>
  BY DEF DecodeRefused, DecodeEnd, More
<1> QED  BY <1>1 DEF CodecInv, TypeOK, Counters, EncodingFits, Worst, StaysInBuffers

-----------------------------------------------------------------------------
\* Nothing is written before the first token.
LEMMA CodecInitInv == CodecInit => CodecInv
<1> SUFFICES ASSUME CodecInit PROVE CodecInv
  OBVIOUS
<1>1. /\ taken = 0 /\ literals = 0 /\ read = 0 /\ out = <<>>
      /\ \/ phase = "encode" /\ text \in Seq(Byte) /\ code = <<>> /\ size = 0
         \/ phase = "decode" /\ text = <<>> /\ code \in Seq(Byte) /\ size \in Nat
  BY CodecAssumption DEF CodecInit
<1>2. TypeOK
  <2>1. <<>> \in Seq(Byte)
    OBVIOUS
  <2>2. text \in Seq(Byte) /\ code \in Seq(Byte) /\ out \in Seq(Byte)
    BY <1>1, <2>1, Zenon
  <2>3. phase \in {"encode", "decode", "ok", "error"} /\ size \in Nat
    BY <1>1
  <2> QED  BY <1>1, <2>2, <2>3 DEF TypeOK
<1>3. Counters /\ StaysInBuffers
  BY <1>1, <1>2, CodecAssumption DEF TypeOK, Counters, StaysInBuffers, MaxLiteral
<1>4. phase = "encode" => Written
  <2>1. 0 * W = 0 /\ 0 \in Nat
    BY CodecAssumption
  <2> QED  BY <1>1, <2>1 DEF Written
<1>5. phase # "encode" => EncodingFits
  BY <1>1 DEF EncodingFits
<1> QED  BY <1>2, <1>3, <1>4, <1>5 DEF CodecInv

\* CodecInv is inductive: one step per kind of token.
LEMMA CodecNextInv == CodecInv /\ [CodecNext]_codecVars => CodecInv'
<1> SUFFICES ASSUME CodecInv, [CodecNext]_codecVars PROVE CodecInv'
  OBVIOUS
<1>1. CASE UNCHANGED codecVars
  BY <1>1 DEF codecVars, CodecInv, TypeOK, Counters, Written, EncodingFits, Worst, StaysInBuffers
<1>2. CASE EncodeStep
  BY <1>2, EncodeStepInv
<1>3. CASE EncodeEnd
  BY <1>3, EncodeEndInv
<1>4. CASE DecodeToken
  BY <1>4, DecodeTokenInv
<1>5. CASE DecodeRefused \/ DecodeEnd
  BY <1>5, DecodeStopInv
<1> QED  BY <1>1, <1>2, <1>3, <1>4, <1>5 DEF CodecNext

\* In the middle of an encoding the worst case is not passed either.
LEMMA FitsAlways == CodecInv => EncodingFits
<1> SUFFICES ASSUME CodecInv, phase = "encode" PROVE EncodingFits
  BY DEF CodecInv
<1>0. TypeOK /\ Counters
  BY DEF CodecInv
<1>1. PICK q \in Nat : q * W <= taken - literals /\ Len(code) <= taken - literals + q
  BY DEF CodecInv, Written
<1>2. Len(text) \in Nat /\ Len(code) \in Nat /\ q * W \in Nat /\ W \in Nat /\ W > 0
  BY <1>0, CodecAssumption DEF TypeOK
<1>3. Len(text) + W - 1 \in Nat /\ q * W <= Len(text) + W - 1
  BY <1>0, <1>1, <1>2 DEF TypeOK, Counters
<1>4. q <= (Len(text) + W - 1) \div W
  BY <1>3, QuotientBound
<1>5. (Len(text) + W - 1) \div W \in Nat
  BY <1>2
<1> QED  BY <1>0, <1>1, <1>2, <1>4, <1>5 DEF EncodingFits, Worst, TypeOK, Counters

\* The invariant behind the two theorems below.
THEOREM CodecInvariant == CodecSpec => []CodecInv
<1> QED  BY CodecInitInv, CodecNextInv, PTL DEF CodecSpec

\* Every number pakka_dk_deflate casts to unsigned char is a byte already, and
\* every byte pakka_dk_inflate reads or writes is one.
THEOREM TypeCorrect == CodecSpec => []TypeOK
<1>1. CodecInv => TypeOK
  BY DEF CodecInv
<1> QED  BY <1>1, CodecInvariant, PTL

\* Whatever the code, pakka_dk_inflate writes no further than the declared
\* length and reads no further than the code.
THEOREM DecoderStaysInBuffers == CodecSpec => []StaysInBuffers
<1>1. CodecInv => StaysInBuffers
  BY DEF CodecInv
<1> QED  BY <1>1, CodecInvariant, PTL

\* Whatever the text, pakka_dk_deflate writes no more than the worst case it
\* has compared with the capacity of its buffer, although it never looks again.
THEOREM EncoderFits == CodecSpec => []EncodingFits
<1> QED  BY FitsAlways, CodecInvariant, PTL

-----------------------------------------------------------------------------
(***************************************************************************)
(* The round trip.  A code is cut into its tokens: a cut is a place in the *)
(* code and the place in the text it has come to.  While the encoder runs  *)
(* the last cut is where it stands, with the pending literals left out;    *)
(* while the decoder runs it stands at a cut.                              *)
(***************************************************************************)

\* The token of c between p and r stands for the bytes of t between q and s.
LiteralPiece(t, c, p, q, r, s) ==
    /\ s - q \in 1 .. W
    /\ c[p + 1] = s - q - 1
    /\ r = p + 1 + (s - q)
    /\ \A k \in 1 .. s - q : c[p + 1 + k] = t[q + k]

ZerosPiece(t, c, p, q, r, s) ==
    /\ s - q \in 2 .. W
    /\ c[p + 1] = s - q + W - 2
    /\ r = p + 1
    /\ \A k \in 1 .. s - q : t[q + k] = 0

CopiesPiece(t, c, p, q, r, s) ==
    /\ s - q \in 3 .. W
    /\ c[p + 1] = s - q + 2 * W - 2
    /\ r = p + 2
    /\ \A k \in 1 .. s - q : t[q + k] = c[p + 2]

BackRefPiece(t, c, p, q, r, s) ==
    /\ s - q \in 3 .. W - 2
    /\ c[p + 1] = s - q + 3 * W - 2
    /\ r = p + 2
    /\ s - q <= c[p + 2] + 2 /\ c[p + 2] + 2 <= q
    /\ \A k \in 1 .. s - q : t[q + k] = t[q + k - (c[p + 2] + 2)]

Piece(t, c, p, q, r, s) ==
    /\ p < r /\ r <= Len(c) /\ s <= Len(t)
    /\ \/ LiteralPiece(t, c, p, q, r, s)
       \/ ZerosPiece(t, c, p, q, r, s)
       \/ CopiesPiece(t, c, p, q, r, s)
       \/ BackRefPiece(t, c, p, q, r, s)

Continues(t, c, x, cuts) == \E y \in cuts : Piece(t, c, x[1], x[2], y[1], y[2])

\* c is a sequence of tokens that stands for the first q bytes of t.
Covered(t, c, q) ==
    \E cuts \in SUBSET (Nat \X Nat) :
        /\ <<0, 0>> \in cuts
        /\ \A x \in cuts : x = <<Len(c), q>> \/ Continues(t, c, x, cuts)

AtTerminator(t, c, x) ==
    x[1] < Len(c) /\ c[x[1] + 1] = 4 * W - 1 /\ x[2] = Len(t)

\* From p on, c is tokens for the bytes of t behind q, and the terminator.
Decodes(t, c, p, q) ==
    \E cuts \in SUBSET (Nat \X Nat) :
        /\ <<p, q>> \in cuts
        /\ \A x \in cuts : AtTerminator(t, c, x) \/ Continues(t, c, x, cuts)

\* What is decoded is the beginning of the text, and the rest is to come.
OnTheWay ==
    /\ size = Len(text)
    /\ Len(out) <= Len(text)
    /\ \A k \in 1 .. Len(out) : out[k] = text[k]
    /\ Decodes(text, code, read, Len(out))

TripInv ==
    /\ CodecInv
    /\ phase = "encode" => Covered(text, code, taken - literals)
    /\ phase = "decode" /\ text # <<>> => OnTheWay
    /\ phase = "ok" /\ text # <<>> => out = text
    /\ phase = "error" => text = <<>>

\* A token stays what it is when others follow it.
LEMMA PieceStays ==
    ASSUME NEW t \in Seq(Byte), NEW c \in Seq(Byte), NEW u \in Seq(Byte),
           NEW p \in Nat, NEW q \in Nat, NEW r \in Nat, NEW s \in Nat,
           Piece(t, c, p, q, r, s)
    PROVE  Piece(t, c \o u, p, q, r, s)
<1> DEFINE d == c \o u
<1>1. /\ Len(d) = Len(c) + Len(u) /\ Len(c) \in Nat /\ Len(u) \in Nat
      /\ \A i \in 1 .. Len(c) : d[i] = c[i]
  OBVIOUS
<1>2. p < r /\ r <= Len(c) /\ s <= Len(t) /\ W \in Nat
  BY CodecAssumption DEF Piece
<1> HIDE DEF d
<1>3. d[p + 1] = c[p + 1]
  BY <1>1, <1>2
<1>4. r = p + 2 => d[p + 2] = c[p + 2]
  BY <1>1, <1>2
<1>5. ASSUME LiteralPiece(t, c, p, q, r, s) PROVE LiteralPiece(t, d, p, q, r, s)
  <2>1. ASSUME NEW k \in 1 .. s - q PROVE d[p + 1 + k] = t[q + k]
    <3>1. c[p + 1 + k] = t[q + k] /\ r = p + 1 + (s - q)
      BY <1>5 DEF LiteralPiece
    <3>2. p + 1 + k \in 1 .. Len(c)
      BY <1>1, <1>2, <3>1
    <3> QED  BY <3>1, <3>2, <1>1
  <2> QED  BY <1>3, <1>5, <2>1 DEF LiteralPiece
<1>6. ASSUME ZerosPiece(t, c, p, q, r, s) PROVE ZerosPiece(t, d, p, q, r, s)
  BY <1>3, <1>6 DEF ZerosPiece
<1>7. ASSUME CopiesPiece(t, c, p, q, r, s) PROVE CopiesPiece(t, d, p, q, r, s)
  BY <1>3, <1>4, <1>7 DEF CopiesPiece
<1>8. ASSUME BackRefPiece(t, c, p, q, r, s) PROVE BackRefPiece(t, d, p, q, r, s)
  BY <1>3, <1>4, <1>8 DEF BackRefPiece
<1>9. r <= Len(d)
  BY <1>1, <1>2
<1>10. Piece(t, d, p, q, r, s)
  BY <1>2, <1>5, <1>6, <1>7, <1>8, <1>9 DEF Piece
<1> QED  BY <1>10 DEF d

\* One more token.
LEMMA CoveredFurther ==
    ASSUME NEW t \in Seq(Byte), NEW c \in Seq(Byte), NEW u \in Seq(Byte),
           NEW q \in Nat, NEW s \in Nat,
           Covered(t, c, q),
           Piece(t, c \o u, Len(c), q, Len(c \o u), s)
    PROVE  Covered(t, c \o u, s)
<1> DEFINE d == c \o u
<1>1. PICK cuts \in SUBSET (Nat \X Nat) :
        /\ <<0, 0>> \in cuts
        /\ \A x \in cuts : x = <<Len(c), q>> \/ Continues(t, c, x, cuts)
  BY DEF Covered
<1> DEFINE end == <<Len(d), s>>  more == cuts \cup {end}
<1>2. d \in Seq(Byte) /\ Len(c) \in Nat /\ Len(d) \in Nat
  OBVIOUS
<1>3. more \in SUBSET (Nat \X Nat) /\ <<0, 0>> \in more
  BY <1>1, <1>2
<1>4. ASSUME NEW x \in more PROVE x = end \/ Continues(t, d, x, more)
  <2>1. CASE x = <<Len(c), q>>
    <3>1. Piece(t, d, x[1], x[2], end[1], end[2])
      BY <2>1
    <3> QED  BY <3>1 DEF Continues
  <2>2. CASE x \in cuts /\ x # <<Len(c), q>>
    <3>1. PICK y \in cuts : Piece(t, c, x[1], x[2], y[1], y[2])
      BY <1>1, <2>2 DEF Continues
    <3>2. x[1] \in Nat /\ x[2] \in Nat /\ y[1] \in Nat /\ y[2] \in Nat
      BY <2>2, <3>1
    <3>3. Piece(t, d, x[1], x[2], y[1], y[2])
      BY <3>1, <3>2, PieceStays
    <3> QED  BY <3>3 DEF Continues
  <2> QED  BY <2>1, <2>2
<1> HIDE DEF d
<1>5. Covered(t, d, s)
  BY <1>3, <1>4 DEF Covered
<1> QED  BY <1>5 DEF d

\* A literal token stands for the literals in it.
LEMMA LiteralsCovered ==
    ASSUME NEW t \in Seq(Byte), NEW c \in Seq(Byte),
           NEW s \in Nat, NEW n \in 1 .. W, n <= s, s <= Len(t),
           Covered(t, c, s - n)
    PROVE  Covered(t, c \o (<<n - 1>> \o SubSeq(t, s - n + 1, s)), s)
<1> DEFINE q == s - n
           lits == SubSeq(t, q + 1, s)
           u == <<n - 1>> \o lits
           d == c \o u
<1>1. /\ q \in Nat /\ lits \in Seq(Byte) /\ Len(lits) = n
      /\ \A k \in 1 .. n : lits[k] = t[q + k]
  BY CodecAssumption, SubSeqProperties
<1>2. <<n - 1>> \in Seq(Byte)
  BY CodecAssumption DEF Byte
<1> HIDE DEF lits
<1>3. /\ u \in Seq(Byte) /\ Len(u) = n + 1 /\ u[1] = n - 1
      /\ \A k \in 1 .. n : u[1 + k] = lits[k]
  BY <1>1, <1>2
<1> HIDE DEF u
<1>4. /\ d \in Seq(Byte) /\ Len(d) = Len(c) + (n + 1) /\ Len(c) \in Nat
      /\ \A i \in 1 .. n + 1 : d[Len(c) + i] = u[i]
  BY <1>3
<1> HIDE DEF d
<1>5. d[Len(c) + 1] = n - 1 /\ s - q = n
  BY <1>3, <1>4
<1>6. ASSUME NEW k \in 1 .. n PROVE d[Len(c) + 1 + k] = t[q + k]
  <2>1. 1 + k \in 1 .. n + 1 /\ Len(c) + (1 + k) = Len(c) + 1 + k
    BY <1>4
  <2> QED  BY <2>1, <1>1, <1>3, <1>4
<1>7. LiteralPiece(t, d, Len(c), q, Len(d), s)
  BY <1>4, <1>5, <1>6 DEF LiteralPiece
<1>8. Piece(t, d, Len(c), q, Len(d), s)
  BY <1>4, <1>7 DEF Piece
<1>9. Covered(t, d, s)
  BY <1>1, <1>3, <1>8, CoveredFurther DEF d
<1> QED  BY <1>9 DEF d, u, lits

\* What is put behind a code is found behind it.
LEMMA Behind ==
    ASSUME NEW c \in Seq(Byte), NEW u \in Seq(Byte)
    PROVE  /\ c \o u \in Seq(Byte) /\ Len(c \o u) = Len(c) + Len(u) /\ Len(c) \in Nat
           /\ \A i \in 1 .. Len(u) : (c \o u)[Len(c) + i] = u[i]
  OBVIOUS

\* With the pending literals written out the code stands for all that is taken.
LEMMA PendingCovered ==
    ASSUME TypeOK, Counters, Covered(text, code, taken - literals)
    PROVE  Covered(text, code \o LiteralToken(literals), taken)
<1>1. CASE literals = 0
  <2>1. code \o LiteralToken(literals) = code /\ taken - literals = taken
    BY <1>1 DEF LiteralToken, TypeOK
  <2> QED  BY <2>1
<1>2. CASE literals # 0
  <2>1. literals \in 1 .. W /\ literals <= taken /\ taken <= Len(text)
    BY <1>2, CodecAssumption DEF TypeOK, Counters, MaxLiteral
  <2>2. Covered(text, code \o (<<literals - 1>> \o SubSeq(text, taken - literals + 1, taken)),
                taken)
    BY <2>1, LiteralsCovered DEF TypeOK
  <2> QED  BY <1>2, <2>2 DEF LiteralToken
<1> QED  BY <1>1, <1>2

\* Pending literals and a token behind them.
LEMMA EmitCovered ==
    ASSUME TypeOK, Counters, NEW u \in Seq(Byte), NEW len \in Nat,
           Covered(text, code, taken - literals),
           \A c \in Seq(Byte) :
               Piece(text, c \o u, Len(c), taken, Len(c \o u), taken + len)
    PROVE  Covered(text, code \o LiteralToken(literals) \o u, taken + len)
<1> DEFINE c == code \o LiteralToken(literals)
<1>1. c \in Seq(Byte)
  BY LiteralTokenType DEF TypeOK
<1>2. Covered(text, c, taken)
  BY PendingCovered
<1> HIDE DEF c
<1>3. Covered(text, c \o u, taken + len)
  BY <1>1, <1>2, CoveredFurther DEF TypeOK
<1> QED  BY <1>3 DEF c

\* A byte joins the literals, which may fill a token.
LEMMA TakeLiteralCovered ==
    ASSUME TypeOK, Counters, taken < Len(text), TakeLiteral,
           Covered(text, code, taken - literals)
    PROVE  Covered(text, code', taken' - literals')
<1>1. CASE literals + 1 # MaxLiteral
  <2>1. code' = code /\ taken' - literals' = taken - literals
    BY <1>1 DEF TakeLiteral, TypeOK
  <2> QED  BY <2>1
<1>2. CASE literals + 1 = MaxLiteral
  <2> DEFINE n == literals + 1  s == taken + 1
  <2>1. n \in 1 .. W /\ s \in Nat /\ n <= s /\ s <= Len(text)
    BY <1>2, CodecAssumption DEF TypeOK, Counters, MaxLiteral
  <2>2. s - n = taken - literals /\ n - 1 = literals /\ s - n + 1 = taken + 1 - literals
    BY DEF TypeOK
  <2>3. Covered(text, code \o (<<n - 1>> \o SubSeq(text, s - n + 1, s)), s)
    <3>1. Covered(text, code, s - n)
      BY <2>2
    <3> HIDE DEF n, s
    <3> QED  BY <2>1, <3>1, LiteralsCovered DEF TypeOK
  <2>4. code' = code \o <<literals>> \o SubSeq(text, taken + 1 - literals, taken + 1)
    BY <1>2 DEF TakeLiteral
  <2>5. taken' - literals' = s
    BY <1>2 DEF TakeLiteral, TypeOK
  <2>6. code' = code \o (<<literals>> \o SubSeq(text, taken + 1 - literals, taken + 1))
    <3> DEFINE tail == SubSeq(text, taken + 1 - literals, taken + 1)
    <3>1. tail \in Seq(Byte)
      BY <2>1, SubSeqProperties DEF TypeOK, Counters
    <3>2. <<literals>> \in Seq(Nat) /\ tail \in Seq(Nat) /\ code \in Seq(Nat)
      BY <3>1, CodecAssumption DEF TypeOK, Byte
    <3> HIDE DEF tail
    <3>3. (code \o <<literals>>) \o tail = code \o (<<literals>> \o tail)
      BY <3>2, ConcatAssociative
    <3> QED  BY <2>4, <3>3 DEF tail
  <2> QED  BY <2>2, <2>3, <2>5, <2>6
<1> QED  BY <1>1, <1>2

\* What the encoder picks stands for the text it picks it for.
LEMMA EncodeStepCovered ==
    ASSUME TripInv, EncodeStep PROVE Covered(text, code', taken' - literals')
<1>0. /\ phase = "encode" /\ taken < Len(text)
      /\ TypeOK /\ Counters /\ Covered(text, code, taken - literals)
      /\ W \in Nat /\ W >= 5 /\ taken \in Nat /\ Len(text) \in Nat
  BY CodecAssumption DEF EncodeStep, TripInv, CodecInv, TypeOK
<1>2. PICK zeros \in Runs(0, MaxZeroRun), same \in Runs(text[taken + 1], MaxByteRun),
           m \in Matches :
        LET z == Effective(zeros, MinZeroRun)
            r == Effective(same, MinByteRun)
            zerosWin == 2 * z > r /\ 2 * z > m.len
        IN  \/ z = 0 /\ r = 0 /\ m = NoMatch /\ TakeLiteral
            \/ zerosWin /\ Emit(z, <<z + W - 2>>)
            \/ /\ ~zerosWin /\ m.len > r
               /\ Emit(m.len, <<m.len + 3 * W - 2, m.dist - 2>>)
            \/ /\ ~zerosWin /\ m.len <= r /\ r > 0
               /\ Emit(r, <<r + 2 * W - 2, text[taken + 1]>>)
  BY DEF EncodeStep
<1> DEFINE z == Effective(zeros, MinZeroRun)
           r == Effective(same, MinByteRun)
<1>3. /\ z \in Nat
      /\ z # 0 => z \in 2 .. W /\ z <= Left /\ \A k \in 1 .. z : text[taken + k] = 0
  BY <1>0 DEF Runs, Effective, MinZeroRun, MaxZeroRun
<1>4. /\ r \in Nat
      /\ r # 0 => /\ r \in 3 .. W /\ r <= Left
                  /\ \A k \in 1 .. r : text[taken + k] = text[taken + 1]
  BY <1>0 DEF Runs, Effective, MinByteRun, MaxByteRun
<1>5. /\ m.len \in Nat /\ m.dist \in Nat
      /\ m.len # 0 =>
            /\ m.len \in 3 .. W - 2 /\ m.len <= Left
            /\ m.dist \in 2 .. 4 * W + 1 /\ m.dist <= taken /\ m.len <= m.dist
            /\ \A k \in 1 .. m.len : text[taken + k] = text[taken + k - m.dist]
  BY <1>0 DEF Matches, NoMatch, MinBackRef, MaxBackRef, MaxBackDist
<1>6. text[taken + 1] \in Byte
  BY <1>0 DEF TypeOK
<1>7. \/ TakeLiteral
      \/ z # 0 /\ Emit(z, <<z + W - 2>>)
      \/ m.len # 0 /\ Emit(m.len, <<m.len + 3 * W - 2, m.dist - 2>>)
      \/ r # 0 /\ Emit(r, <<r + 2 * W - 2, text[taken + 1]>>)
  BY <1>2, <1>3, <1>4, <1>5
<1> HIDE DEF z, r
<1>8. ASSUME NEW len \in Nat, NEW u \in Seq(Byte), Emit(len, u),
             \A c \in Seq(Byte) :
                 Piece(text, c \o u, Len(c), taken, Len(c \o u), taken + len)
      PROVE  Covered(text, code', taken' - literals')
  <2>1. Covered(text, code \o LiteralToken(literals) \o u, taken + len)
    BY <1>0, <1>8, EmitCovered
  <2>2. code' = code \o LiteralToken(literals) \o u /\ taken' - literals' = taken + len
    BY <1>0, <1>8 DEF Emit
  <2> QED  BY <2>1, <2>2
<1>9. CASE z # 0 /\ Emit(z, <<z + W - 2>>)
  <2> DEFINE u == <<z + W - 2>>
  <2>1. u \in Seq(Byte) /\ Len(u) = 1 /\ u[1] = z + W - 2
    BY <1>0, <1>3, <1>9 DEF Byte
  <2> HIDE DEF u
  <2>2. ASSUME NEW c \in Seq(Byte)
        PROVE  Piece(text, c \o u, Len(c), taken, Len(c \o u), taken + z)
    <3> DEFINE d == c \o u
    <3>1. Len(d) = Len(c) + 1 /\ Len(c) \in Nat /\ d[Len(c) + 1] = z + W - 2
      <4>1. 1 \in 1 .. Len(u)
        BY <2>1
      <4> QED  BY <4>1, <2>1, Behind
    <3> HIDE DEF d
    <3>2. ZerosPiece(text, d, Len(c), taken, Len(d), taken + z)
      BY <1>0, <1>3, <1>9, <3>1 DEF ZerosPiece
    <3>3. taken + z <= Len(text)
      BY <1>0, <1>3, <1>9 DEF Left
    <3>4. Piece(text, d, Len(c), taken, Len(d), taken + z)
      BY <3>1, <3>2, <3>3 DEF Piece
    <3> QED  BY <3>4 DEF d
  <2>3. Emit(z, u)
    BY <1>9 DEF u
  <2> QED  BY <1>3, <2>1, <2>2, <2>3, <1>8
<1>10. CASE m.len # 0 /\ Emit(m.len, <<m.len + 3 * W - 2, m.dist - 2>>)
  <2> DEFINE u == <<m.len + 3 * W - 2, m.dist - 2>>
  <2>1. /\ u \in Seq(Byte) /\ Len(u) = 2
        /\ u[1] = m.len + 3 * W - 2 /\ u[2] = m.dist - 2
    <3>1. m.len + 3 * W - 2 \in Byte /\ m.dist - 2 \in Byte
      <4>1. m.len \in 3 .. W - 2 /\ m.dist \in 2 .. 4 * W + 1
        BY <1>5, <1>10
      <4> QED  BY <1>0, <4>1 DEF Byte
    <3> QED  BY <3>1
  <2> HIDE DEF u
  <2>2. ASSUME NEW c \in Seq(Byte)
        PROVE  Piece(text, c \o u, Len(c), taken, Len(c \o u), taken + m.len)
    <3> DEFINE d == c \o u
    <3>1. /\ Len(d) = Len(c) + 2 /\ Len(c) \in Nat
          /\ d[Len(c) + 1] = m.len + 3 * W - 2 /\ d[Len(c) + 2] = m.dist - 2
      <4>1. 1 \in 1 .. Len(u) /\ 2 \in 1 .. Len(u)
        BY <2>1
      <4>2. /\ Len(d) = Len(c) + Len(u) /\ Len(c) \in Nat
            /\ d[Len(c) + 1] = u[1] /\ d[Len(c) + 2] = u[2]
        BY <4>1, <2>1, Behind
      <4> QED  BY <4>2, <2>1
    <3> HIDE DEF d
    <3>2. d[Len(c) + 2] + 2 = m.dist /\ (taken + m.len) - taken = m.len
      <4>1. (m.dist - 2) + 2 = m.dist
        BY <1>5
      <4> QED  BY <1>0, <1>5, <3>1, <4>1
    <3>3. BackRefPiece(text, d, Len(c), taken, Len(d), taken + m.len)
      BY <1>0, <1>5, <1>10, <3>1, <3>2 DEF BackRefPiece
    <3>4. taken + m.len <= Len(text)
      BY <1>0, <1>5, <1>10 DEF Left
    <3>5. Piece(text, d, Len(c), taken, Len(d), taken + m.len)
      BY <3>1, <3>3, <3>4 DEF Piece
    <3> QED  BY <3>5 DEF d
  <2>3. Emit(m.len, u)
    BY <1>10 DEF u
  <2> QED  BY <1>5, <2>1, <2>2, <2>3, <1>8
<1>11. CASE r # 0 /\ Emit(r, <<r + 2 * W - 2, text[taken + 1]>>)
  <2> DEFINE u == <<r + 2 * W - 2, text[taken + 1]>>
  <2>1. /\ u \in Seq(Byte) /\ Len(u) = 2
        /\ u[1] = r + 2 * W - 2 /\ u[2] = text[taken + 1]
    BY <1>0, <1>4, <1>6, <1>11 DEF Byte
  <2> HIDE DEF u
  <2>2. ASSUME NEW c \in Seq(Byte)
        PROVE  Piece(text, c \o u, Len(c), taken, Len(c \o u), taken + r)
    <3> DEFINE d == c \o u
    <3>1. /\ Len(d) = Len(c) + 2 /\ Len(c) \in Nat
          /\ d[Len(c) + 1] = r + 2 * W - 2 /\ d[Len(c) + 2] = text[taken + 1]
      <4>1. 1 \in 1 .. Len(u) /\ 2 \in 1 .. Len(u)
        BY <2>1
      <4>2. /\ Len(d) = Len(c) + Len(u) /\ Len(c) \in Nat
            /\ d[Len(c) + 1] = u[1] /\ d[Len(c) + 2] = u[2]
        BY <4>1, <2>1, Behind
      <4> QED  BY <4>2, <2>1
    <3> HIDE DEF d
    <3>2. CopiesPiece(text, d, Len(c), taken, Len(d), taken + r)
      BY <1>0, <1>4, <1>11, <3>1 DEF CopiesPiece
    <3>3. taken + r <= Len(text)
      BY <1>0, <1>4, <1>11 DEF Left
    <3>4. Piece(text, d, Len(c), taken, Len(d), taken + r)
      BY <3>1, <3>2, <3>3 DEF Piece
    <3> QED  BY <3>4 DEF d
  <2>3. Emit(r, u)
    BY <1>11 DEF u
  <2> QED  BY <1>4, <2>1, <2>2, <2>3, <1>8
<1> QED  BY <1>0, <1>7, <1>9, <1>10, <1>11, TakeLiteralCovered

\* The terminator makes of a code that covers the text one that decodes to it.
LEMMA EncodeEndDecodes ==
    ASSUME TripInv, EncodeEnd PROVE Decodes(text, code', 0, 0)
<1> DEFINE c == code \o LiteralToken(literals)  end == <<4 * W - 1>>  d == c \o end
<1>0. /\ phase = "encode" /\ taken = Len(text) /\ code' = d
      /\ TypeOK /\ Counters /\ Covered(text, code, taken - literals)
  BY DEF EncodeEnd, TripInv, CodecInv
<1>1. c \in Seq(Byte) /\ end \in Seq(Byte) /\ text \in Seq(Byte)
  BY <1>0, LiteralTokenType, CodecAssumption DEF TypeOK, Byte
<1>2. Covered(text, c, taken)
  BY <1>0, PendingCovered
<1> HIDE DEF c
<1>3. /\ Len(d) = Len(c) + 1 /\ d[Len(c) + 1] = 4 * W - 1 /\ Len(c) \in Nat
  BY <1>1
<1>4. PICK cuts \in SUBSET (Nat \X Nat) :
        /\ <<0, 0>> \in cuts
        /\ \A x \in cuts : x = <<Len(c), taken>> \/ Continues(text, c, x, cuts)
  BY <1>2 DEF Covered
<1>5. ASSUME NEW x \in cuts PROVE AtTerminator(text, d, x) \/ Continues(text, d, x, cuts)
  <2>1. CASE x = <<Len(c), taken>>
    BY <1>0, <1>3, <2>1 DEF AtTerminator
  <2>2. CASE Continues(text, c, x, cuts)
    <3>1. PICK y \in cuts : Piece(text, c, x[1], x[2], y[1], y[2])
      BY <2>2 DEF Continues
    <3>2. x[1] \in Nat /\ x[2] \in Nat /\ y[1] \in Nat /\ y[2] \in Nat
      BY <3>1
    <3>3. Piece(text, d, x[1], x[2], y[1], y[2])
      BY <1>1, <3>1, <3>2, PieceStays
    <3> QED  BY <3>3 DEF Continues
  <2> QED  BY <1>4, <2>1, <2>2
<1> HIDE DEF d
<1>6. Decodes(text, d, 0, 0)
  BY <1>4, <1>5 DEF Decodes
<1> QED  BY <1>0, <1>6

\* At a cut the decoder accepts the token and makes the bytes it stands for.
LEMMA PieceDecodes ==
    ASSUME TypeOK, More, size = Len(text), read = Len(code) => FALSE,
           Len(out) <= Len(text), \A k \in 1 .. Len(out) : out[k] = text[k],
           NEW r \in Nat, NEW s \in Nat,
           Piece(text, code, read, Len(out), r, s)
    PROVE  /\ Acceptable /\ ~IsEnd
           /\ read + 1 + OperandLength = r /\ Len(out) + RunLength = s
           /\ \A k \in 1 .. RunLength : Produced[k] = text[Len(out) + k]
<1> DEFINE q == Len(out)  n == s - q
<1>0. /\ W \in Nat /\ W >= 5 /\ read \in Nat /\ q \in Nat /\ Len(code) \in Nat
      /\ Len(text) \in Nat /\ r <= Len(code) /\ s <= Len(text)
      /\ code \in Seq(Byte) /\ text \in Seq(Byte) /\ out \in Seq(Byte)
  BY CodecAssumption DEF TypeOK, Piece
<1> SUFFICES /\ IsLiteral \/ IsZeros \/ IsCopies \/ IsBackRef
             /\ ~IsEnd
             /\ RunLength = n /\ read + 1 + OperandLength = r
             /\ IsBackRef => Distance <= q
             /\ \A k \in 1 .. n : Produced[k] = text[q + k]
  BY <1>0 DEF Acceptable
<1> DEFINE Goal == /\ IsLiteral \/ IsZeros \/ IsCopies \/ IsBackRef
                   /\ ~IsEnd
                   /\ RunLength = n /\ read + 1 + OperandLength = r
                   /\ IsBackRef => Distance <= q
                   /\ \A k \in 1 .. n : Produced[k] = text[q + k]
<1>1. ASSUME LiteralPiece(text, code, read, q, r, s) PROVE Goal
  <2>1. n \in 1 .. W /\ Op = n - 1 /\ r = read + 1 + n
        /\ \A k \in 1 .. n : code[read + 1 + k] = text[q + k]
    BY <1>1 DEF LiteralPiece, Op
  <2> HIDE DEF n
  <2>2. IsLiteral /\ ~IsBackRef /\ ~IsEnd
    BY <1>0, <2>1 DEF IsLiteral, IsBackRef, IsEnd
  <2>3. RunLength = n /\ OperandLength = n
    BY <1>0, <2>1, <2>2 DEF RunLength, OperandLength
  <2>4. Produced = SubSeq(code, read + 2, read + 1 + n)
    BY <2>2, <2>3 DEF Produced
  <2>5. ASSUME NEW k \in 1 .. n PROVE Produced[k] = text[q + k]
    <3> DEFINE a == read + 2  b == read + 1 + n
    <3>1. a \in 1 .. b + 1 /\ a \in Nat /\ b \in Nat /\ b <= Len(code) /\ k \in 1 .. b - a + 1
          /\ a + k - 1 = read + 1 + k
      BY <1>0, <2>1
    <3> HIDE DEF a, b
    <3>2. SubSeq(code, a, b)[k] = code[a + k - 1]
      BY <1>0, <3>1
    <3> QED  BY <2>1, <2>4, <3>1, <3>2 DEF a, b
  <2> QED  BY <2>1, <2>2, <2>3, <2>5
<1>2. ASSUME ZerosPiece(text, code, read, q, r, s) PROVE Goal
  <2>1. n \in 2 .. W /\ Op = n + W - 2 /\ r = read + 1
        /\ \A k \in 1 .. n : text[q + k] = 0
    BY <1>2 DEF ZerosPiece, Op
  <2> HIDE DEF n
  <2>2. IsZeros /\ ~IsLiteral /\ ~IsBackRef /\ ~IsEnd
    BY <1>0, <2>1 DEF IsLiteral, IsZeros, IsBackRef, IsEnd
  <2>3. RunLength = n /\ OperandLength = 0
    BY <1>0, <2>1, <2>2 DEF RunLength, OperandLength
  <2>4. Produced = [k \in 1 .. n |-> 0]
    BY <2>2, <2>3 DEF Produced
  <2>5. \A k \in 1 .. n : Produced[k] = text[q + k]
    BY <2>1, <2>4
  <2>6. read + 1 + OperandLength = r
    BY <1>0, <2>1, <2>3
  <2> QED  BY <2>2, <2>3, <2>5, <2>6
<1>3. ASSUME CopiesPiece(text, code, read, q, r, s) PROVE Goal
  <2>1. n \in 3 .. W /\ Op = n + 2 * W - 2 /\ r = read + 2
        /\ \A k \in 1 .. n : text[q + k] = Operand
    BY <1>3 DEF CopiesPiece, Op, Operand
  <2> HIDE DEF n
  <2>2. IsCopies /\ ~IsZeros /\ ~IsLiteral /\ ~IsBackRef /\ ~IsEnd
    BY <1>0, <2>1 DEF IsLiteral, IsZeros, IsCopies, IsBackRef, IsEnd
  <2>3. RunLength = n /\ OperandLength = 1
    BY <1>0, <2>1, <2>2 DEF RunLength, OperandLength
  <2>4. Produced = [k \in 1 .. n |-> Operand]
    BY <2>2, <2>3 DEF Produced
  <2>5. \A k \in 1 .. n : Produced[k] = text[q + k]
    BY <2>1, <2>4
  <2>6. read + 1 + OperandLength = r
    BY <1>0, <2>1, <2>3
  <2> QED  BY <2>2, <2>3, <2>5, <2>6
<1>4. ASSUME BackRefPiece(text, code, read, q, r, s) PROVE Goal
  <2>1. n \in 3 .. W - 2 /\ Op = n + 3 * W - 2 /\ r = read + 2
        /\ n <= Distance /\ Distance <= q
        /\ \A k \in 1 .. n : text[q + k] = text[q + k - Distance]
    BY <1>4 DEF BackRefPiece, Op, Operand, Distance
  <2>5. Distance \in Nat
    <3>1. read + 2 \in 1 .. Len(code)
      BY <1>0, <2>1
    <3>2. Operand \in Byte
      BY <1>0, <3>1, ElementOfSeq DEF Operand
    <3> QED  BY <1>0, <3>2 DEF Distance, Byte
  <2> HIDE DEF n, Distance
  <2>2. IsBackRef /\ ~IsCopies /\ ~IsZeros /\ ~IsLiteral /\ ~IsEnd
    BY <1>0, <2>1 DEF IsLiteral, IsZeros, IsCopies, IsBackRef, IsEnd
  <2>3. RunLength = n /\ OperandLength = 1
    BY <1>0, <2>1, <2>2 DEF RunLength, OperandLength
  <2>4. Produced = [k \in 1 .. n |-> out[q - Distance + 1 + ((k - 1) % Distance)]]
    BY <2>2, <2>3 DEF Produced
  <2>6. ASSUME NEW k \in 1 .. n PROVE Produced[k] = text[q + k]
    <3>1. k - 1 \in 0 .. Distance - 1 /\ k \in Nat
      BY <2>1, <2>5
    <3>2. (k - 1) % Distance = k - 1
      BY <3>1, <2>5
    <3>3. q - Distance + 1 + (k - 1) = q + k - Distance
      BY <1>0, <2>5, <3>1
    <3>4. Produced[k] = out[q + k - Distance]
      BY <2>4, <3>2, <3>3
    <3>5. q + k - Distance \in 1 .. q
      BY <1>0, <2>1, <2>5, <3>1
    <3> QED  BY <2>1, <3>4, <3>5
  <2> QED  BY <1>0, <2>1, <2>2, <2>3, <2>6
<1> QED  BY <1>1, <1>2, <1>3, <1>4 DEF Piece

\* Where the decoder stands the terminator or a token it will accept follows.
LEMMA AtCut ==
    ASSUME TypeOK, phase = "decode", OnTheWay
    PROVE  \/ AtTerminator(text, code, <<read, Len(out)>>)
           \/ \E r \in Nat, s \in Nat :
                  /\ Piece(text, code, read, Len(out), r, s)
                  /\ Decodes(text, code, r, s)
<1>1. PICK cuts \in SUBSET (Nat \X Nat) :
        /\ <<read, Len(out)>> \in cuts
        /\ \A x \in cuts : AtTerminator(text, code, x) \/ Continues(text, code, x, cuts)
  BY DEF OnTheWay, Decodes
<1>2. CASE Continues(text, code, <<read, Len(out)>>, cuts)
  <2>1. PICK y \in cuts : Piece(text, code, read, Len(out), y[1], y[2])
    BY <1>2 DEF Continues
  <2>2. y[1] \in Nat /\ y[2] \in Nat /\ y = <<y[1], y[2]>>
    BY <2>1
  <2>3. Decodes(text, code, y[1], y[2])
    BY <1>1, <2>1, <2>2 DEF Decodes
  <2> QED  BY <2>1, <2>2, <2>3
<1> QED  BY <1>1, <1>2

\* A token that is taken brings the decoder to the next cut.
LEMMA DecodeTokenTrip ==
    ASSUME TripInv, DecodeToken, text # <<>> PROVE OnTheWay'
<1>0. /\ TypeOK /\ phase = "decode" /\ OnTheWay /\ More /\ Acceptable
      /\ out' = out \o Produced /\ read' = read + 1 + OperandLength
      /\ UNCHANGED <<phase, text, taken, literals, code, size>>
  BY DEF TripInv, CodecInv, DecodeToken, More
<1>1. ~AtTerminator(text, code, <<read, Len(out)>>)
  BY <1>0, CodecAssumption
  DEF AtTerminator, Acceptable, IsLiteral, IsZeros, IsCopies, IsBackRef, Op
<1>2. PICK r \in Nat, s \in Nat :
        Piece(text, code, read, Len(out), r, s) /\ Decodes(text, code, r, s)
  BY <1>0, <1>1, AtCut
<1>3. /\ read + 1 + OperandLength = r /\ Len(out) + RunLength = s
      /\ \A k \in 1 .. RunLength : Produced[k] = text[Len(out) + k]
  BY <1>0, <1>2, PieceDecodes DEF OnTheWay, More, TypeOK
<1>4. Produced \in Seq(Byte) /\ Len(Produced) = RunLength
  BY <1>0, ProducedType
<1>5. Len(out') = s /\ Len(out) \in Nat /\ RunLength \in Nat
  <2>1. out \in Seq(Byte) /\ Len(Produced) \in Nat
    BY <1>0, <1>4 DEF TypeOK
  <2>2. Len(out \o Produced) = Len(out) + Len(Produced) /\ Len(out) \in Nat
    BY <2>1, <1>4, Behind
  <2> QED  BY <1>0, <1>3, <1>4, <2>1, <2>2
<1>6. s <= Len(text)
  BY <1>2 DEF Piece
<1>7. ASSUME NEW k \in 1 .. s PROVE out'[k] = text[k]
  <2>1. CASE k <= Len(out)
    BY <1>0, <1>4, <1>5, <2>1 DEF OnTheWay, TypeOK
  <2>2. CASE k > Len(out)
    <3> DEFINE i == k - Len(out)
    <3>1. i \in 1 .. RunLength /\ k = Len(out) + i
      BY <1>3, <1>5, <2>2
    <3> HIDE DEF i
    <3>2. (out \o Produced)[Len(out) + i] = Produced[i]
      BY <1>0, <1>4, <3>1, Behind DEF TypeOK
    <3> QED  BY <1>0, <1>3, <3>1, <3>2
  <2> QED  BY <1>5, <2>1, <2>2
<1>8. size' = Len(text')
  BY <1>0 DEF OnTheWay
<1>9. Decodes(text', code', read', Len(out'))
  BY <1>0, <1>2, <1>3, <1>5
<1> QED  BY <1>0, <1>5, <1>6, <1>7, <1>8, <1>9 DEF OnTheWay

\* A code made by the encoder is never refused, and ends with the whole text.
LEMMA DecodeStopTrip ==
    ASSUME TripInv, text # <<>> PROVE ~DecodeRefused /\ (DecodeEnd => phase' = "ok" /\ out = text)
<1>0. SUFFICES ASSUME phase = "decode"
               PROVE ~DecodeRefused /\ (DecodeEnd => phase' = "ok" /\ out = text)
  BY DEF DecodeRefused, DecodeEnd, More
<1>1. TypeOK /\ OnTheWay
  BY <1>0 DEF TripInv, CodecInv
<1>2. CASE AtTerminator(text, code, <<read, Len(out)>>)
  <2>1. IsEnd /\ Len(out) = Len(text) /\ size = Len(text)
    BY <1>1, <1>2 DEF AtTerminator, IsEnd, Op, OnTheWay
  <2>2. out = text
    <3>1. out \in Seq(Byte) /\ text \in Seq(Byte) /\ \A k \in 1 .. Len(out) : out[k] = text[k]
      BY <1>1 DEF OnTheWay, TypeOK
    <3> QED  BY <2>1, <3>1
  <2> QED  BY <2>1, <2>2 DEF DecodeRefused, DecodeEnd
<1>3. CASE ~AtTerminator(text, code, <<read, Len(out)>>)
  <2>1. PICK r \in Nat, s \in Nat : Piece(text, code, read, Len(out), r, s)
    BY <1>0, <1>1, <1>3, AtCut
  <2>2. More /\ read # Len(code)
    BY <1>0, <1>1, <2>1 DEF Piece, More, TypeOK
  <2>3. Acceptable /\ ~IsEnd
    BY <1>1, <2>1, <2>2, PieceDecodes DEF OnTheWay
  <2> QED  BY <2>2, <2>3 DEF DecodeRefused, DecodeEnd, More
<1> QED  BY <1>2, <1>3

\* Nothing of the text is written out at first.
LEMMA TripInit == CodecInit => TripInv
<1> SUFFICES ASSUME CodecInit PROVE TripInv
  OBVIOUS
<1>1. CodecInv
  BY CodecInitInv
<1>2. /\ taken = 0 /\ literals = 0
      /\ \/ phase = "encode" /\ code = <<>>
         \/ phase = "decode" /\ text = <<>>
  BY DEF CodecInit
<1>3. ASSUME phase = "encode" PROVE Covered(text, code, taken - literals)
  <2> DEFINE cuts == {<<0, 0>>}
  <2>1. cuts \in SUBSET (Nat \X Nat) /\ <<0, 0>> \in cuts
    OBVIOUS
  <2>2. Len(code) = 0 /\ taken - literals = 0
    BY <1>2, <1>3
  <2>3. \A x \in cuts : x = <<Len(code), taken - literals>>
    BY <2>2
  <2> HIDE DEF cuts
  <2> QED  BY <2>1, <2>3 DEF Covered
<1> QED  BY <1>1, <1>2, <1>3 DEF TripInv

\* TripInv is inductive.
LEMMA TripNext == TripInv /\ [CodecNext]_codecVars => TripInv'
<1> SUFFICES ASSUME TripInv, [CodecNext]_codecVars PROVE TripInv'
  OBVIOUS
<1>0. CodecInv /\ CodecInv'
  BY CodecNextInv DEF TripInv
<1>1. CASE UNCHANGED codecVars
  <2>1. UNCHANGED <<phase, text, taken, literals, code, size, read, out>>
    BY <1>1 DEF codecVars
  <2>2. phase = "encode" => Covered(text', code', taken' - literals')
    BY <2>1 DEF TripInv
  <2>3. OnTheWay => OnTheWay'
    BY <2>1 DEF OnTheWay
  <2> QED  BY <1>0, <2>1, <2>2, <2>3 DEF TripInv
<1>2. CASE EncodeStep
  <2>1. Covered(text, code', taken' - literals') /\ text' = text /\ phase' = "encode"
    BY <1>2, EncodeStepCovered DEF EncodeStep
  <2>2. Covered(text', code', taken' - literals')
    BY <2>1
  <2> QED  BY <1>0, <2>1, <2>2 DEF TripInv
<1>3. CASE EncodeEnd
  <2>1. /\ Decodes(text, code', 0, 0) /\ phase' = "decode"
        /\ phase = "encode" /\ size' = Len(text)
        /\ UNCHANGED <<text, taken, read, out>>
    BY <1>3, EncodeEndDecodes DEF EncodeEnd
  <2>2. read = 0 /\ out = <<>> /\ Len(text) \in Nat
    BY <1>0, <2>1 DEF CodecInv, Counters, TypeOK
  <2>3. read' = 0 /\ Len(out') = 0
    BY <2>1, <2>2
  <2>4. Decodes(text', code', read', Len(out'))
    BY <2>1, <2>3
  <2>5. OnTheWay'
    BY <2>1, <2>2, <2>3, <2>4 DEF OnTheWay
  <2> QED  BY <1>0, <2>1, <2>5 DEF TripInv
<1>4. CASE DecodeToken
  <2>1. phase = "decode" /\ UNCHANGED <<phase, text>>
    BY <1>4 DEF DecodeToken, More
  <2>2. text # <<>> => OnTheWay'
    BY <1>4, DecodeTokenTrip
  <2> QED  BY <1>0, <2>1, <2>2 DEF TripInv
<1>5. CASE DecodeRefused
  <2>1. text = <<>>
    BY <1>5, DecodeStopTrip
  <2> QED  BY <1>0, <1>5, <2>1 DEF TripInv, DecodeRefused
<1>6. CASE DecodeEnd
  <2>1. phase' \in {"ok", "error"} /\ UNCHANGED <<text, out>>
    BY <1>6 DEF DecodeEnd
  <2>2. text # <<>> => phase' = "ok" /\ out = text
    BY <1>6, DecodeStopTrip
  <2> QED  BY <1>0, <2>1, <2>2 DEF TripInv
<1> QED  BY <1>1, <1>2, <1>3, <1>4, <1>5, <1>6 DEF CodecNext

\* Whatever the text, pakka_dk_inflate accepts what pakka_dk_deflate has made
\* of it and gives the text back.
THEOREM RoundTripCorrect == CodecSpec => []RoundTrip
<1>1. TripInv => RoundTrip
  BY DEF TripInv, RoundTrip
<1> QED  BY <1>1, TripInit, TripNext, PTL DEF CodecSpec

-----------------------------------------------------------------------------
(* The directories of the PAK-class formats.                                *)

\* From one number to the next up to N.
LEMMA NumberByNumber ==
    ASSUME NEW N \in Nat, NEW H, 0 \in H, \A k \in 1 .. N : k - 1 \in H => k \in H
    PROVE  0 .. N \subseteq H
<1> DEFINE T == {k \in 0 .. N : k \notin H}
<1>1. SUFFICES ASSUME T # {} PROVE FALSE
  OBVIOUS
<1>2. T \subseteq Nat
  OBVIOUS
<1>3. PICK k \in T : \A j \in T : <<j, k>> \notin OpToRel(<, Nat)
  <2> HIDE DEF T
  <2> QED  BY <1>1, <1>2, NatLessThanWellFounded, WFMin, Zenon
<1>4. k \in 1 .. N /\ k - 1 \in 0 .. N /\ k - 1 < k
  OBVIOUS
<1>5. k - 1 \in T
  BY <1>4
<1>6. <<k - 1, k>> \in OpToRel(<, Nat)
  BY <1>2, <1>4, <1>5 DEF OpToRel
<1> QED  BY <1>3, <1>5, <1>6

\* A whole number of rows and a place in one more.
LEMMA RowsAndRest ==
    ASSUME NEW L \in Nat \ {0}, NEW q \in Nat, NEW r \in Nat, r < L
    PROVE  (q * L + r) \div L = q /\ (q * L + r) % L = r
<1> DEFINE a == q * L + r  d == a \div L  s == a % L
<1>0. a \in Nat /\ a = q * L + r
  OBVIOUS
<1> HIDE DEF a
<1>1. d \in Nat /\ s \in Nat /\ s < L /\ a = L * d + s
  BY <1>0
<1> HIDE DEF d, s
<1>2. ASSUME q > d PROVE FALSE
  <2>1. PICK k \in Nat : q = d + 1 + k
    BY <1>1, <1>2, q = d + 1 + (q - d - 1), q - d - 1 \in Nat
  <2>2. q * L = L * d + L + k * L /\ k * L >= 0
    BY <2>1, <1>1
  <2> QED  BY <2>2, <1>0, <1>1
<1>3. ASSUME d > q PROVE FALSE
  <2>1. PICK k \in Nat : d = q + 1 + k
    BY <1>1, <1>3, d = q + 1 + (d - q - 1), d - q - 1 \in Nat
  <2>2. L * d = q * L + L + k * L /\ k * L >= 0
    BY <2>1, <1>1
  <2> QED  BY <2>2, <1>0, <1>1
<1>4. d = q
  BY <1>1, <1>2, <1>3
<1>5. L * d = q * L
  BY <1>4
<1>6. s = r
  BY <1>0, <1>1, <1>5
<1> QED  BY <1>4, <1>6 DEF d, s, a

\* Nonempty sets of numbers with a bound have a largest one.
LEMMA LargestOf ==
    ASSUME NEW S \in SUBSET Nat, S # {}, NEW b \in Nat, \A x \in S : x <= b
    PROVE  Max(S) \in S /\ \A x \in S : x <= Max(S)
<1> DEFINE T == {n \in Nat : \A x \in S : x <= n}
<1>1. T \subseteq Nat /\ b \in T
  OBVIOUS
<1>2. PICK n \in T : \A j \in T : <<j, n>> \notin OpToRel(<, Nat)
  <2> HIDE DEF T
  <2> QED  BY <1>1, NatLessThanWellFounded, WFMin, Zenon
<1>3. n \in S
  <2>1. SUFFICES ASSUME n \notin S PROVE FALSE
    OBVIOUS
  <2>0. n \in Nat /\ \A x \in S : x \in Nat /\ x <= n /\ x # n
    BY <1>2, <2>1
  <2>2. \A x \in S : x \in Nat /\ x < n /\ x <= n - 1
    BY <2>0
  <2>5. PICK x \in S : x < n /\ x \in Nat
    BY <2>2
  <2>6. n - 1 \in Nat /\ n - 1 < n
    BY <2>0, <2>5
  <2>3. n - 1 \in T
    BY <2>2, <2>6
  <2>4. <<n - 1, n>> \in OpToRel(<, Nat)
    BY <2>0, <2>6 DEF OpToRel
  <2> QED  BY <1>2, <2>3, <2>4
<1>4. n \in S /\ \A x \in S : n >= x
  BY <1>2, <1>3
<1>5. Max(S) \in S /\ \A x \in S : Max(S) >= x
  BY <1>4 DEF Max
<1> QED  BY <1>5

\* A list of numbers has a bound.
LEMMA BoundOf ==
    ASSUME NEW n \in Nat, NEW f \in [1 .. n -> Nat]
    PROVE  \E b \in Nat : \A k \in 1 .. n : f[k] <= b
<1> DEFINE H == {m \in 0 .. n : \E b \in Nat : \A k \in 1 .. m : f[k] <= b}
<1>1. 0 \in H
  OBVIOUS
<1>2. ASSUME NEW m \in 1 .. n, m - 1 \in H PROVE m \in H
  <2>1. PICK b \in Nat : \A k \in 1 .. m - 1 : f[k] <= b
    BY <1>2
  <2>2. f[m] \in Nat /\ b + f[m] \in Nat
    OBVIOUS
  <2>3. ASSUME NEW k \in 1 .. m PROVE f[k] <= b + f[m]
    <3>1. f[k] \in Nat
      OBVIOUS
    <3>2. CASE k = m
      BY <2>2, <3>1, <3>2
    <3>3. CASE k # m
      BY <2>1, <2>2, <3>1, <3>3
    <3> QED  BY <3>2, <3>3
  <2>4. m \in 0 .. n
    OBVIOUS
  <2> QED  BY <2>2, <2>3, <2>4
<1>3. 0 .. n \subseteq H
  <2> HIDE DEF H
  <2> QED  BY <1>1, <1>2, NumberByNumber
<1>4. n \in H
  <2> HIDE DEF H
  <2> QED  BY <1>3
<1> QED  BY <1>4

\* One sequence and another behind it.
Stacked(whole, front, back) ==
    /\ Len(whole) = Len(front) + Len(back)
    /\ \A i \in 1 .. Len(front) : whole[i] = front[i]
    /\ \A i \in 1 .. Len(back) : whole[Len(front) + i] = back[i]

LEMMA Halves ==
    ASSUME NEW S, NEW front \in Seq(S), NEW back \in Seq(S)
    PROVE  front \o back \in Seq(S) /\ Stacked(front \o back, front, back)
<1>1. Len(front) \in Nat /\ Len(back) \in Nat
  OBVIOUS
<1>2. ASSUME NEW i \in 1 .. Len(back) PROVE (front \o back)[Len(front) + i] = back[i]
  <2>1. /\ Len(front) + i \in 1 .. Len(front) + Len(back)
        /\ Len(front) + i > Len(front) /\ Len(front) + i - Len(front) = i
    BY <1>1
  <2> QED  BY <1>1, <2>1, ConcatProperties
<1>3. ASSUME NEW i \in 1 .. Len(front) PROVE (front \o back)[i] = front[i]
  BY <1>1, ConcatProperties
<1> QED  BY <1>2, <1>3, ConcatProperties DEF Stacked

\* What the first i of these rows of L words are one after the other.
Joined(s, rows, i, L) ==
    /\ Len(s) = i * L
    /\ \A k \in 1 .. i, m \in 1 .. L : s[(k - 1) * L + m] = rows[k][m]

\* One row more.
LEMMA JoinedFurther ==
    ASSUME NEW S, NEW L \in Nat \ {0}, NEW n \in Nat, NEW rows \in [1 .. n -> Seq(S)],
           NEW i \in 1 .. n, Len(rows[i]) = L,
           NEW s \in Seq(S), Joined(s, rows, i - 1, L)
    PROVE  s \o rows[i] \in Seq(S) /\ Joined(s \o rows[i], rows, i, L)
<1>1. PICK a \in Nat : a = (i - 1) * L
  <2>1. i - 1 \in Nat
    OBVIOUS
  <2> QED  BY <2>1
<1>2. i * L = a + L
  BY <1>1
<1>3. rows[i] \in Seq(S) /\ Len(s) = a
  BY <1>1 DEF Joined
<1>4. s \o rows[i] \in Seq(S) /\ Stacked(s \o rows[i], s, rows[i])
  BY <1>3, Halves, Zenon
<1>5. /\ Len(s \o rows[i]) = a + L
      /\ \A p \in 1 .. a : (s \o rows[i])[p] = s[p]
  BY <1>3, <1>4, Zenon DEF Stacked
<1>6. \A m \in 1 .. L : (s \o rows[i])[a + m] = rows[i][m]
  BY <1>3, <1>4, Zenon DEF Stacked
<1>7. ASSUME NEW k \in 1 .. i, NEW m \in 1 .. L
      PROVE  (s \o rows[i])[(k - 1) * L + m] = rows[k][m]
  <2>1. CASE k = i
    BY <1>1, <1>6, <2>1
  <2>2. CASE k # i
    <3>1. k \in 1 .. i - 1 /\ k - 1 \in Nat
      BY <2>2
    <3>2. PICK j \in Nat : i - 1 = k + j
      BY <3>1, i - 1 = k + (i - 1 - k), i - 1 - k \in Nat
    <3>3. PICK b \in Nat, c \in Nat : b = (k - 1) * L /\ c = j * L
      BY <3>1, <3>2
    <3>4. a = b + L + c
      BY <1>1, <3>1, <3>2, <3>3
    <3>5. b + m \in 1 .. a
      BY <3>4
    <3>6. s[(k - 1) * L + m] = rows[k][m]
      BY <3>1, Zenon DEF Joined
    <3> QED  BY <1>5, <3>3, <3>5, <3>6
  <2> QED  BY <2>1, <2>2
<1> QED  BY <1>2, <1>4, <1>5, <1>7 DEF Joined

\* Rows of the same length, one after the other.
LEMMA Flattened ==
    ASSUME NEW S, NEW L \in Nat \ {0}, NEW n \in Nat, NEW rows \in [1 .. n -> Seq(S)],
           \A k \in 1 .. n : Len(rows[k]) = L
    PROVE  FlattenSeq(rows) \in Seq(S) /\ Joined(FlattenSeq(rows), rows, n, L)
<1>0. DOMAIN rows = 1 .. n /\ rows \in Seq(Seq(S)) /\ Len(rows) = n
  OBVIOUS
<1>1. CASE n = 0
  <2>1. FlattenSeq(rows) = rows
    BY <1>0, <1>1, Zenon DEF FlattenSeq
  <2>2. rows \in Seq(S) /\ Len(rows) = 0 * L
    BY <1>0, <1>1
  <2> QED  BY <1>1, <2>1, <2>2 DEF Joined
<1>2. CASE n # 0
  <2> DEFINE Next(g, k) == IF k = 1 THEN rows[k] ELSE g[k - 1] \o rows[k]
             D(g) == [k \in 1 .. n |-> Next(g, k)]
             flat == CHOOSE g : g = D(g)
             H == {i \in 0 .. n : \E g \in [1 .. i -> Seq(S)] :
                                     \A k \in 1 .. i : g[k] = Next(g, k)}
  <2>1. 0 \in H
    <3>1. <<>> \in [1 .. 0 -> Seq(S)]
      OBVIOUS
    <3>2. 0 \in 0 .. n /\ \A k \in 1 .. 0 : FALSE
      OBVIOUS
    <3> HIDE DEF Next
    <3> QED  BY <3>1, <3>2
  <2>2. ASSUME NEW i \in 1 .. n, i - 1 \in H PROVE i \in H
    <3>1. PICK g \in [1 .. i - 1 -> Seq(S)] : \A k \in 1 .. i - 1 : g[k] = Next(g, k)
      BY <2>2
    <3> DEFINE h == [k \in 1 .. i |-> IF k = i THEN Next(g, i) ELSE g[k]]
    <3>2. Next(g, i) \in Seq(S)
      <4>1. rows[i] \in Seq(S)
        OBVIOUS
      <4>2. CASE i = 1
        BY <4>1, <4>2
      <4>3. CASE i # 1
        <5>1. g[i - 1] \in Seq(S)
          BY <4>3
        <5> QED  BY <4>1, <4>3, <5>1, ConcatProperties
      <4> QED  BY <4>2, <4>3
    <3>3. h \in [1 .. i -> Seq(S)]
      <4> HIDE DEF Next
      <4> QED  BY <3>2
    <3>4. ASSUME NEW k \in 1 .. i PROVE h[k] = Next(h, k)
      <4>1. k # 1 => h[k - 1] = g[k - 1]
        <5> HIDE DEF Next
        <5> QED  OBVIOUS
      <4>2. Next(h, k) = Next(g, k)
        <5> HIDE DEF h
        <5> QED  BY <4>1
      <4>3. h[k] = Next(g, k)
        <5> HIDE DEF Next
        <5> QED  BY <3>1
      <4> QED  BY <4>2, <4>3
    <3> HIDE DEF h, Next
    <3>5. i \in 0 .. n
      OBVIOUS
    <3> QED  BY <3>3, <3>4, <3>5
  <2>3. 0 .. n \subseteq H
    <3> HIDE DEF H
    <3> QED  BY <2>1, <2>2, NumberByNumber
  <2>4. n \in H
    <3> HIDE DEF H
    <3> QED  BY <2>3
  <2>5. PICK g \in [1 .. n -> Seq(S)] : \A k \in 1 .. n : g[k] = Next(g, k)
    BY <2>4
  <2>6. g = D(g)
    <3>1. g = [k \in 1 .. n |-> g[k]]
      OBVIOUS
    <3> HIDE DEF Next
    <3> QED  BY <2>5, <3>1
  <2>7. flat = D(flat)
    <3> HIDE DEF D
    <3> QED  BY <2>6
  <2>8. FlattenSeq(rows) = flat[n]
    BY <1>0, <1>2, Zenon DEF FlattenSeq
  <2> HIDE DEF flat, H
  <2>9. \A k \in 1 .. n : flat[k] = Next(flat, k)
    <3> HIDE DEF Next
    <3> QED  BY <2>7
  <2> DEFINE J == {i \in 0 .. n : i # 0 => flat[i] \in Seq(S) /\ Joined(flat[i], rows, i, L)}
  <2>10. 0 \in J
    OBVIOUS
  <2>11. ASSUME NEW i \in 1 .. n, i - 1 \in J PROVE i \in J
    <3>1. rows[i] \in Seq(S) /\ Len(rows[i]) = L /\ i \in 0 .. n
      OBVIOUS
    <3>2. CASE i = 1
      <4>1. flat[i] = rows[i]
        BY <2>9, <3>2
      <4>2. ASSUME NEW k \in 1 .. 1, NEW m \in 1 .. L
            PROVE  rows[1][(k - 1) * L + m] = rows[k][m]
        <5>1. k = 1 /\ (k - 1) * L + m = m
          OBVIOUS
        <5> QED  BY <5>1
      <4>3. Joined(rows[1], rows, 1, L)
        BY <3>1, <3>2, <4>2 DEF Joined
      <4> QED  BY <3>1, <3>2, <4>1, <4>3
    <3>3. CASE i # 1
      <4>1. flat[i] = flat[i - 1] \o rows[i]
        BY <2>9, <3>3
      <4>2. flat[i - 1] \in Seq(S) /\ Joined(flat[i - 1], rows, i - 1, L)
        BY <2>11, <3>3
      <4> DEFINE t == flat[i - 1]
      <4>3. t \in Seq(S) /\ Joined(t, rows, i - 1, L)
        BY <4>2
      <4> HIDE DEF t
      <4>4. t \o rows[i] \in Seq(S) /\ Joined(t \o rows[i], rows, i, L)
        BY <3>1, <4>3, JoinedFurther
      <4> QED  BY <3>1, <4>1, <4>4 DEF t
    <3> QED  BY <3>2, <3>3
  <2>12. 0 .. n \subseteq J
    <3> HIDE DEF J
    <3> QED  BY <2>10, <2>11, NumberByNumber
  <2>13. n \in J
    <3> HIDE DEF J
    <3> QED  BY <2>12
  <2> QED  BY <1>2, <2>8, <2>13
<1> QED  BY <1>1, <1>2

-----------------------------------------------------------------------------

\* What stands in a file.
Words == Nat \cup Wads \cup {"SPAK", "PACK", "payload"}

\* The fields of an entry where a row of the format has them.
RowIs(format, row, e) ==
    LET n == NameWords[format]
        fields == IF format \in Wads THEN 0 ELSE n
        name == IF format \in Wads THEN 2 ELSE 0
    IN  /\ \A m \in 1 .. n : row[name + m] = e.name[m]
        /\ row[fields + 1] = e.offset /\ row[fields + 2] = e.length
        /\ HasCompression(format) => row[fields + 3] = e.packed /\ row[fields + 4] = e.flag

\* A row has them there and is as long as the geometry says.
LEMMA RowWritten ==
    ASSUME NEW format \in Format, NEW e \in Entry, IsEntry(format, e)
    PROVE  /\ Row(format, e) \in Seq(Words)
           /\ Len(Row(format, e)) = RowLength(format)
           /\ RowIs(format, Row(format, e), e)
<1> DEFINE n == NameWords[format]  nm == e.name
<1>1. n \in Nat \ {0}
  BY ProbeAssumption
<1>2. nm \in Seq(Words) /\ Len(nm) = n
  <2>1. nm \in Seq(Nat) /\ Nat \subseteq Words
    BY DEF Entry, Words
  <2> QED  BY <2>1, SeqMonotonic, Zenon DEF IsEntry
<1>3. /\ e.offset \in Nat /\ e.length \in Nat /\ e.packed \in Nat /\ e.flag \in Nat
      /\ Nat \subseteq Words
  BY DEF Entry, Words
<1>4. "daikatana" \notin Wads
  BY DEF Wads
<1> HIDE DEF nm, n
<1>5. CASE format \in Wads
  <2> DEFINE a == <<e.offset, e.length>>
  <2>1. a \in Seq(Words) /\ Len(a) = 2 /\ a[1] = e.offset /\ a[2] = e.length
    BY <1>3
  <2>2. Row(format, e) = a \o nm
    BY <1>5 DEF Row, nm
  <2>3. RowLength(format) = n + 2
    BY <1>4, <1>5 DEF RowLength, HasCompression, n
  <2> HIDE DEF a
  <2>4. /\ a \o nm \in Seq(Words) /\ Len(a \o nm) = n + 2
        /\ (a \o nm)[1] = a[1] /\ (a \o nm)[2] = a[2]
        /\ \A m \in 1 .. n : (a \o nm)[2 + m] = nm[m]
    <3>1. 1 \in 1 .. Len(a) /\ 2 \in 1 .. Len(a) /\ 2 + n = n + 2
      BY <1>1, <2>1
    <3>2. /\ a \o nm \in Seq(Words) /\ Len(a \o nm) = Len(a) + Len(nm)
          /\ \A i \in 1 .. Len(a) : (a \o nm)[i] = a[i]
          /\ \A i \in 1 .. Len(nm) : (a \o nm)[Len(a) + i] = nm[i]
      <4>1. a \in Seq(Words) /\ nm \in Seq(Words)
        BY <1>2, <2>1
      <4>2. a \o nm \in Seq(Words) /\ Stacked(a \o nm, a, nm)
        BY <4>1, Halves, Zenon
      <4> QED  BY <4>2 DEF Stacked
    <3>3. Len(a \o nm) = n + 2
      BY <1>2, <2>1, <3>1, <3>2, Zenon
    <3>4. \A m \in 1 .. n : (a \o nm)[2 + m] = nm[m]
      BY <1>2, <2>1, <3>2, Zenon
    <3> QED  BY <3>1, <3>2, <3>3, <3>4, Zenon
  <2> QED  BY <1>1, <1>4, <1>5, <2>1, <2>2, <2>3, <2>4 DEF RowIs, HasCompression, n, nm
<1>6. CASE format \notin Wads /\ HasCompression(format)
  <2> DEFINE a == <<e.offset, e.length, e.packed, e.flag>>
  <2>1. /\ a \in Seq(Words) /\ Len(a) = 4
        /\ a[1] = e.offset /\ a[2] = e.length /\ a[3] = e.packed /\ a[4] = e.flag
    BY <1>3
  <2>2. Row(format, e) = nm \o a
    BY <1>6 DEF Row, nm
  <2>3. RowLength(format) = n + 4
    BY <1>6 DEF RowLength, n
  <2> HIDE DEF a
  <2>4. /\ nm \o a \in Seq(Words) /\ Len(nm \o a) = n + 4
        /\ \A m \in 1 .. n : (nm \o a)[0 + m] = nm[m]
        /\ (nm \o a)[n + 1] = a[1] /\ (nm \o a)[n + 2] = a[2]
        /\ (nm \o a)[n + 3] = a[3] /\ (nm \o a)[n + 4] = a[4]
    <3>1. /\ 1 \in 1 .. Len(a) /\ 2 \in 1 .. Len(a)
          /\ 3 \in 1 .. Len(a) /\ 4 \in 1 .. Len(a)
          /\ \A m \in 1 .. n : 0 + m = m
      BY <1>1, <2>1
    <3>0. /\ nm \o a \in Seq(Words) /\ Len(nm \o a) = Len(nm) + Len(a)
          /\ \A i \in 1 .. Len(nm) : (nm \o a)[i] = nm[i]
          /\ \A i \in 1 .. Len(a) : (nm \o a)[Len(nm) + i] = a[i]
      <4>1. nm \in Seq(Words) /\ a \in Seq(Words)
        BY <1>2, <2>1
      <4>2. nm \o a \in Seq(Words) /\ Stacked(nm \o a, nm, a)
        BY <4>1, Halves, Zenon
      <4> QED  BY <4>2 DEF Stacked
    <3>2. nm \o a \in Seq(Words) /\ Len(nm \o a) = n + 4
      BY <1>2, <2>1, <3>0, Zenon
    <3>3. \A m \in 1 .. n : (nm \o a)[m] = nm[m]
      BY <1>2, <3>0, Zenon
    <3>4. \A i \in 1 .. 4 : (nm \o a)[n + i] = a[i]
      BY <1>2, <2>1, <3>0, Zenon
    <3> QED  BY <2>1, <3>1, <3>2, <3>3, <3>4
  <2> QED  BY <1>6, <2>1, <2>2, <2>3, <2>4 DEF RowIs, n, nm
<1>7. CASE format \notin Wads /\ ~HasCompression(format)
  <2> DEFINE a == <<e.offset, e.length>>
  <2>1. a \in Seq(Words) /\ Len(a) = 2 /\ a[1] = e.offset /\ a[2] = e.length
    BY <1>3
  <2>2. Row(format, e) = nm \o a
    BY <1>7 DEF Row, nm
  <2>3. RowLength(format) = n + 2
    BY <1>7 DEF RowLength, n
  <2> HIDE DEF a
  <2>4. /\ nm \o a \in Seq(Words) /\ Len(nm \o a) = n + 2
        /\ \A m \in 1 .. n : (nm \o a)[0 + m] = nm[m]
        /\ (nm \o a)[n + 1] = a[1] /\ (nm \o a)[n + 2] = a[2]
    <3>1. 1 \in 1 .. Len(a) /\ 2 \in 1 .. Len(a) /\ \A m \in 1 .. n : 0 + m = m
      BY <1>1, <2>1
    <3>0. /\ nm \o a \in Seq(Words) /\ Len(nm \o a) = Len(nm) + Len(a)
          /\ \A i \in 1 .. Len(nm) : (nm \o a)[i] = nm[i]
          /\ \A i \in 1 .. Len(a) : (nm \o a)[Len(nm) + i] = a[i]
      <4>1. nm \in Seq(Words) /\ a \in Seq(Words)
        BY <1>2, <2>1
      <4>2. nm \o a \in Seq(Words) /\ Stacked(nm \o a, nm, a)
        BY <4>1, Halves, Zenon
      <4> QED  BY <4>2 DEF Stacked
    <3>2. nm \o a \in Seq(Words) /\ Len(nm \o a) = n + 2
      BY <1>2, <2>1, <3>0, Zenon
    <3>3. \A m \in 1 .. n : (nm \o a)[m] = nm[m]
      BY <1>2, <3>0, Zenon
    <3>4. \A i \in 1 .. 2 : (nm \o a)[n + i] = a[i]
      BY <1>2, <2>1, <3>0, Zenon
    <3> QED  BY <2>1, <3>1, <3>2, <3>3, <3>4
  <2> QED  BY <1>7, <2>1, <2>2, <2>3, <2>4 DEF RowIs, n, nm
<1> QED  BY <1>5, <1>6, <1>7

\* A file of a header, something up to D, where the directory is, and the rows.
IsFile(words, format, entries, D) ==
    LET L == RowLength(format)
        n == Len(entries)
    IN  /\ D \in Nat /\ D >= HeaderSize
        /\ words \in Seq(Words) /\ Len(words) = D + n * L
        /\ words[1] = Magic(format)
        /\ words[2] = IF format \in Wads THEN n ELSE D
        /\ words[3] = IF format \in Wads THEN D ELSE n * L
        /\ \A k \in 1 .. n, m \in 1 .. L :
              words[D + (k - 1) * L + m] = Row(format, entries[k])[m]
        /\ \A k \in 1 .. n : entries[k].offset + ExtentOf(entries[k]) <= D

\* The rows of a format have a length.
LEMMA RowLengthType == ASSUME NEW format \in Format PROVE RowLength(format) \in Nat \ {0}
<1>1. NameWords[format] \in Nat \ {0}
  BY ProbeAssumption
<1> QED  BY <1>1 DEF RowLength

\* Where the payloads end.
LEMMA PayloadEnd ==
    ASSUME NEW entries \in Seq(Entry),
           NEW D, D = Max({HeaderSize} \cup {e.offset + ExtentOf(e) : e \in ToSet(entries)})
    PROVE  /\ D \in Nat /\ D >= HeaderSize
           /\ \A k \in 1 .. Len(entries) : entries[k].offset + ExtentOf(entries[k]) <= D
<1> DEFINE End(e) == e.offset + ExtentOf(e)
           S == {HeaderSize} \cup {End(e) : e \in ToSet(entries)}
           f == [k \in 1 .. Len(entries) |-> End(entries[k])]
<1>1. \A e \in Entry : End(e) \in Nat
  BY DEF Entry, ExtentOf
<1>2. Len(entries) \in Nat /\ \A k \in 1 .. Len(entries) : entries[k] \in Entry
  OBVIOUS
<1>3. ToSet(entries) = {entries[k] : k \in 1 .. Len(entries)}
  BY DEF ToSet
<1> HIDE DEF End
<1>4. f \in [1 .. Len(entries) -> Nat]
  BY <1>1, <1>2
<1>5. PICK b \in Nat : \A k \in 1 .. Len(entries) : f[k] <= b
  <2> HIDE DEF f
  <2> QED  BY <1>2, <1>4, BoundOf
<1>6. \A k \in 1 .. Len(entries) : End(entries[k]) \in Nat /\ End(entries[k]) <= b
  BY <1>1, <1>2, <1>5
<1>7. S \in SUBSET Nat /\ HeaderSize \in S /\ \A x \in S : x <= b + HeaderSize
  <2>1. HeaderSize = 3
    BY DEF HeaderSize
  <2>2. \A e \in ToSet(entries) : End(e) \in Nat /\ End(e) <= b + HeaderSize
    BY <1>3, <1>6, <2>1
  <2> QED  BY <2>1, <2>2
<1>8. \A k \in 1 .. Len(entries) : End(entries[k]) \in S
  BY <1>3
<1>9. b + HeaderSize \in Nat
  BY DEF HeaderSize
<1>10. D = Max(S)
  BY DEF End
<1> HIDE DEF S
<1>11. Max(S) \in S /\ \A x \in S : x <= Max(S)
  BY <1>7, <1>9, LargestOf
<1>12. D \in Nat /\ HeaderSize <= D /\ \A k \in 1 .. Len(entries) : End(entries[k]) <= D
  BY <1>7, <1>8, <1>10, <1>11
<1> QED  BY <1>12 DEF End, HeaderSize

\* What the writer leaves is one.
LEMMA FileWritten ==
    ASSUME NEW format \in Format, NEW entries \in Seq(Entry),
           \A e \in ToSet(entries) : IsEntry(format, e)
    PROVE  \E D : IsFile(File(format, entries), format, entries, D)
<1> DEFINE D == Max({HeaderSize} \cup {e.offset + ExtentOf(e) : e \in ToSet(entries)})
           n == Len(entries)
           L == RowLength(format)
           rows == [k \in 1 .. n |-> Row(format, entries[k])]
           head == Header(format, D, n * L)
           payload == [k \in 1 .. D - HeaderSize |-> "payload"]
           dir == FlattenSeq(rows)
<1>1. /\ D \in Nat /\ D >= HeaderSize
      /\ \A k \in 1 .. n : entries[k].offset + ExtentOf(entries[k]) <= D
  <2> HIDE DEF D
  <2> QED  BY PayloadEnd DEF D
<1>2. n \in Nat /\ L \in Nat \ {0} /\ n * L \in Nat
  <2>1. n \in Nat /\ L \in Nat \ {0}
    BY RowLengthType
  <2> HIDE DEF n, L
  <2> QED  BY <2>1
<1>3. \A k \in 1 .. n : entries[k] \in Entry /\ IsEntry(format, entries[k])
  <2>1. \A k \in 1 .. n : entries[k] \in Entry /\ entries[k] \in ToSet(entries)
    BY DEF ToSet
  <2> QED  BY <2>1
<1>4. \A k \in 1 .. n :
         rows[k] = Row(format, entries[k]) /\ rows[k] \in Seq(Words) /\ Len(rows[k]) = L
  <2> HIDE DEF n, L
  <2> QED  BY <1>3, RowWritten DEF L
<1>5. rows \in [1 .. n -> Seq(Words)]
  <2> HIDE DEF n, L
  <2> QED  BY <1>4
<1>6. File(format, entries) = head \o payload \o dir
  BY DEF File
<1> HIDE DEF D, n, L
<1>7. dir \in Seq(Words) /\ Joined(dir, rows, n, L)
  <2> HIDE DEF rows
  <2> QED  BY <1>2, <1>4, <1>5, Flattened
<1>8. /\ head \in Seq(Words) /\ Len(head) = 3 /\ head[1] = Magic(format)
      /\ head[2] = IF format \in Wads THEN n ELSE D
      /\ head[3] = IF format \in Wads THEN D ELSE n * L
  <2>1. Magic(format) \in Words
    BY DEF Magic, Words, Wads, Format
  <2>2. Nat \subseteq Words
    BY DEF Words
  <2>3. (n * L) \div L = n
    <3>1. (n * L + 0) \div L = n
      BY <1>2, RowsAndRest
    <3> QED  BY <1>2, <3>1
  <2> DEFINE d == n * L
  <2>4. d \in Nat /\ d \div L = n
    BY <1>2, <2>3
  <2>5. head = Header(format, D, d)
    OBVIOUS
  <2> HIDE DEF d, head
  <2>6. CASE format \in Wads
    <3>1. head = <<Magic(format), n, D>>
      BY <2>4, <2>5, <2>6 DEF Header, L
    <3> QED  BY <1>1, <1>2, <2>1, <2>2, <2>6, <3>1
  <2>7. CASE format \notin Wads
    <3>1. head = <<Magic(format), D, d>>
      BY <2>5, <2>7 DEF Header
    <3>2. /\ head \in Seq(Words) /\ Len(head) = 3
          /\ head[1] = Magic(format) /\ head[2] = D /\ head[3] = d
      BY <1>1, <2>1, <2>2, <2>4, <3>1
    <3> QED  BY <2>7, <3>2 DEF d
  <2> QED  BY <2>6, <2>7
<1>9. payload \in Seq(Words) /\ Len(payload) = D - 3
  <2>1. PICK p \in Nat : p = D - 3 /\ p = D - HeaderSize
    BY <1>1 DEF HeaderSize
  <2>2. payload = [k \in 1 .. p |-> "payload"]
    BY <2>1
  <2>3. "payload" \in Words
    BY DEF Words
  <2> HIDE DEF payload
  <2>4. payload \in Seq(Words) /\ Len(payload) = p
    BY <2>2, <2>3
  <2> QED  BY <2>1, <2>4
<1> HIDE DEF head, payload, dir, rows
<1> DEFINE front == head \o payload
<1>10. front \in Seq(Words) /\ Len(front) = D /\ \A i \in 1 .. 3 : front[i] = head[i]
  <2>1. /\ front \in Seq(Words) /\ Len(front) = Len(head) + Len(payload)
        /\ \A i \in 1 .. Len(head) : front[i] = head[i]
    <3>1. front \in Seq(Words) /\ Stacked(front, head, payload)
      BY <1>8, <1>9, Halves, Zenon
    <3> QED  BY <3>1, Zenon DEF Stacked
  <2> HIDE DEF front
  <2> QED  BY <1>1, <1>8, <1>9, <2>1 DEF HeaderSize
<1> HIDE DEF front
<1> DEFINE file == front \o dir
<1>11. file \in Seq(Words) /\ Stacked(file, front, dir)
  BY <1>7, <1>10, Halves, Zenon
<1>12. /\ Len(file) = Len(front) + Len(dir)
       /\ \A i \in 1 .. Len(front) : file[i] = front[i]
       /\ \A i \in 1 .. Len(dir) : file[Len(front) + i] = dir[i]
  BY <1>11, Zenon DEF Stacked
<1>13. File(format, entries) = file
  BY <1>6 DEF front
<1> HIDE DEF file
<1>14. file[1] = head[1] /\ file[2] = head[2] /\ file[3] = head[3]
  <2>1. 1 \in 1 .. D /\ 2 \in 1 .. D /\ 3 \in 1 .. D
    BY <1>1 DEF HeaderSize
  <2> QED  BY <1>10, <1>12, <2>1
<1>15. Len(file) = D + n * L
  BY <1>7, <1>10, <1>12 DEF Joined
<1>16. ASSUME NEW k \in 1 .. n, NEW m \in 1 .. L
       PROVE  file[D + (k - 1) * L + m] = Row(format, entries[k])[m]
  <2>1. PICK j \in Nat : n = k + j
    BY <1>2, n = k + (n - k), n - k \in Nat
  <2>2. PICK b \in Nat, c \in Nat : b = (k - 1) * L /\ c = j * L
    <3>1. k - 1 \in Nat
      BY <1>2
    <3> QED  BY <1>2, <2>1, <3>1
  <2>3. n * L = b + L + c
    BY <1>2, <2>1, <2>2
  <2>4. b + m \in 1 .. Len(dir)
    BY <1>2, <1>7, <2>2, <2>3 DEF Joined
  <2>5. file[D + (b + m)] = dir[b + m]
    BY <1>10, <1>12, <2>4
  <2>6. dir[(k - 1) * L + m] = rows[k][m]
    BY <1>7, Zenon DEF Joined
  <2>7. D + (b + m) = D + b + m
    BY <1>1, <1>2, <2>2
  <2> QED  BY <1>4, <2>2, <2>5, <2>6, <2>7
<1>17. IsFile(file, format, entries, D)
  BY <1>1, <1>8, <1>11, <1>14, <1>15, <1>16, Zenon DEF IsFile, n, L
<1> QED  BY <1>13, <1>17

-----------------------------------------------------------------------------

\* A row is read as the entry it was written for.
LEMMA RowRead ==
    ASSUME NEW format \in Format, NEW e \in Entry, IsEntry(format, e),
           disk \in Seq(Words), NEW at \in Nat, at + RowLength(format) <= Len(disk),
           \A m \in 1 .. RowLength(format) : disk[at + m] = Row(format, e)[m]
    PROVE  RowAt(format, at) = e
<1> DEFINE n == NameWords[format]
           fields == IF format \in Wads THEN 0 ELSE n
           nm == IF format \in Wads THEN 2 ELSE 0
           row == Row(format, e)
           L == RowLength(format)
           name == SubSeq(disk, at + nm + 1, at + nm + n)
<1>1. n \in Nat \ {0} /\ nm \in Nat /\ fields \in Nat
  BY ProbeAssumption
<1>2. /\ HasCompression(format) => L = n + 4 /\ nm = 0 /\ fields = n
      /\ ~HasCompression(format) => L = n + 2
      /\ nm + n <= L /\ fields + 2 <= L
  BY <1>1 DEF RowLength, HasCompression, Wads
<1>3. /\ \A m \in 1 .. n : row[nm + m] = e.name[m]
      /\ row[fields + 1] = e.offset /\ row[fields + 2] = e.length
      /\ HasCompression(format) => row[fields + 3] = e.packed /\ row[fields + 4] = e.flag
  BY RowWritten DEF RowIs
<1>4. \A m \in 1 .. L : disk[at + m] = row[m]
  OBVIOUS
<1>5. RowAt(format, at) =
        [name   |-> name,
         offset |-> disk[at + fields + 1],
         length |-> disk[at + fields + 1 + 1],
         packed |-> IF HasCompression(format) THEN disk[at + fields + 2 + 1] ELSE 0,
         flag   |-> IF HasCompression(format) /\ disk[at + fields + 3 + 1] # 0 THEN 1 ELSE 0]
  BY <1>1 DEF RowAt, Word
<1>6. L \in Nat /\ at + L <= Len(disk)
  BY RowLengthType
<1> HIDE DEF n, fields, nm, row, L
<1>7. name = e.name
  <2>1. e.name \in Seq(Nat) /\ Len(e.name) = n
    BY DEF Entry, IsEntry, n
  <2>2. \A m \in 1 .. n : disk[at + nm + m] = e.name[m]
    <3>1. SUFFICES ASSUME NEW m \in 1 .. n PROVE disk[at + nm + m] = e.name[m]
      OBVIOUS
    <3>2. nm + m \in 1 .. L /\ at + nm + m = at + (nm + m)
      BY <1>1, <1>2, <1>6
    <3> QED  BY <1>3, <1>4, <3>2
  <2>3. at + nm + 1 \in Nat \ {0} /\ at + nm + n <= Len(disk)
    BY <1>1, <1>2, <1>6
  <2>4. name \in Seq(Words) /\ Len(name) = n
    BY <1>1, <2>3
  <2>5. \A m \in 1 .. n : name[m] = disk[at + nm + m]
    BY <1>1, <2>3
  <2>6. e.name \in Seq(Words)
    <3>1. Nat \subseteq Words
      BY DEF Words
    <3> QED  BY <2>1, <3>1, SeqMonotonic, Zenon
  <2>7. \A m \in 1 .. Len(name) : name[m] = e.name[m]
    BY <2>2, <2>4, <2>5
  <2> HIDE DEF name
  <2> QED  BY <2>1, <2>4, <2>6, <2>7, SeqEqual
<1>8. disk[at + fields + 1] = e.offset /\ disk[at + fields + 1 + 1] = e.length
  <2>1. /\ fields + 1 \in 1 .. L /\ at + fields + 1 = at + (fields + 1)
        /\ fields + 2 \in 1 .. L /\ at + fields + 1 + 1 = at + (fields + 2)
    BY <1>1, <1>2, <1>6
  <2> QED  BY <1>3, <1>4, <2>1
<1>9. HasCompression(format) =>
        disk[at + fields + 2 + 1] = e.packed /\ disk[at + fields + 3 + 1] = e.flag
  <2>1. SUFFICES ASSUME HasCompression(format)
                 PROVE  disk[at + fields + 2 + 1] = e.packed /\ disk[at + fields + 3 + 1] = e.flag
    OBVIOUS
  <2>2. /\ fields + 3 \in 1 .. L /\ at + fields + 2 + 1 = at + (fields + 3)
        /\ fields + 4 \in 1 .. L /\ at + fields + 3 + 1 = at + (fields + 4)
    BY <1>1, <1>2, <1>6, <2>1
  <2> QED  BY <1>3, <1>4, <2>1, <2>2
<1>10. /\ e = [name |-> e.name, offset |-> e.offset, length |-> e.length,
                packed |-> e.packed, flag |-> e.flag]
       /\ e.flag \in {0, 1}
       /\ HasCompression(format) \/ (e.packed = 0 /\ e.flag = 0)
  BY DEF Entry, IsEntry
<1> HIDE DEF name
<1>11. CASE HasCompression(format)
  <2>1. (IF HasCompression(format) /\ disk[at + fields + 3 + 1] # 0 THEN 1 ELSE 0) = e.flag
    BY <1>9, <1>10, <1>11
  <2> QED  BY <1>5, <1>7, <1>8, <1>9, <1>10, <1>11, <2>1
<1>12. CASE ~HasCompression(format)
  BY <1>5, <1>7, <1>8, <1>10, <1>12
<1> QED  BY <1>11, <1>12

\* And the directory as the entries.
LEMMA RowsRead ==
    ASSUME NEW format \in Format, NEW entries \in Seq(Entry),
           \A e \in ToSet(entries) : IsEntry(format, e),
           NEW D, IsFile(disk, format, entries, D)
    PROVE  LET L == RowLength(format)
               n == Len(entries)
           IN  /\ Rows(format, D, n * L) = entries
               /\ (n * L) % L = 0 /\ (n * L) \div L = n
<1> DEFINE n == Len(entries)
           L == RowLength(format)
<1>1. n \in Nat /\ L \in Nat \ {0}
  BY RowLengthType
<1>2. (n * L) % L = 0 /\ (n * L) \div L = n
  <2> HIDE DEF n, L
  <2>1. (n * L + 0) % L = 0 /\ (n * L + 0) \div L = n
    BY <1>1, RowsAndRest
  <2>2. n * L \in Nat
    BY <1>1
  <2> QED  BY <2>1, <2>2
<1>3. /\ D \in Nat /\ disk \in Seq(Words) /\ Len(disk) = D + n * L
      /\ \A k \in 1 .. n, m \in 1 .. L : disk[D + (k - 1) * L + m] = Row(format, entries[k])[m]
  BY DEF IsFile
<1>4. \A k \in 1 .. n : entries[k] \in Entry /\ IsEntry(format, entries[k])
  <2>1. \A k \in 1 .. n : entries[k] \in Entry /\ entries[k] \in ToSet(entries)
    BY DEF ToSet
  <2> QED  BY <2>1
<1>5. Rows(format, D, n * L) = [k \in 1 .. n |-> RowAt(format, D + (k - 1) * L)]
  <2> DEFINE d == n * L
  <2>1. d \div L = n
    BY <1>2
  <2> HIDE DEF d
  <2>2. Rows(format, D, d) = [k \in 1 .. n |-> RowAt(format, D + (k - 1) * L)]
    BY <2>1 DEF Rows
  <2> QED  BY <2>2 DEF d
<1>6. entries = [k \in 1 .. n |-> entries[k]]
  OBVIOUS
<1> HIDE DEF n
<1>7. ASSUME NEW k \in 1 .. n PROVE RowAt(format, D + (k - 1) * L) = entries[k]
  <2> HIDE DEF L
  <2>1. PICK j \in Nat : n = k + j
    BY <1>1, n = k + (n - k), n - k \in Nat
  <2>2. PICK b \in Nat, c \in Nat : b = (k - 1) * L /\ c = j * L
    <3>1. k - 1 \in Nat
      BY <1>1
    <3> QED  BY <1>1, <2>1, <3>1
  <2>3. n * L = b + L + c
    BY <1>1, <2>1, <2>2
  <2>4. D + b \in Nat /\ D + b + L <= Len(disk)
    <3>1. Len(disk) = D + (b + L + c)
      BY <1>3, <2>3, Zenon
    <3> QED  BY <1>1, <1>3, <3>1
  <2>5. \A m \in 1 .. L : disk[D + b + m] = Row(format, entries[k])[m]
    BY <1>3, <2>2
  <2>6. RowAt(format, D + b) = entries[k]
    BY <1>3, <1>4, <2>4, <2>5, RowRead DEF L
  <2> QED  BY <2>2, <2>6
<1>8. Rows(format, D, n * L) = entries
  <2> HIDE DEF L
  <2> QED  BY <1>5, <1>6, <1>7
<1> QED  BY <1>2, <1>8 DEF n

\* Which satisfies what the probe and the loader ask.
LEMMA OwnRowsPass ==
    ASSUME NEW format \in Format, NEW entries \in Seq(Entry), Len(entries) <= MaxEntries,
           \A e \in ToSet(entries) : IsEntry(format, e),
           NEW D, IsFile(disk, format, entries, D)
    PROVE  LET d == Len(entries) * RowLength(format)
           IN  /\ Loads(format, D, d)
               /\ format \notin Wads => Probes(format, D, d)
               /\ D >= HeaderSize /\ D + d <= Len(disk)
<1> DEFINE n == Len(entries)
           L == RowLength(format)
           d == n * L
<1>1. Rows(format, D, d) = entries /\ d % L = 0 /\ d \div L = n
  BY RowsRead
<1>2. /\ D \in Nat /\ D >= HeaderSize /\ Len(disk) = D + d
      /\ \A k \in 1 .. n : entries[k].offset + ExtentOf(entries[k]) <= D
  BY DEF IsFile
<1>3. d \in Nat
  <2>1. n \in Nat /\ L \in Nat
    BY RowLengthType
  <2> HIDE DEF n, L
  <2> QED  BY <2>1
<1>4. n <= MaxEntries
  OBVIOUS
<1> HIDE DEF d, L
<1>5. \A e \in ToSet(entries) : IsEntry(format, e) /\ EndsInFile(e)
  <2>1. SUFFICES ASSUME NEW k \in 1 .. n PROVE EndsInFile(entries[k])
    BY DEF ToSet
  <2>2. entries[k].offset + ExtentOf(entries[k]) \in Nat
    <3>1. entries[k] \in Entry
      OBVIOUS
    <3> QED  BY <3>1 DEF Entry, ExtentOf
  <2>3. entries[k].offset + ExtentOf(entries[k]) <= D
    BY <1>2
  <2> DEFINE end == entries[k].offset + ExtentOf(entries[k])
  <2> HIDE DEF end
  <2>4. end <= Len(disk)
    BY <1>2, <1>3, <2>2, <2>3 DEF end
  <2> QED  BY <2>4 DEF EndsInFile, end
<1> HIDE DEF n
<1>6. Loads(format, D, d)
  BY <1>1, <1>4, <1>5 DEF Loads, IsEntry, L
<1>7. format \notin Wads => Probes(format, D, d)
  BY <1>1, <1>4, <1>5 DEF Probes, IsEntry, L
<1>8. D >= HeaderSize /\ D + d <= Len(disk)
  BY <1>2, <1>3
<1> QED  BY <1>6, <1>7, <1>8 DEF d, n, L

\* The magic leaves one format, or the two that share it.
LEMMA FormatsLeft ==
    ASSUME NEW format \in Format, NEW hint \in {"auto", format}, Word(0) = Magic(format)
    PROVE  Candidates(hint) = IF hint = "auto" /\ Magic(format) = "PACK"
                              THEN {"pak", "daikatana"} ELSE {format}
<1>1. CASE hint = format
  <2>1. hint # "auto"
    BY <1>1 DEF Format
  <2> QED  BY <1>1, <2>1 DEF Candidates
<1>2. CASE hint # format
  <2>1. hint = "auto"
    BY <1>2
  <2>2. Candidates(hint) = {f \in Format : Magic(f) = Magic(format)}
    BY <2>1 DEF Candidates
  <2> QED  BY <2>1, <2>2 DEF Magic, Format, Wads
<1> QED  BY <1>1, <1>2

\* One and two formats are that many.
LEMMA CountsOfFormats ==
    /\ \A f \in Format : IsFiniteSet({f}) /\ Cardinality({f}) = 1
    /\ Cardinality({"pak", "daikatana"}) = 2
<1>1. \A f \in Format : IsFiniteSet({f}) /\ Cardinality({f}) = 1
  BY FS_Singleton, Zenon
<1>2. "pak" \in Format /\ "daikatana" \notin {"pak"}
  BY DEF Format
<1>3. Cardinality({"pak"} \cup {"daikatana"}) = Cardinality({"pak"}) + 1
  BY <1>1, <1>2, FS_AddElement, Zenon
<1>4. {"pak"} \cup {"daikatana"} = {"pak", "daikatana"}
  OBVIOUS
<1> QED  BY <1>1, <1>2, <1>3, <1>4

\* Once the layout is settled the entries are those written.
LEMMA OpenedAs ==
    ASSUME NEW format \in Format, NEW entries \in Seq(Entry), Len(entries) <= MaxEntries,
           \A e \in ToSet(entries) : IsEntry(format, e),
           NEW D, IsFile(disk, format, entries, D),
           NEW hint, Candidates(hint) # {}, Parsing(hint) = {format}
    PROVE  Load(hint) = [status |-> "open", format |-> format, entries |-> entries]
<1> DEFINE L == RowLength(format)
           n == Len(entries)
<1>1. Cardinality({format}) = 1
  BY CountsOfFormats
<1>2. (CHOOSE f \in {format} : TRUE) = format
  OBVIOUS
<1>3. DirOffset(format) = D /\ DirLength(format) = n * L
  BY DEF IsFile, DirOffset, DirLength, Word
<1>4. Loads(format, D, n * L) /\ D >= HeaderSize /\ D + n * L <= Len(disk)
  BY OwnRowsPass
<1>5. Rows(format, D, n * L) = entries
  BY RowsRead
<1> DEFINE d == n * L
<1>6. /\ DirOffset(format) = D /\ DirLength(format) = d /\ Loads(format, D, d)
      /\ D >= HeaderSize /\ D + d <= Len(disk) /\ Rows(format, D, d) = entries
  BY <1>3, <1>4, <1>5
<1> HIDE DEF d, n, L
<1>7. Parsing(hint) # {} /\ ~(Cardinality(Parsing(hint)) > 1)
  BY <1>1
<1>8. (CHOOSE f \in Parsing(hint) : TRUE) = format
  BY <1>2
<1> QED  BY <1>6, <1>7, <1>8, Zenon DEF Load

\* A file is opened with what was written, or the two layouts both parse.
LEMMA ReadBack ==
    ASSUME NEW format \in Format, NEW entries \in Seq(Entry), Len(entries) <= MaxEntries,
           \A e \in ToSet(entries) : IsEntry(format, e),
           NEW D, IsFile(disk, format, entries, D), NEW hint \in {"auto", format}
    PROVE  \/ Load(hint).status = "ambiguous" /\ hint = "auto"
           \/ /\ Load(hint).status = "open"
              /\ Load(hint).entries = entries
              /\ Load(hint).format = format \/ entries = <<>>
<1> DEFINE L == RowLength(format)
           n == Len(entries)
           both == {"pak", "daikatana"}
<1>1. Word(0) = Magic(format)
  BY DEF IsFile, Word
<1>2. Candidates(hint) = IF hint = "auto" /\ Magic(format) = "PACK" THEN both ELSE {format}
  BY <1>1, FormatsLeft
<1>3. Candidates(hint) # {}
  BY <1>2
<1>4. Cardinality({format}) = 1 /\ Cardinality(both) = 2
  BY CountsOfFormats
<1>5. ASSUME Parsing(hint) = {format}
      PROVE  Load(hint) = [status |-> "open", format |-> format, entries |-> entries]
  BY <1>3, <1>5, OpenedAs
<1>6. CASE ~(hint = "auto" /\ Magic(format) = "PACK")
  <2>1. Candidates(hint) = {format}
    BY <1>2, <1>6
  <2>2. Parsing(hint) = {format}
    BY <1>4, <2>1 DEF Parsing
  <2> QED  BY <1>5, <2>2
<1>7. CASE hint = "auto" /\ Magic(format) = "PACK"
  <2>1. Candidates(hint) = both /\ ~(Cardinality(Candidates(hint)) <= 1)
    BY <1>2, <1>4, <1>7
  <2>2. format \in both /\ format \notin Wads
    BY <1>7 DEF Magic, Format, Wads
  <2>3. Word(1) = D /\ Word(2) = n * L
    BY <2>2 DEF IsFile, Word
  <2>4. n \in Nat /\ L \in Nat \ {0}
    BY RowLengthType
  <2>5. CASE n = 0
    <3>1. entries = <<>>
      BY <2>5
    <3>2. Word(2) = 0
      <4> HIDE DEF n, L
      <4> QED  BY <2>3, <2>4, <2>5
    <3>3. Parsing(hint) = {"pak"}
      BY <2>1, <3>2, Zenon DEF Parsing
    <3>4. DirOffset("pak") = D /\ DirLength("pak") = 0
      BY <2>3, <3>2 DEF DirOffset, DirLength, Wads
    <3>5. RowLength("pak") \in Nat \ {0} /\ "pak" \in Format
      BY RowLengthType DEF Format
    <3> DEFINE l == RowLength("pak")
    <3>6. 0 \div l = 0 /\ 0 % l = 0
      <4>1. l \in Nat \ {0}
        BY <3>5
      <4> HIDE DEF l
      <4>2. (0 * l + 0) \div l = 0 /\ (0 * l + 0) % l = 0
        BY <4>1, RowsAndRest
      <4> QED  BY <4>1, <4>2
    <3>7. Rows("pak", D, 0) = <<>>
      <4> HIDE DEF l
      <4>1. Rows("pak", D, 0) = [k \in 1 .. 0 |-> RowAt("pak", D + (k - 1) * l)]
        BY <3>6 DEF Rows, l
      <4> QED  BY <4>1
    <3>8. Loads("pak", D, 0)
      <4>1. ToSet(<<>>) = {}
        BY DEF ToSet
      <4> QED  BY <3>6, <3>7, <4>1, ProbeAssumption DEF Loads
    <3>9. D >= HeaderSize /\ D + 0 <= Len(disk)
      <4>1. D \in Nat /\ D >= HeaderSize /\ Len(disk) = D + n * L
        BY DEF IsFile
      <4>2. n * L = 0
        BY <2>3, <3>2
      <4> QED  BY <4>1, <4>2
    <3>10. (CHOOSE f \in Parsing(hint) : TRUE) = "pak"
      BY <3>3
    <3>11. Parsing(hint) # {} /\ ~(Cardinality(Parsing(hint)) > 1)
      <4>1. Cardinality({"pak"}) = 1
        BY <3>5, CountsOfFormats
      <4> QED  BY <3>3, <4>1
    <3>12. Load(hint) = [status |-> "open", format |-> "pak", entries |-> <<>>]
      BY <1>3, <3>4, <3>7, <3>8, <3>9, <3>10, <3>11, Zenon DEF Load
    <3> QED  BY <3>1, <3>12
  <2>6. CASE n # 0
    <3>1. Word(2) # 0
      <4> HIDE DEF n, L
      <4> QED  BY <2>3, <2>4, <2>6
    <3>2. Parsing(hint) = {f \in both : Probes(f, D, n * L)}
      BY <2>1, <2>3, <3>1, Zenon DEF Parsing
    <3>3. Probes(format, D, n * L)
      BY <2>2, OwnRowsPass
    <3>4. Parsing(hint) = {format} \/ Parsing(hint) = both
      <4> DEFINE d == n * L
      <4>1. Parsing(hint) = {f \in both : Probes(f, D, d)} /\ Probes(format, D, d)
        BY <3>2, <3>3
      <4> HIDE DEF d
      <4> QED  BY <2>2, <4>1
    <3>5. CASE Parsing(hint) = {format}
      BY <1>5, <3>5
    <3>6. CASE Parsing(hint) = both
      <4>1. Parsing(hint) # {} /\ Cardinality(Parsing(hint)) > 1
        BY <1>4, <3>6
      <4>2. Load(hint) = Refused("ambiguous")
        BY <1>3, <4>1, Zenon DEF Load
      <4> QED  BY <1>7, <4>2 DEF Refused
    <3> QED  BY <3>4, <3>5, <3>6
  <2> QED  BY <2>5, <2>6
<1> QED  BY <1>6, <1>7

\* What pakka_open_ex makes of an archive that has been written.
LEMMA WrittenReadBack ==
    ASSUME NEW archive \in Archives, disk = File(archive.format, archive.entries),
           NEW hint \in {"auto", archive.format}
    PROVE  \/ Load(hint).status = "ambiguous" /\ hint = "auto"
           \/ /\ Load(hint).status = "open"
              /\ Load(hint).entries = archive.entries
              /\ Load(hint).format = archive.format \/ archive.entries = <<>>
<1> DEFINE f == archive.format  es == archive.entries
<1>1. /\ f \in Format /\ es \in Seq(Entry) /\ Len(es) <= MaxEntries
      /\ \A e \in ToSet(es) : IsEntry(f, e)
      /\ disk = File(f, es) /\ hint \in {"auto", f}
  BY ArchivesAssumption
<1> HIDE DEF f, es
<1>2. PICK D : IsFile(File(f, es), f, es, D)
  BY <1>1, FileWritten
<1>3. IsFile(disk, f, es, D)
  BY <1>1, <1>2
<1>4. \/ Load(hint).status = "ambiguous" /\ hint = "auto"
      \/ /\ Load(hint).status = "open"
         /\ Load(hint).entries = es
         /\ Load(hint).format = f \/ es = <<>>
  BY <1>1, <1>3, ReadBack
<1> QED  BY <1>4 DEF f, es

\* The file stays as it was written; what open made of it is that.
ProbeInv ==
    /\ written \in Archives
    /\ disk = File(written.format, written.entries)
    /\ WrittenIsReadBack

\* An archive is read back as it was written, whatever its format and its
\* entries, or refused by pakka_open_ex because both layouts of a "PACK" parse.
THEOREM WrittenIsReadBackTheorem == ProbeSpec => []WrittenIsReadBack
<1>1. ProbeInit => ProbeInv
  BY DEF ProbeInit, ProbeInv, Refused, WrittenIsReadBack
<1>2. ProbeInv /\ [ProbeNext]_probeVars => ProbeInv'
  <2> SUFFICES ASSUME ProbeInv, [ProbeNext]_probeVars PROVE ProbeInv'
    OBVIOUS
  <2>1. CASE ProbeNext
    <3>1. PICK hint \in Hint : Open(hint)
      BY <2>1 DEF ProbeNext
    <3>2. UNCHANGED <<written, disk>> /\ asked' = hint /\ loaded' = Load(hint)
      BY <3>1 DEF Open
    <3>3. written \in Archives /\ disk = File(written.format, written.entries)
      BY DEF ProbeInv
    <3>4. written' \in Archives /\ disk' = File(written'.format, written'.entries)
      BY <3>2, <3>3
    <3>5. ASSUME asked' \in {"auto", written'.format}
          PROVE  \/ loaded'.status = "ambiguous" /\ asked' = "auto"
                 \/ /\ loaded'.status = "open"
                    /\ loaded'.entries = written'.entries
                    /\ loaded'.format = written'.format \/ written'.entries = <<>>
      <4>1. hint \in {"auto", written.format}
        BY <3>2, <3>5
      <4>2. \/ Load(hint).status = "ambiguous" /\ hint = "auto"
            \/ /\ Load(hint).status = "open"
               /\ Load(hint).entries = written.entries
               /\ Load(hint).format = written.format \/ written.entries = <<>>
        BY <3>3, <4>1, WrittenReadBack
      <4> DEFINE opened == Load(hint)
      <4>3. loaded' = opened
        BY <3>2
      <4> HIDE DEF opened
      <4> QED  BY <3>2, <4>2, <4>3 DEF opened
    <3>6. WrittenIsReadBack'
      BY <3>5 DEF WrittenIsReadBack
    <3> QED  BY <3>4, <3>6 DEF ProbeInv
  <2>2. CASE UNCHANGED probeVars
    BY <2>2 DEF ProbeInv, probeVars, WrittenIsReadBack
  <2> QED  BY <2>1, <2>2
<1>3. ProbeInv => WrittenIsReadBack
  BY DEF ProbeInv
<1> QED  BY <1>1, <1>2, <1>3, PTL DEF ProbeSpec
=============================================================================
