------------------------------ MODULE DkCodec ------------------------------
(***************************************************************************)
(* The Daikatana codec: pakka_dk_deflate and pakka_dk_inflate of           *)
(* src/dk_codec.c.                                                         *)
(*                                                                         *)
(* An entry is encoded when it is added and decoded, with the length the   *)
(* directory row declares, when it is read.  The decoder also meets codes  *)
(* the encoder never makes: those of other tools and damaged ones.         *)
(*                                                                         *)
(* The opcode table is divided by W, 64 in the code: below W a literal     *)
(* run, below 2W zeros, below 3W copies of a byte, then back references,   *)
(* 4W-2 is invalid and 4W-1 ends the code.                                 *)
(***************************************************************************)
EXTENDS Naturals, Sequences

CONSTANTS
    W,        \* a quarter of the byte range; 64 in the code
    Texts,    \* payloads that are encoded
    Codes,    \* codes the decoder is given as they are
    Sizes     \* lengths declared for them

Byte == 0 .. 4 * W - 1

ASSUME CodecAssumption ==
    /\ W \in Nat /\ W >= 5
    /\ Texts \subseteq Seq(Byte)
    /\ Codes \subseteq Seq(Byte)
    /\ Sizes \subseteq Nat

VARIABLES
    phase,      \* "idle", "encode", "decode", "ok" or "error"
    text,       \* in, of the encoder
    taken,      \* i: how much of the text is used up
    literals,   \* literal_len: the last of it not yet written out
    code,       \* out of the encoder, in of the decoder
    size,       \* out_len of the decoder: the declared length
    read,       \* how much of the code the decoder used up
    out         \* what the decoder produced

codecVars == <<phase, text, taken, literals, code, size, read, out>>

MaxZeroRun == W
MaxByteRun == W
MaxBackRef == W - 2
MaxBackDist == 4 * W + 1
MaxLiteral == W

\* Mutant: a run of two bytes is thought worth its opcode.
MinByteRunTwo == 2

MinZeroRun == 2
MinByteRun == 3
MinBackRef == 3

(***************************************************************************)
(* The encoder.                                                            *)
(***************************************************************************)

Left == Len(text) - taken

\* The lengths a run of byte b can have here.
Runs(b, max) ==
    {n \in 0 .. max : n <= Left /\ \A k \in 1 .. n : text[taken + k] = b}

NoMatch == [len |-> 0, dist |-> 0]

\* The matches here in what went before, never longer than they are far.
Matches ==
    {NoMatch} \cup
    {m \in [len : MinBackRef .. MaxBackRef, dist : 2 .. MaxBackDist] :
        /\ m.dist <= taken
        /\ m.len <= m.dist
        /\ m.len <= Left
        /\ \A k \in 1 .. m.len : text[taken + k] = text[taken + k - m.dist]}

Longest(n, lengths) == n \in lengths /\ \A o \in lengths : o <= n

\* The longest match, the nearest of those.
Best(m, matches) ==
    /\ m \in matches
    /\ \A o \in matches : o.len < m.len \/ (o.len = m.len /\ m.dist <= o.dist)

Effective(n, min) == IF n >= min THEN n ELSE 0

\* The pending literals as one token.
LiteralToken(n) ==
    IF n = 0 THEN <<>> ELSE <<n - 1>> \o SubSeq(text, taken - n + 1, taken)

\* Mutant: a run is written in front of the literals before it.
EmitAhead(len, token) ==
    /\ code' = code \o token \o LiteralToken(literals)
    /\ literals' = 0
    /\ taken' = taken + len

Emit(len, token) ==
    /\ code' = code \o LiteralToken(literals) \o token
    /\ literals' = 0
    /\ taken' = taken + len

TakeLiteral ==
    /\ taken' = taken + 1
    /\ IF literals + 1 = MaxLiteral
       THEN /\ code' = code \o <<literals>> \o SubSeq(text, taken + 1 - literals, taken + 1)
            /\ literals' = 0
       ELSE literals' = literals + 1 /\ UNCHANGED code

\* Zeros need no operand and so count double.
EncodeStep ==
    /\ phase = "encode"
    /\ taken < Len(text)
    /\ \E zeros \in Runs(0, MaxZeroRun), same \in Runs(text[taken + 1], MaxByteRun),
          m \in Matches :
        /\ Longest(zeros, Runs(0, MaxZeroRun))
        /\ Longest(same, Runs(text[taken + 1], MaxByteRun))
        /\ Best(m, Matches)
        /\ LET z == Effective(zeros, MinZeroRun)
               r == Effective(same, MinByteRun)
               zerosWin == 2 * z > r /\ 2 * z > m.len
           IN  \/ z = 0 /\ r = 0 /\ m = NoMatch /\ TakeLiteral
               \/ zerosWin /\ Emit(z, <<z + W - 2>>)
               \/ /\ ~zerosWin /\ m.len > r
                  /\ Emit(m.len, <<m.len + 3 * W - 2, m.dist - 2>>)
               \/ /\ ~zerosWin /\ m.len <= r /\ r > 0
                  /\ Emit(r, <<r + 2 * W - 2, text[taken + 1]>>)
    /\ UNCHANGED <<phase, text, size, read, out>>

\* The terminator; the entry's row will declare the length of the text.
EncodeEnd ==
    /\ phase = "encode"
    /\ taken = Len(text)
    /\ code' = code \o LiteralToken(literals) \o <<4 * W - 1>>
    /\ literals' = 0
    /\ size' = Len(text)
    /\ phase' = "decode"
    /\ UNCHANGED <<text, taken, read, out>>

(***************************************************************************)
(* The decoder.                                                            *)
(***************************************************************************)

More == phase = "decode" /\ read < Len(code)
Op == code[read + 1]
Operand == code[read + 2]

IsLiteral == Op < W
IsZeros == W <= Op /\ Op < 2 * W
IsCopies == 2 * W <= Op /\ Op < 3 * W
IsBackRef == 3 * W <= Op /\ Op < 4 * W - 2
IsEnd == Op = 4 * W - 1

RunLength ==
    IF IsLiteral THEN Op + 1
    ELSE IF IsZeros THEN Op - (W - 2)
    ELSE IF IsCopies THEN Op - (2 * W - 2)
    ELSE Op - (3 * W - 2)

\* The bytes of the token behind its opcode.
OperandLength == IF IsLiteral THEN RunLength ELSE IF IsZeros THEN 0 ELSE 1

Distance == Operand + 2

\* A back reference may reach into the bytes it is itself producing.
Produced ==
    IF IsLiteral THEN SubSeq(code, read + 2, read + 1 + RunLength)
    ELSE [k \in 1 .. RunLength |->
             IF IsZeros THEN 0
             ELSE IF IsCopies THEN Operand
             ELSE out[Len(out) - Distance + 1 + ((k - 1) % Distance)]]

\* Mutant: the room left is not looked at.
AcceptableAnyRoom ==
    /\ IsLiteral \/ IsZeros \/ IsCopies \/ IsBackRef
    /\ read + 1 + OperandLength <= Len(code)
    /\ IsBackRef => Distance <= Len(out)

Acceptable ==
    /\ IsLiteral \/ IsZeros \/ IsCopies \/ IsBackRef
    /\ read + 1 + OperandLength <= Len(code)
    /\ IsBackRef => Distance <= Len(out)
    /\ Len(out) + RunLength <= size

DecodeToken ==
    /\ More
    /\ Acceptable
    /\ out' = out \o Produced
    /\ read' = read + 1 + OperandLength
    /\ UNCHANGED <<phase, text, taken, literals, code, size>>

DecodeRefused ==
    /\ More
    /\ ~IsEnd
    /\ ~Acceptable
    /\ phase' = "error"
    /\ UNCHANGED <<text, taken, literals, code, size, read, out>>

\* At the terminator, whatever follows it, or where the code stops.
DecodeEnd ==
    /\ phase = "decode"
    /\ read < Len(code) => IsEnd
    /\ phase' = IF Len(out) = size THEN "ok" ELSE "error"
    /\ UNCHANGED <<text, taken, literals, code, size, read, out>>

CodecIdle ==
    /\ phase = "idle"
    /\ text = <<>> /\ taken = 0 /\ literals = 0
    /\ code = <<>> /\ size = 0 /\ read = 0 /\ out = <<>>

CodecInit ==
    /\ taken = 0 /\ literals = 0 /\ read = 0 /\ out = <<>>
    /\ \/ phase = "encode" /\ text \in Texts /\ code = <<>> /\ size = 0
       \/ phase = "decode" /\ text = <<>> /\ code \in Codes /\ size \in Sizes

CodecNext ==
    \/ EncodeStep \/ EncodeEnd
    \/ DecodeToken \/ DecodeRefused \/ DecodeEnd

CodecSpec == CodecInit /\ [][CodecNext]_codecVars

-----------------------------------------------------------------------------

\* The encoder's caller allocates this much and the encoder, after checking it
\* once, writes without looking: one opcode per W bytes of literals and the
\* terminator (pakka_dk_deflate).
Worst(n) == n + (n + W - 1) \div W + 1

\* What is encoded never outgrows the buffer sized for the worst case, however
\* short literal runs and tokens alternate.
EncodingFits == text # <<>> => Len(code) <= Worst(Len(text))

\* The decoder writes no further than the declared size and reads no further
\* than the code, whatever the code is (pakka_dk_inflate).
StaysInBuffers == Len(out) <= size /\ read <= Len(code)

\* What the encoder makes decodes, under the length of the text, to the text.
RoundTrip ==
    text # <<>> => phase # "error" /\ (phase = "ok" => out = text)
=============================================================================
