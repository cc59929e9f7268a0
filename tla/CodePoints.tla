----------------------------- MODULE CodePoints -----------------------------
(***************************************************************************)
(* The UTF-8 coder of utf8.c: what the decoder accepts, byte by byte, and  *)
(* what the two encoders (utf8_encode_one and Integer#chr) write.  A byte  *)
(* is a number below 256.                                                  *)
(***************************************************************************)
EXTENDS Calls, Integers, FiniteSets, SequencesExt

CONSTANTS
    LeadBytes,   \* the bytes a sample begins with
    NextBytes,   \* the bytes that follow
    Points       \* the code points that are encoded

ASSUME CodePointsAssumption ==
    LeadBytes \subseteq 0 .. 255 /\ NextBytes \subseteq 0 .. 255 /\ Points \subseteq Int

Lowest == 128   \* 0x80, the least continuation byte
IsContinuation(b) == b \div 64 = 2

\* How many bytes a character with this first byte has; 0: no character begins so.
Need(c0) ==
    CASE c0 < Lowest -> 1
      [] c0 \in 194 .. 223 -> 2
      [] c0 \in 224 .. 239 -> 3
      [] c0 \in 240 .. 244 -> 4
      [] OTHER -> 0

\* The bits of the first byte that belong to the code point.
Payload(c0) == CASE Need(c0) = 1 -> c0 [] Need(c0) = 2 -> c0 % 32
                 [] Need(c0) = 3 -> c0 % 16 [] Need(c0) = 4 -> c0 % 8

\* The code point in the first bytes: each more gives its low six bits.
SixMore(n, b) == (n * 64) + (b % 64)
PointOf(s) ==
    CASE Need(s[1]) = 1 -> s[1]
      [] Need(s[1]) = 2 -> SixMore(Payload(s[1]), s[2])
      [] Need(s[1]) = 3 -> SixMore(SixMore(Payload(s[1]), s[2]), s[3])
      [] Need(s[1]) = 4 -> SixMore(SixMore(SixMore(Payload(s[1]), s[2]), s[3]), s[4])

Surrogates == 55296 .. 57343   \* 0xD800 .. 0xDFFF
LastPoint == 1114111             \* 0x10FFFF

Overlong(need, cp) ==
    \/ need = 2 /\ cp < 128
    \/ need = 3 /\ cp < 2048
    \/ need = 4 /\ cp < 65536

\* A second byte that does not go with the first: too low or too high.
BadSecond(c0, c1) ==
    \/ c0 = 224 /\ c1 < 160
    \/ c0 = 237 /\ c1 >= 160
    \/ c0 = 240 /\ c1 < 144
    \/ c0 = 244 /\ c1 >= 144

\* utf8_decode_one: <<code point, width>>, or nothing.
DecodeOne(s) ==
    IF \/ s = <<>> \/ Need(s[1]) = 0 \/ Need(s[1]) > Len(s)
       \/ \E i \in 2 .. Need(s[1]) : ~IsContinuation(s[i])
       \/ Overlong(Need(s[1]), PointOf(s))
       \/ PointOf(s) > LastPoint
       \/ PointOf(s) \in Surrogates
       \/ Need(s[1]) > 1 /\ BadSecond(s[1], s[2])
    THEN <<>>
    ELSE <<PointOf(s), Need(s[1])>>

Six(cp, shift) == 128 + ((cp \div shift) % 64)

\* An encoder that gives one code point too many to two bytes.
EncodeOneLate(cp) ==
    CASE cp <= 127 -> <<cp>>
      [] cp > 127 /\ cp <= 2048 -> <<192 + cp \div 64, Six(cp, 1)>>
      [] cp > 2048 /\ cp <= 65535 -> <<224 + cp \div 4096, Six(cp, 64), Six(cp, 1)>>
      [] cp > 65535 -> <<240 + cp \div 262144, Six(cp, 4096), Six(cp, 64), Six(cp, 1)>>

\* utf8_encode_one, which trusts its argument.
EncodeOne(cp) ==
    CASE cp <= 127 -> <<cp>>
      [] cp > 127 /\ cp <= 2047 -> <<192 + cp \div 64, Six(cp, 1)>>
      [] cp > 2047 /\ cp <= 65535 -> <<224 + cp \div 4096, Six(cp, 64), Six(cp, 1)>>
      [] cp > 65535 -> <<240 + cp \div 262144, Six(cp, 4096), Six(cp, 64), Six(cp, 1)>>

\* Integer#chr: <<>> stands for RangeError.  A surrogate is encoded.
Chr(n) == IF n < 0 \/ n > LastPoint THEN <<>> ELSE EncodeOne(n)

\* utf8_validate: the offset of the first byte that is not a character's, or
\* nothing.
ErrorOffset(s) ==
    LET at[i \in Nat] ==
            IF i >= Len(s) THEN <<>>
            ELSE LET d == DecodeOne(SubSeq(s, i + 1, Len(s)))
                 IN  IF d = <<>> THEN <<i>> ELSE at[i + d[2]]
    IN  at[0]

-----------------------------------------------------------------------------
Samples == UNION {{<<c0>> \o rest : rest \in BoundedSeq(NextBytes, 3)} : c0 \in LeadBytes}

CodePointCall ==
    /\ NoCall
    /\ \/ \E s \in Samples :
              Make([op |-> "decode", s |-> s, res |-> DecodeOne(s), error |-> ErrorOffset(s)])
       \/ \E cp \in Points :
              /\ cp >= 0 /\ cp <= LastPoint
              /\ Make([op |-> "encode", cp |-> cp, enc |-> EncodeOne(cp), res |-> DecodeOne(EncodeOne(cp))])
       \/ \E cp \in Points :
              Make([op |-> "chr", cp |-> cp, enc |-> Chr(cp), res |-> DecodeOne(Chr(cp))])

CodePointSpec == NoCall /\ [][CodePointCall \/ Back]_call

-----------------------------------------------------------------------------
Scalar(cp) == cp \in 0 .. LastPoint /\ cp \notin Surrogates

\* The well-formed sequences, as Unicode's table of byte ranges lists them.
WellFormed(s) ==
    LET low == IF s[1] = 224 THEN 160 ELSE IF s[1] = 240 THEN 144 ELSE 128
        high == IF s[1] = 237 THEN 159 ELSE IF s[1] = 244 THEN 143 ELSE 191
    IN  \/ Len(s) = 1 /\ s[1] \in 0 .. 127
        \/ /\ \/ Len(s) = 2 /\ s[1] \in 194 .. 223
              \/ Len(s) = 3 /\ s[1] \in 224 .. 239
              \/ Len(s) = 4 /\ s[1] \in 240 .. 244
           /\ s[2] \in low .. high
           /\ \A i \in 3 .. Len(s) : s[i] \in 128 .. 191

\* The characters a string begins with, up to where it is no longer one.
WellFormedFrom(s, i) == {n \in 1 .. 4 : i + n <= Len(s) /\ WellFormed(SubSeq(s, i + 1, i + n))}

\* The places to which characters lead from the beginning.
StartsIn(s) ==
    LET starts[i \in 0 .. Len(s)] ==
            i = 0 \/ \E n \in 1 .. 4 : i >= n /\ starts[i - n] /\ WellFormed(SubSeq(s, i - n + 1, i))
    IN  starts

DecodedExactly(c) ==
    /\ (c.res = <<>>) = (WellFormedFrom(c.s, 0) = {})
    /\ c.res # <<>> =>
           /\ Scalar(c.res[1]) /\ WellFormedFrom(c.s, 0) = {c.res[2]}
           /\ EncodeOne(c.res[1]) = SubSeq(c.s, 1, c.res[2])
    /\ IF c.error = <<>> THEN StartsIn(c.s)[Len(c.s)]
       ELSE StartsIn(c.s)[c.error[1]] /\ WellFormedFrom(c.s, c.error[1]) = {}

\* Decoding accepts the well-formed sequences and no other, and inverts encoding
\* for every scalar value; the offset utf8_validate reports has only characters
\* before it and none at it; and chr is refused outside the code points, while a
\* surrogate's chr is a string that cannot be decoded.
CodingExact ==
    CASE call.op = "decode" -> DecodedExactly(call)
      [] call.op = "encode" ->
             IF Scalar(call.cp) THEN call.res = <<call.cp, Len(call.enc)>> ELSE call.res = <<>>
      [] call.op = "chr" ->
             /\ (call.enc = <<>>) = (call.cp \notin 0 .. LastPoint)
             /\ call.res = IF Scalar(call.cp) THEN <<call.cp, Len(call.enc)>> ELSE <<>>
      [] OTHER -> TRUE
=============================================================================
