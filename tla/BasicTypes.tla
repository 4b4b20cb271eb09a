----------------------------- MODULE BasicTypes -----------------------------
(***************************************************************************)
(* The types of zigpy/types/basic.py that need no other types: integers as *)
(* bits and as bytes, floats, strings with a length before them, texts,    *)
(* and the bit fields that structures pack into bytes.  serialize() gives  *)
(* bytes or raises; deserialize() gives a value and the bytes behind it,   *)
(* or raises.                                                              *)
(*                                                                         *)
(* A byte has ByteBits bits, so that every boundary of the code (a byte, a *)
(* length, a mark) is reached by small values.                             *)
(***************************************************************************)
EXTENDS Integers, Sequences

Lists == INSTANCE SequencesExt

CONSTANT ByteBits   \* 8 in the code

ASSUME BytesHaveBits == ByteBits \in Nat \ {0}

-----------------------------------------------------------------------------
(* Numbers and their digits in any radix, the highest digit first.         *)

Power(radix, k) ==
  LET power[i \in Nat] == IF i = 0 THEN 1 ELSE radix * power[i - 1]
  IN  power[k]

\* What `n >> i' leaves, for bits; a negative number ends with -1.
Shifted(radix, n, i) ==
  LET shifted[j \in Nat] == IF j = 0 THEN n ELSE shifted[j - 1] \div radix
  IN  shifted[i]

Digits(radix, k, n) == [i \in 1 .. k |-> Shifted(radix, n, k - i) % radix]

Number(radix, digits) ==
  LET sum[i \in 0 .. Len(digits)] == IF i = 0 THEN 0 ELSE radix * sum[i - 1] + digits[i]
  IN  sum[Len(digits)]

Base == Power(2, ByteBits)
Byte == 0 .. Base - 1

-----------------------------------------------------------------------------
(* Integers.                                                               *)

FixedInt(bits, signed, big) == [kind |-> "int", bits |-> bits, signed |-> signed, big |-> big]
UInt(bytes) == FixedInt(bytes * ByteBits, FALSE, FALSE)
Bit(bits)   == FixedInt(bits, FALSE, FALSE)

Aligned(t) == t.bits % ByteBits = 0
Size(t)    == t.bits \div ByteBits

MinValue(t) == IF t.signed THEN -Power(2, t.bits - 1) ELSE 0
MaxValue(t) == IF t.signed THEN Power(2, t.bits - 1) - 1 ELSE Power(2, t.bits) - 1

\* The upper half of the numbers stands for the negative ones.
Signed(t, n) ==
  IF t.signed /\ n >= Power(2, t.bits - 1) THEN n - Power(2, t.bits) ELSE n

\* FixedIntType.bits and FixedIntType.from_bits.
BitsOf(t, n)      == Digits(2, t.bits, n)
FromBits(t, bits) == Signed(t, Number(2, bits))

\* Bits.serialize and Bits.deserialize.
BytesOfBits(bits) ==
  [i \in 1 .. Len(bits) \div ByteBits |->
     Number(2, SubSeq(bits, (i - 1) * ByteBits + 1, i * ByteBits))]
BitsOfBytes(bytes) ==
  [i \in 1 .. Len(bytes) * ByteBits |->
     Digits(2, ByteBits, bytes[((i - 1) \div ByteBits) + 1])[((i - 1) % ByteBits) + 1]]

InOrder(t, bytes) == IF t.big THEN bytes ELSE Lists!Reverse(bytes)

\* int.to_bytes and int.from_bytes.
ToBytes(t, n)       == InOrder(t, Digits(Base, Size(t), n))
FromBytes(t, bytes) == Signed(t, Number(Base, InOrder(t, bytes)))

-----------------------------------------------------------------------------
(* The bit fields between two borders of bytes.                            *)

\* How many bits the first k fields take.
BitsBefore(types, k) ==
  LET sum[i \in 0 .. Len(types)] == IF i = 0 THEN 0 ELSE sum[i - 1] + types[i].bits
  IN  sum[k]
BitLength(types) == BitsBefore(types, Len(types))

\* Mutant of Collected: the fields are packed from the highest bit on.
CollectedInOrder(bits, more) == bits \o more

\* The first field ends up in the lowest bits.
Collected(bits, more) == more \o bits

\* Bits.from_bitfields.
FromBitfields(types, values) ==
  LET bits[i \in 0 .. Len(types)] ==
        IF i = 0 THEN <<>> ELSE Collected(bits[i - 1], BitsOf(types[i], values[i]))
  IN  bits[Len(types)]

\* Each from_bits() takes its field from the end of the bits that are left.
ToBitfields(types, bits) ==
  [i \in DOMAIN types |->
     FromBits(types[i], SubSeq(bits, Len(bits) - BitsBefore(types, i) + 1,
                               Len(bits) - BitsBefore(types, i - 1)))]

-----------------------------------------------------------------------------
(* Floats.  A value is the pattern of the format that holds it.            *)

Float(exp, frac) == [kind |-> "float", exp |-> exp, frac |-> frac, bits |-> 1 + exp + frac]
AsUInt(t) == FixedInt(t.bits, FALSE, FALSE)

Clamp(n, low, high) == IF n < low THEN low ELSE IF n > high THEN high ELSE n

Exponent(t, n) == (n \div Power(2, t.frac)) % Power(2, t.exp)

\* BaseFloat._convert_format: the least and the greatest exponent are kept, the
\* others are moved into what the code takes for the range of the new format.
Convert(src, dst, n) ==
  LET sign   == n \div Power(2, src.exp + src.frac)
      biased == Exponent(src, n)
      frac   == n % Power(2, src.frac)
      bias   == Power(2, dst.exp - 1)
      newExp == IF biased = Power(2, src.exp) - 1 THEN Power(2, dst.exp) - 1
                ELSE IF biased = 0 THEN 0
                ELSE bias + Clamp(biased - Power(2, src.exp - 1), 2 - bias, bias - 2)
      newFrac == IF src.frac > dst.frac THEN frac \div Power(2, src.frac - dst.frac)
                 ELSE frac * Power(2, dst.frac - src.frac)
  IN  sign * Power(2, dst.exp + dst.frac) + newExp * Power(2, dst.frac) + newFrac

-----------------------------------------------------------------------------
(* Strings with their length before them.                                  *)

Good(bytes) == [ok |-> TRUE, bytes |-> bytes]
Refused     == [ok |-> FALSE, bytes |-> <<>>]

\* LVBytes.serialize.
WithLength(prefix, s) ==
  IF Len(s) >= Power(Base, prefix) - 1 THEN Refused
  ELSE Good(ToBytes(UInt(prefix), Len(s)) \o s)

Read(v, rest) == [ok |-> TRUE, value |-> v, rest |-> rest]
Error         == [ok |-> FALSE, value |-> <<>>, rest |-> <<>>]

First(bytes, n)  == SubSeq(bytes, 1, n)
Behind(bytes, n) == SubSeq(bytes, n + 1, Len(bytes))

\* The slice of n bytes, which "Data is too short" guards everywhere.
Take(bytes, n) ==
  IF Len(bytes) < n THEN Error ELSE Read(First(bytes, n), Behind(bytes, n))

ReadInt(t, bytes) ==
  LET s == Take(bytes, Size(t))
  IN  IF s.ok THEN Read(FromBytes(t, s.value), s.rest) ELSE Error

\* A length, and as many bytes.
TakeCounted(bytes, prefix) ==
  LET n == ReadInt(UInt(prefix), bytes)
  IN  IF n.ok THEN Take(n.rest, n.value) ELSE Error

-----------------------------------------------------------------------------
(* Texts.  A character is its number: those below 0x80 are one byte in      *)
(* UTF-8, and those up to 0xBF, which stand for all the others, are two.    *)

Ascii      == 0 .. (Base \div 2) - 1
Characters == 0 .. ((3 * Base) \div 4) - 1

Lead        == (97 * Base) \div 128   \* 0xC2
Replacement == Base                   \* U+FFFD, which is none of the texts' own

\* How many bytes each character has does not show in the length.
OneByteEach(text) == \A i \in DOMAIN text : text[i] \in Ascii

\* str.encode("utf8").
Encoded(c) == IF c \in Ascii THEN <<c>> ELSE <<Lead, c>>
Utf8(text) ==
  LET bytes[i \in 0 .. Len(text)] ==
        IF i = 0 THEN <<>> ELSE bytes[i - 1] \o Encoded(text[i])
  IN  bytes[Len(text)]

\* bytes.decode("utf8", errors="replace"): what byte i adds to the text.
Continues(bytes, i) ==
  i > 1 /\ bytes[i - 1] = Lead /\ bytes[i] \in Characters \ Ascii
Decoded(bytes, i) ==
  IF bytes[i] \in Ascii \/ Continues(bytes, i) THEN <<bytes[i]>>
  ELSE IF i < Len(bytes) /\ Continues(bytes, i + 1) THEN <<>>
  ELSE <<Replacement>>
FromUtf8(bytes) ==
  LET text[i \in 0 .. Len(bytes)] ==
        IF i = 0 THEN <<>> ELSE text[i - 1] \o Decoded(bytes, i)
  IN  text[Len(bytes)]

\* CharacterString.serialize: the length is that of the text, not of its bytes.
TextWithLength(prefix, text) ==
  IF Len(text) >= Power(Base, prefix) - 1 THEN Refused
  ELSE Good(ToBytes(UInt(prefix), Len(text)) \o Utf8(text))

\* CharacterString._invalid_length is computed once, for a prefix of one byte, and
\* LongCharacterString inherits it.
InvalidLength == Base - 1

\* split(b"\x00")[0]
UpToNull(s) ==
  LET nulls == {i \in DOMAIN s : s[i] = 0}
  IN  IF nulls = {} THEN s ELSE First(s, (CHOOSE i \in nulls : \A j \in nulls : i <= j) - 1)

ReadText(prefix, bytes) ==
  LET n == ReadInt(UInt(prefix), bytes)
      s == TakeCounted(bytes, prefix)
  IN  IF ~n.ok THEN Error
      ELSE IF n.value = InvalidLength THEN Read(<<>>, n.rest)
      ELSE IF s.ok THEN Read(FromUtf8(UpToNull(s.value)), s.rest) ELSE Error
=============================================================================
