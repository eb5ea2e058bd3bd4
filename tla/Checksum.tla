------------------------------- MODULE Checksum -------------------------------
(***************************************************************************)
(* The CRC that ends a PIX payload (rentivo/pix.py), against the division  *)
(* of polynomials that defines it, with the inputs of the runs.            *)
(***************************************************************************)
EXTENDS Conversions, Bitwise

-----------------------------------------------------------------------------
(* rentivo/pix.py                                                           *)

\* One bit of the register.
Shifted(crc) == (IF crc >= 32768 THEN (2 * crc) ^^ 4129 ELSE 2 * crc) % 65536

\* Mutant: the register starts empty.
_crc16_ccitt_zero(data) ==
    FoldLeft(LAMBDA crc, byte : FoldLeft(LAMBDA c, k : Shifted(c), crc ^^ (byte * 256), Text(8)),
             0, data)

\* data is a sequence of ASCII codes.
_crc16_ccitt(data) ==
    FoldLeft(LAMBDA crc, byte : FoldLeft(LAMBDA c, k : Shifted(c), crc ^^ (byte * 256), Text(8)),
             65535, data)

-----------------------------------------------------------------------------
(* The definition.                                                          *)

\* The bits of a sequence of bytes, most significant first.
Bits8(data) == FlattenSeq([i \in 1..Len(data) |-> [k \in 1..8 |-> (data[i] \div 2^(8 - k)) % 2]])

\* The remainder of a polynomial, as its bits, by x^16 + x^12 + x^5 + 1: long
\* division, from the left.
Generator == {1, 5, 12, 17}

Remainder(bits) ==
    LET n == Len(bits)
        divided == FoldLeft(LAMBDA b, i :
                      IF b[i] = 0 THEN b
                      ELSE [j \in 1..n |-> IF j - i + 1 \in Generator THEN 1 - b[j] ELSE b[j]],
                      bits, [i \in 1..n - 16 |-> i])
    IN  [k \in 1..16 |-> divided[n - 16 + k]]

\* The definition of the CRC: the first 16 bits inverted, and the remainder of
\* the polynomial times x^16.
Crc(data) ==
    LET bits == Bits8(data) \o [k \in 1..16 |-> 0]
        seeded == [i \in 1..Len(bits) |-> IF i <= 16 THEN 1 - bits[i] ELSE bits[i]]
    IN  FoldLeft(LAMBDA c, bit : 2 * c + bit, 0, Remainder(seeded))

-----------------------------------------------------------------------------
(* The inputs and the property.                                             *)

\* Data of one byte and of two, and "123456789".
SampleData ==
    {[of |-> "data", bytes |-> d] :
        d \in {<<b>> : b \in 0..127} \cup {<<a, b>> : a \in {0, 1, 48, 127}, b \in 0..127}
              \cup {<<49, 50, 51, 52, 53, 54, 55, 56, 57>>}}

Samples == SampleAmounts \cup SampleBills \cup SampleForms \cup SamplePayloads \cup SampleData

\* The bitwise register computes the CRC-16/CCITT-FALSE of its definition, the
\* remainder of a division of polynomials over the bits of the data; the check
\* value of that CRC, of "123456789", is 29B1.
CrcIsTheRemainder ==
    Is("data") => /\ _crc16_ccitt(input.bytes) = Crc(input.bytes)
                  /\ Len(input.bytes) = 9 => _crc16_ccitt(input.bytes) = 10673
=============================================================================
