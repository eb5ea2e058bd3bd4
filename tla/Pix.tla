--------------------------------- MODULE Pix ---------------------------------
(***************************************************************************)
(* The PIX payload of an invoice (rentivo/pix.py): tag-length-value fields *)
(* one after the other.  (The CRC over all of them is in Checksum.)        *)
(*                                                                         *)
(* A text is a sequence of characters, of which only the digits matter to  *)
(* a reader of lengths: 0..9 for a digit, Letter for anything else.  A tag *)
(* is its two digits as a number.                                          *)
(***************************************************************************)
EXTENDS Integers, Sequences, SequencesExt

Letter == 10

Text(n) == [i \in 1..n |-> Letter]

\* f"{n:02d}": two digits, or more when two do not do (up to 65 535 characters,
\* what a TEXT column holds).
TwoDigits(n) ==
    LET ten == <<1, 10, 100, 1000, 10000>>
        width == IF n < 100 THEN 2 ELSE IF n < 1000 THEN 3 ELSE IF n < 10000 THEN 4 ELSE 5
    IN  [j \in 1..width |-> (n \div ten[width + 1 - j]) % 10]

\* Mutant: the length of the whole field.
_tlv_whole(tag, value) == <<tag \div 10, tag % 10>> \o TwoDigits(Len(value) + 4) \o value

_tlv(tag, value) == <<tag \div 10, tag % 10>> \o TwoDigits(Len(value)) \o value

Cut(text, n) == SubSeq(text, 1, IF Len(text) < n THEN Len(text) ELSE n)

\* generate_pix_payload up to "6304", with an amount field of `amount` (empty
\* for none).  The template 26 holds the key after the 14 characters of
\* br.gov.bcb.pix.  Which characters the texts are made of is left out: the name
\* and the city are the ones _strip_accents has made, and no text has a character
\* on which the checksum's encode("ascii") raises.
generate_pix_payload(pix_key, merchant_name, merchant_city, amount, txid) ==
    LET mai == _tlv(0, Text(14)) \o _tlv(1, pix_key)
    IN  _tlv(0, <<0, 1>>) \o _tlv(26, mai) \o _tlv(52, <<0, 0, 0, 0>>) \o _tlv(53, <<9, 8, 6>>)
        \o (IF amount = <<>> THEN <<>> ELSE _tlv(54, amount))
        \o _tlv(58, Text(2)) \o _tlv(59, Cut(merchant_name, 25))
        \o _tlv(60, Cut(merchant_city, 15)) \o _tlv(62, _tlv(5, txid))
        \o <<6, 3, 0, 4>>

-----------------------------------------------------------------------------
(* What a reader does.                                                      *)

\* No field: tags have two digits.
NoField == [tag |-> 100, value |-> <<>>]

\* The length that the header at place i says.
Length(s, i) == 10 * s[i + 2] + s[i + 3]

\* There is a header at place i, and the field fits.
HasField(s, i) ==
    /\ i + 3 <= Len(s) /\ Letter \notin {s[j] : j \in i..i + 3}
    /\ i + 3 + Length(s, i) <= Len(s)

FieldAt(s, i) ==
    [tag |-> 10 * s[i] + s[i + 1], value |-> SubSeq(s, i + 4, i + 3 + Length(s, i))]

\* The fields read one after the other from every place, none at the end; one
\* that does not fit ends the reading.
Reading(s) ==
    LET read[i \in 1..Len(s) + 1] ==
          IF i = Len(s) + 1 THEN <<>>
          ELSE IF ~ HasField(s, i) THEN <<NoField>>
          ELSE <<FieldAt(s, i)>> \o read[i + 4 + Length(s, i)]
    IN  read

Fields(s) == Reading(s)[1]

\* A reader takes the payload of a key, names and an amount of the given lengths
\* apart into the fields that were put in.
Readable(k, n, a) ==
    LET payload == generate_pix_payload(Text(k), Text(n), Text(n), Text(a), Text(3))
        fields == Fields(SubSeq(payload, 1, Len(payload) - 4))
        value(tag) == {f.value : f \in {g \in Range(fields) : g.tag = tag}}
        inner(tag) == UNION {Range(Fields(v)) : v \in value(tag)}
    IN  /\ NoField \notin Range(fields)
        /\ [tag |-> 1, value |-> Text(k)] \in inner(26)
        /\ value(59) = {Text(IF n > 25 THEN 25 ELSE n)}
        /\ value(60) = {Text(IF n > 15 THEN 15 ELSE n)}
        /\ value(54) = IF a = 0 THEN {} ELSE {Text(a)}
        /\ [tag |-> 5, value |-> Text(3)] \in inner(62)
=============================================================================
