------------------------------- MODULE Amounts -------------------------------
(***************************************************************************)
(* Amounts of money between a number of centavos, the float it goes        *)
(* through and the text of a form field (rentivo/models/__init__.py).      *)
(*                                                                         *)
(* A float has Bits significant bits (53 in the program) and rounds half   *)
(* to even.  A text is its digits, and what separates them: group is the   *)
(* mark between groups of digits (one group is the number Group, 1000 in   *)
(* the program) and mark the one before the cents, "" for none.            *)
(***************************************************************************)
EXTENDS Integers

CONSTANTS Bits, Group

ASSUME AmountsAssumption == Bits \in Nat \ 0..2 /\ Group \in Nat \ {0, 1}

-----------------------------------------------------------------------------
(* Floats: the number m / 2^k.                                              *)

\* 2^k
Power[k \in Nat] == IF k = 0 THEN 1 ELSE 2 * Power[k - 1]

\* The quotient num / den as an integer, ties to the even one.
RoundHalfEven(num, den) ==
    LET q == num \div den
        r == num % den
    IN  IF 2 * r > den \/ (2 * r = den /\ q % 2 = 1) THEN q + 1 ELSE q

\* The float nearest to num / den, below 2^Bits: k is the least number of places
\* after the point with which the quotient has Bits bits.
Float(num, den) ==
    IF num = 0 THEN [m |-> 0, k |-> 0]
    ELSE LET fits(k) == num * Power[k] >= den * Power[Bits - 1]
             k == CHOOSE k \in 0..3 * Bits : fits(k) /\ \A j \in 0..k - 1 : ~ fits(j)
         IN  [m |-> RoundHalfEven(num * Power[k], den), k |-> k]

\* int(round(f))
Rounded(f) == RoundHalfEven(f.m, Power[f.k])

-----------------------------------------------------------------------------
(* Formatting and parsing.                                                  *)

Texts == [reais: Nat, cents: 0..99, group: {"", ",", "."}, mark: {"", ",", "."}]

\* f"{reais:.2f}": the decimal of two places nearest to the float.
TwoPlaces(reais) ==
    LET cents == RoundHalfEven(100 * reais.m, Power[reais.k])
    IN  [reais |-> cents \div 100, cents |-> cents % 100, group |-> "", mark |-> "."]

\* f"{reais:,.2f}"
Grouped(text) == [text EXCEPT !.group = IF text.reais >= Group THEN "," ELSE ""]

\* .replace(",", "X").replace(".", ",").replace("X", ".")
Swapped(text) ==
    LET swap == [c \in {"", ",", "."} |-> CASE c = "," -> "." [] c = "." -> "," [] OTHER -> ""]
    IN  [text EXCEPT !.group = swap[@], !.mark = swap[@]]

\* The text a form shows for an amount: 285000 -> "2.850,00".
format_brl_input(centavos) == Swapped(Grouped(TwoPlaces(Float(centavos, 100))))

\* The text a prompt of the CLI shows: 8550 -> "85.50".
_format_amount_input(centavos) == TwoPlaces(Float(centavos, 100))

\* In a text with a comma the points go, and every comma becomes a point.
Unmarked(text) ==
    IF "," \in {text.group, text.mark}
    THEN [text EXCEPT !.group = IF @ = "," THEN "." ELSE "",
                      !.mark = IF @ = "," THEN "." ELSE ""]
    ELSE text

\* float(text): one point at most, whatever it was meant to be.
ToFloat(text) ==
    CASE text.group = "." /\ text.mark = "" -> Float(text.reais, Group)
      [] text.group = "" /\ text.mark = "." -> Float(100 * text.reais + text.cents, 100)
      [] OTHER                              -> Float(text.reais, 1)

\* The float of a text without commas, times 100: * rounds too.
Times100(text) == Float(100 * ToFloat(text).m, Power[ToFloat(text).k])

\* float raises on two points.
Unreadable(text) == text.group = "." /\ text.mark = "."

\* Mutant: int without round.
parse_brl_cut(text, invalid) ==
    LET plain == Unmarked(text)
        centavos == Times100(plain)
    IN  IF Unreadable(plain) THEN invalid ELSE centavos.m \div Power[centavos.k]

\* int(round(float(text) * 100)); invalid if float raises.
parse_brl(text, invalid) ==
    LET plain == Unmarked(text)
    IN  IF Unreadable(plain) THEN invalid ELSE Rounded(Times100(plain))

\* The amount comes back unchanged from the form field and from the prompt that
\* show it.
Survives(centavos) ==
    /\ parse_brl(format_brl_input(centavos), -1) = centavos
    /\ parse_brl(_format_amount_input(centavos), -1) = centavos
=============================================================================
