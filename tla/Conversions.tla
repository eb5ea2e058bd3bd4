----------------------------- MODULE Conversions -----------------------------
(***************************************************************************)
(* The inputs of the conversions that bills and PDFs pass through, and     *)
(* what must become of each.  An input is a record, of the kind `of`.      *)
(***************************************************************************)
EXTENDS Billings, Pix

-----------------------------------------------------------------------------
(* The inputs.                                                              *)

\* Amounts of centavos up to a quarter of what a float can count; above half of
\* that some do not survive.
Countable == 0..Power[Bits - 2]

\* The lines a bill may have: generate_bill and both edits put the extras last.
LineTypes == {"fixed", "variable", "extra"}

Lined(amounts) == [desc: Descriptions, type: LineTypes, amount: amounts]

ExtrasLast(list) ==
    \A i, j \in DOMAIN list : list[i].type = "extra" /\ i < j => list[j].type = "extra"

\* What a field of an amount may hold in the forms looked at: nothing, or a
\* positive amount as the program writes it.
AmountFields == {Blank} \cup {format_brl_input(c) : c \in Countable \ {0}}

FormRow(types, fields) == [desc: Descriptions \cup {Blank}, type: types, amount: fields]

\* Some of the rows that the form had when it was shown.
IsForm(form, fields) ==
    /\ form.total \in Nat /\ DOMAIN form.rows \subseteq 0..form.total - 1
    /\ form.rows \in [DOMAIN form.rows -> FormRow(LineTypes, fields)]

\* A PIX key is in a column of type TEXT.
LongestKey == 65535

ASSUME InputsAssumption ==
    \A i \in Inputs :
       /\ i.of = "amount" => i.centavos \in Countable
       /\ i.of = "bill" => i.lines \in Seq(Lined(Countable)) /\ ExtrasLast(i.lines)
       /\ i.of = "form" => IsForm(i.rows, AmountFields) /\ IsForm(i.extras, AmountFields)
       /\ i.of = "payload" => i.key \in 0..LongestKey /\ i.name \in Nat /\ i.amount \in 0..99

\* Those of the runs.
SampleAmounts == {[of |-> "amount", centavos |-> c] : c \in Countable}

SampleBills ==
    {[of |-> "bill", lines |-> list] :
        list \in {l \in Lists(Lined({0, 29, Power[Bits - 2] - 1}), MaxLines) : ExtrasLast(l)}}

\* The forms of up to MaxLines rows, any of them removed or without a
\* description.
Forms ==
    UNION {[total: {n}, rows: UNION {[R -> FormRow({"fixed"}, {Blank, format_brl_input(29)})] :
                                        R \in SUBSET (0..n - 1)}] : n \in 0..MaxLines}

SampleForms == [of: {"form"}, rows: Forms, extras: {f \in Forms : f.total <= 1}]

\* Lengths of keys on both sides of the limit, of names around those the code
\* cuts at, of amounts with and without cents.
SamplePayloads == [of: {"payload"}, key: 1..80, name: {1, 15, 16, 25, 26, 40}, amount: {0, 4, 9}]

Is(kind) == input # None /\ input.of = kind

-----------------------------------------------------------------------------
(* Properties.                                                              *)

\* An amount comes back unchanged from the fields of a form and from the prompts
\* that show it (format_brl_input, parse_brl), through texts and two roundings.
AmountsSurvive == Is("amount") => Survives(input.centavos)

\* Who opens the editor of a bill and sends it back as it is changes nothing:
\* its lines, their order, types and amounts survive the form of the web
\* application and the prompts of the CLI, through texts, floats and numbers.
UntouchedEditChangesNothing == Is("bill") => Untouched(input.lines)

\* The lines come back in the order of the form, the new extras after them and
\* every row that has a description among them, whichever rows of either table
\* were removed or left empty before it was sent.
EditedLinesFollowTheForm == Is("form") => FollowsTheForm(input.rows, input.extras)

\* A bank's reader finds in the payload exactly the key, the names cut to their
\* limits, the amount and the identifier, as long as the key has no more than
\* 77 characters; a longer one, which nothing in the program refuses, makes the
\* length of the account field three digits and the payload unreadable.
PayloadsAreReadable ==
    Is("payload") => (Readable(input.key, input.name, input.amount) <=> input.key <= 77)
=============================================================================
