------------------------------ MODULE BillLines ------------------------------
(***************************************************************************)
(* The lines of a bill: how generate_bill makes them from the items of a   *)
(* billing, and how the edit form of the web application and the prompts   *)
(* of the CLI change them.  A line or an item is stored with its place in  *)
(* the list (sort_order) and read back in the order of those numbers.      *)
(*                                                                         *)
(* A description is a name or Blank, a text of an amount is one of Amounts *)
(* or Blank.                                                               *)
(***************************************************************************)
EXTENDS Amounts, Sequences, SequencesExt

CONSTANTS
    Descriptions, \* what an item or a line is called
    Blank,        \* a field left empty
    MaxLines      \* bound on the lines looked at in the properties

ASSUME BillLinesAssumption ==
    Blank \notin Descriptions \cup Nat \cup Texts /\ MaxLines \in Nat

\* The numbers of S from the smallest on (SetToSortSeq(S, <), in a form that can
\* be reasoned about).
InOrder(S) ==
    CHOOSE p \in [1..Cardinality(S) -> S] : \A i, j \in DOMAIN p : i < j => p[i] < p[j]

BillLine(desc, type, amount) == [desc |-> desc, type |-> type, amount |-> amount]

-----------------------------------------------------------------------------
(* BillService.generate_bill.                                               *)

VariableIds(list) == {item.id : item \in {x \in Range(list) : x.type = "variable"}}

\* Mutant: amounts are matched by their place among the variable items.
generate_bill_by_place(list, amounts, extras) ==
    LET ids == InOrder(DOMAIN amounts)
        place(i) == Len(SelectSeq(SubSeq(list, 1, i), LAMBDA x : x.type = "variable"))
        amount(i) == IF list[i].type = "fixed" THEN list[i].amount
                     ELSE IF place(i) <= Len(ids) THEN amounts[ids[place(i)]] ELSE 0
    IN  [i \in DOMAIN list |-> BillLine(list[i].desc, list[i].type, amount(i))] \o extras

\* A line per item, then the extras.  amounts is variable_amounts; an item it
\* does not name is charged nothing.
generate_bill(list, amounts, extras) ==
    LET amount(item) ==
            IF item.type = "fixed" THEN item.amount
            ELSE IF item.id \in DOMAIN amounts THEN amounts[item.id] ELSE 0
    IN  [i \in DOMAIN list |-> BillLine(list[i].desc, list[i].type, amount(list[i]))] \o extras

-----------------------------------------------------------------------------
(* SQLAlchemyBillRepository: the rows and the order they come back in.      *)

\* Mutant: a row keeps the number its line came with.
Stored_as_given(list) == list

\* The line items are numbered as they are inserted.
Stored(list) == [i \in DOMAIN list |-> [list[i] EXCEPT !.sort = i - 1]]

\* ORDER BY sort_order: any of the orders that agree with the numbers.
Loaded(rows) ==
    LET orders == {p \in [DOMAIN rows -> DOMAIN rows] :
                      /\ IsInjective(p)
                      /\ \A i, j \in DOMAIN rows : i < j => rows[p[i]].sort <= rows[p[j]].sort}
        line(r) == BillLine(r.desc, r.type, r.amount)
    IN  {[i \in DOMAIN rows |-> line(rows[p[i]])] : p \in orders}

-----------------------------------------------------------------------------
(* web/forms.py and web/routes/bill.py.                                     *)

\* Mutant: the type is in the disabled select only, which is not sent.
FormOf_disabled(list) ==
    [total |-> Len(list),
     rows |-> [i \in 0..Len(list) - 1 |->
                  [list[i + 1] EXCEPT !.type = "fixed",
                                      !.amount = format_brl_input(list[i + 1].amount)]]]

\* The edit form of a bill as it is shown: TOTAL_FORMS and a row per line.
FormOf(list) ==
    [total |-> Len(list),
     rows |-> [i \in 0..Len(list) - 1 |->
                  [list[i + 1] EXCEPT !.amount = format_brl_input(list[i + 1].amount)]]]

\* The amount a text stands for, or Blank.
Centavos(text) == IF text = Blank THEN Blank ELSE parse_brl(text, Blank)

\* parse_brl(...) or 0
OrZero(text) == IF Centavos(text) = Blank THEN 0 ELSE Centavos(text)

\* The rows below TOTAL_FORMS that the form still has, in their order: a row
\* removed in the browser leaves a hole.
parse_formset(form) ==
    LET here == {i \in DOMAIN form.rows : i < form.total}
        places == InOrder(here)
    IN  [k \in DOMAIN places |-> form.rows[places[k]]]

\* The lines bill_edit hands to update_bill: a row is numbered by its place in
\* the form, those without a description included, an extra by the lines so far.
bill_edit(form, extras) ==
    LET rows == parse_formset(form)
        numbered == [i \in DOMAIN rows |->
                        [desc |-> rows[i].desc, type |-> rows[i].type,
                         amount |-> OrZero(rows[i].amount), sort |-> i - 1]]
        kept == InOrder({i \in DOMAIN rows : rows[i].desc # Blank})
        added == parse_formset(extras)
        valid == InOrder({i \in DOMAIN added : /\ added[i].desc # Blank
                                              /\ Centavos(added[i].amount) # Blank
                                              /\ OrZero(added[i].amount) > 0})
    IN  [k \in DOMAIN kept |-> numbered[kept[k]]]
        \o [k \in DOMAIN valid |->
               [desc |-> added[valid[k]].desc, type |-> "extra",
                amount |-> OrZero(added[valid[k]].amount), sort |-> Len(kept) + k - 1]]

-----------------------------------------------------------------------------
(* rentivo/cli/bill_menu.py                                                 *)

\* The lines edit_bill_menu makes of the answers: the text of every amount, for
\* an extra whether it is kept, edited to that text or removed, and the new
\* extras after them.  The answers are the ones the prompts end with: each asks
\* again until its text is an amount, which for an extra is more than 0.
edit_bill_menu(list, answers, extras) ==
    LET extra(i) == list[i].type = "extra"
        amount(i) == IF extra(i) /\ answers[i].action = "Manter" THEN list[i].amount
                     ELSE Centavos(answers[i].text)
        places == InOrder({i \in DOMAIN list : ~ extra(i)})
                  \o InOrder({i \in DOMAIN list : extra(i) /\ answers[i].action # "Remover"})
        line(i) == BillLine(list[i].desc, list[i].type, amount(i))
        lines == [k \in DOMAIN places |-> line(places[k])] \o extras
    IN  [k \in DOMAIN lines |->
            [desc |-> lines[k].desc, type |-> lines[k].type, amount |-> lines[k].amount,
             sort |-> k - 1]]

-----------------------------------------------------------------------------
(* What the conversions must do with one input.                             *)

Lists(S, n) == UNION {[1..k -> S] : k \in 0..n}

NoExtras == [total |-> 0, rows |-> <<>>]

\* The prompts answered with their defaults, an extra kept or edited to the
\* amount it has.
Defaults(list) ==
    {[i \in DOMAIN list |-> [action |-> chosen[i], text |-> _format_amount_input(list[i].amount)]] :
        chosen \in [DOMAIN list -> {"Manter", "Editar valor"}]}

\* The bill opened in either editor and sent back as it is.
Untouched(list) ==
    /\ Loaded(Stored(bill_edit(FormOf(list), NoExtras))) = {list}
    /\ \A answers \in Defaults(list) :
          Loaded(Stored(edit_bill_menu(list, answers, <<>>))) = {list}

\* The rows of a form that have a description, in their order, and after them
\* the new extras that also have an amount.
FollowsTheForm(form, extras) ==
    LET described(f) == {i \in DOMAIN f.rows : f.rows[i].desc # Blank}
        here == InOrder(described(form))
        new == InOrder({i \in described(extras) : extras.rows[i].amount # Blank})
        line(row, type) == BillLine(row.desc, type, OrZero(row.amount))
    IN  Loaded(Stored(bill_edit(form, extras))) =
           {[k \in DOMAIN here |-> line(form.rows[here[k]], form.rows[here[k]].type)]
            \o [k \in DOMAIN new |-> line(extras.rows[new[k]], "extra")]}
=============================================================================
