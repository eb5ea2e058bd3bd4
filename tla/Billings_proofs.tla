--------------------------- MODULE Billings_proofs ---------------------------
(***************************************************************************)
(* The properties of Billings, for any names, amounts, extra lines and     *)
(* bounds.  They rest on what an id says of its item: an item in the       *)
(* table, in a snapshot, in memory or in a tab has an id below the counter *)
(* and, since every update gives new ids, two items with one id are one    *)
(* item.                                                                   *)
(***************************************************************************)
EXTENDS Billings, SequenceTheorems, TLAPS

\* The items of a billing as they were stored once, before the counter was k.
Stock(s, k) ==
    /\ s \in Seq(Item) /\ Len(s) \in 1..MaxItems
    /\ \A i \in 1..Len(s) : s[i].id \in 1..k - 1

\* An id that is in both names the same item in both.
Agree(s, t) == \A i \in 1..Len(s), j \in 1..Len(t) : s[i].id = t[j].id => s[i] = t[j]

Table ==
    /\ Stock(items, nextId) /\ nextId \in 1..MaxIds + 1 /\ live \in BOOLEAN
    /\ \A i, j \in 1..Len(items) : items[i].id = items[j].id => i = j

History ==
    /\ fresh \in [Editors -> BOOLEAN] /\ dirty \in BOOLEAN
    /\ informed \in [Editors -> BOOLEAN]

\* Where each editor can be, and what it holds in memory there.
Memory ==
    /\ pc \in [Editors -> {"idle", "update", "reread", "log", "billing"}]
    /\ pc["web"] # "billing" /\ pc["cli"] # "update"
    /\ mem \in [Editors -> Seq(Item)]
    /\ previous \in [Editors -> Seq(Item)] /\ replaced \in [Editors -> Seq(Item)]
    /\ pc["cli"] # "idle" => Stock(mem["cli"], nextId)

Snapshot == seen # None => Stock(seen.items, nextId) /\ seen.live \in BOOLEAN

Tab ==
    tab # None =>
        /\ DOMAIN tab = {"shown", "amounts", "loaded"}
        /\ Stock(tab.shown, nextId) /\ Agree(tab.shown, items)
        /\ tab.amounts \in {<<>>} \cup [VariableIds(tab.shown) -> Typed]
        /\ tab.loaded # None =>
              /\ Stock(tab.loaded, nextId) /\ Agree(tab.shown, tab.loaded)
              /\ tab.amounts \in [VariableIds(tab.shown) -> Typed]

Charged == charged # None => charged \in Seq(Line)

\* The memory of the CLI is the table's content, unless a cancelled edit is in
\* it or somebody else updated.
CliKnows ==
    pc["cli"] \in {"billing", "log"} /\ fresh["cli"] /\ ~ dirty => mem["cli"] = items

\* What the audit entry will say was replaced.
Informed ==
    /\ pc["web"] = "update" /\ fresh["web"] => previous["web"] = items
    /\ \A a \in Editors : pc[a] \in {"reread", "log"} /\ informed[a] => previous[a] = replaced[a]

IInv ==
    /\ Table /\ History /\ Memory /\ Snapshot /\ Tab /\ Charged
    /\ CliKnows /\ Informed

-----------------------------------------------------------------------------
(* Items and lines.                                                         *)

\* What has the fields of an item is an item once it has an id.
LEMMA WithIdType ==
  ASSUME NEW e, e.desc \in ItemNames, e.type \in Kinds, e.amount \in Typed,
         NEW i \in Nat \cup {None}
  PROVE  WithId(e, i) \in Item
  BY DEF WithId, Item

\* What is entered, and an item, has the fields of an item.
LEMMA EnteredFields ==
  ASSUME NEW e \in Entered \cup Item
  PROVE  e.desc \in ItemNames /\ e.type \in Kinds /\ e.amount \in Typed
  BY BillingsAssumption DEF Entered, Item, Kinds

\* Items that were stored stay below the counter.
LEMMA StockStays ==
  ASSUME NEW s, NEW k \in Int, NEW l \in Int, Stock(s, k), k <= l
  PROVE  Stock(s, l)
  BY DEF Stock

\* Items of stock have ids, which are numbers.
LEMMA StockIds ==
  ASSUME NEW s, NEW k \in Int, Stock(s, k)
  PROVE  /\ \A i \in 1..Len(s) : s[i] \in Item /\ s[i].id \in Nat
         /\ VariableIds(s) \subseteq Nat /\ None \notin VariableIds(s)
  <1>1. \A i \in 1..Len(s) : s[i] \in Item /\ s[i].id \in Nat
    BY DEF Stock
  <1>2. DOMAIN s = 1..Len(s)
    BY DEF Stock
  <1>3. VariableIds(s) \subseteq Nat
    BY <1>1, <1>2 DEF VariableIds, Range
  <1>4. QED
    BY <1>1, <1>3, BillingsAssumption

\* generate_bill makes a line of every item, and then come the extras.
LEMMA LinesOfItems ==
  ASSUME NEW s \in Seq(Item), NEW amounts, NEW extras \in Seq(Line),
         \A k \in DOMAIN amounts : amounts[k] \in Typed
  PROVE  /\ generate_bill(s, amounts, extras) \in Seq(Line)
         /\ \A i \in 1..Len(s) :
               generate_bill(s, amounts, extras)[i] =
                  BillLine(s[i].desc, s[i].type,
                           IF s[i].type = "fixed" THEN s[i].amount
                           ELSE IF s[i].id \in DOMAIN amounts THEN amounts[s[i].id] ELSE 0)
  <1> DEFINE amount(item) == IF item.type = "fixed" THEN item.amount
                             ELSE IF item.id \in DOMAIN amounts THEN amounts[item.id] ELSE 0
             lines == [i \in 1..Len(s) |-> BillLine(s[i].desc, s[i].type, amount(s[i]))]
  <1>1. DOMAIN s = 1..Len(s) /\ Len(s) \in Nat
    OBVIOUS
  <1>2. generate_bill(s, amounts, extras) = lines \o extras
    BY <1>1 DEF generate_bill
  <1>3. ASSUME NEW i \in 1..Len(s)
        PROVE  BillLine(s[i].desc, s[i].type, amount(s[i])) \in Line
    <2>1. s[i] \in Item
      OBVIOUS
    <2>2. amount(s[i]) \in Nat
      BY <2>1, BillingsAssumption DEF Item
    <2> HIDE DEF amount
    <2>3. QED
      BY <2>1, <2>2, BillingsAssumption DEF Item, Line, BillLine
  <1>4. lines \in Seq(Line) /\ Len(lines) = Len(s)
    <2> HIDE DEF amount
    <2>1. QED
      BY <1>1, <1>3
  <1>5. \A i \in 1..Len(s) : lines[i] = BillLine(s[i].desc, s[i].type, amount(s[i]))
    OBVIOUS
  <1> HIDE DEF lines, amount
  <1>6. lines \o extras \in Seq(Line) /\ \A i \in 1..Len(s) : (lines \o extras)[i] = lines[i]
    BY <1>1, <1>4, ConcatProperties
  <1>7. QED
    BY <1>2, <1>5, <1>6 DEF amount

-----------------------------------------------------------------------------
(* The updates.                                                             *)

\* An update gives every item an id of its own that nobody has seen.
LEMMA UpdateTable ==
  ASSUME IInv, NEW a \in Editors, NEW n \in 1..MaxItems, NEW new \in [1..n -> Entered \cup Item],
         update(a, new)
  PROVE  /\ Table' /\ UNCHANGED live
         /\ \A s : Stock(s, nextId) => Stock(s, nextId') /\ Agree(s, items')
         /\ pc' = [pc EXCEPT ![a] = "reread"]
         /\ replaced' = [replaced EXCEPT ![a] = items]
         /\ fresh' = [x \in Editors |-> x = a /\ fresh[x]]
         /\ informed' = [informed EXCEPT ![a] = fresh[a] /\ ~ (a = "cli" /\ dirty)]
  <1>1. n \in Nat /\ Len(new) = n
    BY BillingsAssumption
  <1>2. /\ nextId \in Nat /\ nextId >= 1 /\ nextId' = nextId + n /\ nextId' <= MaxIds + 1
        /\ items' = [i \in 1..n |-> WithId(new[i], nextId + i - 1)]
    BY <1>1, BillingsAssumption DEF update, IInv, Table
  <1>3. ASSUME NEW i \in 1..n
        PROVE  items'[i] \in Item /\ items'[i].id = nextId + i - 1
    <2>1. items'[i] = WithId(new[i], nextId + i - 1) /\ nextId + i - 1 \in Nat
      BY <1>1, <1>2
    <2>2. QED
      BY <1>1, <2>1, EnteredFields, WithIdType DEF WithId
  <1>4. items' \in Seq(Item) /\ Len(items') = n
    BY <1>1, <1>2, <1>3
  <1>5. Table'
    BY <1>1, <1>2, <1>3, <1>4, BillingsAssumption DEF IInv, Table, Stock, update
  <1>6. ASSUME NEW s, Stock(s, nextId) PROVE Stock(s, nextId') /\ Agree(s, items')
    <2>1. Stock(s, nextId')
      BY <1>1, <1>2, <1>6, StockStays
    <2>2. \A i \in 1..Len(s) : s[i].id < nextId /\ s[i].id \in Int
      BY <1>2, <1>6 DEF Stock
    <2>3. Agree(s, items')
      BY <1>1, <1>2, <1>3, <1>4, <2>2 DEF Agree
    <2>4. QED
      BY <2>1, <2>3
  <1>7. QED
    BY <1>5, <1>6 DEF update

\* An update preserves the invariant if its editor, when undisturbed, takes the
\* stored rows for the previous state.
LEMMA UpdateInv ==
  ASSUME IInv, NEW a \in Editors, NEW n \in 1..MaxItems, NEW new \in [1..n -> Entered \cup Item],
         update(a, new), UNCHANGED <<mem, dirty, tab>>, charged' = None, seen' \in {seen, None},
         pc[a] # "idle", previous' \in [Editors -> Seq(Item)],
         \A x \in Editors \ {a} : previous'[x] = previous[x],
         fresh[a] /\ ~ (a = "cli" /\ dirty) => previous'[a] = items
  PROVE  IInv'
  <1>1. /\ Table' /\ UNCHANGED live
        /\ \A s : Stock(s, nextId) => Stock(s, nextId') /\ Agree(s, items')
        /\ pc' = [pc EXCEPT ![a] = "reread"]
        /\ replaced' = [replaced EXCEPT ![a] = items]
        /\ fresh' = [x \in Editors |-> x = a /\ fresh[x]]
        /\ informed' = [informed EXCEPT ![a] = fresh[a] /\ ~ (a = "cli" /\ dirty)]
    BY UpdateTable
  <1>2. History'
    BY <1>1 DEF IInv, History
  <1>3. Memory'
    <2>1. items \in Seq(Item)
      BY DEF IInv, Table, Stock
    <2>2. pc["cli"] # "idle" => Stock(mem["cli"], nextId')
      BY <1>1 DEF IInv, Memory
    <2>3. QED
      BY <1>1, <2>1, <2>2 DEF IInv, Memory, Editors
  <1>4. Snapshot'
    BY <1>1 DEF IInv, Snapshot
  <1>5. Tab'
    BY <1>1 DEF IInv, Tab
  <1>6. Charged' /\ CliKnows'
    BY <1>1 DEF Charged, CliKnows, IInv, Memory, Editors
  <1>7. Informed'
    <2>1. ASSUME NEW x \in Editors, pc'[x] \in {"reread", "log"}, informed'[x]
          PROVE  previous'[x] = replaced'[x]
      <3>1. CASE x = a
        BY <1>1, <2>1, <3>1 DEF IInv, Memory, History
      <3>2. CASE x # a
        BY <1>1, <2>1, <3>2 DEF IInv, Memory, History, Informed
      <3>3. QED
        BY <3>1, <3>2
    <2>2. ~ (pc'["web"] = "update" /\ fresh'["web"])
      BY <1>1 DEF IInv, Memory, Editors
    <2>3. QED
      BY <2>1, <2>2 DEF Informed
  <1>8. QED
    BY <1>1, <1>2, <1>3, <1>4, <1>5, <1>6, <1>7 DEF IInv

\* The web's edit: the form replaces the items.
LEMMA billing_edit_updateInv ==
  ASSUME IInv, NEW a \in Editors, billing_edit_update(a)
  PROVE  IInv'
  <1>1. PICK n \in 1..MaxItems : \E form \in [1..n -> Entered] : update(a, form)
    BY DEF billing_edit_update
  <1>2. PICK form \in [1..n -> Entered] : update(a, form)
    BY <1>1
  <1>3. form \in [1..n -> Entered \cup Item]
    OBVIOUS
  <1>4. pc[a] = "update" /\ a = "web"
    BY DEF billing_edit_update, IInv, Memory, Editors
  <1>5. previous' \in [Editors -> Seq(Item)] /\ previous' = previous
        /\ (fresh[a] => previous[a] = items)
    BY <1>4 DEF billing_edit_update, IInv, Memory, Informed
  <1>6. UNCHANGED <<mem, dirty, tab, seen>> /\ charged' = None
    BY DEF billing_edit_update, Quietly
  <1>7. QED
    BY <1>2, <1>3, <1>4, <1>5, <1>6, UpdateInv

\* The CLI's changes: it writes what it holds, changed.
LEMMA ChangeInv ==
  ASSUME IInv, NEW a \in Editors, InMenu(a), NEW n \in 1..MaxItems,
         NEW new \in [1..n -> Entered \cup Item], Change(a, new, mem[a])
  PROVE  IInv'
  <1>1. pc[a] = "billing" /\ a = "cli" /\ mem[a] \in Seq(Item)
    BY DEF InMenu, IInv, Memory
  <1>2. previous' = [previous EXCEPT ![a] = mem[a]] /\ update(a, new)
        /\ UNCHANGED <<mem, dirty, tab>> /\ charged' = None /\ seen' = None
    BY DEF Change, Quietly
  <1>3. /\ previous' \in [Editors -> Seq(Item)]
        /\ \A x \in Editors \ {a} : previous'[x] = previous[x]
        /\ previous'[a] = mem[a]
    BY <1>1, <1>2 DEF IInv, Memory
  <1>4. fresh[a] /\ ~ (a = "cli" /\ dirty) => previous'[a] = items
    BY <1>1, <1>3 DEF IInv, CliKnows
  <1>5. QED
    BY <1>1, <1>2, <1>3, <1>4, UpdateInv

\* A sequence of items is what an update takes.
LEMMA ItemSequence ==
  ASSUME NEW s \in Seq(Item)
  PROVE  s \in [1..Len(s) -> Entered \cup Item]
  OBVIOUS

LEMMA MenuChangesInv ==
  ASSUME IInv, NEW a \in Editors, _edit_pix_key(a) \/ _edit_item(a) \/ _add_item(a) \/ _remove_item(a)
  PROVE  IInv'
  <1> DEFINE m == mem[a]
             T == Entered \cup Item
  <1>1. InMenu(a)
    BY DEF _edit_pix_key, _edit_item, _add_item, _remove_item
  <1>2. m \in Seq(Item) /\ Len(m) \in 1..MaxItems
    BY <1>1 DEF InMenu, IInv, Memory, Stock
  <1>3. \A i \in 1..Len(m) : m[i] \in Item /\ m[i].id \in Nat \cup {None}
    <2>1. \A x \in Item : x.id \in Nat \cup {None}
      BY DEF Item
    <2>2. QED
      BY <1>2, <2>1
  <1>4. \A e \in Prompted, i \in Nat \cup {None} : WithId(e, i) \in Item
    BY EnteredFields, WithIdType DEF Prompted
  <1>5. Len(m) \in Nat /\ m \in [1..Len(m) -> T]
    BY <1>2
  <1>6. CASE _edit_pix_key(a)
    BY <1>1, <1>2, <1>5, <1>6, ChangeInv DEF _edit_pix_key
  <1>7. CASE _edit_item(a)
    <2>1. PICK i \in 1..Len(m), e \in Prompted : Change(a, [m EXCEPT ![i] = WithId(e, @.id)], m)
      BY <1>7 DEF _edit_item
    <2>2. [m EXCEPT ![i] = WithId(e, @.id)] \in [1..Len(m) -> T]
      BY <1>3, <1>4, <1>5
    <2>3. QED
      BY <1>1, <1>2, <2>1, <2>2, ChangeInv
  <1>8. CASE _add_item(a)
    <2>1. PICK e \in Prompted : Change(a, Append(m, WithId(e, None)), m)
      BY <1>8 DEF _add_item
    <2>2. /\ Append(m, WithId(e, None)) \in [1..Len(m) + 1 -> T]
          /\ Len(m) + 1 \in 1..MaxItems
      <3>1. WithId(e, None) \in Item
        BY <1>4
      <3>2. Len(m) < MaxItems
        BY <1>8 DEF _add_item
      <3> HIDE DEF m
      <3>3. Append(m, WithId(e, None)) \in Seq(Item)
            /\ Len(Append(m, WithId(e, None))) = Len(m) + 1
        BY <1>2, <3>1
      <3>4. Len(m) + 1 \in 1..MaxItems
        BY <1>2, <3>2, BillingsAssumption
      <3>5. QED
        BY <3>3, <3>4, ItemSequence
    <2>3. QED
      BY <1>1, <2>1, <2>2, ChangeInv
  <1>9. CASE _remove_item(a)
    <2>1. PICK i \in 1..Len(m) : Change(a, RemoveAt(m, i), m)
      BY <1>9 DEF _remove_item
    <2>2. /\ RemoveAt(m, i) \in [1..Len(m) - 1 -> T]
          /\ Len(m) - 1 \in 1..MaxItems
      <3>1. Len(m) > 1
        BY <1>9 DEF _remove_item
      <3> HIDE DEF m
      <3> DEFINE s == SubSeq(m, 1, i - 1)
                 t == SubSeq(m, i + 1, Len(m))
      <3>2. s \in Seq(Item) /\ Len(s) = i - 1 /\ t \in Seq(Item) /\ Len(t) = Len(m) - i
        BY <1>2, <3>1, SubSeqProperties
      <3>3. RemoveAt(m, i) = s \o t
        BY DEF RemoveAt
      <3> HIDE DEF s, t
      <3>4. s \o t \in Seq(Item) /\ Len(s \o t) = Len(s) + Len(t)
        BY <3>2, ConcatProperties
      <3>5. Len(s) + Len(t) = Len(m) - 1 /\ Len(m) - 1 \in 1..MaxItems
        BY <1>2, <3>1, <3>2, BillingsAssumption
      <3>6. QED
        BY <3>3, <3>4, <3>5, ItemSequence
    <2>3. QED
      BY <1>1, <2>1, <2>2, ChangeInv
  <1>10. QED
    BY <1>6, <1>7, <1>8, <1>9

-----------------------------------------------------------------------------
(* The other steps leave the items and their ids alone.                     *)

\* What a connection may see after a step that leaves the items alone.
Sight == seen' \in {seen, None} \/ \E b \in BOOLEAN : seen' = [items |-> items, live |-> b]

LEMMA SameItems ==
  ASSUME IInv, UNCHANGED <<items, nextId>>, live' \in BOOLEAN, Sight
  PROVE  Table' /\ Snapshot'
  BY DEF IInv, Table, Snapshot, Sight

\* Who ends forgets everything.
LEMMA EndsInv ==
  ASSUME IInv, NEW a \in Editors, Ends(a), UNCHANGED <<items, nextId, tab>>, live' \in BOOLEAN,
         Sight, Charged'
  PROVE  IInv'
  <1>1. Table' /\ Snapshot'
    BY SameItems
  <1>2. <<>> \in Seq(Item)
    OBVIOUS
  <1>3. History' /\ Memory' /\ Tab'
    BY <1>2 DEF Ends, IInv, History, Memory, Tab, Editors
  <1>4. CliKnows' /\ Informed'
    BY DEF Ends, IInv, History, Memory, CliKnows, Informed, Editors
  <1>5. QED
    BY <1>1, <1>3, <1>4 DEF IInv

LEMMA EndingsInv ==
  ASSUME IInv, NEW a \in Editors, RetrieveFails(a) \/ Fail(a) \/ excluir_cobranca(a) \/ voltar(a)
  PROVE  IInv'
  <1>1. Ends(a) /\ UNCHANGED <<items, nextId, tab>> /\ Charged'
    BY DEF RetrieveFails, Fail, excluir_cobranca, voltar, Quietly, table, Charged
  <1>2. live' \in BOOLEAN
    BY DEF RetrieveFails, Fail, excluir_cobranca, voltar, table, IInv, Table
  <1>3. Sight
    BY DEF RetrieveFails, Fail, excluir_cobranca, voltar, Sight
  <1>4. QED
    BY <1>1, <1>2, <1>3, EndsInv

LEMMA RereadInv ==
  ASSUME IInv, NEW a \in Editors, Reread(a)
  PROVE  IInv'
  <1>1. Table' /\ Snapshot'
    BY SameItems DEF Reread, table, Sight, IInv, Table
  <1>2. History' /\ Memory' /\ Tab' /\ Charged'
    BY DEF Reread, Quietly, table, IInv, Table, History, Memory, Tab, Charged, Stock, Editors
  <1>3. CliKnows' /\ Informed'
    BY DEF Reread, table, IInv, History, Memory, CliKnows, Informed, Editors
  <1>4. QED
    BY <1>1, <1>2, <1>3 DEF IInv

LEMMA safe_logInv ==
  ASSUME IInv, NEW a \in Editors, safe_log(a)
  PROVE  IInv'
  <1>1. /\ UNCHANGED <<items, nextId, tab, live>> /\ charged' = None /\ live \in BOOLEAN
        /\ pc[a] = "log"
    BY DEF safe_log, table, IInv, Table
  <1>2. Sight
    BY <1>1 DEF safe_log, Sight
  <1>3. CASE a = "web"
    BY <1>1, <1>2, <1>3, EndsInv DEF safe_log, Charged
  <1>4. CASE a = "cli"
    <2>1. /\ pc' = [pc EXCEPT ![a] = "billing"]
          /\ previous' = [previous EXCEPT ![a] = <<>>]
          /\ replaced' = [replaced EXCEPT ![a] = <<>>]
          /\ UNCHANGED <<mem, fresh, dirty, informed>>
      BY <1>4 DEF safe_log
    <2>2. Table' /\ Snapshot' /\ Charged'
      BY <1>1, <1>2, SameItems DEF Charged
    <2>3. <<>> \in Seq(Item)
      OBVIOUS
    <2>4. History' /\ Memory' /\ Tab'
      BY <1>1, <1>4, <2>1, <2>3 DEF IInv, History, Memory, Tab, Editors
    <2>5. CliKnows' /\ Informed'
      BY <1>1, <1>4, <2>1 DEF IInv, Memory, CliKnows, Informed, Editors
    <2>6. QED
      BY <2>2, <2>4, <2>5 DEF IInv
  <1>5. QED
    BY <1>3, <1>4 DEF Editors

LEMMA billing_editInv ==
  ASSUME IInv, NEW a \in Editors, billing_edit(a)
  PROVE  IInv'
  <1>1. Table' /\ Snapshot'
    BY SameItems DEF billing_edit, table, Sight, IInv, Table
  <1>2. History' /\ Memory' /\ Tab' /\ Charged'
    BY DEF billing_edit, Quietly, table, IInv, Table, History, Memory, Tab, Charged, Stock, Editors
  <1>3. CliKnows' /\ Informed'
    BY DEF billing_edit, table, IInv, History, Memory, CliKnows, Informed, Editors
  <1>4. QED
    BY <1>1, <1>2, <1>3 DEF IInv

LEMMA list_billings_menuInv ==
  ASSUME IInv, NEW a \in Editors, list_billings_menu(a)
  PROVE  IInv'
  <1>1. Stock(Seen.items, nextId) /\ Seen.live \in BOOLEAN
    BY DEF Seen, IInv, Table, Snapshot
  <1>2. /\ a = "cli" /\ UNCHANGED <<items, nextId, live, previous, replaced, dirty, informed, tab>>
        /\ pc' = [pc EXCEPT ![a] = "billing"] /\ mem' = [mem EXCEPT ![a] = Seen.items]
        /\ fresh' = [fresh EXCEPT ![a] = Seen.items = items] /\ charged' = None
        /\ Sight
    BY DEF list_billings_menu, table, Quietly, Seen, Sight, IInv, Table
  <1>3. Table' /\ Snapshot'
    BY <1>2, SameItems DEF IInv, Table
  <1> DEFINE s == Seen.items
  <1> HIDE DEF s
  <1>4. s \in Seq(Item)
    BY <1>1 DEF s, Stock
  <1>5. History' /\ Memory' /\ Tab' /\ Charged'
    BY <1>1, <1>2, <1>4 DEF s, IInv, History, Memory, Tab, Charged, Editors
  <1>6. CliKnows' /\ Informed'
    BY <1>2 DEF IInv, History, Memory, CliKnows, Informed, Editors
  <1>7. QED
    BY <1>3, <1>5, <1>6 DEF IInv

LEMMA generate_bill_menuInv ==
  ASSUME IInv, NEW a \in Editors, generate_bill_menu(a)
  PROVE  IInv'
  <1>1. PICK amounts \in [VariableIds(mem[a]) -> Typed], extras \in Extras :
          charged' = generate_bill(mem[a], amounts, extras)
    BY DEF generate_bill_menu
  <1>2. mem[a] \in Seq(Item) /\ extras \in Seq(Line)
    BY ExtrasAssumption DEF IInv, Memory
  <1>3. Charged'
    BY <1>1, <1>2, LinesOfItems DEF Charged
  <1>4. /\ UNCHANGED <<items, nextId, live, pc, mem, previous, replaced, fresh, dirty, informed, tab>>
        /\ Sight
    BY DEF generate_bill_menu, table, Sight, IInv, Table
  <1>5. Table' /\ Snapshot'
    BY <1>4, SameItems DEF IInv, Table
  <1>6. QED
    BY <1>3, <1>4, <1>5 DEF IInv, History, Memory, Tab, CliKnows, Informed

LEMMA _edit_item_cancelledInv ==
  ASSUME IInv, NEW a \in Editors, _edit_item_cancelled(a)
  PROVE  IInv'
  <1> DEFINE m == mem[a]
  <1>1. PICK i \in 1..Len(m), d \in ItemNames : \E t \in {m[i].type, "fixed"} :
          mem' = [mem EXCEPT ![a][i].desc = d, ![a][i].type = t]
          /\ dirty' = (dirty \/ mem'[a] # m)
    BY DEF _edit_item_cancelled
  <1>2. PICK t \in {m[i].type, "fixed"} :
          mem' = [mem EXCEPT ![a][i].desc = d, ![a][i].type = t]
          /\ dirty' = (dirty \/ mem'[a] # m)
    BY <1>1
  <1>3. /\ a = "cli" /\ pc[a] = "billing" /\ charged' = None
        /\ UNCHANGED <<items, nextId, live, seen, pc, previous, replaced, fresh, informed, tab>>
    BY DEF _edit_item_cancelled, InMenu, table, Quietly
  <1>4. mem \in [Editors -> Seq(Item)] /\ Stock(m, nextId)
    BY <1>3 DEF IInv, Memory
  <1>5. m[i] \in Item /\ t \in Kinds
    <2>1. m[i] \in Item
      BY <1>4 DEF Stock
    <2>2. m[i].type \in Kinds
      BY <2>1 DEF Item
    <2>3. QED
      BY <2>1, <2>2 DEF Kinds
  <1> DEFINE row == [[m[i] EXCEPT !.desc = d] EXCEPT !.type = t]
  <1>6. row \in Item /\ row.id = m[i].id
    BY <1>5 DEF Item
  <1>7. mem' = [mem EXCEPT ![a] = [m EXCEPT ![i] = row]]
    <2>1. \A s \in Seq(Item) : i \in DOMAIN s =>
            [[s EXCEPT ![i].desc = d] EXCEPT ![i].type = t]
            = [s EXCEPT ![i] = [[s[i] EXCEPT !.desc = d] EXCEPT !.type = t]]
      OBVIOUS
    <2>2. i \in DOMAIN m
      BY <1>4 DEF Stock
    <2>3. QED
      BY <1>2, <1>4, <2>1, <2>2
  <1> HIDE DEF row
  <1> DEFINE new == [m EXCEPT ![i] = row]
  <1>8. new \in Seq(Item) /\ Len(new) = Len(m) /\ \A j \in 1..Len(m) : new[j].id = m[j].id
    BY <1>4, <1>6 DEF Stock
  <1>9. Stock(new, nextId)
    BY <1>4, <1>8 DEF Stock
  <1>10. mem' = [mem EXCEPT ![a] = new] /\ dirty' = (dirty \/ new # m)
    BY <1>2, <1>4, <1>7
  <1> HIDE DEF new
  <1>11. Memory' /\ History'
    BY <1>3, <1>4, <1>8, <1>9, <1>10 DEF IInv, Memory, History, Editors
  <1>12. Table' /\ Snapshot'
    BY <1>3, SameItems DEF IInv, Table, Sight
  <1>13. Tab' /\ Charged' /\ Informed'
    BY <1>3 DEF IInv, Tab, Charged, Informed
  <1>14. CliKnows'
    BY <1>3, <1>4, <1>10 DEF IInv, CliKnows, History
  <1>15. QED
    BY <1>11, <1>12, <1>13, <1>14 DEF IInv

\* The tab and the deletion of the billing.
LEMMA TabInv ==
  ASSUME IInv, bill_generate_form \/ bill_generate \/ CloseTab \/ billing_delete
  PROVE  IInv'
  <1>1. /\ UNCHANGED <<items, nextId, seen, pc, mem, previous, replaced, fresh, dirty, informed>>
        /\ live' \in BOOLEAN /\ charged' = None
    BY DEF bill_generate_form, bill_generate, CloseTab, billing_delete, Quietly, table, IInv, Table
  <1>2. Table' /\ Snapshot' /\ History' /\ Memory' /\ Charged' /\ CliKnows' /\ Informed'
    BY <1>1, SameItems DEF Sight, IInv, History, Memory, Charged, CliKnows, Informed
  <1>3. CASE bill_generate_form
    <2>1. tab' = [shown |-> items, amounts |-> <<>>, loaded |-> None]
      BY <1>3 DEF bill_generate_form
    <2>2. Agree(items, items)
      BY DEF Agree, IInv, Table
    <2>3. Tab'
      BY <1>1, <2>1, <2>2 DEF Tab, IInv, Table
    <2>4. QED
      BY <1>2, <2>3 DEF IInv
  <1>4. CASE bill_generate
    <2>1. PICK amounts \in [VariableIds(tab.shown) -> Typed] :
            tab' = [tab EXCEPT !.amounts = amounts, !.loaded = items]
      BY <1>4 DEF bill_generate
    <2>2. tab # None
      BY <1>4 DEF bill_generate
    <2>3. /\ tab'.shown = tab.shown /\ tab'.amounts = amounts /\ tab'.loaded = items
          /\ DOMAIN tab' = DOMAIN tab
      BY <2>1, <2>2 DEF IInv, Tab
    <2>4. QED
      BY <1>1, <1>2, <2>2, <2>3 DEF Tab, IInv, Table
  <1>5. CASE CloseTab \/ billing_delete
    BY <1>1, <1>2, <1>5 DEF CloseTab, billing_delete, Tab, IInv
  <1>6. QED
    BY <1>3, <1>4, <1>5

\* What the tab's request charges.
LEMMA bill_generate_resumesInv ==
  ASSUME IInv, bill_generate_resumes
  PROVE  IInv'
  <1>1. PICK extras \in Extras : charged' = generate_bill(tab.loaded, tab.amounts, extras)
    BY DEF bill_generate_resumes
  <1>2. /\ tab.loaded \in Seq(Item) /\ extras \in Seq(Line)
        /\ tab.amounts \in [VariableIds(tab.shown) -> Typed]
    BY ExtrasAssumption DEF bill_generate_resumes, IInv, Tab, Stock
  <1>3. Charged'
    BY <1>1, <1>2, LinesOfItems DEF Charged
  <1>4. /\ UNCHANGED <<items, nextId, live, seen, pc, mem, previous, replaced, fresh, dirty, informed>>
        /\ tab' = None
    BY DEF bill_generate_resumes, table
  <1>5. QED
    BY <1>3, <1>4, SameItems
       DEF Sight, IInv, Table, History, Memory, Tab, CliKnows, Informed

-----------------------------------------------------------------------------
(* The theorems.                                                            *)

LEMMA InitInv == Init => IInv
  <1> SUFFICES ASSUME Init PROVE IInv
    OBVIOUS
  <1>1. PICK n \in 1..MaxItems : \E form \in [1..n -> Entered] :
          items = [i \in 1..n |-> WithId(form[i], i)] /\ nextId = n + 1
    BY DEF Init
  <1>2. PICK form \in [1..n -> Entered] : items = [i \in 1..n |-> WithId(form[i], i)]
    BY <1>1
  <1>3. ASSUME NEW i \in 1..n PROVE items[i] \in Item /\ items[i].id = i
    <2>1. items[i] = WithId(form[i], i) /\ i \in Nat /\ form[i] \in Entered
      BY <1>2
    <2>2. QED
      BY <2>1, EnteredFields, WithIdType DEF WithId
  <1>4. items \in Seq(Item) /\ Len(items) = n
    BY <1>2, <1>3
  <1>5. Table
    <2>1. n \in Nat /\ n <= MaxIds /\ nextId = n + 1 /\ live = TRUE
      BY <1>1, BillingsAssumption DEF Init
    <2>2. nextId \in 1..MaxIds + 1 /\ \A i \in 1..n : i \in 1..nextId - 1
      BY <2>1, BillingsAssumption
    <2>3. Stock(items, nextId)
      BY <1>3, <1>4, <2>2 DEF Stock
    <2>4. QED
      BY <1>3, <1>4, <2>1, <2>2, <2>3 DEF Table
  <1>6. <<>> \in Seq(Item)
    OBVIOUS
  <1>7. QED
    BY <1>5, <1>6 DEF Init, IInv, History, Memory, Snapshot, Tab, Charged, CliKnows, Informed, Editors

LEMMA NextInv == IInv /\ [Next]_vars => IInv'
  <1> SUFFICES ASSUME IInv, [Next]_vars PROVE IInv'
    OBVIOUS
  <1>1. CASE UNCHANGED vars
    BY <1>1 DEF vars, IInv, Table, History, Memory, Snapshot, Tab, Charged, CliKnows, Informed
  <1>2. CASE Next
    BY <1>2, EndingsInv, RereadInv, safe_logInv, billing_editInv, billing_edit_updateInv,
       list_billings_menuInv, generate_bill_menuInv, MenuChangesInv, _edit_item_cancelledInv,
       TabInv, bill_generate_resumesInv DEF Next
  <1>3. QED
    BY <1>1, <1>2

LEMMA Inductive == Spec => []IInv
  BY InitInv, NextInv, PTL DEF Spec

\* The tables, both memories and the tab keep their types, and item ids stay
\* distinct, for any bounds and whatever the users enter.
THEOREM BillingsTypeCorrect == Spec => []TypeOK
  <1>1. IInv => TypeOK
    <2> SUFFICES ASSUME IInv PROVE TypeOK
      OBVIOUS
    <2>1. IsInjective([i \in 1..Len(items) |-> items[i].id])
      BY DEF IInv, Table, IsInjective
    <2>2. \A a \in Editors : {mem[a], previous[a], replaced[a]} \subseteq Seq(Item)
      BY DEF IInv, Memory
    <2>3. QED
      BY <2>1, <2>2 DEF IInv, Table, History, Memory, Snapshot, Tab, Charged, Stock, TypeOK
  <1>2. QED
    BY <1>1, Inductive, PTL

\* generate_bill_menu never meets an item without an id, and an undisturbed CLI
\* session holds exactly what is stored.
THEOREM MemoryIsAsStored == Spec => []MemoryIsStored
  <1>1. IInv => MemoryIsStored
    BY StockIds DEF IInv, Table, Memory, CliKnows, MemoryIsStored
  <1>2. QED
    BY <1>1, Inductive, PTL

\* Whatever edits come between, an amount typed into the form of a bill is
\* charged for the item that was shown beside it, or for none.
THEOREM RightItemCharged == Spec => ChargedForTheRightItem
  <1> DEFINE Right == (charged' # None /\ tab # None /\ tab' = None) =>
                \A i \in 1..Len(tab.loaded) :
                   (tab.loaded[i].type = "variable" /\ charged'[i].amount # 0) =>
                      \E k \in 1..Len(tab.shown) :
                         /\ tab.shown[k] = tab.loaded[i]
                         /\ charged'[i].desc = tab.shown[k].desc
                         /\ charged'[i].amount = tab.amounts[tab.shown[k].id]
  <1>1. IInv /\ [Next]_vars => [Right]_vars
    <2> SUFFICES ASSUME IInv, Next, charged' # None, tab # None, tab' = None,
                        NEW i \in 1..Len(tab.loaded), tab.loaded[i].type = "variable",
                        charged'[i].amount # 0
                 PROVE  \E k \in 1..Len(tab.shown) :
                           /\ tab.shown[k] = tab.loaded[i]
                           /\ charged'[i].desc = tab.shown[k].desc
                           /\ charged'[i].amount = tab.amounts[tab.shown[k].id]
      OBVIOUS
    <2>1. bill_generate_resumes
      <3>1. UNCHANGED tab \/ charged' = None \/ bill_generate_resumes
        BY DEF Next, Reread, RetrieveFails, safe_log, Fail, billing_edit, billing_edit_update,
           list_billings_menu, generate_bill_menu, _edit_pix_key, _edit_item,
           _edit_item_cancelled, _add_item, _remove_item, Change, excluir_cobranca, voltar,
           billing_delete, bill_generate_form, bill_generate, CloseTab, Quietly
      <3>2. QED
        BY <3>1
    <2>2. PICK extras \in Extras : charged' = generate_bill(tab.loaded, tab.amounts, extras)
      BY <2>1 DEF bill_generate_resumes
    <2> DEFINE item == tab.loaded[i]
               amounts == tab.amounts
    <2>3. /\ Stock(tab.shown, nextId) /\ Agree(tab.shown, tab.loaded)
          /\ tab.loaded \in Seq(Item) /\ extras \in Seq(Line)
          /\ amounts \in [VariableIds(tab.shown) -> Typed]
      BY <2>1, ExtrasAssumption DEF bill_generate_resumes, IInv, Tab, Stock
    <2>4. charged'[i] = BillLine(item.desc, item.type,
                                 IF item.id \in DOMAIN amounts THEN amounts[item.id] ELSE 0)
      <3>1. \A k \in DOMAIN amounts : amounts[k] \in Typed
        BY <2>3
      <3>2. item.type # "fixed"
        OBVIOUS
      <3>3. charged'[i] = BillLine(item.desc, item.type,
                                   IF item.type = "fixed" THEN item.amount
                                   ELSE IF item.id \in DOMAIN amounts THEN amounts[item.id] ELSE 0)
        <4> DEFINE list == tab.loaded
                   lines == charged'
        <4>1. list \in Seq(Item) /\ i \in 1..Len(list) /\ lines = generate_bill(list, amounts, extras)
          BY <2>2, <2>3
        <4> HIDE DEF list, amounts, lines
        <4>2. lines[i] = BillLine(list[i].desc, list[i].type,
                                  IF list[i].type = "fixed" THEN list[i].amount
                                  ELSE IF list[i].id \in DOMAIN amounts THEN amounts[list[i].id]
                                       ELSE 0)
          BY <2>3, <3>1, <4>1, LinesOfItems
        <4>3. QED
          BY <4>2 DEF list, lines
      <3>4. QED
        BY <3>2, <3>3
    <2>5. item.id \in VariableIds(tab.shown) /\ charged'[i].amount = amounts[item.id]
          /\ charged'[i].desc = item.desc
      BY <2>3, <2>4 DEF BillLine
    <2>6. PICK k \in 1..Len(tab.shown) : tab.shown[k].id = item.id
      <3>1. DOMAIN tab.shown = 1..Len(tab.shown)
        BY <2>3 DEF Stock
      <3>2. QED
        BY <2>5, <3>1 DEF VariableIds, Range
    <2>7. QED
      BY <2>3, <2>5, <2>6 DEF Agree
  <1>2. QED
    BY <1>1, Inductive, PTL DEF Spec, ChargedForTheRightItem

\* The audit entry of an update by an editor that knew what was stored names
\* what the update replaced, whatever the other editor does between the read,
\* the update and the entry.
THEOREM AuditNamesReplaced == Spec => AuditSaysWhatWasReplaced
  <1> DEFINE Says == entry' # None /\ informed[entry'.by] => entry'.previous = replaced[entry'.by]
  <1>1. IInv /\ [Next]_vars => [Says]_vars
    <2> SUFFICES ASSUME IInv, Next, entry' # None, informed[entry'.by]
                 PROVE  entry'.previous = replaced[entry'.by]
      OBVIOUS
    <2>1. PICK a \in Editors : safe_log(a)
      BY DEF Next, Reread, RetrieveFails, Fail, billing_edit, billing_edit_update,
         list_billings_menu, generate_bill_menu, _edit_pix_key, _edit_item,
         _edit_item_cancelled, _add_item, _remove_item, Change, excluir_cobranca, voltar,
         billing_delete, bill_generate_form, bill_generate, bill_generate_resumes, CloseTab, Quietly
    <2>2. entry' = [by |-> a, previous |-> previous[a], new |-> mem[a]] /\ pc[a] = "log"
      BY <2>1 DEF safe_log
    <2>3. QED
      BY <2>2 DEF IInv, Informed
  <1>2. QED
    BY <1>1, Inductive, PTL DEF Spec, AuditSaysWhatWasReplaced
==============================================================================
