------------------------------- MODULE Billings -------------------------------
(***************************************************************************)
(* The items of a billing, and what a bill generated from them charges.    *)
(*                                                                         *)
(* An update of a billing deletes its item rows and inserts them again, so *)
(* every item gets a new id.  The web application and a CLI session edit   *)
(* the same billing: the web from the rows it has just loaded, the CLI     *)
(* from the Billing it has held in memory since its menu was opened.  A    *)
(* browser tab shows the items, and the amounts typed into it arrive later *)
(* under the ids that were shown.                                          *)
(*                                                                         *)
(* Web handlers run one after the other, except that generating a bill may *)
(* suspend for its form; the CLI runs between any two of their commits.    *)
(* Names, PIX keys and descriptions of the billing itself are left out.    *)
(*                                                                         *)
(* The conversions that every edit passes through (BillLines, Amounts, and *)
(* Pix when a PDF is printed) are functions: the initial states range over *)
(* their inputs as well, and every step forgets the input.                 *)
(***************************************************************************)
EXTENDS BillLines

CONSTANTS
    ItemNames,  \* what an item is called
    Typed,      \* amounts of centavos typed into a form or a prompt; 0 for none
    Extras,     \* the lists of extra lines a user may add to a bill
    Inputs,     \* what the conversions are applied to
    MaxItems,   \* bound on the items of a billing
    MaxIds,     \* bound on the AUTO_INCREMENT ids ever given to items
    None

ASSUME BillingsAssumption ==
    /\ ItemNames \subseteq Descriptions /\ Typed \subseteq Nat /\ 0 \in Typed
    /\ MaxItems \in Nat \ {0} /\ MaxIds \in Nat /\ MaxItems <= MaxIds
    /\ None \notin Nat

Editors == {"web", "cli"}

VARIABLES
    items,      \* table billing_items: the rows of the billing, by sort_order
    nextId,     \* the AUTO_INCREMENT of billing_items
    live,       \* the billing is not soft-deleted
    seen,       \* the snapshot of the CLI's open transaction, or None
    pc,         \* the next step of each editor
    mem,        \* the items of the Billing each editor holds in memory
    previous,   \* previous_state of the audit entry each editor will write
    replaced,   \* history: the rows each editor's update replaced
    fresh,      \* history: nobody updated the billing since the editor read it
    dirty,      \* history: a cancelled edit of an item stays in the CLI's memory
    informed,   \* history: at its update, an editor had the stored rows in memory
    tab,        \* the browser tab that generates a bill, or None
    charged,    \* table bills: the lines of the bill the last step added, or None
    entry,      \* table audit_logs: the BILLING_UPDATE the last step added, or None
    input       \* the input of a conversion, or None

table == <<items, nextId, live>>
added == <<charged, entry>>
vars  == <<items, nextId, live, seen, pc, mem, previous, replaced, fresh, dirty,
           informed, tab, charged, entry, input>>

Kinds == {"fixed", "variable"}

\* What the user enters for an item: a variable item has no amount, and the
\* prompts of the CLI insist on one for a fixed item.
Entered == [desc: ItemNames, type: {"fixed"}, amount: Typed]
           \cup [desc: ItemNames, type: {"variable"}, amount: {0}]

Prompted == {e \in Entered : e.type = "fixed" => e.amount > 0}

\* A BillingItem in memory, which has no id until it has been stored.
WithId(e, i) == [id |-> i, desc |-> e.desc, type |-> e.type, amount |-> e.amount]

-----------------------------------------------------------------------------
(* SQLAlchemyBillingRepository.                                             *)

\* What the CLI's connection sees.
Seen == IF seen = None THEN [items |-> items, live |-> live] ELSE seen

\* Mutant: the rows keep the ids that the items have in memory.
update_in_place(a, new) ==
    /\ nextId + Len(new) <= MaxIds + 1
    /\ items' = new
    /\ nextId' = nextId + Len(new)
    /\ replaced' = [replaced EXCEPT ![a] = items]
    /\ fresh' = [x \in Editors |-> x = a /\ fresh[x]]
    /\ informed' = [informed EXCEPT ![a] = fresh[a] /\ ~ (a = "cli" /\ dirty)]
    /\ pc' = [pc EXCEPT ![a] = "reread"]
    /\ UNCHANGED live

\* DELETE of the item rows and INSERT of the items of `new`, one commit.  The
\* row is written even if the billing has been soft-deleted.
update(a, new) ==
    /\ nextId + Len(new) <= MaxIds + 1
    /\ items' = [i \in 1..Len(new) |-> WithId(new[i], nextId + i - 1)]
    /\ nextId' = nextId + Len(new)
    /\ replaced' = [replaced EXCEPT ![a] = items]
    /\ fresh' = [x \in Editors |-> x = a /\ fresh[x]]
    /\ informed' = [informed EXCEPT ![a] = fresh[a] /\ ~ (a = "cli" /\ dirty)]
    /\ pc' = [pc EXCEPT ![a] = "reread"]
    /\ UNCHANGED live

-----------------------------------------------------------------------------
(* Steps of both editors.                                                   *)

\* Nothing is added to bills and audit_logs.
Quietly == charged' = None /\ entry' = None /\ input' = None

\* No web handler holds the event loop: an edit may be waiting for its form.
WebFree == pc["web"] \in {"idle", "update"}

\* The editor ends, or is back at the list of billings.
Ends(a) ==
    /\ pc' = [pc EXCEPT ![a] = "idle"]
    /\ mem' = [mem EXCEPT ![a] = <<>>]
    /\ previous' = [previous EXCEPT ![a] = <<>>]
    /\ replaced' = [replaced EXCEPT ![a] = <<>>]
    /\ fresh' = [fresh EXCEPT ![a] = TRUE]
    /\ informed' = [informed EXCEPT ![a] = TRUE]
    /\ dirty' = (dirty /\ a = "web")

\* Mutant: the Billing that update returns is dropped.
Reread_dropped(a) ==
    /\ pc[a] = "reread" /\ live
    /\ pc' = [pc EXCEPT ![a] = "log"]
    /\ fresh' = [fresh EXCEPT ![a] = TRUE]
    /\ dirty' = (dirty /\ a = "web")
    /\ seen' = IF a = "cli" THEN [items |-> items, live |-> live] ELSE seen
    /\ Quietly
    /\ UNCHANGED <<table, mem, previous, replaced, informed, tab>>

\* update returns the rows as they are after its commit.
Reread(a) ==
    /\ pc[a] = "reread" /\ live
    /\ pc' = [pc EXCEPT ![a] = "log"]
    /\ mem' = [mem EXCEPT ![a] = items]
    /\ fresh' = [fresh EXCEPT ![a] = TRUE]
    /\ dirty' = (dirty /\ a = "web")
    /\ seen' = IF a = "cli" THEN [items |-> items, live |-> live] ELSE seen
    /\ Quietly
    /\ UNCHANGED <<table, previous, replaced, informed, tab>>

\* "Failed to retrieve billing after update": it has been deleted.
RetrieveFails(a) ==
    /\ pc[a] = "reread" /\ ~ live
    /\ Ends(a)
    /\ seen' = IF a = "cli" THEN None ELSE seen
    /\ Quietly
    /\ UNCHANGED <<table, tab>>

\* The entry is written, or given up; the web handler ends, the CLI is back
\* in the menu of the billing.
safe_log(a) ==
    /\ pc[a] = "log"
    /\ \E written \in BOOLEAN :
          /\ entry' = IF written THEN [by |-> a, previous |-> previous[a], new |-> mem[a]] ELSE None
          /\ seen' \in IF a = "web" THEN {seen}
                       ELSE IF written THEN {[items |-> items, live |-> live]} ELSE {None, seen}
    /\ IF a = "web" THEN Ends(a)
       ELSE /\ pc' = [pc EXCEPT ![a] = "billing"]
            /\ previous' = [previous EXCEPT ![a] = <<>>]
            /\ replaced' = [replaced EXCEPT ![a] = <<>>]
            /\ UNCHANGED <<mem, fresh, dirty, informed>>
    /\ charged' = None /\ input' = None
    /\ UNCHANGED <<table, tab>>

\* The database raises, the client disconnects or the process dies.
Fail(a) ==
    /\ pc[a] # "idle"
    /\ Ends(a)
    /\ seen' = IF a = "cli" THEN None ELSE seen
    /\ Quietly
    /\ UNCHANGED <<table, tab>>

-----------------------------------------------------------------------------
(* web/routes/billing.py                                                    *)

\* The billing is loaded and serialised before the form is looked at.
billing_edit(a) ==
    /\ a = "web" /\ pc[a] = "idle" /\ live
    /\ pc' = [pc EXCEPT ![a] = "update"]
    /\ fresh' = [fresh EXCEPT ![a] = TRUE]
    /\ previous' = [previous EXCEPT ![a] = items]
    /\ mem' = [mem EXCEPT ![a] = items]
    /\ Quietly
    /\ UNCHANGED <<table, seen, replaced, dirty, informed, tab>>

\* The rows of the form that have a description replace the items; without
\* one the edit is refused.
billing_edit_update(a) ==
    /\ pc[a] = "update"
    /\ \E n \in 1..MaxItems : \E form \in [1..n -> Entered] : update(a, form)
    /\ Quietly
    /\ UNCHANGED <<seen, mem, previous, dirty, tab>>

billing_delete ==
    /\ WebFree /\ live
    /\ live' = FALSE
    /\ Quietly
    /\ UNCHANGED <<items, nextId, seen, pc, mem, previous, replaced, fresh, dirty, informed, tab>>

-----------------------------------------------------------------------------
(* rentivo/cli/billing_menu.py                                              *)

list_billings_menu(a) ==
    /\ a = "cli" /\ pc[a] = "idle" /\ Seen.live
    /\ pc' = [pc EXCEPT ![a] = "billing"]
    /\ mem' = [mem EXCEPT ![a] = Seen.items]
    /\ fresh' = [fresh EXCEPT ![a] = Seen.items = items]
    /\ seen' = Seen
    /\ Quietly
    /\ UNCHANGED <<table, previous, replaced, dirty, informed, tab>>

\* Every variable item is asked for; one without an id would raise.  The
\* commits of the bill and of its entry end the snapshot.
generate_bill_menu(a) ==
    /\ a = "cli" /\ pc[a] = "billing" /\ None \notin VariableIds(mem[a])
    /\ \E amounts \in [VariableIds(mem[a]) -> Typed], extras \in Extras :
          charged' = generate_bill(mem[a], amounts, extras)
    /\ seen' \in {None, [items |-> items, live |-> live]}
    /\ entry' = None /\ input' = None
    /\ UNCHANGED <<table, pc, mem, previous, replaced, fresh, dirty, informed, tab>>

\* An update of what is in memory, with p as the entry's previous state.
Change(a, new, p) ==
    /\ update(a, new)
    /\ previous' = [previous EXCEPT ![a] = p]
    /\ seen' = None
    /\ Quietly
    /\ UNCHANGED <<mem, dirty, tab>>

InMenu(a) == a = "cli" /\ pc[a] = "billing"

\* The key is no item: the items are written back as they are in memory.
_edit_pix_key(a) == InMenu(a) /\ Change(a, mem[a], mem[a])

\* Mutant: the previous state is serialised after the change.
_edit_item_late(a) ==
    /\ InMenu(a)
    /\ \E i \in 1..Len(mem[a]), e \in Prompted :
          LET new == [mem[a] EXCEPT ![i] = WithId(e, @.id)] IN Change(a, new, new)

_edit_item(a) ==
    /\ InMenu(a)
    /\ \E i \in 1..Len(mem[a]), e \in Prompted :
          Change(a, [mem[a] EXCEPT ![i] = WithId(e, @.id)], mem[a])

\* The prompt for the type, or for the amount, is cancelled: the item in memory
\* already has the new description, or the description and the type.
_edit_item_cancelled(a) ==
    /\ InMenu(a)
    /\ \E i \in 1..Len(mem[a]), d \in ItemNames : \E t \in {mem[a][i].type, "fixed"} :
          /\ mem' = [mem EXCEPT ![a][i].desc = d, ![a][i].type = t]
          /\ dirty' = (dirty \/ mem'[a] # mem[a])
    /\ Quietly
    /\ UNCHANGED <<table, seen, pc, previous, replaced, fresh, informed, tab>>

_add_item(a) ==
    /\ InMenu(a) /\ Len(mem[a]) < MaxItems
    /\ \E e \in Prompted : Change(a, Append(mem[a], WithId(e, None)), mem[a])

\* The last item stays; one that is not confirmed is put back.
_remove_item(a) ==
    /\ InMenu(a) /\ Len(mem[a]) > 1
    /\ \E i \in 1..Len(mem[a]) : Change(a, RemoveAt(mem[a], i), mem[a])

excluir_cobranca(a) ==
    /\ InMenu(a)
    /\ live' = FALSE
    /\ Ends(a)
    /\ seen' \in {None, [items |-> items, live |-> FALSE]}
    /\ Quietly
    /\ UNCHANGED <<items, nextId, tab>>

\* "Voltar": the transaction stays open.
voltar(a) ==
    /\ InMenu(a) /\ Ends(a) /\ Quietly
    /\ UNCHANGED <<table, seen, tab>>

-----------------------------------------------------------------------------
(* web/routes/bill.py: generating a bill from a form.                       *)

bill_generate_form ==
    /\ WebFree /\ live
    /\ tab' = [shown |-> items, amounts |-> <<>>, loaded |-> None]
    /\ Quietly
    /\ UNCHANGED <<table, seen, pc, mem, previous, replaced, fresh, dirty, informed>>

\* The form is sent: the billing is loaded before the form is received.
bill_generate ==
    /\ WebFree /\ live /\ tab # None /\ tab.loaded = None
    /\ \E amounts \in [VariableIds(tab.shown) -> Typed] :
          tab' = [tab EXCEPT !.amounts = amounts, !.loaded = items]
    /\ Quietly
    /\ UNCHANGED <<table, seen, pc, mem, previous, replaced, fresh, dirty, informed>>

\* Fields of the form are looked up for the items as loaded; the extra lines
\* come with it.
bill_generate_resumes ==
    /\ WebFree /\ tab # None /\ tab.loaded # None
    /\ \E extras \in Extras : charged' = generate_bill(tab.loaded, tab.amounts, extras)
    /\ tab' = None /\ entry' = None /\ input' = None
    /\ UNCHANGED <<table, seen, pc, mem, previous, replaced, fresh, dirty, informed>>

\* The tab is closed, or its request fails.
CloseTab ==
    /\ tab # None
    /\ tab' = None /\ Quietly
    /\ UNCHANGED <<table, seen, pc, mem, previous, replaced, fresh, dirty, informed>>

-----------------------------------------------------------------------------
\* The billing beside which the conversions are looked at.
Simplest == <<WithId([desc |-> CHOOSE n \in ItemNames : TRUE, type |-> "variable", amount |-> 0], 1)>>

Init ==
    /\ \E n \in 1..MaxItems : \E form \in [1..n -> Entered] :
          /\ items = [i \in 1..n |-> WithId(form[i], i)]
          /\ nextId = n + 1
    /\ live = TRUE
    /\ seen = None
    /\ pc = [a \in Editors |-> "idle"]
    /\ mem = [a \in Editors |-> <<>>]
    /\ previous = [a \in Editors |-> <<>>]
    /\ replaced = [a \in Editors |-> <<>>]
    /\ fresh = [a \in Editors |-> TRUE]
    /\ dirty = FALSE
    /\ informed = [a \in Editors |-> TRUE]
    /\ tab = None
    /\ charged = None /\ entry = None
    /\ input \in {None} \cup (IF items = Simplest THEN Inputs ELSE {})

Next ==
    \/ \E a \in Editors :
          \/ Reread(a) \/ RetrieveFails(a) \/ safe_log(a) \/ Fail(a)
          \/ billing_edit(a) \/ billing_edit_update(a)
          \/ list_billings_menu(a) \/ generate_bill_menu(a) \/ _edit_pix_key(a)
          \/ _edit_item(a) \/ _edit_item_cancelled(a) \/ _add_item(a) \/ _remove_item(a)
          \/ excluir_cobranca(a) \/ voltar(a)
    \/ billing_delete
    \/ bill_generate_form \/ bill_generate \/ bill_generate_resumes \/ CloseTab

Spec == Init /\ [][Next]_vars

-----------------------------------------------------------------------------
(* Properties.                                                              *)

Item == [id: Nat \cup {None}, desc: ItemNames, type: Kinds, amount: Typed]

Line == [desc: Descriptions, type: Kinds \cup {"extra"}, amount: Nat]

\* The extra lines of the form are lines.
ASSUME ExtrasAssumption == \A extras \in Extras : extras \in Seq(Line)

\* The tables, both memories and the tab have their types, and item ids are
\* distinct and below the counter.
TypeOK ==
    /\ items \in Seq(Item) /\ Len(items) \in 1..MaxItems
    /\ \A i \in 1..Len(items) : items[i].id \in 1..nextId - 1
    /\ IsInjective([i \in 1..Len(items) |-> items[i].id])
    /\ nextId \in 1..MaxIds + 1 /\ live \in BOOLEAN
    /\ seen # None => seen.items \in Seq(Item) /\ seen.live \in BOOLEAN
    /\ pc \in [Editors -> {"idle", "update", "reread", "log", "billing"}]
    /\ \A a \in Editors : {mem[a], previous[a], replaced[a]} \subseteq Seq(Item)
    /\ fresh \in [Editors -> BOOLEAN] /\ dirty \in BOOLEAN /\ informed \in [Editors -> BOOLEAN]
    /\ charged # None => charged \in Seq(Line)
    /\ tab # None => /\ tab.shown \in Seq(Item)
                     /\ tab.amounts \in {<<>>} \cup [VariableIds(tab.shown) -> Typed]

\* "Variable billing item must have an id" (generate_bill, generate_bill_menu)
\* is never raised: whatever was added, edited, removed or cancelled, the
\* Billing in the CLI's memory has stored items only, and it is the table's
\* content unless somebody else changed it or an edit was cancelled.
MemoryIsStored ==
    pc["cli"] = "billing" =>
        /\ None \notin VariableIds(mem["cli"])
        /\ (fresh["cli"] /\ ~ dirty) => mem["cli"] = items

\* An amount typed into a form is charged for the item it was typed for or not
\* at all, though the billing was edited meanwhile and its items have other
\* ids, places and types: the line of a variable item carries an amount only
\* if the tab showed an item of the same name with that amount.
ChargedForTheRightItem ==
    [][(charged' # None /\ tab # None /\ tab' = None) =>
          \A i \in 1..Len(tab.loaded) :
             (tab.loaded[i].type = "variable" /\ charged'[i].amount # 0) =>
                \E k \in 1..Len(tab.shown) :
                   /\ tab.shown[k] = tab.loaded[i]
                   /\ charged'[i].desc = tab.shown[k].desc
                   /\ charged'[i].amount = tab.amounts[tab.shown[k].id]]_vars

\* The audit entry of an update says what the update replaced, if the editor
\* had in memory what was stored; by an editor whose memory was stale or had a
\* cancelled edit in it, it says what that editor knew.
AuditSaysWhatWasReplaced ==
    [][(entry' # None /\ informed[entry'.by]) =>
          entry'.previous = replaced[entry'.by]]_vars
=============================================================================
