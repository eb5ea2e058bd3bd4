-------------------------------- MODULE Bills --------------------------------
(***************************************************************************)
(* Bills, their receipts and their PDFs.                                   *)
(*                                                                         *)
(* Three programs share one database and one object store: the web         *)
(* application (one process, one event loop, many requests), the           *)
(* interactive CLI and the regenerate_pdfs script.  A bill operation is a  *)
(* chain of separately committed steps - write the row, re-read it, render *)
(* the PDF from the bill held in memory, store it under the bill's one     *)
(* key, commit the pointer, log - and the programs interleave between      *)
(* those steps.  Within the web process a request gives way to another one *)
(* only where a handler really suspends ("await"), which loop models.      *)
(*                                                                         *)
(* Every connection reads from the snapshot its transaction took at its    *)
(* first SELECT after the last COMMIT (MariaDB's REPEATABLE READ): snap.   *)
(*                                                                         *)
(* Abstracted: line items, total, notes and due date are one value of      *)
(* Items; what a PDF takes from the billing (name, PIX key) is one value   *)
(* of Infos; storage keys are the bill and the receipt themselves.  A      *)
(* refused request (not found, no permission, invalid form) changes        *)
(* nothing and is not a step, except where it ends a suspended request.    *)
(***************************************************************************)
EXTENDS Integers, Sequences, FiniteSets, FiniteSetsExt, Functions

CONSTANTS
    Web,        \* requests the web process may be serving at once
    Cli,        \* interactive CLI processes
    Script,     \* regenerate_pdfs processes
    Bills, Receipts, Items, Infos, Statuses,
    MaxFiles,   \* bound on the files of one upload form
    None

Actors == Web \cup Cli \cup Script

ASSUME BillsAssumption ==
    /\ Web \cap Cli = {} /\ Web \cap Script = {} /\ Cli \cap Script = {}
    /\ Receipts \subseteq Nat \* the AUTO_INCREMENT ids of receipts
    /\ IsFiniteSet(Receipts)
    /\ MaxFiles \in Nat
    /\ "draft" \in Statuses
    /\ None \notin Bills /\ None \notin Receipts /\ None \notin Items
    /\ None \notin Infos /\ None \notin Statuses /\ None \notin Actors

VARIABLES
    bill,       \* table bills: state, items, status, and whether pdf_path is set
    billing,    \* the row of table billings the bills belong to
    receipt,    \* table receipts: None, or the bill and the sort_order of the row
    audit,      \* table audit_logs: the entries the last step added
    pdf,        \* object store: the invoice under each bill's key
    file,       \* object store: the receipts whose file is completely written
    loop,       \* the web request that holds the event loop, or None
    pc,         \* the next step of each actor
    snap,       \* the snapshot of each actor's open transaction, or None
    req,        \* what each actor holds in memory
    quiet       \* history: nobody else touched what the actor has read

tables == <<bill, billing, receipt>>
store  == <<pdf, file>>
vars   == <<bill, billing, receipt, audit, pdf, file, loop, pc, snap, req, quiet>>

\* A PDF: the bill's data, the place of each receipt in it (0: not merged) and
\* the billing's data; or the remains of a write that failed.
Unmerged == [r \in Receipts |-> 0]
Torn == [items |-> None, receipts |-> Unmerged, info |-> None]
Doc  == [items: Items \cup {None}, receipts: [Receipts -> Nat], info: Infos \cup {None}]

\* What an actor holds while idle, and the start of every operation; did is
\* history: the repository calls that the operation has committed.
Blank == [op |-> None, bill |-> None, items |-> None, status |-> None,
          info |-> None, left |-> 0, rid |-> None, sort |-> 0, got |-> {},
          order |-> <<>>, doc |-> None, todo |-> [b \in Bills |-> None],
          did |-> {}]

\* The memory m once its holder has committed call w on x.
Did(m, w, x) == [m EXCEPT !.did = @ \cup {<<w, x>>}]

-----------------------------------------------------------------------------
(* The database: SQLAlchemyBillRepository and SQLAlchemyReceiptRepository.  *)

View == [bill |-> bill, billing |-> billing, receipt |-> receipt]

\* A SELECT of actor a answers from the snapshot of its open transaction.
Read(a) == IF snap[a] = None THEN View ELSE snap[a]

\* The part of a snapshot that is read again before the next COMMIT: the CLI
\* has no receipt repository, and the web handlers and the script load bills
\* and billings once, before anything else.
Kept(a, v) == IF a \in Cli THEN [v EXCEPT !.receipt = None]
                           ELSE [v EXCEPT !.bill = None, !.billing = None]

\* get_by_id, get_by_uuid and list_by_billing skip rows with deleted_at set.
get_by_uuid(v, b) == v.bill[b].state = "live"

bill_create(b, c) ==
    bill' = [bill EXCEPT ![b] = [state |-> "live", items |-> c,
                                 status |-> "draft", pdf |-> FALSE]]

\* UPDATE ... WHERE id = :id, which also writes a soft-deleted row.
bill_update(b, c) == bill' = [bill EXCEPT ![b].items = c]

update_pdf_path(b) == bill' = [bill EXCEPT ![b].pdf = TRUE]

\* Mutant: the status parameter is not bound.
update_status_unbound(b, s) == bill' = [bill EXCEPT ![b].status = None]

update_status(b, s) == bill' = [bill EXCEPT ![b].status = s]

bill_delete(b) == bill' = [bill EXCEPT ![b].state = "deleted"]

RowsOf(v, b) == {r \in Receipts : v.receipt[r] # None /\ v.receipt[r].bill = b}

\* Mutant: ORDER BY sort_order.
Precedes_untied(v, q, r) == v.receipt[q].sort < v.receipt[r].sort

\* ORDER BY sort_order, id
Precedes(v, q, r) == \/ v.receipt[q].sort < v.receipt[r].sort
                     \/ v.receipt[q].sort = v.receipt[r].sort /\ q < r

\* The list of the rows S, as the place of each of them in it.
InOrder(v, S) ==
    [r \in Receipts |->
        IF r \in S THEN Cardinality({q \in S : Precedes(v, q, r)}) + 1 ELSE 0]

list_by_bill(v, b) == InOrder(v, RowsOf(v, b))

receipt_create(r, b, n) ==
    receipt' = [receipt EXCEPT ![r] = [bill |-> b, sort |-> n]]

receipt_delete_row(r) == receipt' = [receipt EXCEPT ![r] = None]

\* Mutant: the loop stops after the first UPDATE.
update_sort_orders_once(order) ==
    receipt' = [r \in Receipts |->
        IF receipt[r] # None /\ Len(order) > 0 /\ Head(order) = r
        THEN [receipt[r] EXCEPT !.sort = 0]
        ELSE receipt[r]]

\* One UPDATE per position, in order: a receipt named twice keeps its last
\* position, and a row that no longer exists is not updated.
update_sort_orders(order) ==
    receipt' = [r \in Receipts |->
        IF receipt[r] # None /\ \E i \in 1..Len(order) : order[i] = r
        THEN [receipt[r] EXCEPT !.sort =
                 CHOOSE i \in 0..Len(order) - 1 :
                    /\ order[i + 1] = r
                    /\ \A j \in i + 2..Len(order) : order[j] # r]
        ELSE receipt[r]]

-----------------------------------------------------------------------------
(* Steps.                                                                   *)

\* A web request runs only while it holds the event loop.
CanStep(a) == a \in Web => loop = a

Move(a, to, r) ==
    /\ pc' = [pc EXCEPT ![a] = to]
    /\ req' = [req EXCEPT ![a] = r]

Goto(a, to, r) == Move(a, to, r) /\ audit' = {}

\* A handler takes the loop when it starts or resumes, and gives it up where
\* it suspends and when it ends.
Take(a)  == loop' = IF a \in Web THEN a ELSE loop
Yield(a) == loop' = IF loop = a THEN None ELSE loop

Commit(a)  == snap' = [snap EXCEPT ![a] = None]
Select(a)  == snap' = [snap EXCEPT ![a] = Kept(a, Read(a))]

\* x has read bill b and will write something computed from it.
Holds(x, b) == req[x].bill = b \/ req[x].todo[b] # None

\* Actor a changed bill b, its receipts or its PDF: whoever else holds b is
\* no longer undisturbed.
Disturb(a, b) ==
    quiet' = [x \in Actors |-> quiet[x] /\ (x = a \/ ~ Holds(x, b))]

-----------------------------------------------------------------------------
(* BillService: the steps shared by the handlers, the CLI and the script.   *)

\* Mutant: the web's service is built without a receipt repository too.
fetch_receipt_data_unwired(a, b, lost) == Unmerged

\* _generate_and_store_pdf up to the bytes: the bill in memory, the receipts
\* as the connection sees them; a receipt that cannot be fetched or merged is
\* skipped, and without a receipt repository (the CLI) there are none.
fetch_receipt_data(a, b, lost) ==
    IF a \in Cli THEN Unmerged ELSE InOrder(Read(a), RowsOf(Read(a), b) \ lost)

Rendered(a, b, items, lost) ==
    [items |-> items, receipts |-> fetch_receipt_data(a, b, lost),
     info |-> req[a].info]

\* The bill is re-read after create and update ("reread"), and is otherwise
\* the one in memory ("render").
Render(a) ==
    LET b == req[a].bill
        reread == pc[a] = "reread"
        items == IF reread THEN Read(a).bill[b].items ELSE req[a].items
        status == IF reread THEN Read(a).bill[b].status ELSE req[a].status
    IN  /\ pc[a] \in {"reread", "render"} /\ CanStep(a)
        /\ reread => get_by_uuid(Read(a), b)
        /\ \E lost \in SUBSET (IF a \in Cli THEN {} ELSE RowsOf(Read(a), b)) :
              /\ Goto(a, "save", [req[a] EXCEPT !.items = items, !.status = status,
                                    !.rid = None, !.order = <<>>,
                                    !.doc = Rendered(a, b, items, lost)])
              /\ quiet' = [quiet EXCEPT ![a] = @ /\ lost = {}]
        /\ Select(a)
        /\ UNCHANGED <<tables, store, loop>>

\* "Failed to retrieve bill after update": the row was deleted meanwhile.
RetrieveFails(a) ==
    /\ pc[a] = "reread" /\ CanStep(a) /\ ~ get_by_uuid(Read(a), req[a].bill)
    /\ Goto(a, "idle", Blank) /\ Yield(a) /\ Commit(a)
    /\ quiet' = [quiet EXCEPT ![a] = TRUE]
    /\ UNCHANGED <<tables, store>>

\* storage.save under the bill's one key.
SavePdf(a) ==
    /\ pc[a] = "save" /\ CanStep(a)
    /\ pdf' = [pdf EXCEPT ![req[a].bill] = req[a].doc]
    /\ Goto(a, "point", [req[a] EXCEPT !.doc = None])
    /\ Disturb(a, req[a].bill)
    /\ UNCHANGED <<tables, file, loop, snap>>

\* update_pdf_path, then back to the caller: the script goes to its next
\* bill, bill_generate to its next file, everybody else to the audit log.
StorePdfPath(a) ==
    LET to == IF a \in Script THEN "next"
              ELSE IF req[a].op = "generate" /\ req[a].left > 0 THEN "await"
              ELSE "log"
    IN  /\ pc[a] = "point" /\ CanStep(a)
        /\ update_pdf_path(req[a].bill)
        /\ Goto(a, to, Did(req[a], "update_pdf_path", req[a].bill))
        /\ Commit(a)
        /\ loop' = IF to = "await" THEN None ELSE loop
        /\ UNCHANGED <<billing, receipt, store, quiet>>

\* generate_bill: the row is created from the billing held in memory.
generate_bill(a, b, c) ==
    /\ bill[b].state = "absent"
    /\ bill_create(b, c)
    /\ Goto(a, "reread", Did([req[a] EXCEPT !.op = "generate", !.bill = b],
                            "bill_create", b))
    /\ Commit(a)

\* Mutant: the PDF is rendered from the bill as it was before the edit.
update_bill_stale(a) ==
    /\ pc[a] = "update" /\ CanStep(a)
    /\ \E c \in Items : bill_update(req[a].bill, c)
    /\ Goto(a, "render", Did(req[a], "bill_update", req[a].bill))
    /\ Commit(a)
    /\ Disturb(a, req[a].bill)
    /\ UNCHANGED <<billing, receipt, store, loop>>

update_bill(a) ==
    /\ pc[a] = "update" /\ CanStep(a)
    /\ \E c \in Items : bill_update(req[a].bill, c)
    /\ Goto(a, "reread", Did(req[a], "bill_update", req[a].bill))
    /\ Commit(a)
    /\ Disturb(a, req[a].bill)
    /\ UNCHANGED <<billing, receipt, store, loop>>

\* Mutant: the bill returned, and so logged, has its old status.
change_status_unchanged(a) ==
    /\ pc[a] = "status" /\ CanStep(a)
    /\ \E s \in Statuses :
          /\ a \in Cli => s # req[a].status
          /\ update_status(req[a].bill, s)
          /\ Goto(a, "log", Did(req[a], "update_status", req[a].bill))
    /\ Commit(a)
    /\ Disturb(a, req[a].bill)
    /\ UNCHANGED <<billing, receipt, store, loop>>

\* change_status: any status may follow any other; the CLI offers the change
\* only when the new status differs from the one it holds.
change_status(a) ==
    /\ pc[a] = "status" /\ CanStep(a)
    /\ \E s \in Statuses :
          /\ a \in Cli => s # req[a].status
          /\ update_status(req[a].bill, s)
          /\ Goto(a, "log", Did([req[a] EXCEPT !.status = s],
                               "update_status", req[a].bill))
    /\ Commit(a)
    /\ Disturb(a, req[a].bill)
    /\ UNCHANGED <<billing, receipt, store, loop>>

delete_bill(a) ==
    /\ pc[a] = "delete" /\ CanStep(a)
    /\ bill_delete(req[a].bill)
    /\ Goto(a, "log", Did(req[a], "bill_delete", req[a].bill))
    /\ Commit(a)
    /\ Disturb(a, req[a].bill)
    /\ UNCHANGED <<billing, receipt, store, loop>>

\* Mutant: every receipt gets the column's default.
NextSort_default(v, b) == 0

\* The last position of the list as the connection sees it, plus one.
NextSort(v, b) ==
    LET sorts == {v.receipt[r].sort : r \in RowsOf(v, b)}
    IN  IF sorts = {} THEN 0 ELSE Max(sorts) + 1

\* Mutant: a failing save of the file is swallowed.
AddReceiptFile_swallowed(a) ==
    /\ pc[a] = "await" /\ req[a].bill # None /\ req[a].left > 0 /\ loop = None
    /\ \E r \in Receipts :
          Goto(a, "insert", [req[a] EXCEPT !.rid = r, !.left = @ - 1, !.sort = 0])
    /\ Take(a) /\ Select(a)
    /\ UNCHANGED <<tables, store, quiet>>

\* add_receipt, first half: sort_order from the receipts seen, then the file
\* is stored under a key of its own.
AddReceiptFile(a) ==
    LET b == req[a].bill
    IN  /\ pc[a] = "await" /\ b # None /\ req[a].left > 0 /\ loop = None
        /\ \E r \in Receipts :
              /\ r \notin file /\ \A q \in Receipts : q < r => q \in file
              /\ file' = file \cup {r}
              /\ Goto(a, "insert", [req[a] EXCEPT !.rid = r, !.left = @ - 1,
                                      !.sort = NextSort(Read(a), b)])
        /\ Take(a) /\ Select(a)
        /\ UNCHANGED <<tables, pdf, quiet>>

\* add_receipt, second half: the row that points at the file.
AddReceiptRow(a) ==
    LET r == req[a].rid
    IN  /\ pc[a] = "insert" /\ CanStep(a)
        /\ receipt_create(r, req[a].bill, req[a].sort)
        /\ Goto(a, "render", Did([req[a] EXCEPT !.sort = 0, !.got = @ \cup {r}],
                                "receipt_create", r))
        /\ Commit(a)
        /\ Disturb(a, req[a].bill)
        /\ UNCHANGED <<bill, billing, store, loop>>

-----------------------------------------------------------------------------
(* AuditService.safe_log at the end of an operation: each entry is committed*)
(* on its own and any of them may fail without the operation noticing.      *)

\* The part of a bill in memory that other actors change too.
serialize_bill(m) == [items |-> m.items, status |-> m.status]

\* The rows an operation adds.  told is what the states of an entry say of the
\* bill, by the bill in memory: all of it, its status, or nothing.
Entries(a) ==
    LET m == req[a]
        silent == [items |-> None, status |-> None]
        whole  == serialize_bill(m)
        on(event, told) == {[by |-> a, event |-> event, entity |-> m.bill, told |-> told]}
        each(event) ==
            {[by |-> a, event |-> event, entity |-> r, told |-> silent] : r \in m.got}
    IN  CASE m.op = "generate"       -> on("BILL_CREATE", whole) \cup each("RECEIPT_UPLOAD")
          [] m.op = "edit"           -> on("BILL_UPDATE", whole)
          [] m.op = "regenerate"     -> on("BILL_REGENERATE_PDF",
                                           IF a \in Cli THEN whole ELSE silent)
          [] m.op = "status"         -> on("BILL_STATUS_CHANGE",
                                           IF a \in Cli THEN whole ELSE [whole EXCEPT !.items = None])
          [] m.op = "delete"         -> on("BILL_DELETE", whole)
          [] m.op = "upload"         -> each("RECEIPT_UPLOAD")
          [] m.op = "receipt_delete" -> each("RECEIPT_DELETE")
          [] m.op = "reorder"        -> on("RECEIPT_REORDER", silent)

\* Where the actor is after the log: a web request ends unless files are
\* left, the CLI is back in the menu it came from.
AfterLog(a) ==
    IF a \in Web
    THEN IF req[a].op = "upload" /\ req[a].left > 0
         THEN <<"await", [req[a] EXCEPT !.got = {}, !.did = {}]>>
         ELSE <<"idle", Blank>>
    ELSE IF req[a].op \in {"generate", "delete"}
         THEN <<"billing", [Blank EXCEPT !.info = req[a].info]>>
         ELSE <<"menu", [req[a] EXCEPT !.op = None, !.did = {}]>>

safe_log(a) ==
    /\ pc[a] = "log" /\ CanStep(a)
    /\ Move(a, AfterLog(a)[1], AfterLog(a)[2])
    /\ \E logged \in SUBSET Entries(a) :
          /\ audit' = logged
          /\ snap' = [snap EXCEPT ![a] =
                        IF AfterLog(a)[1] = "idle" \/ logged = {} THEN None
                        ELSE Kept(a, View)]
    /\ quiet' = [quiet EXCEPT ![a] = @ \/ AfterLog(a)[1] = "idle"]
    /\ Yield(a)
    /\ UNCHANGED <<tables, store>>

-----------------------------------------------------------------------------
(* Web handlers (web/routes/bill.py).                                       *)

\* The bill and its billing as the handler loads them.
Loaded(o, b) == [Blank EXCEPT !.op = o, !.bill = b, !.items = bill[b].items,
                              !.status = bill[b].status, !.info = billing.info]

\* A request for operation o on bill b starts: the bill is found and, for
\* the handlers that load it, so is its billing.
Begin(a, o, b) ==
    /\ a \in Web /\ pc[a] = "idle" /\ loop = None
    /\ get_by_uuid(View, b)
    /\ o # "delete" => billing.live

\* The handler goes on to its first write without suspending.
BeginNow(a, o, b, to) ==
    /\ Begin(a, o, b) /\ Goto(a, to, Loaded(o, b)) /\ Take(a) /\ Select(a)
    /\ UNCHANGED <<tables, store, quiet>>

bill_edit(a, b)          == BeginNow(a, "edit", b, "update")

\* Mutant: the new status is logged but not stored.
bill_change_status_logged(a, b) == BeginNow(a, "status", b, "log")

bill_change_status(a, b) == BeginNow(a, "status", b, "status")
bill_delete_post(a, b)   == BeginNow(a, "delete", b, "delete")
bill_regenerate_pdf(a, b) == BeginNow(a, "regenerate", b, "render")

\* The form is read first, then the bill; reading an uploaded file suspends.
receipt_upload(a, b) ==
    /\ Begin(a, "upload", b)
    /\ \E n \in 1..MaxFiles : Goto(a, "await", [Loaded("upload", b) EXCEPT !.left = n])
    /\ Select(a)
    /\ UNCHANGED <<tables, store, loop, quiet>>

\* A file of the wrong type, empty or too large is skipped.  After the last
\* one bill_generate logs and receipt_upload answers.
SkipFile(a) ==
    /\ a \in Web /\ pc[a] = "await" /\ req[a].bill # None /\ req[a].left > 0
    /\ req[a].op \in {"generate", "upload"} /\ loop = None
    /\ IF req[a].left > 1
       THEN Goto(a, "await", [req[a] EXCEPT !.left = @ - 1]) /\ UNCHANGED <<loop, snap, quiet>>
       ELSE IF req[a].op = "generate"
       THEN Goto(a, "log", [req[a] EXCEPT !.left = 0]) /\ Take(a) /\ UNCHANGED <<snap, quiet>>
       ELSE /\ Goto(a, "idle", Blank) /\ Commit(a)
            /\ quiet' = [quiet EXCEPT ![a] = TRUE] /\ UNCHANGED loop
    /\ UNCHANGED <<tables, store>>

\* Any receipt may be named in the URL.  Only the web process writes the
\* receipts table, so reading the row and deleting it is one step.
receipt_delete(a, b) ==
    /\ Begin(a, "receipt_delete", b)
    /\ \E r \in Receipts :
          /\ receipt[r] # None
          /\ receipt_delete_row(r)
          /\ Goto(a, "render", Did([Loaded("receipt_delete", b) EXCEPT !.got = {r}],
                                  "receipt_delete", r))
          /\ Disturb(a, receipt[r].bill)
    /\ Take(a) /\ Commit(a)
    /\ UNCHANGED <<bill, billing, store>>

\* The bill is loaded before the JSON body arrives.
receipt_reorder(a, b) ==
    /\ Begin(a, "reorder", b)
    /\ Goto(a, "await", Loaded("reorder", b))
    /\ Select(a)
    /\ UNCHANGED <<tables, store, loop, quiet>>

\* The requested order names only receipts of the bill, and as many as it has,
\* as the request's snapshot shows them.
OrderAccepted(a, order) ==
    /\ \A i \in 1..Len(order) : order[i] \in RowsOf(Read(a), req[a].bill)
    /\ Len(order) = Cardinality(RowsOf(Read(a), req[a].bill))

\* Only the web process writes the receipts table, so the check and the
\* commit are one step.
reorder_receipts(a) ==
    /\ pc[a] = "await" /\ req[a].op = "reorder" /\ loop = None
    /\ \E n \in 0..Cardinality(Receipts) : \E order \in [1..n -> Receipts] :
          /\ OrderAccepted(a, order)
          /\ update_sort_orders(order)
          /\ Goto(a, "render", Did([req[a] EXCEPT !.order = order],
                                  "update_sort_orders", req[a].bill))
    /\ Take(a) /\ Commit(a)
    /\ Disturb(a, req[a].bill)
    /\ UNCHANGED <<bill, billing, store>>

\* The billing is loaded before the form, which may carry files and suspend.
bill_generate(a) ==
    /\ a \in Web /\ pc[a] = "idle" /\ loop = None /\ billing.live
    /\ \E n \in 0..MaxFiles :
          Goto(a, "await", [Blank EXCEPT !.op = "generate", !.info = billing.info,
                                         !.left = n])
    /\ Select(a)
    /\ UNCHANGED <<tables, store, loop, quiet>>

bill_generate_resumes(a) ==
    /\ a \in Web /\ pc[a] = "await" /\ req[a].op = "generate" /\ req[a].bill = None
    /\ loop = None
    /\ \E b \in Bills, c \in Items : generate_bill(a, b, c)
    /\ Take(a)
    /\ UNCHANGED <<billing, receipt, store, quiet>>

\* An invalid form or JSON body ends a suspended request with nothing done.
Refused(a) ==
    /\ a \in Web /\ pc[a] = "await" /\ loop = None
    /\ req[a].bill = None \/ req[a].op = "reorder"
    /\ Goto(a, "idle", Blank) /\ Commit(a)
    /\ quiet' = [quiet EXCEPT ![a] = TRUE]
    /\ UNCHANGED <<tables, store, loop>>

-----------------------------------------------------------------------------
(* The CLI menus (rentivo/cli): one connection for the whole session, bills *)
(* and billings kept in memory between prompts.                             *)

list_billings_menu(a) ==
    /\ a \in Cli /\ pc[a] = "idle" /\ Read(a).billing.live
    /\ Goto(a, "billing", [Blank EXCEPT !.info = Read(a).billing.info])
    /\ Select(a)
    /\ UNCHANGED <<tables, store, loop, quiet>>

generate_bill_menu(a) ==
    /\ a \in Cli /\ pc[a] = "billing"
    /\ \E b \in Bills, c \in Items : generate_bill(a, b, c)
    /\ quiet' = [quiet EXCEPT ![a] = req[a].info = billing.info]
    /\ UNCHANGED <<billing, receipt, store, loop>>

list_bills_menu(a) ==
    LET v == Read(a)
    IN  /\ a \in Cli /\ pc[a] = "billing"
        /\ \E b \in Bills :
              /\ get_by_uuid(v, b)
              /\ Goto(a, "menu", [req[a] EXCEPT !.bill = b, !.items = v.bill[b].items,
                                                !.status = v.bill[b].status])
              /\ quiet' = [quiet EXCEPT ![a] =
                    v.bill[b] = bill[b] /\ req[a].info = billing.info]
        /\ Select(a)
        /\ UNCHANGED <<tables, store, loop>>

\* _bill_detail_menu: one entry of the menu for the bill held in memory.
MenuChoice(a, o, to) ==
    /\ a \in Cli /\ pc[a] = "menu"
    /\ Goto(a, to, [req[a] EXCEPT !.op = o])
    /\ UNCHANGED <<tables, store, loop, snap, quiet>>

edit_bill_menu(a)  == MenuChoice(a, "edit", "update")
alterar_status(a)  == /\ \E s \in Statuses : s # req[a].status
                      /\ MenuChoice(a, "status", "status")
regenerar_pdf(a)   == MenuChoice(a, "regenerate", "render")
excluir_fatura(a)  == MenuChoice(a, "delete", "delete")

\* _edit_billing_menu: the row is written from the billing in memory and read
\* back; a billing deleted meanwhile is written too, and ends the process.
edit_billing_menu(a) ==
    /\ a \in Cli /\ pc[a] = "billing"
    /\ \E i \in Infos :
          /\ billing' = [billing EXCEPT !.info = i]
          /\ IF billing.live
             THEN /\ Goto(a, "billing", [req[a] EXCEPT !.info = i])
                  /\ snap' = [snap EXCEPT ![a] = Kept(a, [View EXCEPT !.billing = billing'])]
             ELSE Goto(a, "idle", Blank) /\ Commit(a)
          /\ quiet' = [x \in Actors |->
                x = a \/ (quiet[x] /\ (pc[x] = "idle" \/ i = billing.info))]
    /\ UNCHANGED <<bill, receipt, store, loop>>

\* "Excluir Cobrança", and back to the list.
excluir_cobranca(a) ==
    /\ a \in Cli /\ pc[a] = "billing"
    /\ billing' = [billing EXCEPT !.live = FALSE]
    /\ Goto(a, "idle", Blank)
    /\ \/ Commit(a)
       \/ snap' = [snap EXCEPT ![a] = Kept(a, [View EXCEPT !.billing = billing'])]
    /\ quiet' = [quiet EXCEPT ![a] = TRUE]
    /\ UNCHANGED <<bill, receipt, store, loop>>

\* "Voltar": the open transaction, and so the snapshot, stays.
voltar(a) ==
    /\ a \in Cli /\ pc[a] \in {"menu", "billing"}
    /\ IF pc[a] = "menu"
       THEN Goto(a, "billing", [Blank EXCEPT !.info = req[a].info])
       ELSE Goto(a, "idle", Blank)
    /\ quiet' = [quiet EXCEPT ![a] = TRUE]
    /\ UNCHANGED <<tables, store, loop, snap>>

\* "Sair" closes the connection.
sair(a) ==
    /\ a \in Cli /\ pc[a] = "idle" /\ snap[a] # None
    /\ Commit(a)
    /\ audit' = {}
    /\ UNCHANGED <<tables, store, loop, pc, req, quiet>>

-----------------------------------------------------------------------------
(* rentivo/scripts/regenerate_pdfs.py: all bills are listed first and then  *)
(* regenerated one by one.                                                  *)

ScriptList(a) ==
    LET live(b) == billing.live /\ get_by_uuid(View, b)
    IN  /\ a \in Script /\ pc[a] = "idle" /\ \E b \in Bills : live(b)
        /\ Goto(a, "next", [Blank EXCEPT !.op = "regenerate", !.info = billing.info,
              !.todo = [b \in Bills |-> IF live(b) THEN bill[b].items ELSE None]])
        /\ Select(a)
        /\ UNCHANGED <<tables, store, loop, quiet>>

\* Mutant: every PDF is rendered from the same listed bill.
ScriptNext_captured(a) ==
    /\ a \in Script /\ pc[a] = "next"
    /\ \E b, c \in Bills :
          /\ req[a].todo[b] # None /\ req[a].todo[c] # None
          /\ Goto(a, "render", [req[a] EXCEPT !.bill = b, !.items = req[a].todo[c],
                                              !.todo[b] = None, !.did = {}])
    /\ UNCHANGED <<tables, store, loop, snap, quiet>>

ScriptNext(a) ==
    /\ a \in Script /\ pc[a] = "next"
    /\ \E b \in Bills :
          /\ req[a].todo[b] # None
          /\ Goto(a, "render", [req[a] EXCEPT !.bill = b, !.items = req[a].todo[b],
                                              !.todo[b] = None, !.did = {}])
    /\ UNCHANGED <<tables, store, loop, snap, quiet>>

ScriptEnd(a) ==
    /\ a \in Script /\ pc[a] = "next" /\ \A b \in Bills : req[a].todo[b] = None
    /\ Goto(a, "idle", Blank) /\ Commit(a)
    /\ quiet' = [quiet EXCEPT ![a] = TRUE]
    /\ UNCHANGED <<tables, store, loop>>

-----------------------------------------------------------------------------
(* Environment.                                                             *)

\* The billing is edited or soft-deleted (web/routes/billing.py, or a CLI
\* session not in Cli): one commit, and no PDF is regenerated.
EditBilling ==
    /\ \E i \in Infos \ {billing.info} : billing' = [billing EXCEPT !.info = i]
    /\ quiet' = [x \in Actors |-> quiet[x] /\ pc[x] = "idle"]
    /\ audit' = {}
    /\ UNCHANGED <<bill, receipt, store, loop, pc, snap, req>>

DeleteBilling ==
    /\ billing.live /\ billing' = [billing EXCEPT !.live = FALSE]
    /\ audit' = {}
    /\ UNCHANGED <<bill, receipt, store, loop, pc, snap, req, quiet>>

\* Between any two steps the database or the store may raise, the client may
\* disconnect or the process may die; the open transaction is rolled back.
\* LocalStorage.save writes in place: a failing save can leave a torn PDF.
Fail(a) ==
    /\ pc[a] # "idle" /\ (pc[a] = "await" \/ CanStep(a))
    /\ Goto(a, "idle", Blank) /\ Yield(a) /\ Commit(a)
    /\ \/ UNCHANGED pdf /\ quiet' = [quiet EXCEPT ![a] = TRUE]
       \/ /\ pc[a] = "save"
          /\ pdf' = [pdf EXCEPT ![req[a].bill] = Torn]
          /\ quiet' = [x \in Actors |-> x = a \/ (quiet[x] /\ ~ Holds(x, req[a].bill))]
    /\ UNCHANGED <<tables, file>>

-----------------------------------------------------------------------------
Init ==
    /\ bill = [b \in Bills |-> [state |-> "absent", items |-> None,
                                status |-> "draft", pdf |-> FALSE]]
    /\ billing \in [live: {TRUE}, info: Infos]
    /\ receipt = [r \in Receipts |-> None]
    /\ audit = {}
    /\ pdf = [b \in Bills |-> None]
    /\ file = {}
    /\ loop = None
    /\ pc = [a \in Actors |-> "idle"]
    /\ snap = [a \in Actors |-> None]
    /\ req = [a \in Actors |-> Blank]
    /\ quiet = [a \in Actors |-> TRUE]

Service(a) ==
    \/ Render(a) \/ RetrieveFails(a) \/ SavePdf(a) \/ StorePdfPath(a)
    \/ update_bill(a) \/ change_status(a) \/ delete_bill(a)
    \/ AddReceiptFile(a) \/ AddReceiptRow(a) \/ safe_log(a)

Handler(a, b) ==
    \/ bill_edit(a, b) \/ bill_change_status(a, b) \/ bill_delete_post(a, b)
    \/ bill_regenerate_pdf(a, b) \/ receipt_upload(a, b)
    \/ receipt_delete(a, b) \/ receipt_reorder(a, b)

Resumed(a) ==
    \/ bill_generate_resumes(a) \/ SkipFile(a) \/ reorder_receipts(a) \/ Refused(a)

Menu(a) ==
    \/ list_billings_menu(a) \/ generate_bill_menu(a) \/ list_bills_menu(a)
    \/ edit_bill_menu(a) \/ alterar_status(a) \/ regenerar_pdf(a)
    \/ excluir_fatura(a) \/ edit_billing_menu(a) \/ excluir_cobranca(a)
    \/ voltar(a) \/ sair(a)

RunScript(a) == ScriptList(a) \/ ScriptNext(a) \/ ScriptEnd(a)

Next ==
    \/ \E a \in Actors :
          \/ Service(a) \/ bill_generate(a) \/ Resumed(a) \/ Menu(a) \/ RunScript(a)
          \/ Fail(a)
          \/ \E b \in Bills : Handler(a, b)
    \/ EditBilling \/ DeleteBilling

Spec == Init /\ [][Next]_vars

-----------------------------------------------------------------------------
(* Properties.                                                              *)

PCs == {"idle", "await", "insert", "update", "status", "delete", "reread",
        "render", "save", "point", "log", "billing", "menu", "next"}

Ops == {"generate", "edit", "regenerate", "status", "delete", "upload",
        "receipt_delete", "reorder"}

BillRow == [state: {"absent", "live", "deleted"}, items: Items \cup {None},
            status: Statuses, pdf: BOOLEAN]

BillingRow == [live: BOOLEAN, info: Infos]

ReceiptRow == [bill: Bills, sort: Nat]

Writes == ({"bill_create", "bill_update", "update_status", "bill_delete",
             "update_pdf_path", "update_sort_orders"} \X Bills)
          \cup ({"receipt_create", "receipt_delete"} \X Receipts)

Memory == [op: Ops \cup {None}, bill: Bills \cup {None}, items: Items \cup {None},
           status: Statuses \cup {None}, info: Infos \cup {None}, left: 0..MaxFiles,
           rid: Receipts \cup {None}, sort: Nat, got: SUBSET Receipts,
           order: Seq(Receipts), doc: Doc \cup {None},
           todo: [Bills -> Items \cup {None}], did: SUBSET Writes]

Snapshot(a) ==
    IF a \in Cli
    THEN [bill: [Bills -> BillRow], billing: BillingRow, receipt: {None}]
    ELSE [bill: {None}, billing: {None}, receipt: [Receipts -> ReceiptRow \cup {None}]]

\* None is no operation, document, row or snapshot.
ASSUME NoneAssumption ==
    /\ None \notin Ops /\ None \notin Doc /\ None \notin ReceiptRow
    /\ \A a \in Actors : None \notin Snapshot(a)

\* Every table, object and piece of request memory has its type.
TypeOK ==
    /\ bill \in [Bills -> BillRow]
    /\ billing \in BillingRow
    /\ receipt \in [Receipts -> ReceiptRow \cup {None}]
    /\ pdf \in [Bills -> Doc \cup {None}]
    /\ file \subseteq Receipts
    /\ loop \in Web \cup {None}
    /\ pc \in [Actors -> PCs]
    /\ DOMAIN snap = Actors /\ \A a \in Actors : snap[a] \in Snapshot(a) \cup {None}
    /\ req \in [Actors -> Memory]
    /\ quiet \in [Actors -> BOOLEAN]

\* What the object stored for b should be, by the committed tables.
Current(b) == [items |-> bill[b].items, receipts |-> list_by_bill(View, b),
               info |-> billing.info]

PdfOps == {"generate", "edit", "regenerate", "upload", "receipt_delete", "reorder"}

\* An operation that stored a PDF and was not disturbed since it read the
\* bill leaves under the bill's key exactly what the tables say: the line
\* items, the billing data and every receipt in list order
\* (BillService._generate_and_store_pdf).  The CLI is held to the first two.
QuietPdfIsCurrent ==
    \A a \in Actors :
        (pc[a] \in {"point", "log"} /\ req[a].op \in PdfOps /\ quiet[a]) =>
            LET b == req[a].bill
            IN  IF a \in Cli
                THEN /\ pdf[b].items = Current(b).items
                     /\ pdf[b].info = Current(b).info
                ELSE pdf[b] = Current(b)

\* Whatever crashes between a store and a commit, no committed row points at
\* an object that does not exist: a bill with pdf_path has a PDF
\* (_generate_and_store_pdf) and a receipt row has its file (add_receipt).
NothingDangles ==
    /\ \A b \in Bills : bill[b].pdf => pdf[b] # None
    /\ \A r \in Receipts : receipt[r] # None => r \in file

\* The calls that an entry of the audit log claims to have been made.
Claims(e) ==
    LET on(S) == S \X {e.entity}
    IN  CASE e.event = "BILL_CREATE"         -> on({"bill_create", "update_pdf_path"})
          [] e.event = "BILL_UPDATE"         -> on({"bill_update", "update_pdf_path"})
          [] e.event = "BILL_REGENERATE_PDF" -> on({"update_pdf_path"})
          [] e.event = "BILL_STATUS_CHANGE"  -> on({"update_status"})
          [] e.event = "BILL_DELETE"         -> on({"bill_delete"})
          [] e.event = "RECEIPT_UPLOAD"      -> on({"receipt_create"})
          [] e.event = "RECEIPT_DELETE"      -> on({"receipt_delete"})
          [] e.event = "RECEIPT_REORDER"     -> on({"update_sort_orders", "update_pdf_path"})

\* What the states of entry e say of its bill is what the table says.
TellsTheRow(e) ==
    /\ e.told.items # None => e.told.items = bill[e.entity].items
    /\ e.told.status # None => e.told.status = bill[e.entity].status

\* No entry of the audit log claims what its operation has not committed: the
\* operation made every call the entry stands for since its last entry, a
\* deletion stands, and unless somebody disturbed it the items and the status
\* told are the row's, in every handler and every menu (safe_log is called
\* last).
AuditTellsTheTruth ==
    [][\A e \in audit' :
          /\ Claims(e) \subseteq req[e.by].did
          /\ e.event = "BILL_DELETE" => bill[e.entity].state = "deleted"
          /\ e.event = "RECEIPT_DELETE" => receipt[e.entity] = None
          /\ quiet[e.by] => TellsTheRow(e)]_vars

\* A receipt added without disturbance is the last of its bill's list, after
\* any deletions and reorderings before it (add_receipt's max + 1).
AddedReceiptIsLast ==
    \A a \in Actors :
        (pc[a] = "render" /\ req[a].op \in {"upload", "generate"} /\ quiet[a]) =>
            LET rows == RowsOf(View, req[a].bill)
            IN  /\ req[a].rid \in rows
                /\ list_by_bill(View, req[a].bill)[req[a].rid] = Cardinality(rows)

\* The list of b in the tables, as ReceiptList keeps it.
ListOf(b) ==
    {p \in RowsOf(View, b) \X RowsOf(View, b) : p[1] = p[2] \/ Precedes(View, p[1], p[2])}

Lists == INSTANCE ReceiptList WITH list <- [b \in Bills |-> ListOf(b)]

\* The receipts table implements one strict list per bill: whatever snapshot a
\* sort_order was computed from and however many receipts share one, no two
\* receipts tie, and an upload, a deletion or a reordering changes the list of
\* one bill and keeps the order of the receipts it is not about.
ListsAreKept == Lists!Spec

\* An undisturbed reordering that names every receipt once puts the list in
\* exactly that order (reorder_receipts, update_sort_orders).
ReorderTakesEffect ==
    \A a \in Actors :
        ( /\ pc[a] = "render" /\ req[a].op = "reorder" /\ quiet[a]
          /\ IsInjective(req[a].order) ) =>
            \A i \in 1..Len(req[a].order) :
                list_by_bill(View, req[a].bill)[req[a].order[i]] = i

\* README.md: receipts attached to a bill are "merged into the invoice PDF".
\* An operation that stored a PDF, was not disturbed and runs alone has merged
\* them all.
ReceiptsAreMerged ==
    \A a \in Actors :
        ( /\ pc[a] \in {"point", "log"} /\ req[a].op \in PdfOps /\ quiet[a]
          /\ \A x \in Actors \ {a} : pc[x] = "idle" ) =>
            \A r \in RowsOf(View, req[a].bill) : pdf[req[a].bill].receipts[r] > 0
=============================================================================
