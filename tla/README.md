# Rentivo: a TLA+ model of its bills, billings, organizations, accounts and migrations

Rentivo (landlord-cli) issues rent bills. A web application (FastAPI, one
process, one event loop), an interactive CLI and a `regenerate_pdfs` script
share one MariaDB database and one object store. This directory models the
parts of it whose state is changed by more than one step or more than one
program, model-checks them with TLC on small instances and proves the most
important invariants with TLAPS for every size.

## The system

| component | state | operations | interacts with |
|---|---|---|---|
| bills (`bill_service.py`, `web/routes/bill.py`, `cli/bill_menu.py`) | table `bills`, one PDF per bill in the store | generate, edit, change status, delete, regenerate PDF | reads billings and receipts, writes PDFs, logs |
| receipts (same service) | table `receipts`, one file per receipt | upload, delete, reorder | every change regenerates the bill's PDF |
| `regenerate_pdfs` | the list it made at its start | render every bill again | bills, receipts, store |
| billings (`billing_service.py`, `web/routes/billing.py`, `cli/billing_menu.py`) | tables `billings` (with owner) and `billing_items` | create, edit, delete, transfer; add, edit and remove items | bills are generated from the items; PDFs take name and PIX key from it; organizations own it |
| amounts, forms and lines (`models/__init__.py`, `web/forms.py`, `repositories/sqlalchemy.py`) | none | format and parse amounts, read formsets, number lines | every edit of a bill or billing passes through them |
| PIX (`pix.py`) | none | payload with lengths and CRC | printed on every PDF with a PIX key |
| themes (`theme_service.py`, `web/routes/theme.py`) | table `themes`, one row per user, organization or billing | save, reset, resolve for a billing | permissions by organizations; the web's PDFs are rendered with them |
| organizations, members, invites | three tables | create, edit, delete, roles, removal, invite, accept, decline, enforce MFA | billings' owners, authorization, enforcement of MFA |
| accounts (`web/auth.py`, `web/routes/security.py`, `mfa_service.py`) | tables `users`, `user_totp`, `user_recovery_codes`, `user_passkeys`; the session in each browser's cookie | login, sign-up, second factor, set-up and removal of factors | enforcement by organizations |
| rate limiters (`web/auth.py`) | two dictionaries in memory | check, record, clear | login and mfa-verify |
| audit log | table `audit_logs` | `safe_log`, which swallows its failures | the end of every operation |
| set-up of the database (`db.py`, `alembic/`) | the schema, table `alembic_version` | `initialize_db`: 18 revisions, statement by statement | runs at the start of the web application, the CLI and the scripts |

What is hard here is not one function but the order of small steps. A bill
operation is several commits and a write to the store; nothing wraps them in a
transaction. The web process gives way to another request only where a handler
suspends, which is rarely but exactly in the middle of uploads and reorderings.
The CLI lives for hours on one connection, whose REPEATABLE READ snapshot is as
old as its last commit. Sessions live in cookies, so concurrent answers
overwrite each other. Amounts and items travel through texts, forms and memory
and must arrive as they left. Both programs migrate the database when they
start, at the same time and without a lock, with a database that commits every
statement that changes the schema. PROJECT.json lists the hazards at their lines and which
property covers each.

## Modules

| module | models | proofs |
|---|---|---|
| `Bills` | bills, receipts, PDFs, the billing data in them, the web handlers, the CLI menus, the script, crashes | `Bills_proofs`, `Quiet_proofs` |
| `ReceiptList` | the abstract list of receipts of each bill; `Bills` implements it | `Quiet_proofs` (the refinement) |
| `Organizations` | organizations, members, invites, ownership of billings | `Organizations_proofs` |
| `Themes` | the rows of `themes`, their routes and audit entries, the theme of a PDF; extends `Organizations` | `Organizations_proofs` |
| `Accounts` | users, cookies, TOTP, recovery codes, passkeys, enforcement flag | `Accounts_proofs` |
| `Limiter` | the rate limiters | `Limiter_proofs` |
| `Billings` | the items of a billing, edited from the web and from the CLI's memory, and the bills generated from them; extends `BillLines` | `Billings_proofs` |
| `BillLines` | the lines of a bill: generation, the edit form, the CLI's prompts, `sort_order`; extends `Amounts` | `Conversions_proofs` |
| `Amounts` | `format_brl`, `parse_brl` and the floats between them | `Conversions_proofs` |
| `Pix` | the fields of the PIX payload and a reader of them | `Conversions_proofs` |
| `Conversions` | the inputs the three modules above are checked with, and the properties | `Conversions_proofs` |
| `Checksum` | the CRC of the payload and the division that defines it; extends `Conversions` | none |
| `Migrations` | `initialize_db` by several processes, for any chain of revisions | `Migrations_proofs` |
| `Revisions` | the program's chain, as data for `Migrations` | none |

`MCBills`, `MCOrganizations`, `MCThemes`, `MCAccounts`, `MCLimiter`,
`MCBillings` and `MCMigrations` extend them with symmetry sets and values of
constants; the `.cfg` files give the rest. An operator named `x_y`
whose comment starts with "Mutant:" is `x` with a plausible bug; it is not used
by any specification.

### Bills

An *actor* is a web request, a CLI session or a script run. `pc[a]` is its next
step, `req[a]` what it holds in memory (the `Bill` and `Billing` objects, the
upload's remaining files, the rendered document), `snap[a]` the snapshot of its
open transaction. Each commit and each store is an action; between two of them
anybody else may act, except that a web request runs only while it holds
`loop`, which it gives up at each `await` that really suspends (`pc = "await"`)
and when it ends. `Read(a)` is what a SELECT of `a` answers: the snapshot of
the open transaction, or the tables if none is open. `Kept` reduces the
snapshot to the part the actor reads again before its next commit.

`Render`, `SavePdf` and `StorePdfPath` are `_generate_and_store_pdf`;
`update_bill`, `change_status`, `delete_bill`, `generate_bill`,
`AddReceiptFile`/`AddReceiptRow` and `reorder_receipts` are the service's
methods; the other actions carry the name of the route or of the menu entry
they model. `Fail` is an exception, a disconnection or a crash between any two
steps; `LocalStorage.save` writes in place, so a failing save may leave a torn
PDF.

`quiet[a]` is a history variable: since `a` read the bill, nobody else changed
that bill, its receipts, its PDF or the billing. Without it the property "the
PDF is what the tables say" is false by design: there is no lock, and two
programs that work on one bill can leave the PDF of the slower one. With it the
property says that no operation *by itself* leaves a wrong PDF, in whatever
state the others left the bill.

`ReceiptList` says what all of this is for: each bill has one strict order of
its receipts, and one operation inserts into, removes from, or reorders the
list of one bill. `Lists` instantiates it with the order of the pairs
`(sort_order, id)`, the refinement mapping `ListOf`, and the run `web` checks
`Lists!Spec` as the property `ListsAreKept`.

`did` is a history variable too, a field of what an actor holds: the calls it has
committed since its last audit entry. An entry is a record of who wrote it, the
event, the row it is about and what its states tell of the bill: the items and the
status that the `Bill` object in memory has at that moment (`serialize_bill`).
`AuditTellsTheTruth` compares each entry at the step that writes it with both.
`Claims` are the calls that an event stands for: the entry of an edit, for example,
needs the UPDATE of the bill and the new `pdf_path`, made by this operation.
`TellsTheRow` asks that the told items and status are those of the row, unless
somebody disturbed the actor.

Left out: what else audit entries contain (paths, file names, orders, due dates);
the reading routes. Themes are in a module of their own.

### Organizations

No handler here suspends between its first SELECT and its last COMMIT, because
`CSRFMiddleware` has received the form before the handler starts. So `run`, the
request in progress, is one record, and a new handler starts when it is `None`.
The CLI is another process and writes billings at any moment. `interrupted` and
`abandoned` are history: which creations and acceptances a failure cut, and
whose last admin gave up the role. They state what the exceptions to an
invariant are, instead of weakening it.

### Themes

`Themes` extends `Organizations`: who may set a theme, and whose theme a PDF
shows, depends on members and owners that change meanwhile. A step of
`Organizations` is a step of `Themes` (`OrganizationsStep`), held back only
while a theme's handler is between its two commits (`entry`). `told` is history:
each owner's theme as one would reconstruct it from the audit log, until an
entry about it is lost. `job` is a bill operation: it holds the `Billing` it
loaded, with the owner of that time, and renders later; only the web
application's jobs use the themes.

### Accounts

A request carries the cookie as it was when it was sent (`send`), its handler
runs, and `deliver` overwrites the cookie with the session the handler ended
with, whatever happened to the cookie in between. Answers may be lost (`Fail`)
or delivered in any order. `confirm_totp`, `_generate_recovery_codes`,
`setup_totp` and `disable_totp` commit more than once; `loop` is the request
between two of its commits, and `Fail` can cut it there (`cut`). The flag that
holds a user at the set-up is set by the logins and by two more handlers, the
admin's switch of enforcement and the acceptance of an invite
(`organization_toggle_mfa`, `invite_accept`). A password, a TOTP code or a
WebAuthn response is right or wrong as the environment likes.

### Limiter

Times are kept as ages, which makes the model finite while time runs for ever.
A request is checked, waits for its form, and is then recorded, cleared or
abandoned.

### Billings and their lines

`Billings` is about the identity of items: an update deletes the rows and
inserts them again with new ids, while the CLI holds the old ones in memory and
a browser tab holds a form whose fields carry them. `pc` is the next step of
each of the two editors, `mem` what it holds, `seen` the CLI's snapshot, `tab`
a form for a new bill and the items its request loaded. `fresh`, `dirty` and
`informed` are history: they tell whether an editor knew what it replaced.

`BillLines` and `Amounts` are pure: `generate_bill`, `bill_edit`,
`edit_bill_menu`, `parse_formset`, `Stored` and `Loaded` (the numbering of the
repository and `ORDER BY sort_order`, which may answer any order that agrees
with the numbers), `format_brl_input` and `parse_brl`. A binary64 float is
modelled as `m / 2^k` with an `m` of `Bits` bits, rounded half to even, so that
the borders of what a float can count are within reach; the grouping of digits
is one of `Group` digits. `InOrder` lists a set of places from the smallest on;
it is a definition by CHOOSE where the library has a recursive one, which the
proofs could not use. `Pix` builds the payload as a sequence of digits and
letters, with lengths of as many digits as they need up to what a TEXT column
holds, and has a reader of such payloads: `Reading` gives the fields read from
every place on, a recursive function. Which characters a text has is left out: what
`_strip_accents` replaces, and that `encode("ascii")` raises on others. The answers
to the prompts of `edit_bill_menu` are the ones each prompt ends with (it asks again
until the text is an amount, for an extra one above 0). `Checksum` computes the CRC with the
bitwise operators and, to compare, by dividing polynomials; it is a module of its
own because nothing that reaches `Bitwise` can be proved about.

`Conversions` has the inputs: amounts, bills, forms with holes, lengths of PIX
fields (`Checksum` adds data for the CRC). They are the values of `input` in the initial states of
`Billings`, beside its simplest billing; the first step forgets them, so they
add states and not factors.

### Migrations

A revision is a sequence of statements, a statement a record of the objects
(tables, columns, indexes) it adds, drops and needs. It is executed if they are
as it expects, and fails otherwise, which ends the process. Every statement is
an action, because MariaDB commits each. `initialize_db` reads the version
once; `update_version` is Alembic's UPDATE with the old version in its WHERE,
and `VersionFails` its "expected to match one row". `Kill` is possible at any
statement, and a dead process may start again. The rows of the revision
`a7b8c9d0e1f2` (a billing, a bill, the path of its PDF) are followed through
its two passes, `Collected` and `Replaced`, in a database that starts with uuids
(revision 3 or later; the rows of the two releases before are not followed).
Alembic's creation of its version table in an empty database is left out: of two
processes that create it at once, the loser fails before its first statement, as if
it had not started. `overlap` and `killed` are history
and name the two cases an invariant excludes. `Leftovers` are the objects that
a later revision drops: a process that has stalled since before then may add
them again.

`Revisions` lists the 18 `upgrade()` functions; it can be read beside
`src/alembic/versions`.

## Runs

| run | bounds | states, time | what it shows |
|---|---|---|---|
| `web` | 2 requests, 1 bill, 2 receipts, 2 contents | 1.3 million, 2 min | undisturbed operations leave a current PDF, nothing dangles, audit entries tell what was committed, a reordering has its effect, the table implements `ReceiptList` |
| `receipts` | 1 request, 2 bills, 3 receipts | 3.2 million, 1.5 min | a new receipt is always last, also after a deletion, also after an order with duplicates |
| `cli` | 1 request, 1 CLI session, 2 contents of the bill and of the billing, 2 statuses | 3.3 million, 2 min | current PDFs and true audit entries with the CLI's snapshot and in-memory bill and billing |
| `script` | 1 request, 1 script, 2 bills | 520 thousand | the script's list against later edits |
| `merge` (violation) | 1 request, 1 CLI | 15 thousand | the CLI's PDFs lose the receipts |
| `organizations` | 3 users, 1 organization, 3 invites | 2.8 million, 1 min | invites, memberships and admins |
| `themes` | 1 user, 2 organizations, 1 billing, 1 field with 2 values, 1 bill operation | 5.5 million, 2 min | the audit log retells the themes, PDFs show what the page shows, ownership moves once |
| `accounts` | 1 user, 1 browser, 2 requests, 2 codes, 1 passkey | 1.4 million | a code logs in once, codes and TOTP together, one identity per session, every login checked |
| `limiter` | 2 addresses, 2 requests, limit 2, window 3 | 2.8 thousand | bounded overshoot, every lockout ends |
| `billings` | 1 item name, 2 items, 4 ids, amounts 0 and 1; lines up to 3, floats of 11 bits; 9 thousand inputs of conversions | 2.6 million, 2 min | what is in the CLI's memory can be charged, amounts reach the item they were typed for, previous states are true; forms, amounts, payloads and CRC against their definitions |
| `migrations` | 2 processes, the 18 revisions, any earlier version | 72 thousand, 5 s | nobody serves on half a schema, one process in a revision, errors leave no half, paths follow uuids, somebody serves |

Why the bounds are enough to be interesting: two actors give every pair of
steps in every order, and each property speaks of one actor and what the others
did; two receipts give every relative order and three the case where a
duplicate order has left a gap; two contents tell an old value from a new one.
Contents, bills, users, requests and codes are symmetric where no order between
them matters. `MaxFiles` bounds the files of one form, `Receipts`, `Bills`,
`Invites`, `Billings` and `Codes` the rows ever created. `BatchSize` stands for the ten
codes of a batch. `MaxIds` bounds the ids ever given to items: four allow an
update of two items and then an update of one by somebody who has not seen it.
`Bits` and `Group` scale the float and the groups of digits down together, to
where all amounts can be enumerated. In the runs that say `CHECK_DEADLOCK FALSE`
all rows may be used up or deleted, or all processes serve or are dead, and then
nothing is left to do.

### Fairness

`LockoutEnds` assumes only that time passes (`WF(Tick)`).
`SomeoneServes` assumes that a process that has been started executes its
statements (weak fairness, of the operating system and the database), but not
that anything starts a dead one again: `docker-compose.yml` would, a shell
would not.

### Findings

The run `merge` shows where the code and a text of the repository disagree: the
README says receipts are merged into the invoice PDF; a bill edited or
regenerated from the CLI loses them, because the CLI builds `BillService`
without a receipt repository.

Other observations made while modelling. They are in the models as the code has
them, and the properties are stated so that they hold with them:

* `reorder_receipts` refuses an incomplete order with "Must include all receipts
  in the new order", but compares lengths only: `[A, A]` passes for the receipts
  A and B (`order` in `Bills` ranges over such lists).
* The MFA enforcement flag is in the cookie, and outlives the set-up of a second
  factor in another browser: that user is held at the set-up until the next login.
* The README promises "audit logging of all operations";
  `organization_transfer_billing` ends without an entry, while the same transfer
  from the billing's page writes `BILLING_TRANSFER`.
* `a7b8c9d0e1f2` rewrites `pdf_path` in the table, but nothing moves the objects
  in the store. Two processes that run it at the same time can leave a path
  that names neither uuid (`PathsFollowUuids` excludes them by `overlap`).
* A process that has stalled in `add_paid_at_to_bills` since before
  `add_bill_status` can add `paid_at` again (`Leftovers`).
* A revision that was killed half-way makes every later start fail at its first
  statement, until somebody repairs the schema by hand (`ErrorsLeaveNoHalf`
  excludes it by `killed`).
* A billing that is edited while a form for a new bill is open gets new item
  ids, so the amounts of variable items in that form are silently charged as 0
  (`ChargedForTheRightItem` allows nothing or the right amount).
* The web's forms accept amounts that the CLI's prompts refuse (zero for a fixed
  item, negative ones).
* A cancelled edit of an item stays in the CLI's memory and is written by the
  next update (`dirty`).
* A PIX key longer than 77 characters makes a payload that no reader can split
  (`PayloadsAreReadable` says both).

## Proofs

All proofs are for arbitrary sets of actors, rows, users and so on, from the
named assumptions of the modules: `None` is none of the values (nor an operation,
nor a number), the kinds of actors and the kinds of owners are disjoint, receipt
ids are natural numbers and finitely many, a batch has at least one code, a
billing has room for an id per item (`MaxItems <= MaxIds`), zero can be typed and
extra lines are lines (`ExtrasAssumption`), a float has at least three bits and a
group more than one number (`AmountsAssumption`), an empty field is neither a name
nor a number nor a text (`BillLinesAssumption`), the inputs are amounts a float
can count, bills and forms of any length with extras last, and keys a column can
hold (`InputsAssumption`), there are finitely many concurrent
requests to a limiter, and four facts about the chain of revisions, below. TLC
evaluates each of them for the values of the runs.

**Bills_proofs.** `TypeCorrect` and `NoDanglingRows`. `NothingDangles` is not
inductive: that `StorePdfPath` sets a pointer to something depends on the
actor's earlier `SavePdf`, and objects are never removed from the store. The
inductive invariant adds `AllReady`: a working actor has a bill, one at `save`
holds a rendered document, one at `point` has a PDF stored for its bill, one at
`insert` has its file stored, and only the web actors ever suspend in an `await`.

**Quiet_proofs.** What an undisturbed operation achieves. None of the four
properties of `Bills` it proves is inductive, because each speaks of the end of
an operation and the reason lies steps back, in what the actor read. `QInv` has
two predicates per actor. `Sound` holds of everybody: which operation an actor is
in at each `pc` (`Course`), that nothing it holds or has in its snapshot is a bill
that was never made (`Born`), that the receipts of a snapshot have files and keep
their bill (`Known`), that the receipt it is about to insert is in nobody's
snapshot or deletion (`Fresh`), and that a deletion it is about to log stands
(`Done`). `Quiet` holds of an actor nobody has disturbed: the billing,
the line items and the rows it holds or would read are those of the tables, the
document it has rendered and the PDF it has stored show them, its receipt goes
last, its order is taken. The proof has one half for the actor's own steps and one
for the others': a step of another actor either leaves the part that `Quiet`
speaks of alone or ends the quiet. `QuietPdfs`, `AddedLast` and `OrderTaken` are
the consequences.

`AuditIsTrue` needs one more invariant, `AllEarned`: which calls an actor has
committed by the time it is at each `pc` of each operation (`Earns`), for example
that an edit at `save` has made its UPDATE and a generation that goes on to the next
file has stored its `pdf_path`. It is inductive beside `QInv`. At `log` it gives the
calls that `Claims` names; `Done` gives that a deletion stands, and `Quiet` that the
items and the status in memory are the row's.

`ListsKept` is the refinement: `Spec => Lists!Spec`. Every step of `Bills` that
changes the receipts table has `Inserted`, `Removed` or `Reordered` one bill's
list under the mapping `ListOf`, and every other one a stutter. The order by
`(sort_order, id)` is strict whatever the numbers are, an inserted row falls
somewhere in it without moving the others, and a reordering moves only rows of
one bill; none of this needs the actor to be undisturbed.

**Organizations_proofs.** One inductive invariant gives all the safety
properties: the five checked invariants together with what a half-done request
has already committed (`HalfDone`), that a row that does not exist has no
members (`NobodyEarly`), that an invite's organization exists
(`InvitesExist`), and that a transfer under way was checked against a row whose
type cannot change meanwhile (`TransferSound`). The two action properties
follow from it step by step.

The same module proves what `Themes` adds. `ThemesLeaveOrganizations`: a behaviour of the composition is
one of `Organizations`, so its theorems hold of the composition as well (the
check of `OwnedOnce` in the run `themes` is an instance). `LogRetellsThemes` is
inductive once joined with the types; its argument is that between a change and
its entry nobody else changes any theme (`Idle`). `RenderedAsShown` follows from
the two ways to resolve a theme agreeing row by row.

**Accounts_proofs.** The inductive invariant adds to the checked ones: which
steps have a user or a pending user (`Signed`), that the loop is held exactly
between commits (`Held`), that codes are replaced under a confirmed TOTP and
deleted without one (`Confirmed`), and that a code that completed a login was
drawn once and is used or gone (`Consumed`). `CodesLogInOnce` is where it
matters: `list_unused_by_user` can only offer a code whose count is still zero,
and a new batch never contains one drawn before. `LoginsAreChecked` is an
action property: it needs `Enrolled` (only existing users are members), because
`signup` sets no flag at all. `TotpHasCodes`, the converse of
`CodesAndTotpTogether`, follows from the same invariant.

**Billings_proofs.** The properties rest on what an id says of its item. `Stock`:
every list of items, in the table, the CLI's memory, its snapshot or a tab, has
ids below the counter. `Agree`: one id in the tab and in the table is one item,
because an update gives new ids to all of them. So `RightItemCharged`: what the
form carries for an id reaches the item that was shown, or no item has the id any
more. `CliKnows` (an undisturbed CLI without a cancelled edit holds what is
stored) and `Informed` (an editor that knew what it replaced remembers it until
its entry) give `MemoryIsAsStored` and `AuditNamesReplaced`.

**Conversions_proofs.** The inputs are of any size: amounts up to a quarter of what
a float counts, bills and forms of any length with any holes, keys and names of any
length. Functions over such data invite induction; where it would be needed, the
proof takes the least number for which the claim fails instead (`LeastNumber`).

* `AmountsComeBack`: an amount passes through three roundings, the float of its
  text, the float times 100, and `round`. A float of `Bits` bits is off by at
  most half of its last bit (`FloatIs`), so the product is off by less than half
  a centavo as long as the amount is at most `2^(Bits - 2)` centavos, and `round` cancels
  both (`HundredTimes`, `ShownIsRead`). For binary64 that is 22 thousand billion
  reais.
* `UntouchedBillsStay` and `EditedLinesAlwaysFollowTheForm`: the numbers of a
  finite set of places have exactly one order from the smallest on
  (`RisingExists`, `RisingIsUnique`), so that `InOrder` of a part, of an interval,
  of the rows left after a removal is what one expects. Rows that `Stored` has
  numbered come back in exactly one order, whatever the database does with equal
  numbers, because none are equal (`LoadedAsStored`). The edit form and the CLI's
  prompts each hand `Stored` the lines in the order shown.
* `KeysUpTo77AreRead`: what is read from a place on does not depend on what
  stands before it (`ReadingIsMoved`), and a field of at most 99 characters is
  read as it was written (`TlvIsRead`). So the payload of a short key is read field by
  field, from the last to the first (`BodyRead`), and so is the account with the
  key inside it. A key of 78 to 99 characters makes an account of 100 to 121, whose
  length has three digits: the reader takes two of them, and after that few
  characters it stands among the letters of `br.gov.bcb.pix`, where there is no field
  (`LongAccountsAreNotRead`). A key of 100 or more is not the value of any field
  of two digits (`LongKeysAreNotRead`).

**Limiter_proofs.** `BurstsAreBounded` is inductive together with the types and
`InOrder`: the attempts of an address are in the order of time, oldest first.
`_prune` filters a list; because of the order the filter only cuts off a beginning
(`RecentIsPruned`, `InitialSegment`), and so it can be reasoned about without
induction over sequences. A record adds a failure for a request that was counted
as waiting, and a check lets one more wait only below the limit.

**Migrations_proofs.** For any chain and any number of processes, from
`LocksAssumption`, that each revision of `Locking` begins with a statement that
adds an object which no other statement adds, and `RowsAssumption`, that rows
are touched by the first two statements of one revision only. The invariant
`MInv`: no process is more than one revision ahead of the version table
(`Behind`); whatever a finished revision or an executed statement has added and
nothing ever drops is in the schema (`Kept`); and `OneAtATime` itself. A process
that executes the first statement of a revision found its object missing, so by
`Kept` nobody is inside and the version has not passed: the statement works as a
lock. `ServesOnWhole` follows from `Behind` and `Kept`. `PathsAreFollowed` adds
that what a process has collected is what it would collect now, and that
billing and bill change together (`PathInv`).

`ErrorsLeaveWholes` needs to know the schema exactly, and that the chain works:
`StepwiseAssumption`, each statement adds what no other adds and finds what it
drops or needs, and `BeginsAssumption`, each revision but the one that changes rows
begins with something it adds and keeps. (The 18 revisions satisfy both; TLC says
so at the start of the run, and a chain in another order is refused there.) While
nobody has been killed, the schema is what the executed statements make it
(`AsDone`), a statement being executed if its revision is finished or a living
process is past it, and one process is in the revision that is due (`OneIsDue`).
Hence whoever is in it can execute the next statement (`CanGoOn`), and an error
hits only those that lost the race for its beginning or are in a finished one.

Only model-checked:

* liveness (`LockoutEnds`, `SomeoneServes`): the provers here do
  not reach fairness and `ENABLED`;
* `CrcIsTheRemainder`: its operators are bitwise, and a module that reaches
  `Bitwise` has no prover; the run enumerates all data of one byte and many of two;
* the violation `merge`.

The type invariants of `Accounts`, `Organizations`, `Themes` and `Migrations` are
proved and therefore not part of a run; those of the other modules are.

## Not modelled

* PDF layout (`pdf/invoice.py`): drawing; its inputs are modelled and nothing
  reads its output.
* The picture of the PIX QR code, accents in names, `format_month`.
* CSRF tokens and flash messages: a refused request changes nothing here; that
  the middleware receives the body first is what two modules rely on.
* The S3 client, presigned URLs, settings, logging, health check, error pages.
* `downgrade()` of the revisions, which nothing runs; types and defaults of columns.
* The seed script: one sequential run over the repositories, on an empty
  database, to which nothing reacts.
* Reading routes, and the states of audit entries other than those of themes and
  billings and the items and status of bills.

## Plan

Done: the modules above with their runs, and the theorems above; every safety
invariant and every action property that a run checks is proved, except
`CrcIsTheRemainder`. What is left:

1. Authorization composed with `Bills`: `can_manage_bills` and `can_view_billing`
   with memberships that change while a request is suspended.
2. `OneRunsAtATime` for a chain whose revision has been repaired by hand.
