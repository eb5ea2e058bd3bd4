---------------------------- MODULE Quiet_proofs ----------------------------
(***************************************************************************)
(* What an operation on a bill may rely on while nobody disturbs it        *)
(* (quiet), and what every entry of the audit log rests on, for any sets   *)
(* of requests, CLI sessions, scripts, bills and receipts.                 *)
(*                                                                         *)
(* Two predicates of one actor are kept by its own steps and by those of   *)
(* the others.  Sound holds of every actor: which operation it is in, and  *)
(* what it holds exists or existed.  Quiet holds of an undisturbed one:    *)
(* what it holds is what the tables say.  Earned, at the end, says which   *)
(* calls an actor has committed at each of its steps.                      *)
(***************************************************************************)
EXTENDS Bills_proofs

\* The operation an actor is in, at each of its steps.
Course(a) ==
    /\ pc[a] = "idle" => req[a] = Blank /\ (a \in Cli \/ snap[a] = None)
    /\ pc[a] \in {"billing", "menu"} => a \in Cli /\ req[a].op = None
    /\ pc[a] = "next"   => a \in Script /\ req[a].op = "regenerate"
    /\ pc[a] = "await"  => a \in Web /\ req[a].op \in {"generate", "upload", "reorder"}
    /\ pc[a] = "await" /\ req[a].op = "reorder" => req[a].left = 0
    /\ pc[a] = "insert" => a \in Web /\ req[a].op \in {"generate", "upload"}
    /\ pc[a] = "update" => req[a].op = "edit"
    /\ pc[a] = "status" => req[a].op = "status"
    /\ pc[a] = "delete" => req[a].op = "delete"
    /\ pc[a] = "reread" => req[a].op \in {"generate", "edit"}
    /\ pc[a] \in {"render", "save", "point"} => req[a].op \in PdfOps
    /\ pc[a] = "log"    => req[a].op \in Ops
    /\ a \in Script => pc[a] \in {"idle", "next", "render", "save", "point"}
                       /\ req[a].op \in {None, "regenerate"}
    /\ a \notin Script => \A b \in Bills : req[a].todo[b] = None

\* A bill that does not exist is held by nobody and in no snapshot.
Born(a) ==
    \A b \in Bills : bill[b].state = "absent" =>
        /\ ~ Holds(a, b)
        /\ a \in Cli /\ snap[a] # None => snap[a].bill[b].state = "absent"

\* The receipts of a snapshot have their files, and never change their bill.
Known(a) ==
    a \notin Cli /\ snap[a] # None =>
        \A r \in Receipts : snap[a].receipt[r] # None =>
            /\ r \in file
            /\ receipt[r] # None => receipt[r].bill = snap[a].receipt[r].bill

\* The receipt about to be inserted is new to everybody.
Fresh(a) ==
    pc[a] = "insert" =>
        /\ receipt[req[a].rid] = None
        /\ \A x \in Actors :
              /\ x \notin Cli /\ snap[x] # None => snap[x].receipt[req[a].rid] = None
              /\ req[x].op = "receipt_delete" => req[a].rid \notin req[x].got
              /\ x # a /\ pc[x] = "insert" => req[x].rid # req[a].rid

\* What cannot be undone and an actor will write an entry about has happened.
Done(a) ==
    /\ req[a].got \subseteq file
    /\ req[a].op = "receipt_delete" => \A r \in req[a].got : receipt[r] = None
    /\ pc[a] = "log" /\ req[a].op = "delete" => bill[req[a].bill].state = "deleted"

Sound(a) == Course(a) /\ Born(a) /\ Known(a) /\ Fresh(a) /\ Done(a)

AllSound == \A a \in Actors : Sound(a)

-----------------------------------------------------------------------------
\* The tables v and w of receipts have the same rows of bill b.
SameRows(v, w, b) ==
    \A r \in Receipts :
        ((v[r] # None /\ v[r].bill = b) \/ (w[r] # None /\ w[r].bill = b)) => v[r] = w[r]

\* The steps at which the bill in memory is, or will be, used.  The script
\* knows of the bills' items only.
ItemsUsed == {"render", "save", "point", "log", "insert", "menu", "status", "delete", "await"}

\* Document d is what the tables say of b, as far as a could know it.
Shows(a, d, b) ==
    IF a \in Cli THEN d.items = Current(b).items /\ d.info = Current(b).info
    ELSE d = Current(b)

InfoIsCurrent(a) ==
    pc[a] \notin {"idle", "billing"} => req[a].info = billing.info

ItemsAreCurrent(a) ==
    /\ pc[a] \in ItemsUsed /\ req[a].bill # None =>
          /\ req[a].items = bill[req[a].bill].items
          /\ a \notin Script => req[a].status = bill[req[a].bill].status
    /\ \A b \in Bills : req[a].todo[b] # None => req[a].todo[b] = bill[b].items

RowsAreCurrent(a) ==
    a \notin Cli =>
        \A b \in Bills : Holds(a, b) => SameRows(Read(a).receipt, receipt, b)

DocIsCurrent(a) ==
    pc[a] = "save" => Shows(a, req[a].doc, req[a].bill)

PdfIsCurrent(a) ==
    ( \/ pc[a] \in {"point", "log"} /\ req[a].op \in PdfOps
      \/ pc[a] = "await" /\ req[a].op = "generate" /\ req[a].bill # None ) =>
        Shows(a, pdf[req[a].bill], req[a].bill)

\* The next receipt goes behind the others, and the one just added is there.
LastIsLast(a) ==
    LET b == req[a].bill
        rows == RowsOf(View, b)
    IN  /\ pc[a] = "insert" => \A r \in rows : receipt[r].sort < req[a].sort
        /\ pc[a] = "render" /\ req[a].op \in {"upload", "generate"} =>
              /\ req[a].rid \in rows
              /\ list_by_bill(View, b)[req[a].rid] = Cardinality(rows)

OrderIsKept(a) ==
    pc[a] = "render" /\ req[a].op = "reorder" /\ IsInjective(req[a].order) =>
        \A i \in 1..Len(req[a].order) : list_by_bill(View, req[a].bill)[req[a].order[i]] = i

Quiet(a) ==
    quiet[a] =>
        /\ InfoIsCurrent(a) /\ ItemsAreCurrent(a) /\ RowsAreCurrent(a)
        /\ DocIsCurrent(a) /\ PdfIsCurrent(a)
        /\ LastIsLast(a) /\ OrderIsKept(a)

AllQuiet == \A a \in Actors : Quiet(a)

QInv == IInv /\ AllSound /\ AllQuiet

-----------------------------------------------------------------------------
(* What a step of one actor may do to the others.                           *)

\* Nothing that the others hold but what a disturbed one may lose: rows and
\* files stay, and a row of receipts appears only where a was inserting it.
Keeps(a) ==
    /\ file \subseteq file'
    /\ \A b \in Bills : bill[b].state # "absent" =>
          /\ bill'[b].state # "absent"
          /\ bill[b].pdf => bill'[b].pdf
          /\ bill[b].state = "deleted" => bill'[b].state = "deleted"
    /\ \A r \in Receipts : receipt'[r] # None =>
          \/ receipt[r] # None /\ receipt'[r].bill = receipt[r].bill
          \/ pc[a] = "insert" /\ req[a].rid = r

\* The snapshot of a shows what it showed, or what the tables show.
Sees(a) ==
    /\ a \in Cli /\ snap'[a] # None =>
          \A b \in Bills : snap'[a].bill[b].state # "absent" =>
             \/ bill[b].state # "absent"
             \/ snap[a] # None /\ snap[a].bill[b].state # "absent"
    /\ a \notin Cli /\ snap'[a] # None =>
          \A r \in Receipts : snap'[a].receipt[r] # None =>
             \/ snap'[a].receipt[r] = receipt[r]
             \/ snap[a] # None /\ snap'[a].receipt[r] = snap[a].receipt[r]

\* A new receipt of a is new to the store, and one it deleted was there.
Moves(a) ==
    /\ pc'[a] = "insert" => req'[a].rid \in Receipts \ file
    /\ req'[a].op = "receipt_delete" =>
          \A r \in req'[a].got : receipt[r] # None \/ (req[a].op = "receipt_delete" /\ r \in req[a].got)

\* Only a moves.
Alone(a) ==
    \A x \in Actors \ {a} : pc'[x] = pc[x] /\ req'[x] = req[x] /\ snap'[x] = snap[x]

\* What x holds is left as it is, or x is no longer undisturbed.
Spared(x) ==
    quiet'[x] =>
        /\ quiet[x]
        /\ pc[x] \notin {"idle", "billing"} => billing'.info = billing.info
        /\ \A b \in Bills : Holds(x, b) =>
              /\ bill'[b].items = bill[b].items /\ bill'[b].status = bill[b].status
              /\ pdf'[b] = pdf[b]
              /\ SameRows(receipt, receipt', b)

\* Who is idle holds no bill.
LEMMA IdleHoldsNone ==
  ASSUME NEW a \in Actors, req[a] = Blank, NEW b \in Bills
  PROVE  ~ Holds(a, b)
  BY BillsAssumption DEF Blank, Holds

\* The rows of a bill and their order depend on the rows of the bill only.
LEMMA SameRowsSameList ==
  ASSUME NEW v, NEW w, NEW b, SameRows(v.receipt, w.receipt, b)
  PROVE  /\ RowsOf(v, b) = RowsOf(w, b)
         /\ \A r \in RowsOf(v, b) : v.receipt[r] = w.receipt[r]
         /\ list_by_bill(v, b) = list_by_bill(w, b)
  <1>1. RowsOf(v, b) = RowsOf(w, b) /\ \A r \in RowsOf(v, b) : v.receipt[r] = w.receipt[r]
    BY DEF SameRows, RowsOf
  <1> DEFINE S == RowsOf(v, b)
  <1>2. ASSUME NEW q \in S, NEW r \in S
        PROVE  Precedes(v, q, r) <=> Precedes(w, q, r)
    BY <1>1 DEF Precedes
  <1>3. ASSUME NEW r \in S
        PROVE  {q \in S : Precedes(v, q, r)} = {q \in S : Precedes(w, q, r)}
    BY <1>2
  <1>4. InOrder(v, S) = InOrder(w, S)
    <2> HIDE DEF S
    <2>1. QED
      BY <1>3 DEF InOrder
  <1>5. QED
    BY <1>1, <1>4 DEF list_by_bill

\* The others stay sound.
LEMMA SoundOthers ==
  ASSUME IInv, AllSound, NEW a \in Actors, Alone(a), Keeps(a), Sees(a), Moves(a),
         Course(a)', Done(a)', ~ \E b \in Bills : Holds(a, b)' /\ bill'[b].state = "absent",
         file' \subseteq Receipts
  PROVE  AllSound'
  <1>1. ASSUME NEW x \in Actors, x # a PROVE Course(x)'
    BY <1>1 DEF AllSound, Sound, Course, Alone
  <1>2. ASSUME NEW x \in Actors PROVE Born(x)'
    <2> SUFFICES ASSUME NEW b \in Bills, bill'[b].state = "absent"
                 PROVE  /\ ~ Holds(x, b)'
                        /\ x \in Cli /\ snap'[x] # None => snap'[x].bill[b].state = "absent"
      BY DEF Born
    <2>1. bill[b].state = "absent" /\ Born(x)
      BY DEF Keeps, AllSound, Sound
    <2>2. CASE x = a
      BY <2>1, <2>2 DEF Sees, Born
    <2>3. CASE x # a
      BY <2>1, <2>3 DEF Alone, Born, Holds
    <2>4. QED
      BY <2>2, <2>3
  <1>3. ASSUME NEW x \in Actors PROVE Known(x)'
    <2> SUFFICES ASSUME x \notin Cli, snap'[x] # None, NEW r \in Receipts, snap'[x].receipt[r] # None
                 PROVE  /\ r \in file'
                        /\ receipt'[r] # None => receipt'[r].bill = snap'[x].receipt[r].bill
      BY DEF Known
    <2>1. \/ snap'[x].receipt[r] = receipt[r]
          \/ snap[x] # None /\ snap'[x].receipt[r] = snap[x].receipt[r]
      BY DEF Sees, Alone
    <2>2. r \in file /\ (receipt[r] # None => receipt[r].bill = snap'[x].receipt[r].bill)
      BY <2>1 DEF AllSound, Sound, Known, IInv, NothingDangles
    <2>3. ~ (pc[a] = "insert" /\ req[a].rid = r)
      BY <2>1 DEF AllSound, Sound, Fresh
    <2>4. QED
      BY <2>2, <2>3 DEF Keeps
  <1>4. ASSUME NEW x \in Actors, x # a PROVE Done(x)'
    <2>1. req[x] \in Memory /\ Done(x) /\ Ready(x) /\ Born(x) /\ pc'[x] = pc[x] /\ req'[x] = req[x]
      BY <1>4, MemoryType DEF AllSound, Sound, IInv, AllReady, Alone
    <2>2. req'[x].got \subseteq file'
      BY <2>1 DEF Done, Keeps
    <2>3. req'[x].op = "receipt_delete" => \A r \in req'[x].got : receipt'[r] = None
      <3>1. ASSUME NEW r \in Receipts, req[x].op = "receipt_delete", r \in req[x].got
            PROVE  receipt'[r] = None
        BY <3>1, <2>1 DEF Keeps, AllSound, Sound, Fresh, Done
      <3>2. QED
        BY <2>1, <3>1 DEF Memory
    <2>4. ASSUME req[x].bill \in Bills, bill[req[x].bill].state = "deleted"
          PROVE  bill'[req[x].bill].state = "deleted"
      BY <2>4 DEF Keeps
    <2>5. pc[x] = "log" => req[x].bill \in Bills
      BY <2>1 DEF Ready, Working
    <2>6. QED
      BY <2>1, <2>2, <2>3, <2>4, <2>5 DEF Done
  <1>5. ASSUME NEW y \in Actors PROVE Fresh(y)'
    <2> SUFFICES ASSUME pc'[y] = "insert" PROVE Fresh(y)'
      BY DEF Fresh
    <2> DEFINE r == req'[y].rid
    <2>1. ASSUME r \notin file, y = a PROVE Fresh(y)'
      <3>1. r \in Receipts /\ receipt[r] = None
        BY <2>1 DEF Moves, IInv, NothingDangles
      <3>2. receipt'[r] = None
        BY <2>1, <3>1 DEF Keeps, IInv, AllReady, Ready
      <3>3. ASSUME NEW x \in Actors
            PROVE  /\ x \notin Cli /\ snap'[x] # None => snap'[x].receipt[r] = None
                   /\ req'[x].op = "receipt_delete" => r \notin req'[x].got
                   /\ x # y /\ pc'[x] = "insert" => req'[x].rid # r
        <4>1. x \notin Cli /\ snap[x] # None => snap[x].receipt[r] = None
          BY <2>1, <3>1 DEF AllSound, Sound, Known
        <4>2. r \notin req[x].got /\ (x # y /\ pc[x] = "insert" => req[x].rid # r)
          BY <2>1 DEF AllSound, Sound, Done, IInv, AllReady, Ready
        <4>3. CASE x = a
          BY <2>1, <3>1, <4>1, <4>2, <4>3 DEF Sees, Moves
        <4>4. CASE x # a
          BY <2>1, <4>1, <4>2, <4>4 DEF Alone
        <4>5. QED
          BY <4>3, <4>4
      <3>4. QED
        BY <3>2, <3>3 DEF Fresh
    <2>2. ASSUME y # a PROVE Fresh(y)'
      <3>1. Fresh(y) /\ pc[y] = "insert" /\ r = req[y].rid
        BY <2>2 DEF Alone, AllSound, Sound
      <3>2. r \in file /\ receipt[r] = None /\ (pc[a] = "insert" => req[a].rid # r)
        BY <2>2, <3>1 DEF Fresh, IInv, AllReady, Ready
      <3>3. receipt'[r] = None
        BY <3>2 DEF Keeps, IInv, TypeOK
      <3>4. ASSUME NEW x \in Actors
            PROVE  /\ x \notin Cli /\ snap'[x] # None => snap'[x].receipt[r] = None
                   /\ req'[x].op = "receipt_delete" => r \notin req'[x].got
                   /\ x # y /\ pc'[x] = "insert" => req'[x].rid # r
        <4>1. CASE x = a
          BY <2>2, <3>1, <3>2, <4>1 DEF Fresh, Sees, Moves, IInv, TypeOK
        <4>2. CASE x # a
          BY <3>1, <4>2 DEF Alone, Fresh
        <4>3. QED
          BY <4>1, <4>2
      <3>5. QED
        BY <3>3, <3>4 DEF Fresh
    <2>3. QED
      BY <2>1, <2>2 DEF Moves
  <1>6. QED
    BY <1>1, <1>2, <1>3, <1>4, <1>5 DEF AllSound, Sound

\* Whoever is spared stays quiet.
LEMMA QuietOthers ==
  ASSUME IInv, AllSound, NEW x \in Actors, Quiet(x), Spared(x),
         pc'[x] = pc[x], req'[x] = req[x], snap'[x] = snap[x]
  PROVE  Quiet(x)'
  <1> SUFFICES ASSUME quiet'[x]
               PROVE  (/\ InfoIsCurrent(x) /\ ItemsAreCurrent(x) /\ RowsAreCurrent(x)
                       /\ DocIsCurrent(x) /\ PdfIsCurrent(x)
                       /\ LastIsLast(x) /\ OrderIsKept(x))'
    BY DEF Quiet
  <1> DEFINE b == req[x].bill
  <1>1. /\ InfoIsCurrent(x) /\ ItemsAreCurrent(x) /\ RowsAreCurrent(x)
        /\ DocIsCurrent(x) /\ PdfIsCurrent(x) /\ LastIsLast(x) /\ OrderIsKept(x)
    BY DEF Quiet, Spared
  <1>2. req[x] \in Memory /\ Ready(x) /\ Course(x)
    BY MemoryType DEF IInv, AllReady, AllSound, Sound
  <1>3. b \in Bills \/ (b = None /\ pc[x] \notin Working)
    BY <1>2 DEF Memory, Ready
  <1>4. ASSUME b \in Bills
        PROVE  /\ bill'[b].items = bill[b].items /\ bill'[b].status = bill[b].status
               /\ pdf'[b] = pdf[b]
               /\ SameRows(receipt, receipt', b)
    BY <1>4 DEF Spared, Holds
  <1>5. ASSUME b \in Bills
        PROVE  /\ RowsOf(View, b)' = RowsOf(View, b)
               /\ \A r \in RowsOf(View, b) : receipt'[r] = receipt[r]
               /\ list_by_bill(View, b)' = list_by_bill(View, b)
    <2>1. SameRows(View.receipt, View'.receipt, b)
      BY <1>4, <1>5 DEF View
    <2> DEFINE v == View
               w == View'
    <2>2. /\ RowsOf(v, b) = RowsOf(w, b) /\ \A r \in RowsOf(v, b) : v.receipt[r] = w.receipt[r]
          /\ list_by_bill(v, b) = list_by_bill(w, b)
      <3> HIDE DEF v, w
      <3>1. SameRows(v.receipt, w.receipt, b)
        BY <2>1 DEF v, w
      <3>2. QED
        BY <3>1, SameRowsSameList
    <2>3. /\ RowsOf(View, b)' = RowsOf(w, b) /\ list_by_bill(View, b)' = list_by_bill(w, b)
      BY DEF RowsOf, list_by_bill, InOrder, Precedes
    <2>4. QED
      BY <2>2, <2>3 DEF View
  <1>6. InfoIsCurrent(x)'
    BY <1>1 DEF InfoIsCurrent, Spared
  <1>7. ItemsAreCurrent(x)'
    BY <1>1, <1>3, <1>4 DEF ItemsAreCurrent, Spared, Holds
  <1>8. RowsAreCurrent(x)'
    <2> SUFFICES ASSUME x \notin Cli, NEW c \in Bills, Holds(x, c)
                 PROVE  SameRows(Read(x)'.receipt, receipt', c)
      BY DEF RowsAreCurrent, Holds
    <2>1. SameRows(Read(x).receipt, receipt, c) /\ SameRows(receipt, receipt', c)
      BY <1>1 DEF RowsAreCurrent, Spared
    <2>2. CASE snap[x] = None
      BY <2>2 DEF Read, View, SameRows
    <2>3. CASE snap[x] # None
      BY <2>1, <2>3 DEF Read, SameRows
    <2>4. QED
      BY <2>2, <2>3
  <1>9. ASSUME b \in Bills, billing'.info = billing.info PROVE Current(b)' = Current(b)
    BY <1>4, <1>5, <1>9 DEF Current
  <1>10. DocIsCurrent(x)' /\ PdfIsCurrent(x)'
    <2>1. ASSUME NEW d, b \in Bills, billing'.info = billing.info, Shows(x, d, b)
          PROVE  Shows(x, d, b)'
      BY <1>9, <2>1 DEF Shows
    <2>2. pc[x] \in {"save", "point", "log", "await"} => billing'.info = billing.info
      BY DEF Spared
    <2>3. DocIsCurrent(x)'
      BY <1>1, <1>2, <1>3, <2>1, <2>2 DEF DocIsCurrent, Working, Shows
    <2>4. PdfIsCurrent(x)'
      BY <1>1, <1>2, <1>3, <1>4, <2>1, <2>2 DEF PdfIsCurrent, Working, Shows
    <2>5. QED
      BY <2>3, <2>4
  <1>11. LastIsLast(x)' /\ OrderIsKept(x)'
    <2>1. LastIsLast(x)'
      BY <1>1, <1>3, <1>5 DEF LastIsLast, Working
    <2>2. OrderIsKept(x)'
      BY <1>1, <1>3, <1>5 DEF OrderIsKept, Working
    <2>3. QED
      BY <2>1, <2>2
  <1>12. QED
    BY <1>6, <1>7, <1>8, <1>10, <1>11

-----------------------------------------------------------------------------
(* From the parts of a step to what it does to everybody.                   *)

\* The ways a step may leave the transaction of a.
Turns(a) ==
    \/ UNCHANGED snap \/ Commit(a) \/ Select(a)
    \/ \E w : snap' = [snap EXCEPT ![a] = Kept(a, [View EXCEPT !.billing = w])]

\* A step moves its own actor only.
LEMMA Moved ==
  ASSUME IInv, NEW a \in Actors, NEW to, NEW m, Move(a, to, m)
  PROVE  /\ pc'[a] = to /\ req'[a] = m
         /\ \A x \in Actors \ {a} : pc'[x] = pc[x] /\ req'[x] = req[x]
  BY DEF IInv, TypeOK, Move

\* However a transaction goes on, its snapshot shows the tables as they were.
LEMMA Seen ==
  ASSUME IInv, NEW a \in Actors, Turns(a)
  PROVE  Sees(a) /\ \A x \in Actors \ {a} : snap'[x] = snap[x]
  <1>1. DOMAIN snap = Actors /\ snap[a] \in Snapshot(a) \cup {None}
    BY DEF IInv, TypeOK
  <1>2. CASE UNCHANGED snap
    BY <1>2 DEF Sees
  <1>3. CASE Commit(a)
    BY <1>1, <1>3 DEF Sees, Commit
  <1>4. CASE Select(a)
    BY <1>1, <1>4, NoneAssumption DEF Sees, Select, Kept, Read, View, Snapshot
  <1>5. ASSUME NEW w, snap' = [snap EXCEPT ![a] = Kept(a, [View EXCEPT !.billing = w])]
        PROVE  Sees(a) /\ \A x \in Actors \ {a} : snap'[x] = snap[x]
    BY <1>1, <1>5 DEF Sees, Kept, View
  <1>6. QED
    BY <1>2, <1>3, <1>4, <1>5 DEF Turns

\* A step of a keeps everybody sound.
LEMMA SoundStep ==
  ASSUME IInv, IInv', AllSound, NEW a \in Actors, NEW to, NEW m,
         Move(a, to, m), Turns(a), Keeps(a), Moves(a), Course(a)', Done(a)',
         \A b \in Bills : (m.bill = b \/ m.todo[b] # None) => bill'[b].state # "absent"
  PROVE  AllSound'
  <1>1. Alone(a) /\ Sees(a)
    BY Moved, Seen DEF Alone
  <1>2. ~ \E b \in Bills : Holds(a, b)' /\ bill'[b].state = "absent"
    BY Moved DEF Holds
  <1>3. file' \subseteq Receipts
    BY DEF IInv, TypeOK
  <1>4. QED
    BY <1>1, <1>2, <1>3, SoundOthers

\* A step of a that spares the others keeps everybody quiet who was.
LEMMA QuietStep ==
  ASSUME IInv, AllSound, AllQuiet, NEW a \in Actors, NEW to, NEW m,
         Move(a, to, m), Turns(a), \A x \in Actors \ {a} : Spared(x), Quiet(a)'
  PROVE  AllQuiet'
  <1>1. ASSUME NEW x \in Actors, x # a PROVE Quiet(x)'
    BY <1>1, Moved, Seen, QuietOthers DEF AllQuiet
  <1>2. QED
    BY <1>1 DEF AllQuiet

\* A step that leaves the tables and the store alone keeps everything.
LEMMA RestKeeps ==
  ASSUME UNCHANGED <<tables, store>>, NEW a
  PROVE  /\ Keeps(a)
         /\ \A x \in Actors : (quiet'[x] => quiet[x]) => Spared(x)
  BY DEF tables, store, Keeps, Spared, SameRows

\* Who does not hold the bill that is disturbed is spared.
LEMMA DisturbSpares ==
  ASSUME IInv, NEW a \in Actors, NEW c, Disturb(a, c), UNCHANGED billing,
         \A b \in Bills \ {c} : /\ bill'[b].items = bill[b].items
                                /\ bill'[b].status = bill[b].status /\ pdf'[b] = pdf[b]
                                /\ SameRows(receipt, receipt', b)
  PROVE  (\A x \in Actors \ {a} : Spared(x)) /\ quiet'[a] = quiet[a]
  BY DEF Disturb, Spared, Holds, IInv, TypeOK

\* What is rendered from the rows of b depends on them only, and an actor
\* whose transaction goes on still sees them.
LEMMA ReadOn ==
  ASSUME IInv, NEW a \in Actors, a \notin Cli
  PROVE  /\ Select(a) => Read(a)'.receipt = Read(a).receipt
         /\ Commit(a) => Read(a)'.receipt = receipt'
         /\ UNCHANGED <<snap, receipt>> => Read(a)'.receipt = Read(a).receipt
  <1>1. DOMAIN snap = Actors /\ snap[a] \in Snapshot(a) \cup {None}
    BY DEF IInv, TypeOK
  <1>2. Select(a) => Read(a)'.receipt = Read(a).receipt
    <2>1. Kept(a, Read(a)) # None
      BY <1>1, NoneAssumption DEF Kept, Read, View, Snapshot, IInv, TypeOK
    <2>2. Kept(a, Read(a)).receipt = Read(a).receipt
      BY <1>1 DEF Kept, Read, View, Snapshot
    <2>3. QED
      BY <1>1, <2>1, <2>2 DEF Select, Read
  <1>3. QED
    BY <1>1, <1>2 DEF Commit, Read, View

\* Who ends his operation is sound and quiet.
LEMMA EndStep ==
  ASSUME IInv, IInv', AllSound, AllQuiet, NEW a \in Actors, Move(a, "idle", Blank),
         Turns(a), Keeps(a), a \in Cli \/ Commit(a), \A x \in Actors \ {a} : Spared(x)
  PROVE  AllSound' /\ AllQuiet'
  <1>1. pc'[a] = "idle" /\ req'[a] = Blank
    BY Moved
  <1>2. \A b \in Bills : ~ Holds(a, b)'
    BY <1>1, BillsAssumption DEF Blank, Holds
  <1>3. Course(a)'
    BY <1>1 DEF Course, Commit, Blank, IInv, TypeOK
  <1>4. Done(a)' /\ Moves(a)
    BY <1>1, BillsAssumption DEF Done, Moves, Blank
  <1>5. Quiet(a)'
    BY <1>1, <1>2 DEF Quiet, InfoIsCurrent, ItemsAreCurrent, RowsAreCurrent, DocIsCurrent,
                      PdfIsCurrent, LastIsLast, OrderIsKept, ItemsUsed, Holds
  <1>6. \A b \in Bills : ~ (Blank.bill = b \/ Blank.todo[b] # None)
    BY <1>1, <1>2 DEF Holds
  <1>7. QED
    BY <1>3, <1>4, <1>5, <1>6, SoundStep, QuietStep

-----------------------------------------------------------------------------
\* Noting a call changes nothing that the actor goes on with.
LEMMA DidBill ==
  ASSUME NEW m \in Memory, NEW b \in Bills,
         NEW w \in {"bill_create", "bill_update", "update_status", "bill_delete",
                    "update_pdf_path", "update_sort_orders"}
  PROVE  /\ Did(m, w, b).did = m.did \cup {<<w, b>>}
         /\ Did(m, w, b).op = m.op /\ Did(m, w, b).bill = m.bill
         /\ Did(m, w, b).items = m.items /\ Did(m, w, b).status = m.status
         /\ Did(m, w, b).info = m.info /\ Did(m, w, b).left = m.left
         /\ Did(m, w, b).rid = m.rid /\ Did(m, w, b).got = m.got
         /\ Did(m, w, b).order = m.order /\ Did(m, w, b).todo = m.todo
  <1>1. <<w, b>> \in Writes
    BY WritesAre
  <1>2. QED
    BY <1>1, DidIs

LEMMA DidReceipt ==
  ASSUME NEW m \in Memory, NEW r \in Receipts, NEW w \in {"receipt_create", "receipt_delete"}
  PROVE  /\ Did(m, w, r).did = m.did \cup {<<w, r>>}
         /\ Did(m, w, r).op = m.op /\ Did(m, w, r).bill = m.bill
         /\ Did(m, w, r).items = m.items /\ Did(m, w, r).status = m.status
         /\ Did(m, w, r).info = m.info /\ Did(m, w, r).rid = m.rid
         /\ Did(m, w, r).got = m.got /\ Did(m, w, r).todo = m.todo
  <1>1. <<w, r>> \in Writes
    BY WritesAre
  <1>2. QED
    BY <1>1, DidIs

\* The facts about one actor that its step starts from.
LEMMA Own ==
  ASSUME IInv, AllSound, AllQuiet, NEW a \in Actors
  PROVE  /\ req[a] \in Memory /\ Ready(a)
         /\ Course(a) /\ Born(a) /\ Known(a) /\ Fresh(a) /\ Done(a) /\ Quiet(a)
  BY MemoryType DEF IInv, AllReady, AllSound, Sound, AllQuiet

\* What is current stays so while the tables do.
LEMMA ShowsStays ==
  ASSUME UNCHANGED <<bill, billing, receipt>>, NEW a, NEW d, NEW c, Shows(a, d, c)
  PROVE  Shows(a, d, c)'
  <1>1. View' = View
    BY DEF View
  <1>2. list_by_bill(View, c)' = list_by_bill(View, c)
    BY <1>1 DEF list_by_bill, InOrder, RowsOf, Precedes
  <1>3. QED
    BY <1>2 DEF Shows, Current

\* Render.
LEMMA RenderQ ==
  ASSUME IInv, IInv', AllSound, AllQuiet, NEW a \in Actors, Render(a)
  PROVE  AllSound' /\ AllQuiet'
  <1> DEFINE b == req[a].bill
             items == IF pc[a] = "reread" THEN Read(a).bill[b].items ELSE req[a].items
             status == IF pc[a] = "reread" THEN Read(a).bill[b].status ELSE req[a].status
             held(i, s, o, d) == [req[a] EXCEPT !.items = i, !.status = s, !.rid = None,
                                                !.order = o, !.doc = d]
  <1>1. PICK lost : /\ Goto(a, "save", held(items, status, <<>>, Rendered(a, b, items, lost)))
                    /\ quiet' = [quiet EXCEPT ![a] = @ /\ lost = {}]
    BY DEF Render
  <1>2. /\ req[a] \in Memory /\ Ready(a) /\ b \in Bills
        /\ Course(a) /\ Born(a) /\ Done(a) /\ Quiet(a)
        /\ pc[a] \in {"reread", "render"}
    BY Own DEF Render, Ready, Working
  <1> DEFINE d == Rendered(a, b, items, lost)
             m == held(items, status, <<>>, d)
  <1>3. /\ m.bill = b /\ m.todo = req[a].todo /\ m.op = req[a].op /\ m.info = req[a].info
        /\ m.got = req[a].got /\ m.items = items /\ m.status = status /\ m.doc = d
    <2>1. ASSUME NEW i, NEW s, NEW o, NEW e
          PROVE  /\ held(i, s, o, e).bill = b /\ held(i, s, o, e).todo = req[a].todo
                 /\ held(i, s, o, e).op = req[a].op /\ held(i, s, o, e).info = req[a].info
                 /\ held(i, s, o, e).got = req[a].got /\ held(i, s, o, e).items = i
                 /\ held(i, s, o, e).status = s
                 /\ held(i, s, o, e).doc = e
      BY <1>2 DEF Memory
    <2> HIDE DEF b, items, status, held, d
    <2>2. QED
      BY <2>1
  <1>4. Move(a, "save", m) /\ Turns(a) /\ UNCHANGED <<tables, store>> /\ Select(a)
    BY <1>1 DEF Goto, Turns, Render
  <1> HIDE DEF m
  <1>5. pc'[a] = "save" /\ req'[a] = m
    BY <1>4, Moved
  <1>6. Keeps(a) /\ \A x \in Actors \ {a} : Spared(x)
    BY <1>1, <1>4, RestKeeps
  <1>7. Course(a)' /\ Done(a)' /\ Moves(a)
    BY <1>2, <1>3, <1>4, <1>5 DEF Course, Done, Moves, PdfOps, tables, store
  <1>8. \A c \in Bills : (m.bill = c \/ m.todo[c] # None) => bill'[c].state # "absent"
    BY <1>2, <1>3, <1>4 DEF Born, Holds, tables
  <1>9. Quiet(a)'
    <2> SUFFICES ASSUME quiet'[a] PROVE Quiet(a)'
      BY DEF Quiet
    <2>1. quiet[a] /\ lost = {}
      BY <1>1 DEF IInv, TypeOK
    <2>2. InfoIsCurrent(a) /\ ItemsAreCurrent(a) /\ RowsAreCurrent(a)
      BY <1>2, <2>1 DEF Quiet
    <2>3. /\ req[a].info = billing.info /\ items = bill[b].items
          /\ a \notin Script => status = bill[b].status
      <3>1. pc[a] = "reread" => Read(a).bill = bill
        BY <1>2 DEF Ready, Read, View
      <3>2. pc[a] = "render" => /\ req[a].items = bill[b].items
                                /\ a \notin Script => req[a].status = bill[b].status
        BY <1>2, <2>2, BillsAssumption DEF ItemsAreCurrent, ItemsUsed
      <3>3. QED
        BY <1>2, <2>2, <3>1, <3>2 DEF InfoIsCurrent
    <2>4. a \notin Cli => Read(a)'.receipt = Read(a).receipt
      BY <1>4, ReadOn
    <2>5. RowsAreCurrent(a)'
      BY <1>3, <1>4, <1>5, <2>2, <2>4 DEF RowsAreCurrent, Holds, tables
    <2>6. Shows(a, d, b)
      <3>1. a \notin Cli => list_by_bill(Read(a), b) = list_by_bill(View, b)
        <4> SUFFICES ASSUME a \notin Cli PROVE list_by_bill(Read(a), b) = list_by_bill(View, b)
          OBVIOUS
        <4>1. SameRows(Read(a).receipt, View.receipt, b)
          BY <1>2, <2>2 DEF RowsAreCurrent, Holds, View
        <4> HIDE DEF b
        <4>2. QED
          BY <4>1, SameRowsSameList
      <3>2. a \notin Cli => fetch_receipt_data(a, b, lost) = list_by_bill(Read(a), b)
        <4>1. RowsOf(Read(a), b) \ {} = RowsOf(Read(a), b)
          OBVIOUS
        <4>2. QED
          BY <2>1, <4>1 DEF fetch_receipt_data, list_by_bill
      <3>3. d.items = items /\ d.info = req[a].info /\ d = [items |-> items,
              receipts |-> fetch_receipt_data(a, b, lost), info |-> req[a].info]
        BY DEF Rendered
      <3> HIDE DEF d, items
      <3>4. QED
        BY <2>3, <3>1, <3>2, <3>3 DEF Shows, Current
    <2>7. DocIsCurrent(a)'
      <3> HIDE DEF d, b
      <3>1. \A e, c : Shows(a, e, c) => Shows(a, e, c)'
        BY <1>4, ShowsStays DEF tables
      <3>2. QED
        BY <1>3, <1>5, <2>6, <3>1 DEF DocIsCurrent, Shows
    <2>8. InfoIsCurrent(a)' /\ ItemsAreCurrent(a)'
      <3> HIDE DEF items, status, d
      <3>1. QED
        BY <1>3, <1>4, <1>5, <2>2, <2>3 DEF InfoIsCurrent, ItemsAreCurrent, tables
    <2>9. PdfIsCurrent(a)' /\ LastIsLast(a)' /\ OrderIsKept(a)'
      BY <1>5 DEF PdfIsCurrent, LastIsLast, OrderIsKept
    <2>10. QED
      BY <2>5, <2>7, <2>8, <2>9 DEF Quiet
  <1>10. QED
    BY <1>4, <1>6, <1>7, <1>8, <1>9, SoundStep, QuietStep

\* RetrieveFails.
LEMMA RetrieveFailsQ ==
  ASSUME IInv, IInv', AllSound, AllQuiet, NEW a \in Actors, RetrieveFails(a)
  PROVE  AllSound' /\ AllQuiet'
  <1>1. Move(a, "idle", Blank) /\ Turns(a) /\ Commit(a)
    BY DEF RetrieveFails, Goto, Turns
  <1>2. Keeps(a) /\ \A x \in Actors \ {a} : Spared(x)
    BY RestKeeps DEF RetrieveFails, IInv, TypeOK
  <1>3. QED
    BY <1>1, <1>2, EndStep

\* SavePdf.
LEMMA SavePdfQ ==
  ASSUME IInv, IInv', AllSound, AllQuiet, NEW a \in Actors, SavePdf(a)
  PROVE  AllSound' /\ AllQuiet'
  <1> DEFINE m == [req[a] EXCEPT !.doc = None]
             b == req[a].bill
  <1>1. /\ req[a] \in Memory /\ b \in Bills /\ pc[a] = "save"
        /\ Course(a) /\ Born(a) /\ Done(a) /\ Quiet(a)
    BY Own DEF SavePdf, Ready, Working
  <1>2. /\ m.bill = b /\ m.todo = req[a].todo /\ m.op = req[a].op /\ m.info = req[a].info
        /\ m.got = req[a].got /\ m.items = req[a].items /\ m.status = req[a].status
    BY <1>1 DEF Memory
  <1>3. /\ Move(a, "point", m) /\ Turns(a) /\ UNCHANGED <<bill, billing, receipt, file, snap>>
        /\ pdf' = [pdf EXCEPT ![b] = req[a].doc] /\ Disturb(a, b)
    BY DEF SavePdf, Goto, Turns, tables
  <1> HIDE DEF m
  <1>4. pc'[a] = "point" /\ req'[a] = m
    BY <1>3, Moved
  <1>5. (\A x \in Actors \ {a} : Spared(x)) /\ quiet'[a] = quiet[a]
    BY <1>3, DisturbSpares DEF SameRows, IInv, TypeOK
  <1>6. Keeps(a) /\ Course(a)' /\ Done(a)' /\ Moves(a)
    BY <1>1, <1>2, <1>3, <1>4 DEF Keeps, Course, Done, Moves, PdfOps
  <1>7. \A c \in Bills : (m.bill = c \/ m.todo[c] # None) => bill'[c].state # "absent"
    BY <1>1, <1>2, <1>3 DEF Born, Holds
  <1>8. Quiet(a)'
    <2> SUFFICES ASSUME quiet'[a] PROVE Quiet(a)'
      BY DEF Quiet
    <2>1. InfoIsCurrent(a) /\ ItemsAreCurrent(a) /\ RowsAreCurrent(a) /\ DocIsCurrent(a)
      BY <1>1, <1>5 DEF Quiet
    <2>2. InfoIsCurrent(a)' /\ ItemsAreCurrent(a)'
      BY <1>1, <1>2, <1>3, <1>4, <2>1 DEF InfoIsCurrent, ItemsAreCurrent, ItemsUsed
    <2>3. RowsAreCurrent(a)'
      BY <1>2, <1>3, <1>4, <2>1 DEF RowsAreCurrent, Holds, Read, View
    <2>4. PdfIsCurrent(a)'
      <3>1. \A e, c : Shows(a, e, c) => Shows(a, e, c)'
        BY <1>3, ShowsStays
      <3>2. Shows(a, req[a].doc, b) /\ pdf'[b] = req[a].doc
        BY <1>1, <1>3, <2>1 DEF DocIsCurrent, IInv, TypeOK
      <3> HIDE DEF b
      <3>3. QED
        BY <1>2, <1>4, <3>1, <3>2 DEF PdfIsCurrent, Shows
    <2>5. DocIsCurrent(a)' /\ LastIsLast(a)' /\ OrderIsKept(a)'
      BY <1>4 DEF DocIsCurrent, LastIsLast, OrderIsKept
    <2>6. QED
      BY <2>2, <2>3, <2>4, <2>5 DEF Quiet
  <1>9. QED
    BY <1>3, <1>5, <1>6, <1>7, <1>8, SoundStep, QuietStep

\* StorePdfPath.
LEMMA StorePdfPathQ ==
  ASSUME IInv, IInv', AllSound, AllQuiet, NEW a \in Actors, StorePdfPath(a)
  PROVE  AllSound' /\ AllQuiet'
  <1> DEFINE b == req[a].bill
             m == Did(req[a], "update_pdf_path", b)
  <1>1. /\ req[a] \in Memory /\ b \in Bills /\ pc[a] = "point" /\ Ready(a)
        /\ Course(a) /\ Born(a) /\ Done(a) /\ Quiet(a)
    BY Own DEF StorePdfPath, Ready, Working
  <1>2. PICK to \in {"next", "await", "log"} :
          /\ Move(a, to, m)
          /\ to = "next" <=> a \in Script
          /\ to = "await" => req[a].op = "generate" /\ req[a].left > 0
    BY DEF StorePdfPath, Goto
  <1>3. /\ Turns(a) /\ Commit(a) /\ UNCHANGED <<billing, receipt, pdf, file, quiet>>
        /\ bill' = [bill EXCEPT ![b].pdf = TRUE]
    BY DEF StorePdfPath, Turns, store, update_pdf_path
  <1>12. /\ m.bill = b /\ m.todo = req[a].todo /\ m.op = req[a].op /\ m.info = req[a].info
         /\ m.got = req[a].got /\ m.items = req[a].items /\ m.status = req[a].status
         /\ m.left = req[a].left
    BY <1>1, DidBill
  <1> HIDE DEF m
  <1>4. pc'[a] = to /\ req'[a] = m
    BY <1>2, Moved
  <1>5. /\ \A c \in Bills : /\ bill'[c].state = bill[c].state /\ bill'[c].items = bill[c].items
                            /\ bill'[c].status = bill[c].status
                            /\ bill[c].pdf => bill'[c].pdf
        /\ bill'[b].pdf
    BY <1>1, <1>3 DEF IInv, TypeOK, BillRow
  <1>6. \A x \in Actors : Spared(x)
    BY <1>3, <1>5 DEF Spared, SameRows
  <1>7. Keeps(a) /\ Moves(a)
    BY <1>1, <1>2, <1>3, <1>4, <1>5, <1>12 DEF Keeps, Moves
  <1>8. Course(a)' /\ Done(a)'
    BY NoneAssumption, <1>1, <1>2, <1>3, <1>4, <1>5, <1>12 DEF Course, Done, PdfOps, Ops, Ready, Working
  <1>9. \A c \in Bills : (m.bill = c \/ m.todo[c] # None) => bill'[c].state # "absent"
    BY <1>1, <1>5, <1>12 DEF Born, Holds
  <1>10. Quiet(a)'
    <2> SUFFICES ASSUME quiet'[a] PROVE Quiet(a)'
      BY DEF Quiet
    <2>1. InfoIsCurrent(a) /\ ItemsAreCurrent(a) /\ PdfIsCurrent(a)
      BY <1>1, <1>3 DEF Quiet
    <2>2. InfoIsCurrent(a)' /\ ItemsAreCurrent(a)'
      BY <1>1, <1>3, <1>4, <1>5, <1>12, <2>1 DEF InfoIsCurrent, ItemsAreCurrent, ItemsUsed
    <2>3. RowsAreCurrent(a)'
      BY <1>3, ReadOn DEF RowsAreCurrent, SameRows
    <2>4. PdfIsCurrent(a)'
      <3>1. list_by_bill(View, b)' = list_by_bill(View, b)
        BY <1>3, <1>4, <1>12 DEF list_by_bill, InOrder, RowsOf, Precedes, View
      <3>2. \A e : Shows(a, e, b) => Shows(a, e, b)'
        BY <1>1, <1>3, <1>4, <1>5, <1>12, <3>1 DEF Shows, Current
      <3>3. req[a].op \in PdfOps
        BY <1>1 DEF Course
      <3>4. QED
        BY <1>1, <1>2, <1>3, <1>4, <1>12, <2>1, <3>2, <3>3 DEF PdfIsCurrent, Shows
    <2>5. DocIsCurrent(a)' /\ LastIsLast(a)' /\ OrderIsKept(a)'
      BY <1>2, <1>4 DEF DocIsCurrent, LastIsLast, OrderIsKept
    <2>6. QED
      BY <2>2, <2>3, <2>4, <2>5 DEF Quiet
  <1>11. QED
    BY <1>2, <1>3, <1>6, <1>7, <1>8, <1>9, <1>10, SoundStep, QuietStep

\* At most steps, being quiet is about the bill, the billing and the rows only.
LEMMA QuietPlain ==
  ASSUME NEW a \in Actors, pc'[a] \notin {"save", "point", "insert"},
         pc'[a] = "render" => req'[a].op \notin {"upload", "generate", "reorder"},
         pc'[a] = "log" => req'[a].op \notin PdfOps,
         pc'[a] = "await" => req'[a].op # "generate" \/ req'[a].bill = None,
         quiet'[a] => InfoIsCurrent(a)' /\ ItemsAreCurrent(a)' /\ RowsAreCurrent(a)'
  PROVE  Quiet(a)'
  BY DEF Quiet, DocIsCurrent, PdfIsCurrent, LastIsLast, OrderIsKept

\* update_bill.
LEMMA update_billQ ==
  ASSUME IInv, IInv', AllSound, AllQuiet, NEW a \in Actors, update_bill(a)
  PROVE  AllSound' /\ AllQuiet'
  <1> DEFINE b == req[a].bill
             m == Did(req[a], "bill_update", b)
  <1>1. /\ req[a] \in Memory /\ b \in Bills /\ pc[a] = "update"
        /\ Course(a) /\ Born(a) /\ Done(a) /\ Quiet(a)
    BY Own DEF update_bill, Ready, Working
  <1>2. PICK c \in Items : bill' = [bill EXCEPT ![b].items = c]
    BY DEF update_bill, bill_update
  <1>3. /\ Move(a, "reread", m) /\ Turns(a) /\ Commit(a)
        /\ UNCHANGED <<billing, receipt, pdf, file>> /\ Disturb(a, b)
    BY DEF update_bill, Goto, Turns, store
  <1>11. /\ m.bill = b /\ m.todo = req[a].todo /\ m.op = req[a].op /\ m.info = req[a].info
         /\ m.got = req[a].got
    BY <1>1, DidBill
  <1> HIDE DEF m
  <1>4. pc'[a] = "reread" /\ req'[a] = m
    BY <1>3, Moved
  <1>5. \A d \in Bills : /\ bill'[d].state = bill[d].state /\ bill'[d].pdf = bill[d].pdf
                         /\ bill'[d].status = bill[d].status
                         /\ d # b => bill'[d].items = bill[d].items
    BY <1>1, <1>2 DEF IInv, TypeOK, BillRow
  <1>6. (\A x \in Actors \ {a} : Spared(x)) /\ quiet'[a] = quiet[a]
    BY <1>3, <1>5, DisturbSpares DEF SameRows
  <1>7. Keeps(a) /\ Moves(a) /\ Course(a)' /\ Done(a)'
    BY <1>1, <1>3, <1>4, <1>5, <1>11 DEF Keeps, Moves, Course, Done
  <1>8. \A d \in Bills : (m.bill = d \/ m.todo[d] # None) => bill'[d].state # "absent"
    BY <1>1, <1>5, <1>11 DEF Born, Holds
  <1>9. Quiet(a)'
    <2>1. ASSUME quiet'[a] PROVE InfoIsCurrent(a)' /\ ItemsAreCurrent(a)'
      BY <1>1, <1>3, <1>4, <1>6, <1>11, <2>1
         DEF Quiet, InfoIsCurrent, ItemsAreCurrent, ItemsUsed, Course
    <2>2. RowsAreCurrent(a)'
      BY <1>3, ReadOn DEF RowsAreCurrent, SameRows
    <2>3. QED
      BY <1>4, <2>1, <2>2, QuietPlain
  <1>10. QED
    BY <1>3, <1>6, <1>7, <1>8, <1>9, SoundStep, QuietStep

\* change_status.
LEMMA change_statusQ ==
  ASSUME IInv, IInv', AllSound, AllQuiet, NEW a \in Actors, change_status(a)
  PROVE  AllSound' /\ AllQuiet'
  <1> DEFINE b == req[a].bill
  <1>1. /\ req[a] \in Memory /\ b \in Bills /\ pc[a] = "status"
        /\ Course(a) /\ Born(a) /\ Done(a) /\ Quiet(a)
    BY Own DEF change_status, Ready, Working
  <1>2. PICK s \in Statuses : /\ bill' = [bill EXCEPT ![b].status = s]
                              /\ Goto(a, "log", Did([req[a] EXCEPT !.status = s],
                                                 "update_status", b))
    BY DEF change_status, update_status
  <1> DEFINE n == [req[a] EXCEPT !.status = s]
             m == Did(n, "update_status", b)
  <1>3. /\ m.bill = b /\ m.todo = req[a].todo /\ m.op = req[a].op /\ m.info = req[a].info
        /\ m.got = req[a].got /\ m.items = req[a].items /\ m.status = s
    <2>1. /\ n \in Memory /\ n.bill = b /\ n.todo = req[a].todo /\ n.op = req[a].op
          /\ n.info = req[a].info /\ n.got = req[a].got /\ n.items = req[a].items /\ n.status = s
      BY <1>1 DEF Memory
    <2> HIDE DEF n
    <2>2. QED
      BY <1>1, <2>1, DidBill
  <1>4. /\ Move(a, "log", m) /\ Turns(a) /\ Commit(a)
        /\ UNCHANGED <<billing, receipt, pdf, file>> /\ Disturb(a, b)
    BY <1>2 DEF change_status, Goto, Turns, store
  <1> HIDE DEF m
  <1>5. pc'[a] = "log" /\ req'[a] = m
    BY <1>4, Moved
  <1>6. \A d \in Bills : /\ bill'[d].state = bill[d].state /\ bill'[d].pdf = bill[d].pdf
                         /\ bill'[d].items = bill[d].items
                         /\ bill'[d].status = IF d = b THEN s ELSE bill[d].status
    BY <1>1, <1>2 DEF IInv, TypeOK, BillRow
  <1>7. (\A x \in Actors \ {a} : Spared(x)) /\ quiet'[a] = quiet[a]
    BY <1>4, <1>6, DisturbSpares DEF SameRows
  <1>8. Keeps(a) /\ Moves(a) /\ Course(a)' /\ Done(a)'
    BY <1>1, <1>3, <1>4, <1>5, <1>6 DEF Keeps, Moves, Course, Done, Ops
  <1>9. \A d \in Bills : (m.bill = d \/ m.todo[d] # None) => bill'[d].state # "absent"
    BY <1>1, <1>3, <1>6 DEF Born, Holds
  <1>10. Quiet(a)'
    <2>1. ASSUME quiet'[a] PROVE InfoIsCurrent(a)' /\ ItemsAreCurrent(a)'
      BY <1>1, <1>3, <1>4, <1>5, <1>6, <1>7, <2>1
         DEF Quiet, InfoIsCurrent, ItemsAreCurrent, ItemsUsed
    <2>2. RowsAreCurrent(a)'
      BY <1>4, ReadOn DEF RowsAreCurrent, SameRows
    <2>3. m.op \notin PdfOps
      BY <1>1, <1>3 DEF Course, PdfOps
    <2>4. QED
      BY <1>5, <2>1, <2>2, <2>3, QuietPlain
  <1>11. QED
    BY <1>4, <1>7, <1>8, <1>9, <1>10, SoundStep, QuietStep

\* delete_bill.
LEMMA delete_billQ ==
  ASSUME IInv, IInv', AllSound, AllQuiet, NEW a \in Actors, delete_bill(a)
  PROVE  AllSound' /\ AllQuiet'
  <1> DEFINE b == req[a].bill
             m == Did(req[a], "bill_delete", b)
  <1>1. /\ req[a] \in Memory /\ b \in Bills /\ pc[a] = "delete"
        /\ Course(a) /\ Born(a) /\ Done(a) /\ Quiet(a)
    BY Own DEF delete_bill, Ready, Working
  <1>2. /\ Move(a, "log", m) /\ Turns(a) /\ Commit(a)
        /\ UNCHANGED <<billing, receipt, pdf, file>> /\ Disturb(a, b)
        /\ bill' = [bill EXCEPT ![b].state = "deleted"]
    BY DEF delete_bill, bill_delete, Goto, Turns, store
  <1>10. /\ m.bill = b /\ m.todo = req[a].todo /\ m.op = req[a].op /\ m.info = req[a].info
         /\ m.got = req[a].got /\ m.items = req[a].items /\ m.status = req[a].status
    BY <1>1, DidBill
  <1> HIDE DEF m
  <1>3. pc'[a] = "log" /\ req'[a] = m
    BY <1>2, Moved
  <1>4. /\ \A d \in Bills : /\ bill'[d].items = bill[d].items /\ bill'[d].pdf = bill[d].pdf
                            /\ bill'[d].status = bill[d].status
                            /\ d # b => bill'[d].state = bill[d].state
        /\ bill'[b].state = "deleted"
    BY <1>1, <1>2 DEF IInv, TypeOK, BillRow
  <1>5. (\A x \in Actors \ {a} : Spared(x)) /\ quiet'[a] = quiet[a]
    BY <1>2, <1>4, DisturbSpares DEF SameRows
  <1>6. Keeps(a) /\ Moves(a) /\ Course(a)' /\ Done(a)'
    BY <1>1, <1>2, <1>3, <1>4, <1>10 DEF Keeps, Moves, Course, Done, Ops
  <1>7. \A d \in Bills : (m.bill = d \/ m.todo[d] # None) => bill'[d].state # "absent"
    BY <1>1, <1>4, <1>10 DEF Born, Holds
  <1>8. Quiet(a)'
    <2>1. ASSUME quiet'[a] PROVE InfoIsCurrent(a)' /\ ItemsAreCurrent(a)'
      BY <1>1, <1>2, <1>3, <1>4, <1>5, <1>10, <2>1
         DEF Quiet, InfoIsCurrent, ItemsAreCurrent, ItemsUsed
    <2>2. RowsAreCurrent(a)'
      BY <1>2, ReadOn DEF RowsAreCurrent, SameRows
    <2>3. m.op \notin PdfOps
      BY <1>1, <1>10 DEF Course, PdfOps
    <2>4. QED
      BY <1>3, <2>1, <2>2, <2>3, QuietPlain
  <1>9. QED
    BY <1>2, <1>5, <1>6, <1>7, <1>8, SoundStep, QuietStep

\* The next position is behind every row that the connection sees.
LEMMA NextSortIsLater ==
  ASSUME NEW v, v.receipt \in [Receipts -> ReceiptRow \cup {None}], NEW b, NEW r \in RowsOf(v, b)
  PROVE  v.receipt[r].sort < NextSort(v, b)
  <1> DEFINE rows == RowsOf(v, b)
             sorts == {v.receipt[q].sort : q \in rows}
             f == [q \in rows |-> v.receipt[q].sort]
  <1>1. rows \subseteq Receipts /\ \A q \in rows : v.receipt[q].sort \in Nat
    BY DEF RowsOf, ReceiptRow
  <1>2. IsFiniteSet(rows)
    BY <1>1, FS_Subset, BillsAssumption
  <1>3. IsFiniteSet(sorts)
    <2> HIDE DEF rows
    <2>1. f \in Surjection(rows, sorts)
      BY DEF Surjection
    <2>2. QED
      BY <2>1, <1>2, FS_Surjection
  <1>4. sorts \in SUBSET Nat /\ v.receipt[r].sort \in sorts
    BY <1>1
  <1>5. NextSort(v, b) = IF sorts = {} THEN 0 ELSE Max(sorts) + 1
    BY Zenon DEF NextSort
  <1> HIDE DEF sorts
  <1>6. Max(sorts) \in Nat /\ v.receipt[r].sort <= Max(sorts) /\ v.receipt[r].sort \in Nat
    BY <1>3, <1>4, MaxExists
  <1>7. QED
    BY <1>4, <1>5, <1>6

\* AddReceiptFile.
LEMMA AddReceiptFileQ ==
  ASSUME IInv, IInv', AllSound, AllQuiet, NEW a \in Actors, AddReceiptFile(a)
  PROVE  AllSound' /\ AllQuiet'
  <1> DEFINE b == req[a].bill
             n == NextSort(Read(a), b)
             held(r, s) == [req[a] EXCEPT !.rid = r, !.left = @ - 1, !.sort = s]
  <1>1. PICK r \in Receipts : /\ r \notin file /\ file' = file \cup {r}
                              /\ Goto(a, "insert", held(r, n))
    BY DEF AddReceiptFile
  <1>2. /\ req[a] \in Memory /\ b \in Bills /\ pc[a] = "await" /\ a \in Web /\ a \notin Cli
        /\ req[a].op \in {"generate", "upload"}
        /\ Course(a) /\ Born(a) /\ Done(a) /\ Quiet(a)
    <2>1. /\ req[a] \in Memory /\ Course(a) /\ Born(a) /\ Done(a) /\ Quiet(a)
          /\ pc[a] = "await" /\ b # None /\ req[a].left > 0
      BY Own DEF AddReceiptFile
    <2>2. QED
      BY <2>1, BillsAssumption DEF Memory, Course
  <1> DEFINE m == held(r, n)
  <1>3. /\ m.bill = b /\ m.todo = req[a].todo /\ m.op = req[a].op /\ m.info = req[a].info
        /\ m.got = req[a].got /\ m.items = req[a].items /\ m.status = req[a].status
        /\ m.rid = r /\ m.sort = n
    <2>1. ASSUME NEW s
          PROVE  LET h == held(r, s)
                 IN  /\ h.bill = b /\ h.todo = req[a].todo /\ h.op = req[a].op
                     /\ h.info = req[a].info /\ h.got = req[a].got /\ h.items = req[a].items
                     /\ h.status = req[a].status /\ h.rid = r /\ h.sort = s
      BY <1>2 DEF Memory
    <2> HIDE DEF n, held
    <2>2. QED
      BY <2>1
  <1>4. /\ Move(a, "insert", m) /\ Turns(a) /\ Select(a)
        /\ UNCHANGED <<bill, billing, receipt, pdf, quiet>>
    BY <1>1 DEF AddReceiptFile, Goto, Turns, tables
  <1> HIDE DEF m, n
  <1>5. pc'[a] = "insert" /\ req'[a] = m
    BY <1>4, Moved
  <1>6. \A x \in Actors : Spared(x)
    BY <1>4 DEF Spared, SameRows
  <1>7. Keeps(a) /\ Moves(a) /\ Course(a)' /\ Done(a)'
    BY <1>1, <1>2, <1>3, <1>4, <1>5, BillsAssumption DEF Keeps, Moves, Course, Done, Actors
  <1>8. \A d \in Bills : (m.bill = d \/ m.todo[d] # None) => bill'[d].state # "absent"
    BY <1>2, <1>3, <1>4 DEF Born, Holds
  <1>9. Quiet(a)'
    <2> SUFFICES ASSUME quiet'[a] PROVE Quiet(a)'
      BY DEF Quiet
    <2>1. InfoIsCurrent(a) /\ ItemsAreCurrent(a) /\ RowsAreCurrent(a)
      BY <1>2, <1>4 DEF Quiet
    <2>2. InfoIsCurrent(a)' /\ ItemsAreCurrent(a)'
      BY <1>2, <1>3, <1>4, <1>5, <2>1 DEF InfoIsCurrent, ItemsAreCurrent, ItemsUsed
    <2>3. RowsAreCurrent(a)'
      BY <1>2, <1>3, <1>4, <1>5, <2>1, ReadOn DEF RowsAreCurrent, Holds
    <2>4. LastIsLast(a)'
      <3>1. SameRows(Read(a).receipt, receipt, b)
        BY <1>2, <2>1 DEF RowsAreCurrent, Holds
      <3>2. ASSUME NEW q \in Receipts, receipt[q] # None, receipt[q].bill = b
            PROVE  receipt[q].sort < n
        <4>1. q \in RowsOf(Read(a), b) /\ Read(a).receipt[q] = receipt[q]
          BY <3>1, <3>2 DEF SameRows, RowsOf
        <4>2. Read(a).receipt \in [Receipts -> ReceiptRow \cup {None}]
          BY <1>2, ReadType DEF IInv
        <4>3. QED
          BY <4>1, <4>2, NextSortIsLater DEF n
      <3>3. QED
        BY <1>3, <1>4, <1>5, <3>2 DEF LastIsLast, RowsOf, View
    <2>5. DocIsCurrent(a)' /\ PdfIsCurrent(a)' /\ OrderIsKept(a)'
      BY <1>5 DEF DocIsCurrent, PdfIsCurrent, OrderIsKept
    <2>6. QED
      BY <2>2, <2>3, <2>4, <2>5 DEF Quiet
  <1>10. QED
    BY <1>4, <1>6, <1>7, <1>8, <1>9, SoundStep, QuietStep

\* A row behind all others of its bill is the last of the list.
LEMMA BehindIsLast ==
  ASSUME NEW v, NEW b, NEW r \in RowsOf(v, b), \A q \in RowsOf(v, b) : v.receipt[q].sort \in Nat,
         \A q \in RowsOf(v, b) \ {r} : v.receipt[q].sort < v.receipt[r].sort
  PROVE  list_by_bill(v, b)[r] = Cardinality(RowsOf(v, b))
  <1> DEFINE S == RowsOf(v, b)
  <1>1. S \subseteq Receipts /\ S \subseteq Nat /\ IsFiniteSet(S)
    BY FS_Subset, BillsAssumption DEF RowsOf
  <1>2. {q \in S : Precedes(v, q, r)} = S \ {r}
    BY <1>1 DEF Precedes
  <1> HIDE DEF S
  <1>3. Cardinality(S \ {r}) = Cardinality(S) - 1 /\ Cardinality(S) \in Nat
    BY <1>1, FS_RemoveElement, FS_CardinalityType DEF S
  <1>4. list_by_bill(v, b)[r] = Cardinality(S \ {r}) + 1
    BY <1>1, <1>2 DEF list_by_bill, InOrder, S
  <1>5. QED
    BY <1>3, <1>4 DEF S

\* AddReceiptRow.
LEMMA AddReceiptRowQ ==
  ASSUME IInv, IInv', AllSound, AllQuiet, NEW a \in Actors, AddReceiptRow(a)
  PROVE  AllSound' /\ AllQuiet'
  <1> DEFINE b == req[a].bill
             r == req[a].rid
             n == [req[a] EXCEPT !.sort = 0, !.got = @ \cup {r}]
             m == Did(n, "receipt_create", r)
  <1>1. /\ req[a] \in Memory /\ b \in Bills /\ pc[a] = "insert" /\ r \in file /\ r \in Receipts
        /\ Course(a) /\ Born(a) /\ Done(a) /\ Quiet(a) /\ receipt[r] = None
        /\ req[a].op \in {"generate", "upload"}
    BY Own DEF AddReceiptRow, Ready, Working, Course, Fresh, IInv, TypeOK
  <1>2. /\ m.bill = b /\ m.todo = req[a].todo /\ m.op = req[a].op /\ m.info = req[a].info
        /\ m.got = req[a].got \cup {r} /\ m.items = req[a].items /\ m.rid = r
        /\ m.status = req[a].status
    <2>1. /\ n \in Memory /\ n.bill = b /\ n.todo = req[a].todo /\ n.op = req[a].op
          /\ n.info = req[a].info /\ n.got = req[a].got \cup {r} /\ n.items = req[a].items
          /\ n.rid = r /\ n.status = req[a].status
      <3>1. req[a] \in Memory /\ r \in Receipts
        BY <1>1
      <3>2. QED
        BY <3>1 DEF Memory
    <2> HIDE DEF n
    <2>2. QED
      BY <1>1, <2>1, DidReceipt
  <1>3. /\ Move(a, "render", m) /\ Turns(a) /\ Commit(a)
        /\ UNCHANGED <<bill, billing, pdf, file>> /\ Disturb(a, b)
        /\ receipt' = [receipt EXCEPT ![r] = [bill |-> b, sort |-> req[a].sort]]
    BY DEF AddReceiptRow, receipt_create, Goto, Turns, store
  <1> HIDE DEF m
  <1>4. pc'[a] = "render" /\ req'[a] = m
    BY <1>3, Moved
  <1>5. /\ \A q \in Receipts \ {r} : receipt'[q] = receipt[q]
        /\ receipt'[r] = [bill |-> b, sort |-> req[a].sort]
        /\ receipt'[r] # None
    <2>1. [bill |-> b, sort |-> req[a].sort] \in ReceiptRow
      BY <1>1 DEF Memory, ReceiptRow
    <2>2. QED
      BY <1>1, <1>3, <2>1, NoneAssumption DEF IInv, TypeOK
  <1>6. \A d \in Bills \ {b} : SameRows(receipt, receipt', d)
    BY <1>1, <1>5 DEF SameRows
  <1>7. (\A x \in Actors \ {a} : Spared(x)) /\ quiet'[a] = quiet[a]
    BY <1>3, <1>6, DisturbSpares
  <1>8. Keeps(a) /\ Moves(a) /\ Course(a)' /\ Done(a)'
    <2>1. Keeps(a)
      BY <1>1, <1>3, <1>5 DEF Keeps
    <2>2. Moves(a) /\ Course(a)' /\ Done(a)'
      BY <1>1, <1>2, <1>3, <1>4 DEF Moves, Course, Done, PdfOps
    <2>3. QED
      BY <2>1, <2>2
  <1>9. \A d \in Bills : (m.bill = d \/ m.todo[d] # None) => bill'[d].state # "absent"
    BY <1>1, <1>2, <1>3 DEF Born, Holds
  <1>10. Quiet(a)'
    <2> SUFFICES ASSUME quiet'[a] PROVE Quiet(a)'
      BY DEF Quiet
    <2>1. InfoIsCurrent(a) /\ ItemsAreCurrent(a) /\ LastIsLast(a)
      BY <1>1, <1>7 DEF Quiet
    <2>2. InfoIsCurrent(a)' /\ ItemsAreCurrent(a)'
      BY <1>1, <1>2, <1>3, <1>4, <2>1 DEF InfoIsCurrent, ItemsAreCurrent, ItemsUsed
    <2>3. RowsAreCurrent(a)'
      BY <1>3, ReadOn DEF RowsAreCurrent, SameRows
    <2>4. LastIsLast(a)'
      <3>1. View'.receipt = receipt'
        BY DEF View
      <3>2. r \in RowsOf(View', b)
        BY <1>1, <1>5, <3>1 DEF RowsOf
      <3>3. \A q \in RowsOf(View', b) : View'.receipt[q].sort \in Nat
        BY <3>1 DEF IInv, TypeOK, RowsOf, ReceiptRow
      <3>4. \A q \in RowsOf(View', b) \ {r} : View'.receipt[q].sort < View'.receipt[r].sort
        BY <1>1, <1>5, <2>1, <3>1 DEF LastIsLast, RowsOf, View
      <3>5. list_by_bill(View', b)[r] = Cardinality(RowsOf(View', b))
        <4> DEFINE w == View'
        <4> HIDE DEF w, b, r
        <4>1. \A c, q : /\ q \in RowsOf(w, c)
                        /\ \A p \in RowsOf(w, c) : w.receipt[p].sort \in Nat
                        /\ \A p \in RowsOf(w, c) \ {q} : w.receipt[p].sort < w.receipt[q].sort
                        => list_by_bill(w, c)[q] = Cardinality(RowsOf(w, c))
          BY BehindIsLast
        <4>2. QED
          BY <3>2, <3>3, <3>4, <4>1 DEF w
      <3>6. \A c : /\ list_by_bill(View, c)' = list_by_bill(View', c)
                   /\ RowsOf(View, c)' = RowsOf(View', c)
        BY DEF list_by_bill, InOrder, RowsOf, Precedes
      <3> HIDE DEF b, r
      <3>7. QED
        BY <1>2, <1>4, <3>2, <3>5, <3>6 DEF LastIsLast
    <2>5. DocIsCurrent(a)' /\ PdfIsCurrent(a)' /\ OrderIsKept(a)'
      BY <1>1, <1>2, <1>4 DEF DocIsCurrent, PdfIsCurrent, OrderIsKept
    <2>6. QED
      BY <2>2, <2>3, <2>4, <2>5 DEF Quiet
  <1>11. QED
    BY <1>3, <1>7, <1>8, <1>9, <1>10, SoundStep, QuietStep

\* safe_log.
LEMMA safe_logQ ==
  ASSUME IInv, IInv', AllSound, AllQuiet, NEW a \in Actors, safe_log(a)
  PROVE  AllSound' /\ AllQuiet'
  <1>1. /\ req[a] \in Memory /\ req[a].bill \in Bills /\ pc[a] = "log" /\ Ready(a)
        /\ Course(a) /\ Born(a) /\ Done(a) /\ Quiet(a) /\ a \notin Script
    BY Own DEF safe_log, Ready, Working, Course
  <1>2. /\ Move(a, AfterLog(a)[1], AfterLog(a)[2]) /\ UNCHANGED <<tables, store>>
        /\ Turns(a) /\ snap'[a] \in {None, Kept(a, View)}
        /\ quiet' = [quiet EXCEPT ![a] = @ \/ AfterLog(a)[1] = "idle"]
        /\ AfterLog(a)[1] = "idle" => Commit(a)
    <2>1. PICK logged \in SUBSET Entries(a) :
             snap' = [snap EXCEPT ![a] = IF AfterLog(a)[1] = "idle" \/ logged = {} THEN None
                                         ELSE Kept(a, View)]
      BY DEF safe_log
    <2>2. [View EXCEPT !.billing = billing] = View
      BY DEF View
    <2>3. Commit(a) \/ snap' = [snap EXCEPT ![a] = Kept(a, View)]
      BY <2>1 DEF Commit
    <2>4. Turns(a) /\ snap'[a] \in {None, Kept(a, View)}
      BY <2>2, <2>3 DEF Turns, Commit, IInv, TypeOK
    <2>5. QED
      BY <2>1, <2>4 DEF safe_log, Commit
  <1>3. Keeps(a) /\ \A x \in Actors \ {a} : Spared(x)
    BY <1>2, RestKeeps DEF IInv, TypeOK
  <1>4. ASSUME NEW to, NEW m, Move(a, to, m), to \in {"await", "billing", "menu"},
               quiet'[a] = quiet[a], m.got \subseteq req[a].got,
               m.info = req[a].info, m.todo = req[a].todo, (m.items = req[a].items /\ m.status = req[a].status) \/ to = "billing",
               m.bill = req[a].bill \/ (to = "billing" /\ m.bill = None),
               \/ to = "await" /\ a \in Web /\ m.op = "upload"
               \/ to \in {"billing", "menu"} /\ a \in Cli /\ m.op = None
        PROVE  AllSound' /\ AllQuiet'
    <2>1. pc'[a] = to /\ req'[a] = m
      BY <1>4, Moved
    <2>2. Course(a)' /\ Done(a)' /\ Moves(a)
      <3>1. Course(a)'
        BY <1>1, <1>4, <2>1 DEF Course
      <3>2. m.op \in {"upload", None} /\ m.op # "receipt_delete"
        BY <1>4, NoneAssumption DEF Ops
      <3>3. Done(a)'
        BY <1>1, <1>2, <1>4, <2>1, <3>2 DEF Done, tables, store
      <3>4. QED
        BY <1>4, <2>1, <3>1, <3>2, <3>3 DEF Moves
    <2>3. \A d \in Bills : (m.bill = d \/ m.todo[d] # None) => bill'[d].state # "absent"
      BY <1>1, <1>2, <1>4, BillsAssumption DEF Born, Holds, tables
    <2>4. ASSUME quiet'[a] PROVE InfoIsCurrent(a)' /\ ItemsAreCurrent(a)'
      BY <1>1, <1>2, <1>4, <2>1, <2>4
         DEF Quiet, InfoIsCurrent, ItemsAreCurrent, ItemsUsed, tables
    <2>5. RowsAreCurrent(a)'
      <3>1. a \notin Cli => Read(a)'.receipt = receipt'
        BY <1>2 DEF Read, Kept, View, tables
      <3>2. QED
        BY <3>1 DEF RowsAreCurrent, SameRows
    <2>6. Quiet(a)'
      BY <1>4, <2>1, <2>4, <2>5, QuietPlain
    <2>7. QED
      BY <1>2, <1>3, <1>4, <2>2, <2>3, <2>6, SoundStep, QuietStep
  <1>5. CASE AfterLog(a) = <<"idle", Blank>>
    BY <1>2, <1>3, <1>5, EndStep
  <1>6. CASE a \in Web /\ req[a].op = "upload" /\ req[a].left > 0
    <2> DEFINE m == [req[a] EXCEPT !.got = {}, !.did = {}]
    <2>1. /\ m.bill = req[a].bill /\ m.todo = req[a].todo /\ m.op = req[a].op
          /\ m.info = req[a].info /\ m.got = {} /\ m.items = req[a].items
          /\ m.status = req[a].status
      BY <1>1 DEF Memory
    <2>2. AfterLog(a) = <<"await", m>>
      BY <1>6 DEF AfterLog
    <2> HIDE DEF m
    <2>3. QED
      BY <1>2, <1>4, <1>6, <2>1, <2>2 DEF IInv, TypeOK
  <1>7. CASE a \in Cli /\ req[a].op \in {"generate", "delete"}
    <2> DEFINE m == [Blank EXCEPT !.info = req[a].info]
    <2>1. m.bill = None /\ m.todo = [d \in Bills |-> None] /\ m.op = None /\ m.info = req[a].info
          /\ m.got = {}
      BY DEF Blank
    <2>2. m.todo = req[a].todo
      BY <1>1, <2>1 DEF Course, Memory
    <2>3. AfterLog(a) = <<"billing", m>>
      BY <1>7, BillsAssumption DEF AfterLog
    <2> HIDE DEF m
    <2>4. QED
      BY <1>2, <1>4, <1>7, <2>1, <2>2, <2>3 DEF IInv, TypeOK
  <1>8. CASE a \in Cli /\ req[a].op \notin {"generate", "delete"}
    <2> DEFINE m == [req[a] EXCEPT !.op = None, !.did = {}]
    <2>1. /\ m.bill = req[a].bill /\ m.todo = req[a].todo /\ m.op = None
          /\ m.info = req[a].info /\ m.got = req[a].got /\ m.items = req[a].items
          /\ m.status = req[a].status
      BY <1>1 DEF Memory
    <2>2. AfterLog(a) = <<"menu", m>>
      BY <1>8, BillsAssumption DEF AfterLog
    <2> HIDE DEF m
    <2>3. QED
      BY <1>2, <1>4, <1>8, <2>1, <2>2 DEF IInv, TypeOK
  <1>9. QED
    BY <1>1, <1>5, <1>6, <1>7, <1>8 DEF AfterLog, Actors

-----------------------------------------------------------------------------
\* What a handler loads is what the tables say.
LEMMA LoadedIs ==
  ASSUME NEW o, NEW b
  PROVE  LET l == Loaded(o, b)
         IN  /\ l.bill = b /\ l.op = o /\ l.items = bill[b].items
             /\ l.status = bill[b].status /\ l.info = billing.info
             /\ l.got = {} /\ l.left = 0 /\ l.todo = [c \in Bills |-> None]
  BY DEF Loaded, Blank

\* A handler that has loaded its bill is sound and quiet.
LEMMA BeginStep ==
  ASSUME IInv, IInv', AllSound, AllQuiet, NEW a \in Actors, NEW b \in Bills, NEW o \in Ops, NEW to, NEW m,
         Begin(a, o, b), Move(a, to, m), Select(a), UNCHANGED <<tables, store, quiet>>,
         m.bill = b, m.op = o, m.items = bill[b].items, m.status = bill[b].status, m.info = billing.info, m.got = {},
         m.todo = [c \in Bills |-> None],
         \/ to = "update" /\ o = "edit"
         \/ to = "status" /\ o = "status"
         \/ to = "delete" /\ o = "delete"
         \/ to = "render" /\ o = "regenerate"
         \/ to = "await" /\ o = "upload"
         \/ to = "await" /\ o = "reorder" /\ m.left = 0
  PROVE  AllSound' /\ AllQuiet'
  <1>1. /\ Course(a) /\ a \in Web /\ a \notin Script /\ a \notin Cli /\ snap[a] = None
        /\ bill[b].state = "live"
    BY Own, BillsAssumption DEF Begin, Course, get_by_uuid, View
  <1>2. pc'[a] = to /\ req'[a] = m
    BY Moved
  <1>3. Turns(a) /\ Keeps(a) /\ \A x \in Actors : Spared(x)
    BY RestKeeps DEF Turns
  <1>4. Course(a)' /\ Done(a)' /\ Moves(a)
    BY <1>1, <1>2 DEF Course, Done, Moves, PdfOps
  <1>5. \A c \in Bills : (m.bill = c \/ m.todo[c] # None) => bill'[c].state # "absent"
    BY <1>1 DEF tables
  <1>6. Quiet(a)'
    <2>1. InfoIsCurrent(a)' /\ ItemsAreCurrent(a)'
      BY <1>2 DEF InfoIsCurrent, ItemsAreCurrent, ItemsUsed, tables
    <2>2. RowsAreCurrent(a)'
      <3>1. Read(a).receipt = receipt /\ receipt' = receipt
        BY <1>1 DEF Read, View, tables
      <3>2. QED
        BY <1>1, <3>1, ReadOn DEF RowsAreCurrent, SameRows
    <2>3. QED
      BY <1>2, <2>1, <2>2, QuietPlain
  <1>7. QED
    BY <1>3, <1>4, <1>5, <1>6, SoundStep, QuietStep

\* Handlers that go on to their first write at once.
LEMMA BeginNowQ ==
  ASSUME IInv, IInv', AllSound, AllQuiet, NEW a \in Actors, NEW b \in Bills, NEW o \in Ops, NEW to,
         BeginNow(a, o, b, to),
         \/ to = "update" /\ o = "edit"
         \/ to = "status" /\ o = "status"
         \/ to = "delete" /\ o = "delete"
         \/ to = "render" /\ o = "regenerate"
  PROVE  AllSound' /\ AllQuiet'
  <1>1. Move(a, to, Loaded(o, b)) /\ Begin(a, o, b) /\ Select(a)
        /\ UNCHANGED <<tables, store, quiet>>
    BY DEF BeginNow, Goto
  <1>2. QED
    BY <1>1, LoadedIs, BeginStep

\* receipt_upload.
LEMMA receipt_uploadQ ==
  ASSUME IInv, IInv', AllSound, AllQuiet, NEW a \in Actors, NEW b \in Bills, receipt_upload(a, b)
  PROVE  AllSound' /\ AllQuiet'
  <1> DEFINE m(n) == [Loaded("upload", b) EXCEPT !.left = n]
  <1>1. PICK n \in 1..MaxFiles : Goto(a, "await", m(n))
    BY DEF receipt_upload
  <1>2. /\ m(n).bill = b /\ m(n).op = "upload" /\ m(n).items = bill[b].items
        /\ m(n).status = bill[b].status
        /\ m(n).info = billing.info /\ m(n).got = {} /\ m(n).todo = [c \in Bills |-> None]
    BY DEF Loaded, Blank
  <1>3. Move(a, "await", m(n)) /\ Begin(a, "upload", b) /\ Select(a)
        /\ UNCHANGED <<tables, store, quiet>>
    BY <1>1 DEF Goto, receipt_upload
  <1> HIDE DEF m
  <1>4. QED
    BY <1>2, <1>3, BeginStep DEF Ops

\* receipt_reorder.
LEMMA receipt_reorderQ ==
  ASSUME IInv, IInv', AllSound, AllQuiet, NEW a \in Actors, NEW b \in Bills, receipt_reorder(a, b)
  PROVE  AllSound' /\ AllQuiet'
  <1>1. Move(a, "await", Loaded("reorder", b)) /\ Begin(a, "reorder", b) /\ Select(a)
        /\ UNCHANGED <<tables, store, quiet>>
    BY DEF receipt_reorder, Goto
  <1>2. QED
    BY <1>1, LoadedIs, BeginStep DEF Ops

\* receipt_delete.
LEMMA receipt_deleteQ ==
  ASSUME IInv, IInv', AllSound, AllQuiet, NEW a \in Actors, NEW b \in Bills, receipt_delete(a, b)
  PROVE  AllSound' /\ AllQuiet'
  <1>1. PICK r \in Receipts :
          /\ receipt[r] # None
          /\ receipt' = [receipt EXCEPT ![r] = None]
          /\ Goto(a, "render", Did([Loaded("receipt_delete", b) EXCEPT !.got = {r}],
                                  "receipt_delete", r))
          /\ Disturb(a, receipt[r].bill)
    BY DEF receipt_delete, receipt_delete_row
  <1> DEFINE n == [Loaded("receipt_delete", b) EXCEPT !.got = {r}]
             m == Did(n, "receipt_delete", r)
  <1>2. /\ m.bill = b /\ m.op = "receipt_delete" /\ m.items = bill[b].items
        /\ m.status = bill[b].status /\ m.info = billing.info /\ m.got = {r}
        /\ m.todo = [c \in Bills |-> None]
    <2>1. Loaded("receipt_delete", b) \in Memory
      BY LoadedType DEF IInv, Ops
    <2>2. n \in Memory
      BY <2>1 DEF Memory
    <2>3. /\ n.bill = b /\ n.op = "receipt_delete" /\ n.items = bill[b].items
          /\ n.status = bill[b].status /\ n.info = billing.info /\ n.got = {r}
          /\ n.todo = [c \in Bills |-> None]
      BY DEF Loaded, Blank
    <2> HIDE DEF n
    <2>4. QED
      BY <2>2, <2>3, DidReceipt
  <1>3. /\ Move(a, "render", m) /\ Turns(a) /\ Commit(a)
        /\ UNCHANGED <<bill, billing, pdf, file>>
    BY <1>1 DEF receipt_delete, Goto, Turns, store
  <1> HIDE DEF m
  <1>4. pc'[a] = "render" /\ req'[a] = m
    BY <1>3, Moved
  <1>5. /\ Course(a) /\ a \in Web /\ a \notin Script /\ bill[b].state = "live"
    BY Own, BillsAssumption DEF receipt_delete, Begin, get_by_uuid, View
  <1>6. receipt'[r] = None /\ \A q \in Receipts \ {r} : receipt'[q] = receipt[q]
    BY <1>1 DEF IInv, TypeOK
  <1>7. (\A x \in Actors \ {a} : Spared(x)) /\ quiet'[a] = quiet[a]
    <2>1. \A d \in Bills \ {receipt[r].bill} : SameRows(receipt, receipt', d)
      BY <1>6 DEF SameRows
    <2>2. QED
      BY <1>1, <1>3, <2>1, DisturbSpares
  <1>8. Keeps(a) /\ Moves(a) /\ Course(a)' /\ Done(a)'
    <2>1. Keeps(a)
      BY <1>3, <1>6 DEF Keeps
    <2>2. r \in file
      BY <1>1 DEF IInv, NothingDangles
    <2>3. QED
      BY <1>1, <1>2, <1>3, <1>4, <1>5, <1>6, <2>1, <2>2 DEF Moves, Course, Done, PdfOps
  <1>9. \A d \in Bills : (m.bill = d \/ m.todo[d] # None) => bill'[d].state # "absent"
    BY <1>2, <1>3, <1>5
  <1>10. Quiet(a)'
    <2>1. InfoIsCurrent(a)' /\ ItemsAreCurrent(a)'
      BY <1>2, <1>3, <1>4 DEF InfoIsCurrent, ItemsAreCurrent
    <2>2. RowsAreCurrent(a)'
      BY <1>3, ReadOn DEF RowsAreCurrent, SameRows
    <2>3. QED
      BY <1>2, <1>4, <2>1, <2>2, QuietPlain
  <1>11. QED
    BY <1>3, <1>7, <1>8, <1>9, <1>10, SoundStep, QuietStep

-----------------------------------------------------------------------------
\* n receipts named once each, as many as there are rows, are all the rows;
\* and whoever has the position he is named at has as many before him.
LEMMA OrderIsPlaces ==
  ASSUME NEW v, NEW b, NEW S, S = RowsOf(v, b), NEW n, n = Cardinality(S),
         NEW order \in [1..n -> S], IsInjective(order),
         \A i \in 1..n : v.receipt[order[i]].sort = i - 1
  PROVE  \A i \in 1..n : list_by_bill(v, b)[order[i]] = i
  <1>1. S \subseteq Receipts /\ S \subseteq Nat /\ IsFiniteSet(S) /\ n \in Nat
    BY FS_Subset, FS_CardinalityType, BillsAssumption DEF RowsOf
  <1>2. order \in Surjection(1..n, S)
    <2>1. order \in Injection(1..n, S)
      BY DEF Injection
    <2>2. IsFiniteSet(1..n) /\ Cardinality(1..n) = n
      BY <1>1, FS_Interval
    <2>3. QED
      BY <1>1, <2>1, <2>2, FS_Injection
  <1>3. SUFFICES ASSUME NEW i \in 1..n PROVE list_by_bill(v, b)[order[i]] = i
    OBVIOUS
  <1> DEFINE before == {q \in S : Precedes(v, q, order[i])}
             f == [j \in 1..i - 1 |-> order[j]]
  <1>4. ASSUME NEW j \in 1..n PROVE Precedes(v, order[j], order[i]) <=> j < i
    BY <1>1, <1>4 DEF Precedes
  <1>5. f \in Bijection(1..i - 1, before)
    <2>1. \A j \in 1..i - 1 : f[j] = order[j] /\ j \in 1..n /\ order[j] \in before
      BY <1>1, <1>4
    <2>2. \A q \in before : \E j \in 1..i - 1 : f[j] = q
      <3>1. ASSUME NEW q \in before PROVE \E j \in 1..i - 1 : f[j] = q
        <4>1. PICK j \in 1..n : order[j] = q
          BY <1>2 DEF Surjection
        <4>2. j < i
          BY <1>4, <4>1
        <4>3. QED
          BY <4>1, <4>2
      <3>2. QED
        BY <3>1
    <2>3. IsInjective(f)
      BY <2>1 DEF IsInjective
    <2> HIDE DEF before
    <2>4. f \in [1..i - 1 -> before]
      BY <2>1
    <2> HIDE DEF f
    <2>5. QED
      BY <2>2, <2>3, <2>4 DEF Bijection, Injection, Surjection
  <1>6. Cardinality(before) = i - 1
    <2>1. IsFiniteSet(1..i - 1) /\ Cardinality(1..i - 1) = i - 1
      BY <1>1, FS_Interval
    <2> HIDE DEF before, f
    <2>2. QED
      BY <1>5, <2>1, FS_Bijection DEF ExistsBijection
  <1>7. list_by_bill(v, b)[order[i]] = Cardinality(before) + 1
    BY <1>1 DEF list_by_bill, InOrder
  <1>8. QED
    BY <1>6, <1>7

\* reorder_receipts, for the order accepted.
LEMMA reorder_receiptsQ ==
  ASSUME IInv, IInv', AllSound, AllQuiet, NEW a \in Actors, reorder_receipts(a)
  PROVE  AllSound' /\ AllQuiet'
  <1> DEFINE b == req[a].bill
             kept(o) == [req[a] EXCEPT !.order = o]
             held(o) == Did(kept(o), "update_sort_orders", b)
  <1>1. PICK n \in 0..Cardinality(Receipts) : \E order \in [1..n -> Receipts] :
          /\ OrderAccepted(a, order)
          /\ update_sort_orders(order)
          /\ Goto(a, "render", held(order))
    BY DEF reorder_receipts
  <1>2. PICK order \in [1..n -> Receipts] :
          /\ OrderAccepted(a, order)
          /\ update_sort_orders(order)
          /\ Goto(a, "render", held(order))
    BY <1>1
  <1>3. n \in Nat /\ Len(order) = n
    BY FS_CardinalityType, BillsAssumption
  <1> DEFINE m == held(order)
  <1>4. /\ req[a] \in Memory /\ b \in Bills /\ pc[a] = "await" /\ a \in Web /\ a \notin Cli
        /\ req[a].op = "reorder" /\ a \notin Script
        /\ Course(a) /\ Born(a) /\ Known(a) /\ Done(a) /\ Quiet(a)
    <2>1. pc[a] = "await" /\ req[a].op = "reorder"
      BY DEF reorder_receipts
    <2>2. QED
      BY <2>1, Own, BillsAssumption DEF Ready, Course
  <1>5. /\ m.bill = b /\ m.todo = req[a].todo /\ m.op = req[a].op /\ m.info = req[a].info
        /\ m.got = req[a].got /\ m.items = req[a].items /\ m.order = order
        /\ m.status = req[a].status
    <2> DEFINE k == kept(order)
    <2>1. /\ k \in Memory /\ k.bill = b /\ k.todo = req[a].todo /\ k.op = req[a].op
          /\ k.info = req[a].info /\ k.got = req[a].got /\ k.items = req[a].items
          /\ k.order = order /\ k.status = req[a].status
      <3>1. order \in Seq(Receipts)
        BY <1>3
      <3>2. req[a] \in Memory
        BY <1>4
      <3>3. QED
        BY <3>1, <3>2 DEF Memory
    <2> HIDE DEF k, kept
    <2>2. Did(k, "update_sort_orders", b) = m
      BY DEF k
    <2>3. QED
      BY <1>4, <2>1, <2>2, DidBill
  <1>6. /\ Move(a, "render", m) /\ Turns(a) /\ Commit(a)
        /\ UNCHANGED <<bill, billing, pdf, file>> /\ Disturb(a, b)
    BY <1>2 DEF reorder_receipts, Goto, Turns, store
  <1> HIDE DEF m
  <1>7. pc'[a] = "render" /\ req'[a] = m
    BY <1>6, Moved
  <1>8. /\ \A r \in Receipts :
              /\ receipt'[r] = None <=> receipt[r] = None
              /\ receipt[r] # None => receipt'[r].bill = receipt[r].bill
              /\ (\A i \in 1..n : order[i] # r) => receipt'[r] = receipt[r]
        /\ \A i \in 1..n : receipt[order[i]] # None =>
              /\ receipt'[order[i]].sort \in 0..n - 1
              /\ order[receipt'[order[i]].sort + 1] = order[i]
    BY <1>2, <1>3, ReorderedRows DEF IInv
  <1>9. \A i \in 1..n : order[i] \in RowsOf(Read(a), b)
    BY <1>2, <1>3 DEF OrderAccepted
  <1>10. \A i \in 1..n : receipt[order[i]] # None => receipt[order[i]].bill = b
    BY <1>4, <1>9 DEF Known, RowsOf, Read, View
  <1>11. (\A x \in Actors \ {a} : Spared(x)) /\ quiet'[a] = quiet[a]
    <2>1. \A d \in Bills \ {b} : SameRows(receipt, receipt', d)
      BY <1>8, <1>10 DEF SameRows
    <2>2. QED
      BY <1>6, <2>1, DisturbSpares
  <1>12. Keeps(a) /\ Moves(a) /\ Course(a)' /\ Done(a)'
    <2>1. Keeps(a)
      BY <1>6, <1>8 DEF Keeps
    <2>2. QED
      BY <1>4, <1>5, <1>6, <1>7, <2>1 DEF Moves, Course, Done, PdfOps
  <1>13. \A d \in Bills : (m.bill = d \/ m.todo[d] # None) => bill'[d].state # "absent"
    BY <1>4, <1>5, <1>6 DEF Born, Holds
  <1>14. Quiet(a)'
    <2> SUFFICES ASSUME quiet'[a] PROVE Quiet(a)'
      BY DEF Quiet
    <2>1. InfoIsCurrent(a) /\ ItemsAreCurrent(a) /\ RowsAreCurrent(a)
      BY <1>4, <1>11 DEF Quiet
    <2>2. InfoIsCurrent(a)' /\ ItemsAreCurrent(a)'
      BY <1>4, <1>5, <1>6, <1>7, <2>1 DEF InfoIsCurrent, ItemsAreCurrent, ItemsUsed
    <2>3. RowsAreCurrent(a)'
      BY <1>6, ReadOn DEF RowsAreCurrent, SameRows
    <2>4. OrderIsKept(a)'
      <3> SUFFICES ASSUME IsInjective(order)
                   PROVE  \A i \in 1..n : list_by_bill(View', b)[order[i]] = i
        <4>1. \A c : list_by_bill(View, c)' = list_by_bill(View', c)
          BY DEF list_by_bill, InOrder, RowsOf, Precedes
        <4> HIDE DEF b
        <4>2. QED
          BY <1>3, <1>5, <1>7, <4>1 DEF OrderIsKept
      <3> DEFINE w == View'
      <3>1. w.receipt = receipt'
        BY DEF View
      <3>2. RowsOf(Read(a), b) = RowsOf(w, b)
        <4>1. SameRows(Read(a).receipt, receipt, b)
          BY <1>4, <2>1 DEF RowsAreCurrent, Holds
        <4> HIDE DEF w
        <4>2. QED
          BY <1>8, <3>1, <4>1 DEF SameRows, RowsOf
      <3> HIDE DEF w, b
      <3>3. order \in [1..n -> RowsOf(w, b)] /\ n = Cardinality(RowsOf(w, b))
        BY <1>2, <1>3, <1>9, <3>2 DEF OrderAccepted, b
      <3>4. \A i \in 1..n : w.receipt[order[i]].sort = i - 1
        <4> SUFFICES ASSUME NEW i \in 1..n PROVE w.receipt[order[i]].sort = i - 1
          OBVIOUS
        <4>1. receipt'[order[i]] # None
          BY <3>1, <3>3 DEF RowsOf
        <4>2. receipt'[order[i]].sort \in 0..n - 1 /\ order[receipt'[order[i]].sort + 1] = order[i]
          BY <1>8, <4>1
        <4>3. QED
          BY <3>1, <4>2 DEF IsInjective
      <3>5. \A i \in 1..n : list_by_bill(w, b)[order[i]] = i
        BY <3>3, <3>4, OrderIsPlaces
      <3>6. QED
        BY <3>5 DEF w, b
    <2>5. DocIsCurrent(a)' /\ PdfIsCurrent(a)' /\ LastIsLast(a)'
      BY <1>4, <1>5, <1>7 DEF DocIsCurrent, PdfIsCurrent, LastIsLast
    <2>6. QED
      BY <2>2, <2>3, <2>4, <2>5 DEF Quiet
  <1>15. QED
    BY <1>6, <1>11, <1>12, <1>13, <1>14, SoundStep, QuietStep

\* bill_generate.
LEMMA bill_generateQ ==
  ASSUME IInv, IInv', AllSound, AllQuiet, NEW a \in Actors, bill_generate(a)
  PROVE  AllSound' /\ AllQuiet'
  <1> DEFINE m(n) == [Blank EXCEPT !.op = "generate", !.info = billing.info, !.left = n]
  <1>1. PICK n \in 0..MaxFiles : Goto(a, "await", m(n))
    BY DEF bill_generate
  <1>2. /\ m(n).bill = None /\ m(n).op = "generate" /\ m(n).info = billing.info
        /\ m(n).got = {} /\ m(n).todo = [c \in Bills |-> None]
    BY DEF Blank
  <1>3. /\ Move(a, "await", m(n)) /\ Turns(a) /\ UNCHANGED <<tables, store, quiet>>
        /\ a \in Web /\ a \notin Script
    BY <1>1, BillsAssumption DEF bill_generate, Goto, Turns
  <1> HIDE DEF m
  <1>4. pc'[a] = "await" /\ req'[a] = m(n)
    BY <1>3, Moved
  <1>5. Keeps(a) /\ \A x \in Actors : Spared(x)
    BY <1>3, RestKeeps
  <1>6. Course(a)' /\ Done(a)' /\ Moves(a)
    BY <1>2, <1>3, <1>4 DEF Course, Done, Moves
  <1>7. \A d \in Bills : ~ (m(n).bill = d \/ m(n).todo[d] # None)
    BY <1>2, BillsAssumption
  <1>8. Quiet(a)'
    <2>1. InfoIsCurrent(a)' /\ ItemsAreCurrent(a)'
      BY <1>2, <1>3, <1>4 DEF InfoIsCurrent, ItemsAreCurrent, tables
    <2>2. RowsAreCurrent(a)'
      BY <1>4, <1>7 DEF RowsAreCurrent, Holds
    <2>3. QED
      BY <1>2, <1>4, <2>1, <2>2, QuietPlain
  <1>9. QED
    BY <1>3, <1>5, <1>6, <1>7, <1>8, SoundStep, QuietStep

\* generate_bill, by a request or by a menu.
LEMMA generate_billQ ==
  ASSUME IInv, IInv', AllSound, AllQuiet, NEW a \in Actors, NEW b \in Bills, NEW c \in Items,
         generate_bill(a, b, c), UNCHANGED <<billing, receipt, store>>, a \in Web \cup Cli,
         quiet'[a] => req[a].info = billing.info,
         \A x \in Actors \ {a} : quiet'[x] => quiet[x]
  PROVE  AllSound' /\ AllQuiet'
  <1> DEFINE n == [req[a] EXCEPT !.op = "generate", !.bill = b]
             m == Did(n, "bill_create", b)
  <1>1. /\ req[a] \in Memory /\ Course(a) /\ Born(a) /\ Done(a) /\ a \notin Script
    BY Own, BillsAssumption
  <1>2. /\ m.bill = b /\ m.todo = req[a].todo /\ m.op = "generate" /\ m.info = req[a].info
        /\ m.got = req[a].got
    <2>1. /\ n \in Memory /\ n.bill = b /\ n.todo = req[a].todo /\ n.op = "generate"
          /\ n.info = req[a].info /\ n.got = req[a].got
      BY <1>1 DEF Memory, Ops
    <2> HIDE DEF n
    <2>2. QED
      BY <2>1, DidBill
  <1>3. /\ Move(a, "reread", m) /\ Turns(a) /\ Commit(a) /\ UNCHANGED <<billing, receipt, pdf, file>>
    BY DEF generate_bill, Goto, Turns, store
  <1> HIDE DEF m
  <1>4. pc'[a] = "reread" /\ req'[a] = m
    BY <1>3, Moved
  <1>5. /\ bill[b].state = "absent" /\ bill'[b].state = "live"
        /\ \A d \in Bills \ {b} : bill'[d] = bill[d]
    BY DEF generate_bill, bill_create, IInv, TypeOK
  <1>6. \A x \in Actors \ {a} : Spared(x)
    BY <1>3, <1>5 DEF Spared, SameRows, AllSound, Sound, Born
  <1>7. Keeps(a) /\ Moves(a) /\ Course(a)' /\ Done(a)'
    BY <1>1, <1>2, <1>3, <1>4, <1>5 DEF Keeps, Moves, Course, Done
  <1>8. \A d \in Bills : (m.bill = d \/ m.todo[d] # None) => bill'[d].state # "absent"
    BY <1>1, <1>2, <1>5 DEF Course
  <1>9. Quiet(a)'
    <2>1. ASSUME quiet'[a] PROVE InfoIsCurrent(a)' /\ ItemsAreCurrent(a)'
      BY <1>1, <1>2, <1>3, <1>4, <2>1 DEF InfoIsCurrent, ItemsAreCurrent, ItemsUsed, Course
    <2>2. RowsAreCurrent(a)'
      BY <1>3, ReadOn DEF RowsAreCurrent, SameRows
    <2>3. QED
      BY <1>4, <2>1, <2>2, QuietPlain
  <1>10. QED
    BY <1>3, <1>6, <1>7, <1>8, <1>9, SoundStep, QuietStep

\* bill_generate_resumes.
LEMMA bill_generate_resumesQ ==
  ASSUME IInv, IInv', AllSound, AllQuiet, NEW a \in Actors, bill_generate_resumes(a)
  PROVE  AllSound' /\ AllQuiet'
  <1>1. Quiet(a) /\ pc[a] = "await" /\ UNCHANGED quiet
    BY Own DEF bill_generate_resumes
  <1>2. quiet'[a] => req[a].info = billing.info
    BY <1>1 DEF Quiet, InfoIsCurrent
  <1>3. QED
    BY <1>1, <1>2, generate_billQ DEF bill_generate_resumes

\* generate_bill_menu.
LEMMA generate_bill_menuQ ==
  ASSUME IInv, IInv', AllSound, AllQuiet, NEW a \in Actors, generate_bill_menu(a)
  PROVE  AllSound' /\ AllQuiet'
  <1>1. /\ quiet'[a] => req[a].info = billing.info
        /\ \A x \in Actors \ {a} : quiet'[x] => quiet[x]
    BY DEF generate_bill_menu, IInv, TypeOK
  <1>2. QED
    BY <1>1, generate_billQ DEF generate_bill_menu

\* SkipFile.
LEMMA SkipFileQ ==
  ASSUME IInv, IInv', AllSound, AllQuiet, NEW a \in Actors, SkipFile(a)
  PROVE  AllSound' /\ AllQuiet'
  <1>1. /\ req[a] \in Memory /\ req[a].bill \in Bills /\ pc[a] = "await" /\ a \in Web
        /\ req[a].op \in {"generate", "upload"} /\ a \notin Script
        /\ Course(a) /\ Born(a) /\ Done(a) /\ Quiet(a)
    BY Own, BillsAssumption DEF SkipFile, Memory
  <1>2. UNCHANGED <<tables, store>>
    BY DEF SkipFile
  <1>3. ASSUME NEW to, NEW n, to = "await" \/ (to = "log" /\ req[a].op = "generate"),
               Goto(a, to, [req[a] EXCEPT !.left = n]), UNCHANGED <<snap, quiet>>
        PROVE  AllSound' /\ AllQuiet'
    <2> DEFINE m == [req[a] EXCEPT !.left = n]
    <2>1. /\ m.bill = req[a].bill /\ m.todo = req[a].todo /\ m.op = req[a].op
          /\ m.info = req[a].info /\ m.got = req[a].got /\ m.items = req[a].items
          /\ m.status = req[a].status
      BY <1>1 DEF Memory
    <2>2. Move(a, to, m) /\ Turns(a)
      BY <1>3 DEF Goto, Turns
    <2> HIDE DEF m
    <2>3. pc'[a] = to /\ req'[a] = m
      BY <2>2, Moved
    <2>4. Keeps(a) /\ \A x \in Actors : Spared(x)
      BY <1>2, <1>3, RestKeeps
    <2>5. Course(a)' /\ Done(a)' /\ Moves(a)
      BY <1>1, <1>2, <1>3, <2>1, <2>3, BillsAssumption DEF Course, Done, Moves, Ops, tables, store
    <2>6. \A d \in Bills : (m.bill = d \/ m.todo[d] # None) => bill'[d].state # "absent"
      BY <1>1, <1>2, <2>1 DEF Born, Holds, tables
    <2>7. Quiet(a)'
      <3> SUFFICES ASSUME quiet'[a] PROVE Quiet(a)'
        BY DEF Quiet
      <3>1. InfoIsCurrent(a) /\ ItemsAreCurrent(a) /\ RowsAreCurrent(a) /\ PdfIsCurrent(a)
        BY <1>1, <1>3 DEF Quiet
      <3>2. InfoIsCurrent(a)' /\ ItemsAreCurrent(a)'
        BY <1>1, <1>2, <1>3, <2>1, <2>3, <3>1 DEF InfoIsCurrent, ItemsAreCurrent, ItemsUsed, tables
      <3>3. RowsAreCurrent(a)'
        BY <1>2, <1>3, <2>1, <2>3, <3>1 DEF RowsAreCurrent, Holds, Read, View, tables
      <3>4. PdfIsCurrent(a)'
        <4>1. \A e, c : Shows(a, e, c) => Shows(a, e, c)'
          BY <1>2, ShowsStays DEF tables
        <4>2. req[a].op = "generate" => Shows(a, pdf[req[a].bill], req[a].bill)
          BY <1>1, <3>1, BillsAssumption DEF PdfIsCurrent
        <4>3. QED
          BY <1>1, <1>2, <1>3, <2>1, <2>3, <4>1, <4>2 DEF PdfIsCurrent, PdfOps, Shows, store
      <3>5. DocIsCurrent(a)' /\ LastIsLast(a)' /\ OrderIsKept(a)'
        BY <1>3, <2>3 DEF DocIsCurrent, LastIsLast, OrderIsKept
      <3>6. QED
        BY <3>2, <3>3, <3>4, <3>5 DEF Quiet
    <2>8. QED
      BY <2>2, <2>4, <2>5, <2>6, <2>7, SoundStep, QuietStep
  <1>4. CASE req[a].left > 1
    <2>1. [req[a] EXCEPT !.left = @ - 1] = [req[a] EXCEPT !.left = req[a].left - 1]
      OBVIOUS
    <2>2. QED
      BY <1>3, <1>4, <2>1 DEF SkipFile
  <1>5. CASE ~ (req[a].left > 1) /\ req[a].op = "generate"
    BY <1>3, <1>5 DEF SkipFile
  <1>6. CASE ~ (req[a].left > 1) /\ req[a].op # "generate"
    <2>1. Move(a, "idle", Blank) /\ Commit(a) /\ Turns(a) /\ quiet' = [quiet EXCEPT ![a] = TRUE]
      BY <1>6 DEF SkipFile, Goto, Turns
    <2>2. Keeps(a) /\ \A x \in Actors \ {a} : Spared(x)
      BY <1>2, <2>1, RestKeeps DEF IInv, TypeOK
    <2>3. QED
      BY <2>1, <2>2, EndStep
  <1>7. QED
    BY <1>4, <1>5, <1>6

\* Refused.
LEMMA RefusedQ ==
  ASSUME IInv, IInv', AllSound, AllQuiet, NEW a \in Actors, Refused(a)
  PROVE  AllSound' /\ AllQuiet'
  <1>1. /\ Move(a, "idle", Blank) /\ Commit(a) /\ Turns(a) /\ UNCHANGED <<tables, store>>
        /\ quiet' = [quiet EXCEPT ![a] = TRUE]
    BY DEF Refused, Goto, Turns
  <1>2. Keeps(a) /\ \A x \in Actors \ {a} : Spared(x)
    BY <1>1, RestKeeps DEF IInv, TypeOK
  <1>3. QED
    BY <1>1, <1>2, EndStep

-----------------------------------------------------------------------------
\* list_billings_menu.
LEMMA list_billings_menuQ ==
  ASSUME IInv, IInv', AllSound, AllQuiet, NEW a \in Actors, list_billings_menu(a)
  PROVE  AllSound' /\ AllQuiet'
  <1> DEFINE held(i) == [Blank EXCEPT !.info = i]
             m == held(Read(a).billing.info)
  <1>1. /\ m.bill = None /\ m.op = None /\ m.got = {} /\ m.todo = [c \in Bills |-> None]
    BY DEF Blank
  <1>2. /\ Move(a, "billing", m) /\ Turns(a) /\ UNCHANGED <<tables, store, quiet>>
        /\ a \in Cli /\ a \notin Script
    BY BillsAssumption DEF list_billings_menu, Goto, Turns
  <1> HIDE DEF m
  <1>3. pc'[a] = "billing" /\ req'[a] = m
    BY <1>2, Moved
  <1>4. Keeps(a) /\ \A x \in Actors : Spared(x)
    BY <1>2, RestKeeps
  <1>5. Course(a)' /\ Done(a)' /\ Moves(a)
    BY <1>1, <1>2, <1>3, NoneAssumption DEF Course, Done, Moves, Ops
  <1>6. \A d \in Bills : ~ (m.bill = d \/ m.todo[d] # None)
    BY <1>1, BillsAssumption
  <1>7. Quiet(a)'
    <2>1. InfoIsCurrent(a)' /\ ItemsAreCurrent(a)' /\ RowsAreCurrent(a)'
      BY <1>1, <1>2, <1>3 DEF InfoIsCurrent, ItemsAreCurrent, ItemsUsed, RowsAreCurrent
    <2>2. QED
      BY <1>3, <2>1, QuietPlain
  <1>8. QED
    BY <1>2, <1>4, <1>5, <1>6, <1>7, SoundStep, QuietStep

\* list_bills_menu.
LEMMA list_bills_menuQ ==
  ASSUME IInv, IInv', AllSound, AllQuiet, NEW a \in Actors, list_bills_menu(a)
  PROVE  AllSound' /\ AllQuiet'
  <1> DEFINE v == Read(a)
             held(b, i, s) == [req[a] EXCEPT !.bill = b, !.items = i, !.status = s]
  <1>1. PICK b \in Bills : /\ v.bill[b].state = "live"
                           /\ Goto(a, "menu", held(b, v.bill[b].items, v.bill[b].status))
                           /\ quiet' = [quiet EXCEPT ![a] =
                                 v.bill[b] = bill[b] /\ req[a].info = billing.info]
    BY DEF list_bills_menu, get_by_uuid
  <1>2. /\ req[a] \in Memory /\ Course(a) /\ Born(a) /\ Done(a) /\ pc[a] = "billing"
        /\ a \in Cli /\ a \notin Script
    BY Own, BillsAssumption DEF list_bills_menu
  <1> DEFINE m == held(b, v.bill[b].items, v.bill[b].status)
  <1>3. /\ m.bill = b /\ m.items = v.bill[b].items /\ m.status = v.bill[b].status /\ m.op = req[a].op /\ m.info = req[a].info
        /\ m.got = req[a].got /\ m.todo = req[a].todo
    <2>1. ASSUME NEW i, NEW s
          PROVE  LET h == held(b, i, s)
                 IN  /\ h.bill = b /\ h.items = i /\ h.status = s /\ h.op = req[a].op /\ h.info = req[a].info
                     /\ h.got = req[a].got /\ h.todo = req[a].todo
      BY <1>2 DEF Memory
    <2> HIDE DEF v, held
    <2>2. QED
      BY <2>1
  <1>4. Move(a, "menu", m) /\ Turns(a) /\ UNCHANGED <<tables, store>>
    BY <1>1 DEF list_bills_menu, Goto, Turns
  <1> HIDE DEF m
  <1>5. pc'[a] = "menu" /\ req'[a] = m
    BY <1>4, Moved
  <1>6. /\ Keeps(a) /\ \A x \in Actors \ {a} : Spared(x)
        /\ quiet'[a] => v.bill[b] = bill[b] /\ req[a].info = billing.info
    BY <1>1, <1>4, RestKeeps DEF IInv, TypeOK
  <1>7. Course(a)' /\ Done(a)' /\ Moves(a)
    BY <1>2, <1>3, <1>4, <1>5, NoneAssumption DEF Course, Done, Moves, Ops, tables, store
  <1>8. \A d \in Bills : (m.bill = d \/ m.todo[d] # None) => bill'[d].state # "absent"
    <2>1. bill[b].state # "absent"
      BY <1>1, <1>2 DEF Born, Read, View
    <2>2. QED
      BY <1>2, <1>3, <1>4, <2>1 DEF Course, tables
  <1>9. Quiet(a)'
    <2>1. quiet'[a] => InfoIsCurrent(a)' /\ ItemsAreCurrent(a)' /\ RowsAreCurrent(a)'
      BY <1>2, <1>3, <1>4, <1>5, <1>6
         DEF InfoIsCurrent, ItemsAreCurrent, RowsAreCurrent, Course, tables
    <2>2. QED
      BY <1>5, <2>1, QuietPlain
  <1>10. QED
    BY <1>4, <1>6, <1>7, <1>8, <1>9, SoundStep, QuietStep

\* MenuChoice.
LEMMA MenuChoiceQ ==
  ASSUME IInv, IInv', AllSound, AllQuiet, NEW a \in Actors, NEW o, NEW to, MenuChoice(a, o, to),
         \/ to = "update" /\ o = "edit"
         \/ to = "status" /\ o = "status"
         \/ to = "delete" /\ o = "delete"
         \/ to = "render" /\ o = "regenerate"
  PROVE  AllSound' /\ AllQuiet'
  <1> DEFINE m == [req[a] EXCEPT !.op = o]
  <1>1. /\ req[a] \in Memory /\ req[a].bill \in Bills /\ pc[a] = "menu" /\ a \in Cli
        /\ a \notin Script /\ Course(a) /\ Born(a) /\ Done(a) /\ Quiet(a)
    BY Own, BillsAssumption DEF MenuChoice, Ready, Working
  <1>2. /\ m.bill = req[a].bill /\ m.todo = req[a].todo /\ m.op = o /\ m.info = req[a].info
        /\ m.got = req[a].got /\ m.items = req[a].items
        /\ m.status = req[a].status
    BY <1>1 DEF Memory
  <1>3. /\ Move(a, to, m) /\ Turns(a) /\ UNCHANGED <<tables, store, quiet>>
    BY DEF MenuChoice, Goto, Turns
  <1> HIDE DEF m
  <1>4. pc'[a] = to /\ req'[a] = m
    BY <1>3, Moved
  <1>5. Keeps(a) /\ \A x \in Actors : Spared(x)
    BY <1>3, RestKeeps
  <1>6. Course(a)' /\ Done(a)' /\ Moves(a)
    BY <1>1, <1>2, <1>3, <1>4 DEF Course, Done, Moves, PdfOps, tables, store
  <1>7. \A d \in Bills : (m.bill = d \/ m.todo[d] # None) => bill'[d].state # "absent"
    BY <1>1, <1>2, <1>3 DEF Born, Holds, tables
  <1>8. Quiet(a)'
    <2>1. quiet'[a] => InfoIsCurrent(a)' /\ ItemsAreCurrent(a)' /\ RowsAreCurrent(a)'
      BY <1>1, <1>2, <1>3, <1>4
         DEF Quiet, InfoIsCurrent, ItemsAreCurrent, ItemsUsed, RowsAreCurrent, tables
    <2>2. QED
      BY <1>2, <1>4, <2>1, QuietPlain
  <1>9. QED
    BY <1>3, <1>5, <1>6, <1>7, <1>8, SoundStep, QuietStep

\* Back in the menu of the billing, the CLI holds no bill.
LEMMA BillingStep ==
  ASSUME IInv, IInv', AllSound, AllQuiet, NEW a \in Actors, NEW m, Move(a, "billing", m), a \in Cli,
         m.bill = None, m.todo = [c \in Bills |-> None], m.op = None, m.got = {},
         Turns(a), Keeps(a), \A x \in Actors \ {a} : Spared(x)
  PROVE  AllSound' /\ AllQuiet'
  <1>1. pc'[a] = "billing" /\ req'[a] = m /\ a \notin Script
    BY Moved, BillsAssumption
  <1>2. Course(a)' /\ Done(a)' /\ Moves(a)
    BY <1>1, NoneAssumption DEF Course, Done, Moves, Ops
  <1>3. \A d \in Bills : ~ (m.bill = d \/ m.todo[d] # None)
    BY BillsAssumption
  <1>4. Quiet(a)'
    <2>1. InfoIsCurrent(a)' /\ ItemsAreCurrent(a)' /\ RowsAreCurrent(a)'
      BY <1>1 DEF InfoIsCurrent, ItemsAreCurrent, ItemsUsed, RowsAreCurrent
    <2>2. QED
      BY <1>1, <2>1, QuietPlain
  <1>5. QED
    BY <1>2, <1>3, <1>4, SoundStep, QuietStep

\* edit_billing_menu.
LEMMA edit_billing_menuQ ==
  ASSUME IInv, IInv', AllSound, AllQuiet, NEW a \in Actors, edit_billing_menu(a)
  PROVE  AllSound' /\ AllQuiet'
  <1>1. PICK i \in Infos :
          /\ billing' = [billing EXCEPT !.info = i]
          /\ IF billing.live
             THEN /\ Goto(a, "billing", [req[a] EXCEPT !.info = i])
                  /\ snap' = [snap EXCEPT ![a] = Kept(a, [View EXCEPT !.billing = billing'])]
             ELSE Goto(a, "idle", Blank) /\ Commit(a)
          /\ quiet' = [x \in Actors |->
                x = a \/ (quiet[x] /\ (pc[x] = "idle" \/ i = billing.info))]
    BY DEF edit_billing_menu
  <1>2. /\ req[a] \in Memory /\ pc[a] = "billing" /\ a \in Cli /\ a \notin Script
        /\ Course(a) /\ Born(a) /\ Done(a) /\ UNCHANGED <<bill, receipt, pdf, file>>
    BY Own, BillsAssumption DEF edit_billing_menu, store
  <1>3. Keeps(a)
    BY <1>2 DEF Keeps
  <1>4. \A x \in Actors \ {a} : Spared(x)
    BY <1>1, <1>2 DEF Spared, SameRows, IInv, TypeOK, BillingRow
  <1>5. CASE billing.live
    <2> DEFINE m == [req[a] EXCEPT !.info = i]
    <2>1. m.bill = req[a].bill /\ m.todo = req[a].todo /\ m.op = req[a].op /\ m.got = req[a].got
          /\ m.items = req[a].items
      BY <1>2 DEF Memory
    <2>2. Move(a, "billing", m) /\ Turns(a)
      BY <1>1, <1>5 DEF Goto, Turns
    <2> HIDE DEF m
    <2>3. pc'[a] = "billing" /\ req'[a] = m
      BY <2>2, Moved
    <2>4. Course(a)' /\ Done(a)' /\ Moves(a)
      BY <1>2, <2>1, <2>3, NoneAssumption DEF Course, Done, Moves, Ops
    <2>5. \A d \in Bills : (m.bill = d \/ m.todo[d] # None) => bill'[d].state # "absent"
      BY <1>2, <2>1 DEF Born, Holds
    <2>6. Quiet(a)'
      <3>1. InfoIsCurrent(a)' /\ ItemsAreCurrent(a)' /\ RowsAreCurrent(a)'
        BY <1>2, <2>1, <2>3 DEF InfoIsCurrent, ItemsAreCurrent, ItemsUsed, RowsAreCurrent, Course
      <3>2. QED
        BY <2>3, <3>1, QuietPlain
    <2>7. QED
      BY <1>3, <1>4, <2>2, <2>4, <2>5, <2>6, SoundStep, QuietStep
  <1>6. CASE ~ billing.live
    <2>1. Move(a, "idle", Blank) /\ Turns(a)
      BY <1>1, <1>6 DEF Goto, Turns
    <2>2. QED
      BY <1>2, <1>3, <1>4, <2>1, EndStep
  <1>7. QED
    BY <1>5, <1>6

\* excluir_cobranca.
LEMMA excluir_cobrancaQ ==
  ASSUME IInv, IInv', AllSound, AllQuiet, NEW a \in Actors, excluir_cobranca(a)
  PROVE  AllSound' /\ AllQuiet'
  <1>1. /\ a \in Cli /\ Move(a, "idle", Blank) /\ UNCHANGED <<bill, receipt, pdf, file>>
        /\ billing' = [billing EXCEPT !.live = FALSE] /\ quiet' = [quiet EXCEPT ![a] = TRUE]
        /\ Turns(a)
    BY DEF excluir_cobranca, Goto, store, Turns
  <1>2. Keeps(a) /\ \A x \in Actors \ {a} : Spared(x)
    BY <1>1 DEF Keeps, Spared, SameRows, IInv, TypeOK, BillingRow
  <1>3. QED
    BY <1>1, <1>2, EndStep

\* voltar.
LEMMA voltarQ ==
  ASSUME IInv, IInv', AllSound, AllQuiet, NEW a \in Actors, voltar(a)
  PROVE  AllSound' /\ AllQuiet'
  <1>1. /\ a \in Cli /\ Turns(a) /\ Keeps(a) /\ \A x \in Actors \ {a} : Spared(x)
    BY RestKeeps DEF voltar, Turns, IInv, TypeOK
  <1>2. CASE pc[a] = "menu"
    <2> DEFINE m == [Blank EXCEPT !.info = req[a].info]
    <2>1. m.bill = None /\ m.todo = [c \in Bills |-> None] /\ m.op = None /\ m.got = {}
      BY DEF Blank
    <2>2. Move(a, "billing", m)
      BY <1>2 DEF voltar, Goto
    <2> HIDE DEF m
    <2>3. QED
      BY <1>1, <2>1, <2>2, BillingStep
  <1>3. CASE pc[a] # "menu"
    BY <1>1, <1>3, EndStep DEF voltar, Goto
  <1>4. QED
    BY <1>2, <1>3

\* sair.
LEMMA sairQ ==
  ASSUME IInv, IInv', AllSound, AllQuiet, NEW a \in Actors, sair(a)
  PROVE  AllSound' /\ AllQuiet'
  <1>1. Move(a, "idle", Blank)
    BY Own DEF sair, Course, Move, IInv, TypeOK
  <1>2. /\ a \in Cli /\ Turns(a) /\ Keeps(a) /\ \A x \in Actors \ {a} : Spared(x)
    BY RestKeeps DEF sair, Turns
  <1>3. QED
    BY <1>1, <1>2, EndStep

\* ScriptList.
LEMMA ScriptListQ ==
  ASSUME IInv, IInv', AllSound, AllQuiet, NEW a \in Actors, ScriptList(a)
  PROVE  AllSound' /\ AllQuiet'
  <1> DEFINE todo == [b \in Bills |-> IF billing.live /\ get_by_uuid(View, b)
                                      THEN bill[b].items ELSE None]
             held(t) == [Blank EXCEPT !.op = "regenerate", !.info = billing.info, !.todo = t]
             m == held(todo)
  <1>1. m.bill = None /\ m.op = "regenerate" /\ m.info = billing.info /\ m.got = {} /\ m.todo = todo
    BY DEF Blank
  <1>2. /\ Move(a, "next", m) /\ Turns(a) /\ Select(a) /\ UNCHANGED <<tables, store, quiet>>
        /\ a \in Script /\ a \notin Cli /\ snap[a] = None
    BY Own, BillsAssumption DEF ScriptList, Goto, Turns, Course
  <1> HIDE DEF m
  <1>3. pc'[a] = "next" /\ req'[a] = m
    BY <1>2, Moved
  <1>4. Keeps(a) /\ \A x \in Actors : Spared(x)
    BY <1>2, RestKeeps
  <1>5. Course(a)' /\ Done(a)' /\ Moves(a)
    BY <1>1, <1>2, <1>3 DEF Course, Done, Moves
  <1>6. \A d \in Bills : (m.bill = d \/ m.todo[d] # None) => bill'[d].state # "absent"
    BY <1>1, <1>2, BillsAssumption DEF get_by_uuid, View, tables
  <1>7. Quiet(a)'
    <2>1. InfoIsCurrent(a)' /\ ItemsAreCurrent(a)'
      BY <1>1, <1>2, <1>3 DEF InfoIsCurrent, ItemsAreCurrent, ItemsUsed, tables
    <2>2. RowsAreCurrent(a)'
      <3>1. Read(a).receipt = receipt /\ receipt' = receipt
        BY <1>2 DEF Read, View, tables
      <3>2. QED
        BY <1>2, <3>1, ReadOn DEF RowsAreCurrent, SameRows
    <2>3. QED
      BY <1>3, <2>1, <2>2, QuietPlain
  <1>8. QED
    BY <1>2, <1>4, <1>5, <1>6, <1>7, SoundStep, QuietStep

\* ScriptNext.
LEMMA ScriptNextQ ==
  ASSUME IInv, IInv', AllSound, AllQuiet, NEW a \in Actors, ScriptNext(a)
  PROVE  AllSound' /\ AllQuiet'
  <1>1. PICK b \in Bills :
          /\ req[a].todo[b] # None
          /\ Goto(a, "render", [req[a] EXCEPT !.bill = b, !.items = req[a].todo[b],
                                              !.todo[b] = None, !.did = {}])
    BY DEF ScriptNext
  <1> DEFINE m == [req[a] EXCEPT !.bill = b, !.items = req[a].todo[b], !.todo[b] = None,
                             !.did = {}]
  <1>2. /\ req[a] \in Memory /\ pc[a] = "next" /\ a \in Script
        /\ Course(a) /\ Born(a) /\ Done(a) /\ Quiet(a)
    BY Own DEF ScriptNext
  <1>3. /\ m.bill = b /\ m.items = req[a].todo[b] /\ m.op = req[a].op /\ m.info = req[a].info
        /\ m.got = req[a].got /\ m.todo = [req[a].todo EXCEPT ![b] = None]
    BY <1>2 DEF Memory
  <1>4. /\ Move(a, "render", m) /\ Turns(a) /\ UNCHANGED <<tables, store, snap, quiet>>
    BY <1>1 DEF ScriptNext, Goto, Turns
  <1> HIDE DEF m
  <1>5. pc'[a] = "render" /\ req'[a] = m
    BY <1>4, Moved
  <1>6. Keeps(a) /\ \A x \in Actors : Spared(x)
    BY <1>4, RestKeeps
  <1>7. Course(a)' /\ Done(a)' /\ Moves(a)
    BY <1>2, <1>3, <1>4, <1>5 DEF Course, Done, Moves, PdfOps, tables, store
  <1>8. \A d \in Bills : m.bill = d \/ m.todo[d] # None => Holds(a, d)
    BY <1>1, <1>2, <1>3 DEF Holds, Memory
  <1>9. \A d \in Bills : (m.bill = d \/ m.todo[d] # None) => bill'[d].state # "absent"
    BY <1>2, <1>4, <1>8 DEF Born, tables
  <1>10. Quiet(a)'
    <2> SUFFICES ASSUME quiet'[a] PROVE InfoIsCurrent(a)' /\ ItemsAreCurrent(a)' /\ RowsAreCurrent(a)'
      BY <1>2, <1>3, <1>5, QuietPlain DEF Course
    <2>1. InfoIsCurrent(a) /\ ItemsAreCurrent(a) /\ RowsAreCurrent(a)
      BY <1>2, <1>4 DEF Quiet
    <2>2. InfoIsCurrent(a)' /\ ItemsAreCurrent(a)'
      BY <1>1, <1>2, <1>3, <1>4, <1>5, <2>1 DEF InfoIsCurrent, ItemsAreCurrent, Memory, tables
    <2>3. RowsAreCurrent(a)'
      BY <1>4, <1>5, <1>8, <2>1 DEF RowsAreCurrent, Holds, Read, View, tables
    <2>4. QED
      BY <2>2, <2>3
  <1>11. QED
    BY <1>4, <1>6, <1>7, <1>9, <1>10, SoundStep, QuietStep

\* ScriptEnd.
LEMMA ScriptEndQ ==
  ASSUME IInv, IInv', AllSound, AllQuiet, NEW a \in Actors, ScriptEnd(a)
  PROVE  AllSound' /\ AllQuiet'
  <1>1. /\ Move(a, "idle", Blank) /\ Commit(a) /\ Turns(a) /\ UNCHANGED <<tables, store>>
        /\ quiet' = [quiet EXCEPT ![a] = TRUE]
    BY DEF ScriptEnd, Goto, Turns
  <1>2. Keeps(a) /\ \A x \in Actors \ {a} : Spared(x)
    BY <1>1, RestKeeps DEF IInv, TypeOK
  <1>3. QED
    BY <1>1, <1>2, EndStep

\* Fail.
LEMMA FailQ ==
  ASSUME IInv, IInv', AllSound, AllQuiet, NEW a \in Actors, Fail(a)
  PROVE  AllSound' /\ AllQuiet'
  <1>1. Move(a, "idle", Blank) /\ Commit(a) /\ Turns(a) /\ UNCHANGED <<bill, billing, receipt, file>>
    BY DEF Fail, Goto, Turns, tables
  <1>2. Keeps(a)
    BY <1>1 DEF Keeps
  <1>3. \A x \in Actors \ {a} : Spared(x)
    <2>1. CASE UNCHANGED pdf /\ quiet' = [quiet EXCEPT ![a] = TRUE]
      BY <1>1, <2>1 DEF Spared, SameRows, IInv, TypeOK
    <2>2. CASE /\ pdf' = [pdf EXCEPT ![req[a].bill] = Torn]
               /\ quiet' = [x \in Actors |-> x = a \/ (quiet[x] /\ ~ Holds(x, req[a].bill))]
      BY <1>1, <2>2 DEF Spared, SameRows, IInv, TypeOK
    <2>3. QED
      BY <2>1, <2>2 DEF Fail
  <1>4. QED
    BY <1>1, <1>2, <1>3, EndStep

\* The environment's steps on the billing.
LEMMA BillingQ ==
  ASSUME IInv, AllSound, AllQuiet, EditBilling \/ DeleteBilling
  PROVE  AllSound' /\ AllQuiet'
  <1>1. UNCHANGED <<bill, receipt, pdf, file, pc, snap, req>>
    BY DEF EditBilling, DeleteBilling, store
  <1>2. AllSound'
    BY <1>1 DEF AllSound, Sound, Course, Born, Known, Fresh, Done, Holds
  <1>3. \A x \in Actors : Spared(x)
    BY <1>1 DEF EditBilling, DeleteBilling, Spared, SameRows, IInv, TypeOK, BillingRow
  <1>4. QED
    BY <1>1, <1>2, <1>3, QuietOthers DEF AllQuiet

-----------------------------------------------------------------------------
\* At the start nobody holds anything.
LEMMA InitQ == Init => AllSound /\ AllQuiet
  <1> SUFFICES ASSUME Init PROVE AllSound /\ AllQuiet
    OBVIOUS
  <1>1. ASSUME NEW a \in Actors PROVE Sound(a) /\ Quiet(a)
    <2>1. pc[a] = "idle" /\ req[a] = Blank /\ snap[a] = None
      BY DEF Init
    <2>2. \A b \in Bills : ~ Holds(a, b)
      BY <2>1, IdleHoldsNone
    <2>3. Blank.op = None /\ Blank.got = {} /\ Blank.bill = None /\ Blank.todo = [b \in Bills |-> None]
      BY DEF Blank
    <2>4. Course(a) /\ Born(a) /\ Known(a) /\ Fresh(a) /\ Done(a)
      BY <2>1, <2>2, <2>3 DEF Course, Born, Known, Fresh, Done
    <2>5. Quiet(a)
      BY <2>1, <2>2, <2>3 DEF Quiet, InfoIsCurrent, ItemsAreCurrent, RowsAreCurrent,
         DocIsCurrent, PdfIsCurrent, LastIsLast, OrderIsKept, ItemsUsed, Holds
    <2>6. QED
      BY <2>4, <2>5 DEF Sound
  <1>2. QED
    BY <1>1 DEF AllSound, AllQuiet

\* A step of an actor keeps all sound and the undisturbed ones quiet.
LEMMA ActorQ ==
  ASSUME IInv, IInv', AllSound, AllQuiet, NEW a \in Actors,
         \/ Service(a) \/ bill_generate(a) \/ Resumed(a) \/ Menu(a) \/ RunScript(a) \/ Fail(a)
         \/ \E b \in Bills : Handler(a, b)
  PROVE  AllSound' /\ AllQuiet'
  <1>1. CASE Service(a)
    BY <1>1, RenderQ, RetrieveFailsQ, SavePdfQ, StorePdfPathQ, update_billQ, change_statusQ,
       delete_billQ, AddReceiptFileQ, AddReceiptRowQ, safe_logQ DEF Service
  <1>2. CASE bill_generate(a) \/ Resumed(a) \/ Fail(a)
    BY <1>2, bill_generateQ, bill_generate_resumesQ, SkipFileQ, reorder_receiptsQ, RefusedQ, FailQ
       DEF Resumed
  <1>3. CASE Menu(a)
    <2>1. CASE edit_bill_menu(a) \/ alterar_status(a) \/ regenerar_pdf(a) \/ excluir_fatura(a)
      BY <2>1, MenuChoiceQ DEF edit_bill_menu, alterar_status, regenerar_pdf, excluir_fatura
    <2>2. QED
      BY <1>3, <2>1, list_billings_menuQ, generate_bill_menuQ, list_bills_menuQ,
         edit_billing_menuQ, excluir_cobrancaQ, voltarQ, sairQ DEF Menu
  <1>4. CASE RunScript(a)
    BY <1>4, ScriptListQ, ScriptNextQ, ScriptEndQ DEF RunScript
  <1>5. ASSUME NEW b \in Bills, Handler(a, b) PROVE AllSound' /\ AllQuiet'
    <2>1. CASE \/ bill_edit(a, b) \/ bill_change_status(a, b) \/ bill_delete_post(a, b)
               \/ bill_regenerate_pdf(a, b)
      BY <2>1, BeginNowQ
         DEF bill_edit, bill_change_status, bill_delete_post, bill_regenerate_pdf, Ops
    <2>2. QED
      BY <1>5, <2>1, receipt_uploadQ, receipt_deleteQ, receipt_reorderQ DEF Handler
  <1>6. QED
    BY <1>1, <1>2, <1>3, <1>4, <1>5

LEMMA NextQ == QInv /\ [Next]_vars => QInv'
  <1> SUFFICES ASSUME QInv, [Next]_vars PROVE QInv'
    OBVIOUS
  <1>1. IInv /\ IInv' /\ AllSound /\ AllQuiet
    BY NextInv DEF QInv
  <1>2. CASE Next
    BY <1>1, <1>2, ActorQ, BillingQ DEF Next, QInv
  <1>3. CASE UNCHANGED vars
    <2>1. UNCHANGED <<tables, store, pc, req, snap, quiet>>
      BY <1>3 DEF vars, tables, store
    <2>2. AllSound'
      BY <1>1, <2>1 DEF AllSound, Sound, Course, Born, Known, Fresh, Done, Holds, tables, store
    <2>3. \A x \in Actors : Spared(x)
      BY <2>1, RestKeeps
    <2>4. QED
      BY <1>1, <2>1, <2>2, <2>3, QuietOthers DEF AllQuiet, QInv
  <1>4. QED
    BY <1>2, <1>3

LEMMA Inductive == Spec => []QInv
  <1>1. Init => QInv
    BY InitInv, InitQ DEF QInv
  <1>2. QED
    BY <1>1, NextQ, PTL DEF Spec

\* In every behaviour of the three programs, with any number of requests, CLI
\* sessions, scripts, bills and receipts, an operation that stored a PDF and
\* was not disturbed since it read the bill leaves in the store what the
\* committed tables say.
THEOREM QuietPdfs == Spec => []QuietPdfIsCurrent
  <1>1. QInv => QuietPdfIsCurrent
    BY DEF QInv, AllQuiet, Quiet, PdfIsCurrent, Shows, QuietPdfIsCurrent
  <1>2. QED
    BY <1>1, Inductive, PTL

\* A receipt added without disturbance is the last of its bill's list, however
\* the sort_orders before it were left by deletions and reorderings.
THEOREM AddedLast == Spec => []AddedReceiptIsLast
  <1>1. QInv => AddedReceiptIsLast
    BY DEF QInv, AllQuiet, Quiet, LastIsLast, AddedReceiptIsLast
  <1>2. QED
    BY <1>1, Inductive, PTL

\* An undisturbed reordering of all receipts of a bill puts them in the order
\* asked for, for any number of them.
THEOREM OrderTaken == Spec => []ReorderTakesEffect
  <1>1. QInv => ReorderTakesEffect
    BY DEF QInv, AllQuiet, Quiet, OrderIsKept, ReorderTakesEffect
  <1>2. QED
    BY <1>1, Inductive, PTL

-----------------------------------------------------------------------------
(* The audit log: which calls an actor has committed at each of its steps,  *)
(* by the calls noted in its memory.                                        *)

Earns(to, m) ==
    /\ m.op \in {"generate", "upload"} => \A r \in m.got : <<"receipt_create", r>> \in m.did
    /\ m.op = "receipt_delete" => \A r \in m.got : <<"receipt_delete", r>> \in m.did
    /\ to = "billing" => m.got = {}
    /\ m.op = "generate" /\ m.bill # None
            /\ to \in {"reread", "render", "save", "point", "await", "insert", "log"} =>
          <<"bill_create", m.bill>> \in m.did
    /\ m.op = "edit" /\ to \in {"reread", "render", "save", "point", "log"} =>
          <<"bill_update", m.bill>> \in m.did
    /\ m.op = "reorder" /\ to \in {"reread", "render", "save", "point", "log"} =>
          <<"update_sort_orders", m.bill>> \in m.did
    /\ m.op \in {"generate", "edit", "regenerate", "reorder"} /\ to = "log" =>
          <<"update_pdf_path", m.bill>> \in m.did
    /\ m.op = "generate" /\ m.bill # None /\ to = "await" =>
          <<"update_pdf_path", m.bill>> \in m.did
    /\ m.op = "status" /\ to = "log" => <<"update_status", m.bill>> \in m.did
    /\ m.op = "delete" /\ to = "log" => <<"bill_delete", m.bill>> \in m.did

Earned(a) == Earns(pc[a], req[a])

AllEarned == \A a \in Actors : Earned(a)

\* A step of one actor leaves to the others what they have earned.
LEMMA EarnedStep ==
  ASSUME IInv, AllEarned, NEW a \in Actors, NEW to, NEW m, Move(a, to, m), Earns(to, m)
  PROVE  AllEarned'
  BY Moved DEF AllEarned, Earned, Earns

\* At the steps where an operation starts, nothing need have been committed.
LEMMA EarnsNothing ==
  ASSUME NEW to, NEW m,
         \/ m.got = {}
         \/ m.op \notin {"generate", "upload", "receipt_delete"} /\ to # "billing",
         \/ to \in {"idle", "billing", "menu", "next", "update", "status", "delete"}
         \/ to = "render" /\ m.op = "regenerate"
         \/ to = "await" /\ m.op \in {"upload", "reorder"}
         \/ to = "await" /\ m.op = "generate" /\ m.bill = None
  PROVE  Earns(to, m)
  BY DEF Earns

\* What is earned is carried from step to step of _generate_and_store_pdf, and
\* from one file to the next.
LEMMA EarnsStill ==
  ASSUME NEW a, Earned(a), NEW to, NEW m,
         m.op = req[a].op, m.bill = req[a].bill, m.got = req[a].got, m.did = req[a].did,
         \/ pc[a] \in {"reread", "render"} /\ to = "save"
         \/ pc[a] = "save" /\ to = "point"
         \/ pc[a] = "await" /\ to \in {"await", "insert"} /\ req[a].op \in {"generate", "upload"}
         \/ pc[a] = "await" /\ to = "log" /\ req[a].op = "generate" /\ req[a].bill # None
  PROVE  Earns(to, m)
  BY DEF Earned, Earns

\* Render.
LEMMA RenderE ==
  ASSUME QInv, AllEarned, NEW a \in Actors, Render(a)
  PROVE  AllEarned'
  <1> DEFINE held(i, s, o, d) == [req[a] EXCEPT !.items = i, !.status = s, !.rid = None,
                                                !.order = o, !.doc = d]
  <1>1. PICK i, s, o, d : Goto(a, "save", held(i, s, o, d))
    BY DEF Render
  <1> DEFINE m == held(i, s, o, d)
  <1>2. req[a] \in Memory /\ Earned(a) /\ pc[a] \in {"reread", "render"}
    BY Own DEF QInv, AllEarned, Render
  <1>3. m.op = req[a].op /\ m.bill = req[a].bill /\ m.got = req[a].got /\ m.did = req[a].did
    BY <1>2 DEF Memory
  <1>4. Move(a, "save", m)
    BY <1>1 DEF Goto
  <1> HIDE DEF m
  <1>5. QED
    BY <1>2, <1>3, <1>4, EarnsStill, EarnedStep DEF QInv

\* SavePdf and AddReceiptFile.
LEMMA FilesE ==
  ASSUME QInv, AllEarned, NEW a \in Actors, SavePdf(a) \/ AddReceiptFile(a)
  PROVE  AllEarned'
  <1>1. req[a] \in Memory /\ Earned(a) /\ Course(a)
    BY Own DEF QInv, AllEarned
  <1>2. CASE SavePdf(a)
    <2> DEFINE m == [req[a] EXCEPT !.doc = None]
    <2>1. m.op = req[a].op /\ m.bill = req[a].bill /\ m.got = req[a].got /\ m.did = req[a].did
      BY <1>1 DEF Memory
    <2>2. Move(a, "point", m) /\ pc[a] = "save"
      BY <1>2 DEF SavePdf, Goto
    <2> HIDE DEF m
    <2>3. QED
      BY <1>1, <2>1, <2>2, EarnsStill, EarnedStep DEF QInv
  <1>3. CASE AddReceiptFile(a)
    <2>4. pc[a] = "await" /\ req[a].op \in {"generate", "upload"}
      <3>1. pc[a] = "await" /\ req[a].left > 0
        BY <1>3 DEF AddReceiptFile
      <3>2. req[a].left # 0
        BY <3>1
      <3>3. QED
        BY <1>1, <3>1, <3>2 DEF Course
    <2> DEFINE held(r, n) == [req[a] EXCEPT !.rid = r, !.left = @ - 1, !.sort = n]
    <2>1. PICK r, n : Goto(a, "insert", held(r, n))
      BY <1>3 DEF AddReceiptFile
    <2> DEFINE m == held(r, n)
    <2>2. m.op = req[a].op /\ m.bill = req[a].bill /\ m.got = req[a].got /\ m.did = req[a].did
      BY <1>1 DEF Memory
    <2>3. Move(a, "insert", m)
      BY <2>1 DEF Goto
    <2> HIDE DEF m
    <2>5. QED
      BY <1>1, <2>2, <2>3, <2>4, EarnsStill, EarnedStep DEF QInv
  <1>4. QED
    BY <1>2, <1>3

\* StorePdfPath.
LEMMA StorePdfPathE ==
  ASSUME QInv, AllEarned, NEW a \in Actors, StorePdfPath(a)
  PROVE  AllEarned'
  <1> DEFINE m == Did(req[a], "update_pdf_path", req[a].bill)
  <1>1. /\ req[a] \in Memory /\ req[a].bill \in Bills /\ Earned(a) /\ Course(a) /\ pc[a] = "point"
    BY Own DEF QInv, AllEarned, StorePdfPath, Ready, Working
  <1>2. PICK to \in {"next", "await", "log"} : Move(a, to, m) /\ (to = "await" => req[a].op = "generate")
    BY DEF StorePdfPath, Goto
  <1>3. /\ m.op = req[a].op /\ m.bill = req[a].bill /\ m.got = req[a].got
        /\ m.did = req[a].did \cup {<<"update_pdf_path", req[a].bill>>}
    BY <1>1, DidBill
  <1> HIDE DEF m
  <1>4. Earns(to, m)
    BY <1>1, <1>2, <1>3 DEF Earned, Earns, Course, PdfOps
  <1>5. QED
    BY <1>2, <1>4, EarnedStep DEF QInv

\* update_bill, change_status and delete_bill.
LEMMA WriteBillE ==
  ASSUME QInv, AllEarned, NEW a \in Actors, update_bill(a) \/ change_status(a) \/ delete_bill(a)
  PROVE  AllEarned'
  <1> DEFINE b == req[a].bill
  <1>1. /\ req[a] \in Memory /\ b \in Bills /\ Earned(a) /\ Course(a)
    BY Own DEF QInv, AllEarned, update_bill, change_status, delete_bill, Ready, Working
  <1>2. ASSUME NEW n \in Memory, n.op = req[a].op, n.bill = b, n.got = req[a].got,
               NEW to, NEW w, Move(a, to, Did(n, w, b)),
               \/ w = "bill_update" /\ to = "reread" /\ n.op = "edit"
               \/ w = "update_status" /\ to = "log" /\ n.op = "status"
               \/ w = "bill_delete" /\ to = "log" /\ n.op = "delete"
        PROVE  AllEarned'
    <2> DEFINE m == Did(n, w, b)
    <2>1. m.op = n.op /\ m.bill = b /\ m.got = n.got /\ m.did = n.did \cup {<<w, b>>}
      BY <1>1, <1>2, DidBill
    <2> HIDE DEF m
    <2>2. Earns(to, m)
      BY <1>1, <1>2, <2>1 DEF Earns
    <2>3. Move(a, to, m)
      BY <1>2 DEF m
    <2>4. QED
      BY <2>2, <2>3, EarnedStep DEF QInv
  <1>3. CASE update_bill(a)
    BY <1>1, <1>2, <1>3 DEF update_bill, Goto, Course
  <1>4. CASE delete_bill(a)
    BY <1>1, <1>2, <1>4 DEF delete_bill, Goto, Course
  <1>5. CASE change_status(a)
    <2>1. PICK s \in Statuses : Move(a, "log", Did([req[a] EXCEPT !.status = s], "update_status", b))
      BY <1>5 DEF change_status, Goto
    <2> DEFINE n == [req[a] EXCEPT !.status = s]
    <2>2. n \in Memory /\ n.op = req[a].op /\ n.bill = b /\ n.got = req[a].got
      BY <1>1 DEF Memory
    <2>3. n.op = "status"
      BY <1>1, <1>5, <2>2 DEF change_status, Course
    <2>4. Move(a, "log", Did(n, "update_status", b))
      BY <2>1
    <2> HIDE DEF n, b
    <2>5. QED
      BY <1>2, <2>2, <2>3, <2>4
  <1>6. QED
    BY <1>3, <1>4, <1>5

\* AddReceiptRow.
LEMMA AddReceiptRowE ==
  ASSUME QInv, AllEarned, NEW a \in Actors, AddReceiptRow(a)
  PROVE  AllEarned'
  <1> DEFINE r == req[a].rid
             n == [req[a] EXCEPT !.sort = 0, !.got = @ \cup {r}]
             m == Did(n, "receipt_create", r)
  <1>1. /\ req[a] \in Memory /\ Earned(a) /\ Course(a) /\ pc[a] = "insert" /\ r \in Receipts
    BY Own DEF QInv, AllEarned, AddReceiptRow, Ready, IInv, TypeOK
  <1>2. n \in Memory /\ n.op = req[a].op /\ n.bill = req[a].bill /\ n.did = req[a].did
        /\ n.got = req[a].got \cup {r}
    BY <1>1 DEF Memory
  <1>3. Move(a, "render", m)
    BY DEF AddReceiptRow, Goto
  <1>4. /\ m.op = n.op /\ m.bill = n.bill /\ m.got = n.got
        /\ m.did = n.did \cup {<<"receipt_create", r>>}
    <2> HIDE DEF n
    <2>1. QED
      BY <1>1, <1>2, DidReceipt
  <1> HIDE DEF m, n
  <1>5. Earns("render", m)
    BY <1>1, <1>2, <1>4 DEF Earned, Earns, Course
  <1>6. QED
    BY <1>3, <1>5, EarnedStep DEF QInv

\* safe_log.
LEMMA safe_logE ==
  ASSUME QInv, AllEarned, NEW a \in Actors, safe_log(a)
  PROVE  AllEarned'
  <1> DEFINE to == AfterLog(a)[1]
             m == AfterLog(a)[2]
  <1>1. req[a] \in Memory
    BY Own DEF QInv
  <1>2. \/ to = "await" /\ m.op = "upload" /\ m.got = {}
        \/ to = "idle" /\ m.got = {}
        \/ to = "billing" /\ m.got = {}
        \/ to = "menu" /\ m.op = None
    <2>1. /\ [req[a] EXCEPT !.got = {}, !.did = {}].op = req[a].op
          /\ [req[a] EXCEPT !.got = {}, !.did = {}].got = {}
          /\ [req[a] EXCEPT !.op = None, !.did = {}].op = None
      BY <1>1 DEF Memory
    <2>2. Blank.got = {} /\ [Blank EXCEPT !.info = req[a].info].got = {}
      BY DEF Blank
    <2>3. QED
      BY <2>1, <2>2 DEF AfterLog
  <1>3. Move(a, to, m)
    BY DEF safe_log
  <1> HIDE DEF to, m
  <1>4. QED
    BY <1>2, <1>3, EarnsNothing, EarnedStep, NoneAssumption DEF QInv, Ops

\* Who ends has nothing to log.
LEMMA EndE ==
  ASSUME QInv, AllEarned, NEW a \in Actors, Move(a, "idle", Blank)
  PROVE  AllEarned'
  <1>1. Blank.got = {}
    BY DEF Blank
  <1>2. QED
    BY <1>1, EarnsNothing, EarnedStep DEF QInv

\* The web's handlers.
LEMMA HandlerE ==
  ASSUME QInv, AllEarned, NEW a \in Actors, NEW b \in Bills, Handler(a, b)
  PROVE  AllEarned'
  <1>1. ASSUME NEW o, NEW to, BeginNow(a, o, b, to),
               to \in {"update", "status", "delete"} \/ (to = "render" /\ o = "regenerate")
        PROVE  AllEarned'
    <2>1. Move(a, to, Loaded(o, b))
      BY <1>1 DEF BeginNow, Goto
    <2>2. QED
      BY <1>1, <2>1, LoadedIs, EarnsNothing, EarnedStep DEF QInv
  <1>2. CASE \/ bill_edit(a, b) \/ bill_change_status(a, b) \/ bill_delete_post(a, b)
             \/ bill_regenerate_pdf(a, b)
    BY <1>1, <1>2 DEF bill_edit, bill_change_status, bill_delete_post, bill_regenerate_pdf
  <1>3. CASE receipt_upload(a, b)
    <2> DEFINE m(n) == [Loaded("upload", b) EXCEPT !.left = n]
    <2>1. PICK n : Move(a, "await", m(n))
      BY <1>3 DEF receipt_upload, Goto
    <2>2. m(n).op = "upload" /\ m(n).got = {}
      BY DEF Loaded, Blank
    <2> HIDE DEF m
    <2>3. QED
      BY <2>1, <2>2, EarnsNothing, EarnedStep DEF QInv
  <1>4. CASE receipt_reorder(a, b)
    <2>1. Move(a, "await", Loaded("reorder", b))
      BY <1>4 DEF receipt_reorder, Goto
    <2>2. QED
      BY <2>1, LoadedIs, EarnsNothing, EarnedStep DEF QInv
  <1>5. CASE receipt_delete(a, b)
    <2> DEFINE n(r) == [Loaded("receipt_delete", b) EXCEPT !.got = {r}]
    <2>1. PICK r \in Receipts : Move(a, "render", Did(n(r), "receipt_delete", r))
      BY <1>5 DEF receipt_delete, Goto
    <2> DEFINE m == Did(n(r), "receipt_delete", r)
    <2>2. n(r) \in Memory /\ n(r).op = "receipt_delete" /\ n(r).got = {r}
      <3>1. Loaded("receipt_delete", b) \in Memory
        BY LoadedType DEF QInv, IInv, Ops
      <3>2. n(r) \in Memory
        BY <3>1 DEF Memory
      <3>3. n(r).op = "receipt_delete" /\ n(r).got = {r}
        BY DEF Loaded, Blank
      <3>4. QED
        BY <3>2, <3>3
    <2> HIDE DEF n
    <2>3. m.op = "receipt_delete" /\ m.got = {r} /\ <<"receipt_delete", r>> \in m.did
      BY <2>2, DidReceipt
    <2> HIDE DEF m
    <2>4. Earns("render", m)
      BY <2>3 DEF Earns
    <2>5. QED
      BY <2>1, <2>4, EarnedStep DEF QInv, m
  <1>6. QED
    BY <1>2, <1>3, <1>4, <1>5 DEF Handler

\* reorder_receipts.
LEMMA reorder_receiptsE ==
  ASSUME QInv, AllEarned, NEW a \in Actors, reorder_receipts(a)
  PROVE  AllEarned'
  <1> DEFINE b == req[a].bill
             n(o) == [req[a] EXCEPT !.order = o]
  <1>0. PICK k \in 0..Cardinality(Receipts) : \E o \in [1..k -> Receipts] :
           Move(a, "render", Did(n(o), "update_sort_orders", b))
    BY DEF reorder_receipts, Goto
  <1>1. PICK o \in [1..k -> Receipts] :
           Move(a, "render", Did(n(o), "update_sort_orders", b))
    BY <1>0
  <1>2. /\ req[a] \in Memory /\ b \in Bills /\ req[a].op = "reorder"
    BY Own DEF QInv, reorder_receipts, Ready
  <1>3. n(o) \in Memory /\ n(o).op = "reorder" /\ n(o).bill = b
    <2>1. o \in Seq(Receipts)
      BY FS_CardinalityType, BillsAssumption
    <2>2. QED
      BY <1>2, <2>1 DEF Memory
  <1> DEFINE m == Did(n(o), "update_sort_orders", b)
  <1> HIDE DEF n
  <1>4. m.op = "reorder" /\ m.bill = b /\ <<"update_sort_orders", b>> \in m.did
    BY <1>2, <1>3, DidBill
  <1>5. Move(a, "render", m)
    BY <1>1
  <1> HIDE DEF m, b
  <1>6. Earns("render", m)
    BY <1>4 DEF Earns
  <1>7. QED
    BY <1>5, <1>6, EarnedStep DEF QInv

\* bill_generate, and generate_bill from a request or from a menu.
LEMMA GenerateE ==
  ASSUME QInv, AllEarned, NEW a \in Actors,
         bill_generate(a) \/ bill_generate_resumes(a) \/ generate_bill_menu(a)
  PROVE  AllEarned'
  <1>1. CASE bill_generate(a)
    <2> DEFINE m(n) == [Blank EXCEPT !.op = "generate", !.info = billing.info, !.left = n]
    <2>1. PICK n : Move(a, "await", m(n))
      BY <1>1 DEF bill_generate, Goto
    <2>2. m(n).op = "generate" /\ m(n).got = {} /\ m(n).bill = None
      BY DEF Blank
    <2> HIDE DEF m
    <2>3. QED
      BY <2>1, <2>2, EarnsNothing, EarnedStep DEF QInv
  <1>2. CASE bill_generate_resumes(a) \/ generate_bill_menu(a)
    <2> DEFINE n(b) == [req[a] EXCEPT !.op = "generate", !.bill = b]
    <2>1. PICK b \in Bills : Move(a, "reread", Did(n(b), "bill_create", b))
      BY <1>2 DEF bill_generate_resumes, generate_bill_menu, generate_bill, Goto
    <2>2. req[a] \in Memory /\ Earned(a)
      BY Own DEF QInv, AllEarned
    <2>3. \A r \in req[a].got : <<"receipt_create", r>> \in req[a].did
      BY <1>2, <2>2 DEF bill_generate_resumes, generate_bill_menu, Earned, Earns
    <2>4. /\ n(b) \in Memory /\ n(b).op = "generate" /\ n(b).bill = b
          /\ n(b).got = req[a].got /\ n(b).did = req[a].did
      BY <2>2 DEF Memory, Ops
    <2> DEFINE m == Did(n(b), "bill_create", b)
    <2> HIDE DEF n
    <2>5. /\ m.op = "generate" /\ m.bill = b /\ m.got = req[a].got
          /\ m.did = req[a].did \cup {<<"bill_create", b>>}
      BY <2>4, DidBill
    <2>6. Move(a, "reread", m)
      BY <2>1
    <2> HIDE DEF m
    <2>7. Earns("reread", m)
      BY <2>3, <2>5 DEF Earns
    <2>8. QED
      BY <2>6, <2>7, EarnedStep DEF QInv
  <1>3. QED
    BY <1>1, <1>2

\* SkipFile.
LEMMA SkipFileE ==
  ASSUME QInv, AllEarned, NEW a \in Actors, SkipFile(a)
  PROVE  AllEarned'
  <1> DEFINE m(n) == [req[a] EXCEPT !.left = n]
  <1>1. /\ req[a] \in Memory /\ Earned(a) /\ pc[a] = "await" /\ req[a].bill # None
        /\ req[a].op \in {"generate", "upload"}
    BY Own DEF QInv, AllEarned, SkipFile
  <1>2. ASSUME NEW n
        PROVE  /\ m(n).op = req[a].op /\ m(n).bill = req[a].bill
               /\ m(n).got = req[a].got /\ m(n).did = req[a].did
    BY <1>1 DEF Memory
  <1>3. CASE req[a].left > 1
    <2>1. Move(a, "await", m(req[a].left - 1))
      BY <1>3 DEF SkipFile, Goto
    <2> HIDE DEF m
    <2>2. QED
      BY <1>1, <1>2, <2>1, EarnsStill, EarnedStep DEF QInv
  <1>4. CASE ~ (req[a].left > 1) /\ req[a].op = "generate"
    <2>1. Move(a, "log", m(0))
      BY <1>4 DEF SkipFile, Goto
    <2> HIDE DEF m
    <2>2. QED
      BY <1>1, <1>2, <1>4, <2>1, EarnsStill, EarnedStep DEF QInv
  <1>5. CASE ~ (req[a].left > 1) /\ req[a].op # "generate"
    BY <1>5, EndE DEF SkipFile, Goto
  <1>6. QED
    BY <1>3, <1>4, <1>5

\* The menus of the CLI but for the one that generates.
LEMMA MenuE ==
  ASSUME QInv, AllEarned, NEW a \in Actors, Menu(a), ~ generate_bill_menu(a)
  PROVE  AllEarned'
  <1>1. req[a] \in Memory /\ Earned(a) /\ Course(a)
    BY Own DEF QInv, AllEarned
  <1>2. ASSUME NEW o, NEW to, MenuChoice(a, o, to),
               o \in {"edit", "status", "regenerate", "delete"},
               to \in {"update", "status", "delete"} \/ (to = "render" /\ o = "regenerate")
        PROVE  AllEarned'
    <2> DEFINE m == [req[a] EXCEPT !.op = o]
    <2>1. Move(a, to, m)
      BY <1>2 DEF MenuChoice, Goto
    <2>2. m.op = o
      BY <1>1 DEF Memory
    <2> HIDE DEF m
    <2>3. QED
      BY <1>2, <2>1, <2>2, EarnsNothing, EarnedStep DEF QInv
  <1>3. CASE edit_bill_menu(a) \/ alterar_status(a) \/ regenerar_pdf(a) \/ excluir_fatura(a)
    BY <1>2, <1>3 DEF edit_bill_menu, alterar_status, regenerar_pdf, excluir_fatura
  <1>4. CASE list_billings_menu(a) \/ (voltar(a) /\ pc[a] = "menu")
    <2> DEFINE m(i) == [Blank EXCEPT !.info = i]
    <2>1. PICK i : Move(a, "billing", m(i))
      BY <1>4 DEF list_billings_menu, voltar, Goto
    <2>2. m(i).got = {}
      BY DEF Blank
    <2> HIDE DEF m
    <2>3. QED
      BY <2>1, <2>2, EarnsNothing, EarnedStep DEF QInv
  <1>5. CASE list_bills_menu(a)
    <2> DEFINE m(b, i, s) == [req[a] EXCEPT !.bill = b, !.items = i, !.status = s]
    <2>1. PICK b, i, s : Move(a, "menu", m(b, i, s))
      BY <1>5 DEF list_bills_menu, Goto
    <2>2. m(b, i, s).op = None
      BY <1>1, <1>5 DEF list_bills_menu, Course, Memory
    <2> HIDE DEF m
    <2>3. QED
      BY <2>1, <2>2, EarnsNothing, EarnedStep, NoneAssumption DEF QInv, Ops
  <1>6. CASE edit_billing_menu(a)
    <2> DEFINE m(i) == [req[a] EXCEPT !.info = i]
    <2>1. PICK i : Move(a, "billing", m(i)) \/ Move(a, "idle", Blank)
      BY <1>6 DEF edit_billing_menu, Goto
    <2>2. m(i).got = {}
      BY <1>1, <1>6 DEF edit_billing_menu, Earned, Earns, Memory
    <2> HIDE DEF m
    <2>3. QED
      BY <2>1, <2>2, EarnsNothing, EarnedStep, EndE DEF QInv
  <1>7. CASE excluir_cobranca(a) \/ (voltar(a) /\ pc[a] # "menu")
    BY <1>7, EndE DEF excluir_cobranca, voltar, Goto
  <1>8. CASE sair(a)
    BY <1>8 DEF sair, AllEarned, Earned, Earns
  <1>9. QED
    BY <1>3, <1>4, <1>5, <1>6, <1>7, <1>8 DEF Menu

\* The script.
LEMMA ScriptE ==
  ASSUME QInv, AllEarned, NEW a \in Actors, RunScript(a)
  PROVE  AllEarned'
  <1>1. req[a] \in Memory /\ Course(a)
    BY Own DEF QInv
  <1>2. CASE ScriptList(a)
    <2> DEFINE m(i, t) == [Blank EXCEPT !.op = "regenerate", !.info = i, !.todo = t]
    <2>1. PICK i, t : Move(a, "next", m(i, t))
      BY <1>2 DEF ScriptList, Goto
    <2>2. m(i, t).got = {}
      BY DEF Blank
    <2> HIDE DEF m
    <2>3. QED
      BY <2>1, <2>2, EarnsNothing, EarnedStep DEF QInv
  <1>3. CASE ScriptNext(a)
    <2> DEFINE m(b) == [req[a] EXCEPT !.bill = b, !.items = req[a].todo[b], !.todo[b] = None,
                                      !.did = {}]
    <2>1. PICK b \in Bills : Move(a, "render", m(b))
      BY <1>3 DEF ScriptNext, Goto
    <2>2. m(b).op = "regenerate"
      BY <1>1, <1>3 DEF ScriptNext, Course, Memory
    <2> HIDE DEF m
    <2>3. QED
      BY <2>1, <2>2, EarnsNothing, EarnedStep DEF QInv
  <1>4. CASE ScriptEnd(a)
    BY <1>4, EndE DEF ScriptEnd, Goto
  <1>5. QED
    BY <1>2, <1>3, <1>4 DEF RunScript

\* Every step leaves each actor with what it has to have committed.
LEMMA EarnedNext ==
  ASSUME QInv, AllEarned, [Next]_vars
  PROVE  AllEarned'
  <1>1. ASSUME NEW a \in Actors, Service(a) PROVE AllEarned'
    BY <1>1, RenderE, FilesE, StorePdfPathE, WriteBillE, AddReceiptRowE, safe_logE, EndE
       DEF Service, RetrieveFails, Goto
  <1>2. ASSUME NEW a \in Actors, bill_generate(a) \/ Resumed(a) \/ Fail(a) PROVE AllEarned'
    BY <1>2, GenerateE, SkipFileE, reorder_receiptsE, EndE DEF Resumed, Refused, Fail, Goto
  <1>3. ASSUME NEW a \in Actors, Menu(a) \/ RunScript(a) PROVE AllEarned'
    BY <1>3, GenerateE, MenuE, ScriptE
  <1>4. CASE EditBilling \/ DeleteBilling \/ UNCHANGED vars
    BY <1>4 DEF EditBilling, DeleteBilling, vars, AllEarned, Earned, Earns
  <1>5. QED
    BY <1>1, <1>2, <1>3, <1>4, HandlerE DEF Next

LEMMA AlwaysEarned == Spec => []AllEarned
  <1>1. Init => AllEarned
    <2>1. Blank.got = {}
      BY DEF Blank
    <2>2. QED
      BY <2>1, EarnsNothing DEF Init, AllEarned, Earned
  <1>2. QED
    BY <1>1, Inductive, EarnedNext, PTL DEF Spec

\* What AuditTellsTheTruth asks of one entry.
EntryIsTrue(e) ==
    /\ Claims(e) \subseteq req[e.by].did
    /\ e.event = "BILL_DELETE" => bill[e.entity].state = "deleted"
    /\ e.event = "RECEIPT_DELETE" => receipt[e.entity] = None
    /\ quiet[e.by] => TellsTheRow(e)

\* The calls an entry stands for, written out.
LEMMA ClaimsAre ==
  ASSUME NEW e
  PROVE  /\ e.event = "BILL_CREATE" =>
              Claims(e) = {<<"bill_create", e.entity>>, <<"update_pdf_path", e.entity>>}
         /\ e.event = "BILL_UPDATE" =>
              Claims(e) = {<<"bill_update", e.entity>>, <<"update_pdf_path", e.entity>>}
         /\ e.event = "RECEIPT_REORDER" =>
              Claims(e) = {<<"update_sort_orders", e.entity>>, <<"update_pdf_path", e.entity>>}
         /\ e.event = "BILL_REGENERATE_PDF" => Claims(e) = {<<"update_pdf_path", e.entity>>}
         /\ e.event = "BILL_STATUS_CHANGE" => Claims(e) = {<<"update_status", e.entity>>}
         /\ e.event = "BILL_DELETE" => Claims(e) = {<<"bill_delete", e.entity>>}
         /\ e.event = "RECEIPT_UPLOAD" => Claims(e) = {<<"receipt_create", e.entity>>}
         /\ e.event = "RECEIPT_DELETE" => Claims(e) = {<<"receipt_delete", e.entity>>}
  <1>1. ASSUME NEW x, NEW y, NEW z
        PROVE  {x, y} \X {z} = {<<x, z>>, <<y, z>>} /\ {x} \X {z} = {<<x, z>>}
    OBVIOUS
  <1>2. QED
    BY <1>1 DEF Claims

\* The entries an actor is about to write are true.
LEMMA EntriesAreTrue ==
  ASSUME QInv, AllEarned, NEW a \in Actors, pc[a] = "log", NEW e \in Entries(a)
  PROVE  EntryIsTrue(e)
  <1> DEFINE m == req[a]
             silent == [items |-> None, status |-> None]
             whole == serialize_bill(m)
  <1>1. /\ m.bill \in Bills /\ m.bill # None /\ Earned(a) /\ Done(a) /\ m.op \in Ops
        /\ a \notin Script /\ Quiet(a)
    BY Own, BillsAssumption DEF QInv, AllEarned, Ready, Working, Course
  <1>2. /\ e.by = a
        /\ \/ e.entity = m.bill /\ e.told.items \in {None, m.items} /\ e.told.status \in {None, m.status}
           \/ e.told = silent
    <2>1. e.by = a
      BY <1>1 DEF Entries, Ops, serialize_bill
    <2>2. \/ e.entity = m.bill /\ e.told \in {silent, whole, [whole EXCEPT !.items = None]}
          \/ e.told = silent
      BY <1>1 DEF Entries, Ops, serialize_bill
    <2>3. QED
      BY <2>1, <2>2 DEF serialize_bill
  <1>3. quiet[a] => TellsTheRow(e)
    <2> SUFFICES ASSUME quiet[a] PROVE TellsTheRow(e)
      OBVIOUS
    <2>1. m.items = bill[m.bill].items /\ m.status = bill[m.bill].status
      BY <1>1 DEF Quiet, ItemsAreCurrent, ItemsUsed
    <2>2. QED
      BY <1>2, <2>1 DEF TellsTheRow
  <1>4. /\ Claims(e) \subseteq m.did
        /\ e.event = "BILL_DELETE" => bill[e.entity].state = "deleted"
        /\ e.event = "RECEIPT_DELETE" => receipt[e.entity] = None
    <2> HIDE DEF m
    <2>1. CASE m.op = "generate"
      <3>1. \/ e.event = "BILL_CREATE" /\ e.entity = m.bill
            \/ e.event = "RECEIPT_UPLOAD" /\ e.entity \in m.got
        BY <2>1 DEF Entries, m
      <3>2. QED
        BY ClaimsAre, <1>1, <2>1, <3>1 DEF Earned, Earns, m
    <2>2. CASE m.op \in {"upload", "receipt_delete"}
      <3>1. e.event = (IF m.op = "upload" THEN "RECEIPT_UPLOAD" ELSE "RECEIPT_DELETE") /\ e.entity \in m.got
        BY <2>2 DEF Entries, m
      <3>2. QED
        BY ClaimsAre, <1>1, <2>2, <3>1 DEF Earned, Earns, Done, m
    <2>3. CASE m.op \in {"edit", "regenerate", "reorder"}
      <3>1. /\ e.event = CASE m.op = "edit" -> "BILL_UPDATE" [] m.op = "regenerate" -> "BILL_REGENERATE_PDF"
                           [] m.op = "reorder" -> "RECEIPT_REORDER"
            /\ e.entity = m.bill
        BY <2>3 DEF Entries, m
      <3>2. QED
        BY ClaimsAre, <1>1, <2>3, <3>1 DEF Earned, Earns, m
    <2>4. CASE m.op \in {"status", "delete"}
      <3>1. /\ e.event = (IF m.op = "status" THEN "BILL_STATUS_CHANGE" ELSE "BILL_DELETE")
            /\ e.entity = m.bill
        BY <2>4 DEF Entries, m
      <3>2. QED
        BY ClaimsAre, <1>1, <2>4, <3>1 DEF Earned, Earns, Done, m
    <2>5. QED
      BY <1>1, <2>1, <2>2, <2>3, <2>4 DEF Ops
  <1>5. QED
    BY <1>2, <1>3, <1>4 DEF EntryIsTrue

\* Only safe_log writes entries.
LEMMA AuditStep ==
  ASSUME QInv, AllEarned, Next
  PROVE  \A e \in audit' : EntryIsTrue(e)
  <1>1. ASSUME NEW a \in Actors, safe_log(a) PROVE \A e \in audit' : EntryIsTrue(e)
    <2>1. pc[a] = "log" /\ audit' \subseteq Entries(a)
      BY <1>1 DEF safe_log
    <2>2. QED
      BY <2>1, EntriesAreTrue
  <1>2. \A a \in Actors : Service(a) => audit' = {} \/ safe_log(a)
    BY DEF Service, Render, RetrieveFails, SavePdf, StorePdfPath, update_bill, change_status,
           delete_bill, AddReceiptFile, AddReceiptRow, Goto
  <1>3. \A a \in Actors : bill_generate(a) \/ Resumed(a) \/ Fail(a) => audit' = {}
    BY DEF bill_generate, Resumed, bill_generate_resumes, generate_bill, SkipFile,
           reorder_receipts, Refused, Fail, Goto
  <1>4. \A a \in Actors : Menu(a) \/ RunScript(a) => audit' = {}
    BY DEF Menu, list_billings_menu, generate_bill_menu, list_bills_menu, edit_bill_menu,
           alterar_status, regenerar_pdf, excluir_fatura, edit_billing_menu, excluir_cobranca,
           voltar, sair, generate_bill, MenuChoice, RunScript, ScriptList, ScriptNext, ScriptEnd,
           Goto
  <1>5. \A a \in Actors, b \in Bills : Handler(a, b) => audit' = {}
    BY DEF Handler, bill_edit, bill_change_status, bill_delete_post, bill_regenerate_pdf,
           BeginNow, receipt_upload, receipt_delete, receipt_reorder, Goto
  <1>6. EditBilling \/ DeleteBilling => audit' = {}
    BY DEF EditBilling, DeleteBilling
  <1>7. QED
    BY <1>1, <1>2, <1>3, <1>4, <1>5, <1>6 DEF Next

\* However the operations interleave and whatever fails, an entry of the audit
\* log is written only by an actor that has made every call the entry stands
\* for, a deletion logged is in the tables, and what an undisturbed actor's
\* entry says of the bill is what the row says.
THEOREM AuditIsTrue == Spec => AuditTellsTheTruth
  <1>1. QInv /\ AllEarned /\ [Next]_vars => [\A e \in audit' : EntryIsTrue(e)]_vars
    BY AuditStep
  <1>2. QED
    BY <1>1, Inductive, AlwaysEarned, PTL DEF Spec, AuditTellsTheTruth, EntryIsTrue

-----------------------------------------------------------------------------
(* The receipts table implements the lists of ReceiptList.                  *)

\* The rows of bill b in the table t, and the list they make.
Rows(t, b) == {r \in Receipts : t[r] # None /\ t[r].bill = b}

Ahead(t, q, r) == \/ t[q].sort < t[r].sort
                  \/ t[q].sort = t[r].sort /\ q < r

Pairs(t, b) == {p \in Rows(t, b) \X Rows(t, b) : p[1] = p[2] \/ Ahead(t, p[1], p[2])}

\* The refinement mapping reads the table of receipts only.
LEMMA ListIsPairs ==
  /\ \A b : ListOf(b) = Pairs(receipt, b)
  /\ \A b : ListOf(b)' = Pairs(receipt', b)
  BY DEF ListOf, RowsOf, View, Precedes, Pairs, Rows, Ahead

\* Whatever the sort_orders are, the rows of a bill make one strict list.
LEMMA PairsAreList ==
  ASSUME NEW t \in [Receipts -> ReceiptRow \cup {None}], NEW b
  PROVE  Lists!Listed(Pairs(t, b)) = Rows(t, b) /\ Lists!IsList(Pairs(t, b))
  <1> DEFINE S == Rows(t, b)
             R == Pairs(t, b)
  <1>1. \A r \in S : r \in Nat /\ t[r].sort \in Nat
    BY BillsAssumption DEF Rows, ReceiptRow
  <1>2. \A q, r : <<q, r>> \in R <=> q \in S /\ r \in S /\ (q = r \/ Ahead(t, q, r))
    BY DEF Pairs
  <1>3. R \subseteq S \X S
    BY DEF Pairs
  <1>4. S \subseteq Receipts
    BY DEF Rows
  <1> HIDE DEF S, R
  <1>5. Lists!Listed(R) = S
    BY <1>2, <1>4 DEF Lists!Listed
  <1>6. \A q, r \in S : <<q, r>> \in R \/ <<r, q>> \in R
    <2>1. \A q, r \in S : q = r \/ Ahead(t, q, r) \/ Ahead(t, r, q)
      BY <1>1 DEF Ahead
    <2>2. QED
      BY <1>2, <2>1
  <1>7. \A q, r \in S : <<q, r>> \in R /\ <<r, q>> \in R => q = r
    BY <1>1, <1>2 DEF Ahead
  <1>8. \A q, r, s \in S : <<q, r>> \in R /\ <<r, s>> \in R => <<q, s>> \in R
    BY <1>1, <1>2 DEF Ahead
  <1>9. QED
    BY <1>3, <1>5, <1>6, <1>7, <1>8 DEF Lists!IsList, S, R

\* Rows that stay as they are keep their order.
LEMMA FewerRows ==
  ASSUME NEW t, NEW u, NEW b, Rows(u, b) \subseteq Rows(t, b),
         \A r \in Rows(u, b) : u[r] = t[r]
  PROVE  Pairs(u, b) = Lists!Among(Pairs(t, b), Rows(u, b))
  <1>1. \A q, r : <<q, r>> \in Pairs(t, b) <=>
                     q \in Rows(t, b) /\ r \in Rows(t, b) /\ (q = r \/ Ahead(t, q, r))
    BY DEF Pairs
  <1>2. \A q, r : <<q, r>> \in Pairs(u, b) <=>
                     q \in Rows(u, b) /\ r \in Rows(u, b) /\ (q = r \/ Ahead(u, q, r))
    BY DEF Pairs
  <1>3. \A q, r \in Rows(u, b) : Ahead(u, q, r) <=> Ahead(t, q, r)
    BY DEF Ahead
  <1>4. Pairs(u, b) \subseteq Rows(u, b) \X Rows(u, b)
    BY DEF Pairs
  <1>5. \A q, r : <<q, r>> \in Pairs(u, b) <=>
                     <<q, r>> \in Pairs(t, b) /\ q \in Rows(u, b) /\ r \in Rows(u, b)
    BY <1>1, <1>2, <1>3
  <1>6. QED
    BY <1>4, <1>5 DEF Lists!Among

\* The rows of a bill are as they were, and so is its list.
LEMMA SameRowsSamePairs ==
  ASSUME NEW t, NEW u, NEW b, SameRows(t, u, b)
  PROVE  Pairs(u, b) = Pairs(t, b)
  <1>1. Rows(u, b) = Rows(t, b) /\ \A r \in Rows(u, b) : u[r] = t[r]
    BY DEF SameRows, Rows
  <1>2. Pairs(t, b) \subseteq Rows(t, b) \X Rows(t, b)
    BY DEF Pairs
  <1>3. QED
    BY <1>1, <1>2, FewerRows DEF Lists!Among

\* A step that changes the rows of bill b only, in one of the three ways, is a
\* step of the lists.
LEMMA ListStep ==
  ASSUME TypeOK, TypeOK', NEW b \in Bills,
         \A c \in Bills \ {b} : SameRows(receipt, receipt', c),
         \/ Rows(receipt', b) = Rows(receipt, b)
         \/ \E r \in Receipts \ Rows(receipt, b) :
               /\ Rows(receipt', b) = Rows(receipt, b) \cup {r}
               /\ \A q \in Rows(receipt, b) : receipt'[q] = receipt[q]
         \/ \E r \in Rows(receipt, b) :
               /\ Rows(receipt', b) = Rows(receipt, b) \ {r}
               /\ \A q \in Rows(receipt', b) : receipt'[q] = receipt[q]
  PROVE  Lists!Next
  <1> DEFINE old == Pairs(receipt, b)
             new == Pairs(receipt', b)
  <1>1. /\ Lists!Listed(old) = Rows(receipt, b)
        /\ Lists!Listed(new) = Rows(receipt', b) /\ Lists!IsList(new)
    BY PairsAreList DEF TypeOK
  <1>2. \A c \in Bills \ {b} : Pairs(receipt', c) = Pairs(receipt, c)
    BY SameRowsSamePairs
  <1>3. \/ Lists!Reordered(old, new)
        \/ \E r \in Receipts : Lists!Inserted(old, new, r) \/ Lists!Removed(old, new, r)
    <2>1. CASE Rows(receipt', b) = Rows(receipt, b)
      BY <1>1, <2>1 DEF Lists!Reordered
    <2>2. ASSUME NEW r \in Receipts \ Rows(receipt, b),
                 Rows(receipt', b) = Rows(receipt, b) \cup {r},
                 \A q \in Rows(receipt, b) : receipt'[q] = receipt[q]
          PROVE  Lists!Inserted(old, new, r)
      <3>1. old = Lists!Among(new, Rows(receipt, b))
        BY <2>2, FewerRows
      <3>2. QED
        BY <1>1, <2>2, <3>1 DEF Lists!Inserted
    <2>3. ASSUME NEW r \in Rows(receipt, b),
                 Rows(receipt', b) = Rows(receipt, b) \ {r},
                 \A q \in Rows(receipt', b) : receipt'[q] = receipt[q]
          PROVE  r \in Receipts /\ Lists!Removed(old, new, r)
      <3>1. new = Lists!Among(old, Rows(receipt', b))
        BY <2>3, FewerRows
      <3>2. QED
        BY <1>1, <2>3, <3>1 DEF Lists!Removed, Rows
    <2>4. QED
      BY <2>1, <2>2, <2>3
  <1> DEFINE L == [c \in Bills |-> ListOf(c)]
  <1>4. /\ \A c \in Bills : L[c] = Pairs(receipt, c) /\ L'[c] = Pairs(receipt', c)
        /\ DOMAIN L' = Bills
    BY ListIsPairs
  <1> HIDE DEF L, old, new
  <1>5. L[b] = old /\ L'[b] = new /\ \A c \in Bills \ {b} : L'[c] = L[c]
    BY <1>2, <1>4 DEF old, new
  <1>6. Lists!Change(b, L[b], L'[b])
    BY <1>1, <1>3, <1>5 DEF Lists!Change, L
  <1>7. QED
    BY <1>4, <1>6 DEF Lists!Next, L

\* A step of the programs is a step of the lists, or leaves the receipts alone.
LEMMA AddReceiptRowL ==
  ASSUME IInv, IInv', AllSound, NEW a \in Actors, AddReceiptRow(a)
  PROVE  Lists!Next
  <1> DEFINE b == req[a].bill
             r == req[a].rid
  <1>1. b \in Bills /\ r \in Receipts /\ receipt[r] = None
    <2>1. pc[a] = "insert" /\ Ready(a) /\ Fresh(a) /\ file \subseteq Receipts
      BY DEF AddReceiptRow, AllSound, Sound, IInv, AllReady, TypeOK
    <2>2. QED
      BY <2>1 DEF Ready, Working, Fresh
  <1>2. receipt' = [receipt EXCEPT ![r] = [bill |-> b, sort |-> req[a].sort]]
    BY DEF AddReceiptRow, receipt_create
  <1>3. req[a].sort \in Nat
    BY MemoryType DEF IInv, Memory
  <1> HIDE DEF b, r
  <1>4. /\ \A q \in Receipts \ {r} : receipt'[q] = receipt[q]
        /\ receipt'[r] # None /\ receipt'[r].bill = b
    <2>1. [bill |-> b, sort |-> req[a].sort] \in ReceiptRow
      BY <1>1, <1>3 DEF ReceiptRow
    <2>2. QED
      BY <1>1, <1>2, <2>1, NoneAssumption DEF IInv, TypeOK
  <1>5. /\ r \in Receipts \ Rows(receipt, b)
        /\ Rows(receipt', b) = Rows(receipt, b) \cup {r}
        /\ \A q \in Rows(receipt, b) : receipt'[q] = receipt[q]
        /\ \A c \in Bills \ {b} : SameRows(receipt, receipt', c)
    BY <1>1, <1>4 DEF Rows, SameRows
  <1>6. QED
    BY <1>1, <1>5, ListStep DEF IInv

LEMMA receipt_deleteL ==
  ASSUME IInv, IInv', NEW a \in Actors, NEW d \in Bills, receipt_delete(a, d)
  PROVE  Lists!Next
  <1>1. PICK r \in Receipts : receipt[r] # None /\ receipt' = [receipt EXCEPT ![r] = None]
    BY DEF receipt_delete, receipt_delete_row
  <1> DEFINE b == receipt[r].bill
  <1>2. b \in Bills /\ receipt'[r] = None /\ \A q \in Receipts \ {r} : receipt'[q] = receipt[q]
    BY <1>1 DEF IInv, TypeOK, ReceiptRow
  <1>3. /\ r \in Rows(receipt, b)
        /\ Rows(receipt', b) = Rows(receipt, b) \ {r}
        /\ \A q \in Rows(receipt', b) : receipt'[q] = receipt[q]
        /\ \A c \in Bills \ {b} : SameRows(receipt, receipt', c)
    BY <1>1, <1>2 DEF Rows, SameRows
  <1> HIDE DEF b
  <1>4. QED
    BY <1>2, <1>3, ListStep DEF IInv

LEMMA reorder_receiptsL ==
  ASSUME IInv, IInv', AllSound, NEW a \in Actors, reorder_receipts(a)
  PROVE  Lists!Next
  <1> DEFINE b == req[a].bill
  <1>1. PICK n \in 0..Cardinality(Receipts) : \E order \in [1..n -> Receipts] :
          OrderAccepted(a, order) /\ update_sort_orders(order)
    BY DEF reorder_receipts
  <1>2. PICK order \in [1..n -> Receipts] : OrderAccepted(a, order) /\ update_sort_orders(order)
    BY <1>1
  <1>3. n \in Nat /\ Len(order) = n
    BY FS_CardinalityType, BillsAssumption
  <1>4. b \in Bills /\ a \notin Cli /\ Known(a)
    <2>1. pc[a] = "await" /\ req[a].op = "reorder"
      BY DEF reorder_receipts
    <2>2. QED
      BY <2>1, BillsAssumption DEF IInv, AllReady, Ready, AllSound, Sound, Course
  <1>5. \A r \in Receipts :
           /\ receipt'[r] = None <=> receipt[r] = None
           /\ receipt[r] # None => receipt'[r].bill = receipt[r].bill
           /\ (\A i \in 1..n : order[i] # r) => receipt'[r] = receipt[r]
    BY <1>2, <1>3, ReorderedRows DEF IInv
  <1>6. \A i \in 1..n : receipt[order[i]] # None => receipt[order[i]].bill = b
    BY <1>2, <1>3, <1>4 DEF OrderAccepted, Known, RowsOf, Read, View
  <1>7. /\ Rows(receipt', b) = Rows(receipt, b)
        /\ \A c \in Bills \ {b} : SameRows(receipt, receipt', c)
    BY <1>5, <1>6 DEF Rows, SameRows
  <1> HIDE DEF b
  <1>8. QED
    BY <1>4, <1>7, ListStep DEF IInv

LEMMA ListsNext == QInv /\ QInv' /\ [Next]_vars => [Lists!Next]_([b \in Bills |-> ListOf(b)])
  <1> SUFFICES ASSUME QInv, QInv', [Next]_vars
               PROVE  Lists!Next \/ UNCHANGED [b \in Bills |-> ListOf(b)]
    OBVIOUS
  <1>1. IInv /\ IInv' /\ AllSound
    BY DEF QInv
  <1>2. CASE UNCHANGED receipt
    BY <1>2, ListIsPairs
  <1>3. ASSUME NEW a \in Actors, Service(a) PROVE UNCHANGED receipt \/ AddReceiptRow(a)
    BY <1>3 DEF Service, Render, RetrieveFails, SavePdf, StorePdfPath, update_bill, change_status,
       delete_bill, AddReceiptFile, safe_log, tables
  <1>4. ASSUME NEW a \in Actors, bill_generate(a) \/ Resumed(a) \/ Fail(a)
        PROVE  UNCHANGED receipt \/ reorder_receipts(a)
    BY <1>4 DEF bill_generate, Resumed, bill_generate_resumes, SkipFile, Refused, Fail, tables
  <1>5. ASSUME NEW a \in Actors, Menu(a) \/ RunScript(a) PROVE UNCHANGED receipt
    BY <1>5 DEF Menu, list_billings_menu, generate_bill_menu, list_bills_menu, edit_bill_menu,
       alterar_status, regenerar_pdf, excluir_fatura, edit_billing_menu, excluir_cobranca,
       voltar, sair, MenuChoice, RunScript, ScriptList, ScriptNext, ScriptEnd, tables
  <1>6. ASSUME NEW a \in Actors, NEW b \in Bills, Handler(a, b)
        PROVE  UNCHANGED receipt \/ receipt_delete(a, b)
    BY <1>6 DEF Handler, bill_edit, bill_change_status, bill_delete_post, bill_regenerate_pdf,
       BeginNow, receipt_upload, receipt_reorder, tables
  <1>7. CASE EditBilling \/ DeleteBilling \/ UNCHANGED vars
    BY <1>7, <1>2 DEF EditBilling, DeleteBilling, vars
  <1>8. QED
    BY <1>1, <1>2, <1>3, <1>4, <1>5, <1>6, <1>7, AddReceiptRowL, receipt_deleteL, reorder_receiptsL
       DEF Next

\* The three programs implement ReceiptList, for any sets of actors, bills and
\* receipts: from whatever snapshot a sort_order was computed, every bill has
\* one strict list of receipts, and one step changes one list by an insertion,
\* a removal or a reordering of it.
THEOREM ListsKept == Spec => ListsAreKept
  <1>1. Init => Lists!Init
    <2>1. Init => \A b \in Bills : ListOf(b) = {}
      BY DEF Init, ListOf, RowsOf, View
    <2>2. QED
      BY <2>1 DEF Lists!Init
  <1>2. QED
    BY <1>1, Inductive, ListsNext, PTL DEF Spec, ListsAreKept, Lists!Spec
=============================================================================
