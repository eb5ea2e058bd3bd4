---------------------------- MODULE Bills_proofs ----------------------------
(***************************************************************************)
(* TypeOK and NothingDangles of Bills, for any sets of requests, CLI       *)
(* sessions, scripts, bills and receipts.  NothingDangles is not inductive *)
(* alone: a row may point at an object only because the step that will     *)
(* write the row is reached after the object was stored.  Ready says that, *)
(* and what else an actor holds at each of its steps.                      *)
(***************************************************************************)
EXTENDS Bills, FiniteSetTheorems, TLAPS

Working == {"update", "status", "delete", "reread", "render", "save", "point",
            "log", "insert", "menu"}

\* What each actor holds at the step it is about to take.
Ready(a) ==
    /\ pc[a] \in Working \/ (pc[a] = "await" /\ req[a].op = "reorder") => req[a].bill \in Bills
    /\ pc[a] = "reread" => snap[a] = None
    /\ pc[a] = "save"   => req[a].doc # None
    /\ pc[a] = "point"  => pdf[req[a].bill] # None
    /\ pc[a] = "insert" => req[a].rid \in file
    /\ a \notin Web    => pc[a] # "await" /\ req[a].left = 0

AllReady == \A a \in Actors : Ready(a)

IInv == TypeOK /\ NothingDangles /\ AllReady

-----------------------------------------------------------------------------
\* An idle actor's memory is well typed.
LEMMA BlankType == Blank \in Memory
  BY BillsAssumption DEF Blank, Memory

\* The invariant holds at the start.
LEMMA InitInv == Init => IInv
  <1> SUFFICES ASSUME Init PROVE IInv
    OBVIOUS
  <1>1. TypeOK
    <2>1. bill \in [Bills -> BillRow] /\ billing \in BillingRow
      BY BillsAssumption DEF Init, BillRow, BillingRow
    <2>2. req \in [Actors -> Memory]
      BY BlankType DEF Init
    <2>3. QED
      BY <2>1, <2>2 DEF Init, TypeOK, PCs
  <1>2. NothingDangles /\ AllReady
    BY DEF Init, NothingDangles, AllReady, Ready, Working, Blank
  <1>3. QED
    BY <1>1, <1>2 DEF IInv

\* Advancing one actor keeps the types of pc and req.
LEMMA MoveType ==
  ASSUME TypeOK, NEW a \in Actors, NEW to \in PCs, NEW r \in Memory, Move(a, to, r)
  PROVE  pc' \in [Actors -> PCs] /\ req' \in [Actors -> Memory]
  BY DEF TypeOK, Move

\* A SELECT answers with well-typed rows, from the snapshot or from the tables.
LEMMA ReadType ==
  ASSUME TypeOK, NEW a \in Actors
  PROVE  /\ a \in Cli \/ snap[a] = None =>
               /\ Read(a).bill \in [Bills -> BillRow]
               /\ Read(a).billing \in BillingRow
         /\ a \notin Cli \/ snap[a] = None =>
               Read(a).receipt \in [Receipts -> ReceiptRow \cup {None}]
  BY DEF TypeOK, Read, View, Snapshot

\* COMMIT and SELECT keep snapshots well typed.
LEMMA SnapType ==
  ASSUME TypeOK, NEW a \in Actors, Commit(a) \/ Select(a)
  PROVE  DOMAIN snap' = Actors /\ \A x \in Actors : snap'[x] \in Snapshot(x) \cup {None}
  <1>1. Kept(a, Read(a)) \in Snapshot(a)
    BY DEF TypeOK, Kept, Read, View, Snapshot
  <1>2. QED
    BY <1>1 DEF TypeOK, Commit, Select

\* Taking and giving up the loop keeps its type.
LEMMA LoopType ==
  ASSUME TypeOK, NEW a \in Actors, Take(a) \/ Yield(a)
  PROVE  loop' \in Web \cup {None}
  BY DEF TypeOK, Take, Yield

\* The history stays Boolean.
LEMMA DisturbType ==
  ASSUME TypeOK, NEW a \in Actors, NEW b, Disturb(a, b)
  PROVE  quiet' \in [Actors -> BOOLEAN]
  BY DEF TypeOK, Disturb


-----------------------------------------------------------------------------
\* A receipt has a natural number as its place in a list.
LEMMA InOrderType ==
  ASSUME NEW v, NEW S \in SUBSET Receipts
  PROVE  InOrder(v, S) \in [Receipts -> Nat]
  <1>1. ASSUME NEW r \in Receipts
        PROVE  Cardinality({q \in S : Precedes(v, q, r)}) \in Nat
    <2>1. IsFiniteSet({q \in S : Precedes(v, q, r)})
      BY FS_Subset, BillsAssumption
    <2>2. QED
      BY <2>1, FS_CardinalityType
  <1>2. QED
    BY <1>1 DEF InOrder

\* What is rendered is a document.
LEMMA RenderedType ==
  ASSUME TypeOK, NEW a \in Actors, NEW b, NEW items \in Items \cup {None}, NEW lost
  PROVE  Rendered(a, b, items, lost) \in Doc
  <1>1. fetch_receipt_data(a, b, lost) \in [Receipts -> Nat]
    BY InOrderType DEF fetch_receipt_data, Unmerged, RowsOf
  <1>2. QED
    BY <1>1 DEF Rendered, Doc, TypeOK, Memory

-----------------------------------------------------------------------------
(* Every step of an actor a moves a alone, keeps what the others rely on    *)
(* (stored objects stay) and leaves a ready for its next step.              *)

\* An actor's memory is a record of Memory.
LEMMA MemoryType == ASSUME TypeOK, NEW a \in Actors PROVE req[a] \in Memory
  BY DEF TypeOK

\* The calls that an operation may have committed.
LEMMA WritesAre ==
  /\ \A b \in Bills :
        /\ <<"bill_create", b>> \in Writes /\ <<"bill_update", b>> \in Writes
        /\ <<"update_status", b>> \in Writes /\ <<"bill_delete", b>> \in Writes
        /\ <<"update_pdf_path", b>> \in Writes /\ <<"update_sort_orders", b>> \in Writes
  /\ \A r \in Receipts : <<"receipt_create", r>> \in Writes /\ <<"receipt_delete", r>> \in Writes
  BY DEF Writes

\* Noting a committed call changes nothing else of what an actor holds.
LEMMA DidIs ==
  ASSUME NEW m \in Memory, NEW w, NEW x, <<w, x>> \in Writes
  PROVE  /\ Did(m, w, x) \in Memory
         /\ Did(m, w, x).did = m.did \cup {<<w, x>>}
         /\ Did(m, w, x).op = m.op /\ Did(m, w, x).bill = m.bill
         /\ Did(m, w, x).items = m.items /\ Did(m, w, x).status = m.status
         /\ Did(m, w, x).info = m.info /\ Did(m, w, x).left = m.left
         /\ Did(m, w, x).rid = m.rid /\ Did(m, w, x).sort = m.sort
         /\ Did(m, w, x).got = m.got /\ Did(m, w, x).order = m.order
         /\ Did(m, w, x).doc = m.doc /\ Did(m, w, x).todo = m.todo
  <1>1. m.did \cup {<<w, x>>} \in SUBSET Writes
    BY DEF Memory
  <1> DEFINE d == m.did \cup {<<w, x>>}
  <1>2. Did(m, w, x) = [m EXCEPT !.did = d]
    BY DEF Did, Memory
  <1> HIDE DEF d
  <1>3. QED
    BY <1>1, <1>2 DEF Memory, d

\* Tables and store have their types and lose no object.
DataOK ==
    /\ bill' \in [Bills -> BillRow] /\ billing' \in BillingRow
    /\ receipt' \in [Receipts -> ReceiptRow \cup {None}]
    /\ pdf' \in [Bills -> Doc \cup {None}] /\ file' \subseteq Receipts
    /\ \A b \in Bills : pdf[b] # None => pdf'[b] # None
    /\ file \subseteq file'
    /\ NothingDangles'

\* The transaction of a, the loop and the history variable.
TurnOK(a) ==
    /\ loop' \in Web \cup {None}
    /\ quiet' \in [Actors -> BOOLEAN]
    /\ DOMAIN snap' = Actors /\ snap'[a] \in Snapshot(a) \cup {None}
    /\ \A x \in Actors \ {a} : snap'[x] = snap[x]

\* Memory m lets a go on at step to.
Prepared(a, to, m) ==
    /\ to \in Working \/ (to = "await" /\ m.op = "reorder") => m.bill \in Bills
    /\ to = "reread" => snap'[a] = None
    /\ to = "save"   => m.doc # None
    /\ to = "point"  => pdf'[m.bill] # None
    /\ to = "insert" => m.rid \in file'
    /\ a \notin Web  => to # "await" /\ m.left = 0

\* One actor moves and the data stay right: the other actors stay ready.
LEMMA StepInv ==
  ASSUME IInv, NEW a \in Actors, NEW to \in PCs, NEW m \in Memory,
         Move(a, to, m), DataOK, TurnOK(a), Prepared(a, to, m)
  PROVE  IInv'
  <1>1. TypeOK'
    BY MoveType DEF IInv, TypeOK, DataOK, TurnOK
  <1>2. ASSUME NEW x \in Actors PROVE Ready(x)'
    <2>1. CASE x = a
      BY <2>1 DEF IInv, TypeOK, Move, Prepared, Ready, Working
    <2>2. CASE x # a
      <3>1. pc'[x] = pc[x] /\ req'[x] = req[x] /\ snap'[x] = snap[x] /\ Ready(x)
        BY <2>2 DEF IInv, TypeOK, Move, TurnOK, AllReady
      <3>2. QED
        BY <3>1 DEF DataOK, Ready, Working
    <2>3. QED
      BY <2>1, <2>2
  <1>3. QED
    BY <1>1, <1>2 DEF IInv, AllReady, DataOK

\* A step that leaves the tables and the store alone keeps the data right.
LEMMA SameData ==
  ASSUME IInv, UNCHANGED <<tables, store>>
  PROVE  DataOK
  BY DEF IInv, TypeOK, DataOK, NothingDangles, tables, store

\* Render preserves the invariant.
LEMMA RenderInv ==
  ASSUME IInv, NEW a \in Actors, Render(a)
  PROVE  IInv'
  <1> DEFINE b == req[a].bill
             items == IF pc[a] = "reread" THEN Read(a).bill[b].items ELSE req[a].items
             status == IF pc[a] = "reread" THEN Read(a).bill[b].status ELSE req[a].status
             held(i, s, o, d) == [req[a] EXCEPT !.items = i, !.status = s, !.rid = None,
                                                !.order = o, !.doc = d]
  <1>1. PICK lost : /\ Goto(a, "save", held(items, status, <<>>, Rendered(a, b, items, lost)))
                    /\ quiet' = [quiet EXCEPT ![a] = @ /\ lost = {}]
    BY DEF Render
  <1>2. b \in Bills
    BY DEF Render, IInv, AllReady, Ready, Working
  <1>3. items \in Items \cup {None} /\ status \in Statuses \cup {None}
    BY <1>2, ReadType DEF Render, IInv, AllReady, Ready, TypeOK, BillRow, Memory
  <1>4. Rendered(a, b, items, lost) \in Doc
    BY <1>3, RenderedType DEF IInv
  <1>5. req[a] \in Memory
    BY MemoryType DEF IInv
  <1> DEFINE d == Rendered(a, b, items, lost)
             m == held(items, status, <<>>, d)
  <1>6. m \in Memory /\ m.bill = b /\ m.doc # None /\ m.left = req[a].left
    <2>1. <<>> \in Seq(Receipts) /\ d \in Doc /\ d # None
      BY <1>4, NoneAssumption
    <2> HIDE DEF items, status, d
    <2>2. m \in Memory /\ m.bill = b /\ m.doc = d /\ m.left = req[a].left
      BY <1>3, <1>5, <2>1 DEF Memory
    <2>3. QED
      BY <2>1, <2>2
  <1>7. Move(a, "save", m)
    BY <1>1 DEF Goto
  <1> HIDE DEF m
  <1>8. TurnOK(a)
    BY <1>1, SnapType DEF IInv, TypeOK, Render, Select, TurnOK
  <1>9. Prepared(a, "save", m)
    BY <1>2, <1>6 DEF Prepared, IInv, AllReady, Ready
  <1>10. QED
    BY <1>6, <1>7, <1>8, <1>9, SameData, StepInv DEF Render, PCs

\* RetrieveFails preserves the invariant.
LEMMA RetrieveFailsInv ==
  ASSUME IInv, NEW a \in Actors, RetrieveFails(a)
  PROVE  IInv'
  <1>1. TurnOK(a)
    BY SnapType, LoopType DEF IInv, TypeOK, RetrieveFails, Commit, TurnOK
  <1>2. Prepared(a, "idle", Blank)
    BY DEF Prepared, Working, Blank
  <1>3. QED
    BY <1>1, <1>2, BlankType, SameData, StepInv DEF RetrieveFails, Goto, PCs

\* SavePdf preserves the invariant.
LEMMA SavePdfInv ==
  ASSUME IInv, NEW a \in Actors, SavePdf(a)
  PROVE  IInv'
  <1> DEFINE m == [req[a] EXCEPT !.doc = None]
  <1>1. m \in Memory /\ m.bill = req[a].bill /\ m.left = req[a].left
    BY MemoryType DEF IInv, Memory
  <1>2. req[a].bill \in Bills /\ req[a].doc \in Doc
    BY MemoryType DEF SavePdf, IInv, AllReady, Ready, Working, Memory
  <1>3. DataOK
    BY <1>2, NoneAssumption DEF IInv, TypeOK, SavePdf, DataOK, NothingDangles, tables
  <1>4. TurnOK(a)
    BY DisturbType DEF IInv, TypeOK, SavePdf, TurnOK
  <1>5. Prepared(a, "point", m)
    <2>1. pdf'[req[a].bill] # None
      BY <1>2, NoneAssumption DEF IInv, TypeOK, SavePdf
    <2> HIDE DEF m
    <2>2. QED
      BY <1>1, <1>2, <2>1 DEF Prepared, IInv, AllReady, Ready
  <1>6. Move(a, "point", m)
    BY DEF SavePdf, Goto
  <1> HIDE DEF m
  <1>7. QED
    BY <1>1, <1>3, <1>4, <1>5, <1>6, StepInv DEF PCs

\* StorePdfPath preserves the invariant.
LEMMA StorePdfPathInv ==
  ASSUME IInv, NEW a \in Actors, StorePdfPath(a)
  PROVE  IInv'
  <1> DEFINE m == Did(req[a], "update_pdf_path", req[a].bill)
  <1>1. PICK to \in {"next", "await", "log"} :
          /\ Move(a, to, m)
          /\ to = "await" => req[a].op = "generate" /\ req[a].left > 0
          /\ loop' = IF to = "await" THEN None ELSE loop
    BY DEF StorePdfPath, Goto
  <1>2. req[a].bill \in Bills /\ pdf[req[a].bill] # None
    BY DEF StorePdfPath, IInv, AllReady, Ready, Working
  <1>7. m \in Memory /\ m.op = req[a].op /\ m.bill = req[a].bill /\ m.left = req[a].left
    <2>1. <<"update_pdf_path", req[a].bill>> \in Writes
      BY <1>2, WritesAre
    <2>2. req[a] \in Memory
      BY MemoryType DEF IInv
    <2>3. QED
      BY <2>1, <2>2, DidIs
  <1> HIDE DEF m
  <1>3. DataOK
    BY <1>2 DEF IInv, TypeOK, StorePdfPath, update_pdf_path, BillRow, DataOK, NothingDangles, store
  <1>4. TurnOK(a)
    BY <1>1, SnapType DEF IInv, TypeOK, StorePdfPath, Commit, TurnOK
  <1>5. Prepared(a, to, m)
    BY <1>1, <1>2, <1>7 DEF Prepared, IInv, AllReady, Ready
  <1>6. QED
    BY <1>1, <1>3, <1>4, <1>5, <1>7, StepInv DEF PCs

\* update_bill preserves the invariant.
LEMMA update_billInv ==
  ASSUME IInv, NEW a \in Actors, update_bill(a)
  PROVE  IInv'
  <1>1. req[a].bill \in Bills
    BY DEF update_bill, IInv, AllReady, Ready, Working
  <1> DEFINE m == Did(req[a], "bill_update", req[a].bill)
  <1>6. m \in Memory /\ m.bill = req[a].bill /\ m.left = req[a].left
    <2>1. <<"bill_update", req[a].bill>> \in Writes
      BY <1>1, WritesAre
    <2>2. req[a] \in Memory
      BY MemoryType DEF IInv
    <2>3. QED
      BY <2>1, <2>2, DidIs
  <1>7. Move(a, "reread", m)
    BY DEF update_bill, Goto
  <1> HIDE DEF m
  <1>2. DataOK
    BY <1>1 DEF IInv, TypeOK, update_bill, bill_update, BillRow, DataOK, NothingDangles, store
  <1>3. TurnOK(a)
    BY SnapType, DisturbType DEF IInv, TypeOK, update_bill, Commit, TurnOK
  <1>4. Prepared(a, "reread", m)
    BY <1>1, <1>6 DEF Prepared, update_bill, Commit, IInv, TypeOK, AllReady, Ready
  <1>5. QED
    BY <1>2, <1>3, <1>4, <1>6, <1>7, StepInv DEF PCs

\* delete_bill preserves the invariant.
LEMMA delete_billInv ==
  ASSUME IInv, NEW a \in Actors, delete_bill(a)
  PROVE  IInv'
  <1>1. req[a].bill \in Bills
    BY DEF delete_bill, IInv, AllReady, Ready, Working
  <1> DEFINE m == Did(req[a], "bill_delete", req[a].bill)
  <1>6. m \in Memory /\ m.bill = req[a].bill /\ m.left = req[a].left
    <2>1. <<"bill_delete", req[a].bill>> \in Writes
      BY <1>1, WritesAre
    <2>2. req[a] \in Memory
      BY MemoryType DEF IInv
    <2>3. QED
      BY <2>1, <2>2, DidIs
  <1>7. Move(a, "log", m)
    BY DEF delete_bill, Goto
  <1> HIDE DEF m
  <1>2. DataOK
    BY <1>1 DEF IInv, TypeOK, delete_bill, bill_delete, BillRow, DataOK, NothingDangles, store
  <1>3. TurnOK(a)
    BY SnapType, DisturbType DEF IInv, TypeOK, delete_bill, Commit, TurnOK
  <1>4. Prepared(a, "log", m)
    BY <1>1, <1>6 DEF Prepared, delete_bill, Commit, IInv, TypeOK, AllReady, Ready
  <1>5. QED
    BY <1>2, <1>3, <1>4, <1>6, <1>7, StepInv DEF PCs

\* change_status preserves the invariant.
LEMMA change_statusInv ==
  ASSUME IInv, NEW a \in Actors, change_status(a)
  PROVE  IInv'
  <1>1. req[a].bill \in Bills
    BY DEF change_status, IInv, AllReady, Ready, Working
  <1>2. PICK s \in Statuses : /\ update_status(req[a].bill, s)
                              /\ Goto(a, "log", Did([req[a] EXCEPT !.status = s],
                                                 "update_status", req[a].bill))
    BY DEF change_status
  <1> DEFINE n == [req[a] EXCEPT !.status = s]
             m == Did(n, "update_status", req[a].bill)
  <1>3. m \in Memory /\ m.bill = req[a].bill /\ m.left = req[a].left
    <2>1. n \in Memory /\ n.bill = req[a].bill /\ n.left = req[a].left
      BY MemoryType DEF IInv, Memory
    <2> HIDE DEF n
    <2>2. <<"update_status", req[a].bill>> \in Writes
      BY <1>1, WritesAre
    <2>3. QED
      BY <2>1, <2>2, DidIs
  <1>4. Move(a, "log", m)
    BY <1>2 DEF Goto
  <1> HIDE DEF m
  <1>5. DataOK
    BY <1>1, <1>2 DEF IInv, TypeOK, change_status, update_status, BillRow, DataOK, NothingDangles, store
  <1>6. TurnOK(a)
    BY SnapType, DisturbType DEF IInv, TypeOK, change_status, Commit, TurnOK
  <1>7. Prepared(a, "log", m)
    BY <1>1, <1>3 DEF Prepared, IInv, AllReady, Ready
  <1>8. QED
    BY <1>3, <1>4, <1>5, <1>6, <1>7, StepInv DEF PCs

\* A finite non-empty set of naturals has a greatest element.
LEMMA MaxExists ==
  ASSUME NEW S \in SUBSET Nat, IsFiniteSet(S), S # {}
  PROVE  Max(S) \in S /\ \A n \in S : n <= Max(S)
  <1> DEFINE HasMax(T) == \E x \in T : \A y \in T : y <= x
             Bad == {T \in FiniteSubsetsOf(S) : T # {} /\ ~ HasMax(T)}
  <1>1. Bad = {}
    <2>1. SUFFICES ASSUME Bad # {} PROVE FALSE
      OBVIOUS
    <2>2. PICK T \in Bad : \A U \in Bad : ~ (<<U, T>> \in StrictSubsetOrdering(S))
      <3>1. IsWellFoundedOn(StrictSubsetOrdering(S), FiniteSubsetsOf(S))
        BY FS_StrictSubsetOrderingWellFounded
      <3>2. Bad \subseteq FiniteSubsetsOf(S)
        OBVIOUS
      <3> HIDE DEF Bad
      <3>3. QED
        BY <2>1, <3>1, <3>2, WFMin
    <2>3. PICK x \in T : TRUE
      OBVIOUS
    <2>4. T \ {x} \in FiniteSubsetsOf(S) /\ <<T \ {x}, T>> \in StrictSubsetOrdering(S)
      BY <2>3, FS_RemoveElement DEF FiniteSubsetsOf, StrictSubsetOrdering
    <2>5. T \ {x} = {} \/ HasMax(T \ {x})
      BY <2>2, <2>4
    <2>6. x \in Nat /\ T \subseteq Nat
      BY DEF FiniteSubsetsOf
    <2>7. HasMax(T)
      <3>1. CASE T \ {x} = {}
        BY <2>3, <2>6, <3>1
      <3>2. CASE HasMax(T \ {x})
        <4>1. PICK m \in T \ {x} : \A y \in T \ {x} : y <= m
          BY <3>2
        <4>2. CASE m <= x
          BY <2>6, <4>1, <4>2
        <4>3. CASE ~ (m <= x)
          BY <2>6, <4>1, <4>3
        <4>4. QED
          BY <4>2, <4>3
      <3>3. QED
        BY <2>5, <3>1, <3>2
    <2>8. QED
      BY <2>7
  <1>2. HasMax(S)
    BY <1>1 DEF FiniteSubsetsOf
  <1>3. QED
    BY <1>2 DEF Max

\* The next position is a natural number, the receipts being finitely many.
LEMMA NextSortType ==
  ASSUME NEW v, v.receipt \in [Receipts -> ReceiptRow \cup {None}], NEW b
  PROVE  NextSort(v, b) \in Nat
  <1> DEFINE rows == RowsOf(v, b)
             sorts == {v.receipt[r].sort : r \in rows}
             f == [r \in rows |-> v.receipt[r].sort]
  <1>1. rows \subseteq Receipts /\ \A r \in rows : v.receipt[r].sort \in Nat
    BY DEF RowsOf, ReceiptRow
  <1>2. IsFiniteSet(rows)
    BY <1>1, FS_Subset, BillsAssumption
  <1>3. IsFiniteSet(sorts)
    <2> HIDE DEF rows
    <2>1. f \in Surjection(rows, sorts)
      BY DEF Surjection
    <2>2. QED
      BY <2>1, <1>2, FS_Surjection
  <1>4. sorts \in SUBSET Nat
    BY <1>1
  <1>5. sorts = {} \/ Max(sorts) \in Nat
    <2> HIDE DEF sorts
    <2>1. QED
      BY <1>3, <1>4, MaxExists
  <1>6. NextSort(v, b) = IF sorts = {} THEN 0 ELSE Max(sorts) + 1
    BY Zenon DEF NextSort
  <1> HIDE DEF sorts
  <1>7. QED
    BY <1>5, <1>6

\* AddReceiptFile preserves the invariant.
LEMMA AddReceiptFileInv ==
  ASSUME IInv, NEW a \in Actors, AddReceiptFile(a)
  PROVE  IInv'
  <1> DEFINE b == req[a].bill
             n == NextSort(Read(a), b)
  <1>1. PICK r \in Receipts :
          /\ file' = file \cup {r}
          /\ Goto(a, "insert", [req[a] EXCEPT !.rid = r, !.left = @ - 1, !.sort = n])
    BY DEF AddReceiptFile
  <1>2. n \in Nat
    <2>1. a \notin Cli
      BY BillsAssumption DEF AddReceiptFile, IInv, AllReady, Ready
    <2>2. QED
      BY <2>1, ReadType, NextSortType DEF IInv
  <1>3. b \in Bills /\ req[a].left - 1 \in 0..MaxFiles
    BY BillsAssumption, MemoryType DEF AddReceiptFile, IInv, Memory
  <1> DEFINE m == [req[a] EXCEPT !.rid = r, !.left = @ - 1, !.sort = n]
  <1> HIDE DEF n
  <1>4. m \in Memory /\ m.bill = b /\ m.rid = r
    BY <1>2, <1>3, MemoryType DEF IInv, Memory
  <1>5. Move(a, "insert", m)
    BY <1>1 DEF Goto
  <1> HIDE DEF m
  <1>6. DataOK
    BY <1>1 DEF IInv, TypeOK, AddReceiptFile, DataOK, NothingDangles, tables
  <1>7. TurnOK(a)
    BY SnapType, LoopType DEF IInv, TypeOK, AddReceiptFile, Select, TurnOK
  <1>8. Prepared(a, "insert", m)
    BY <1>1, <1>3, <1>4 DEF AddReceiptFile, Prepared, IInv, AllReady, Ready
  <1>9. QED
    BY <1>4, <1>5, <1>6, <1>7, <1>8, StepInv DEF PCs

\* AddReceiptRow preserves the invariant.
LEMMA AddReceiptRowInv ==
  ASSUME IInv, NEW a \in Actors, AddReceiptRow(a)
  PROVE  IInv'
  <1> DEFINE r == req[a].rid
             n == [req[a] EXCEPT !.sort = 0, !.got = @ \cup {r}]
             m == Did(n, "receipt_create", r)
  <1>1. req[a].bill \in Bills /\ r \in file /\ r \in Receipts
    BY DEF AddReceiptRow, IInv, TypeOK, AllReady, Ready, Working
  <1>2. m \in Memory /\ m.bill = req[a].bill /\ m.left = req[a].left
    <2>1. n \in Memory /\ n.bill = req[a].bill /\ n.left = req[a].left
      BY <1>1, MemoryType DEF IInv, Memory
    <2> HIDE DEF n
    <2>2. <<"receipt_create", req[a].rid>> \in Writes
      BY <1>1, WritesAre
    <2>3. QED
      BY <2>1, <2>2, DidIs
  <1>3. Move(a, "render", m)
    BY DEF AddReceiptRow, Goto
  <1> HIDE DEF m
  <1>4. [bill |-> req[a].bill, sort |-> req[a].sort] \in ReceiptRow
    BY <1>1, MemoryType DEF IInv, Memory, ReceiptRow
  <1>5. DataOK
    BY <1>1, <1>4 DEF IInv, TypeOK, AddReceiptRow, receipt_create, DataOK, NothingDangles, store
  <1>6. TurnOK(a)
    BY SnapType, DisturbType DEF IInv, TypeOK, AddReceiptRow, Commit, TurnOK
  <1>7. Prepared(a, "render", m)
    BY <1>1, <1>2 DEF Prepared, IInv, AllReady, Ready
  <1>8. QED
    BY <1>2, <1>3, <1>5, <1>6, <1>7, StepInv DEF PCs

\* safe_log preserves the invariant.
LEMMA safe_logInv ==
  ASSUME IInv, NEW a \in Actors, safe_log(a)
  PROVE  IInv'
  <1> DEFINE to == AfterLog(a)[1]
             m == AfterLog(a)[2]
  <1>1. req[a] \in Memory
    BY MemoryType DEF IInv
  <1>2. /\ to \in {"await", "idle", "billing", "menu"}
        /\ m \in Memory
        /\ to = "await" => a \in Web /\ m.op = "upload"
        /\ to = "menu"  => m.bill = req[a].bill
        /\ a \notin Web => m.left = 0
    <2>1. /\ [req[a] EXCEPT !.got = {}, !.did = {}] \in Memory
          /\ [req[a] EXCEPT !.got = {}, !.did = {}].op = req[a].op
      BY <1>1 DEF Memory
    <2>2. /\ [Blank EXCEPT !.info = req[a].info] \in Memory
          /\ [Blank EXCEPT !.info = req[a].info].left = 0
      BY <1>1, BlankType DEF Memory, Blank
    <2>3. /\ [req[a] EXCEPT !.op = None, !.did = {}] \in Memory
          /\ [req[a] EXCEPT !.op = None, !.did = {}].bill = req[a].bill
          /\ [req[a] EXCEPT !.op = None, !.did = {}].left = req[a].left
      BY <1>1 DEF Memory
    <2>4. a \notin Web => req[a].left = 0
      BY DEF IInv, AllReady, Ready
    <2>5. QED
      BY <2>1, <2>2, <2>3, <2>4, BlankType DEF AfterLog
  <1>3. req[a].bill \in Bills
    BY DEF safe_log, IInv, AllReady, Ready, Working
  <1>4. Move(a, to, m)
    BY DEF safe_log
  <1>5. TurnOK(a)
    <2>1. Kept(a, View) \in Snapshot(a)
      BY DEF IInv, TypeOK, Kept, View, Snapshot
    <2>2. quiet' \in [Actors -> BOOLEAN] /\ loop' \in Web \cup {None}
      BY LoopType DEF IInv, TypeOK, safe_log
    <2> HIDE DEF to, m
    <2>3. DOMAIN snap' = Actors /\ snap'[a] \in Snapshot(a) \cup {None}
          /\ \A x \in Actors \ {a} : snap'[x] = snap[x]
      BY <2>1 DEF IInv, TypeOK, safe_log
    <2>4. QED
      BY <2>2, <2>3 DEF TurnOK
  <1> HIDE DEF to, m
  <1>6. Prepared(a, to, m)
    BY <1>2, <1>3 DEF Prepared, Working
  <1>7. QED
    BY <1>2, <1>4, <1>5, <1>6, SameData, StepInv DEF safe_log, PCs

-----------------------------------------------------------------------------
\* What a handler loads is well typed.
LEMMA LoadedType ==
  ASSUME TypeOK, NEW o \in Ops, NEW b \in Bills
  PROVE  /\ Loaded(o, b) \in Memory
         /\ Loaded(o, b).bill = b /\ Loaded(o, b).op = o
  BY BlankType DEF TypeOK, Loaded, Memory, Blank, BillRow, BillingRow

\* BeginNow preserves the invariant.
LEMMA BeginNowInv ==
  ASSUME IInv, NEW a \in Actors, NEW b \in Bills, NEW o \in Ops,
         NEW to \in {"update", "status", "delete", "render"}, BeginNow(a, o, b, to)
  PROVE  IInv'
  <1>1. TurnOK(a)
    BY SnapType, LoopType DEF IInv, TypeOK, BeginNow, Select, TurnOK
  <1>2. Prepared(a, to, Loaded(o, b))
    BY LoadedType DEF Prepared, IInv, BeginNow, Begin
  <1>3. QED
    BY <1>1, <1>2, LoadedType, SameData, StepInv DEF IInv, BeginNow, Goto, PCs

\* receipt_upload preserves the invariant.
LEMMA receipt_uploadInv ==
  ASSUME IInv, NEW a \in Actors, NEW b \in Bills, receipt_upload(a, b)
  PROVE  IInv'
  <1>1. PICK n \in 1..MaxFiles :
          Goto(a, "await", [Loaded("upload", b) EXCEPT !.left = n])
    BY DEF receipt_upload
  <1> DEFINE m == [Loaded("upload", b) EXCEPT !.left = n]
  <1>2. m \in Memory /\ m.bill = b /\ m.op = "upload"
    <2>1. /\ Loaded("upload", b) \in Memory
          /\ Loaded("upload", b).bill = b /\ Loaded("upload", b).op = "upload"
      BY LoadedType DEF IInv, Ops
    <2>2. n \in 0..MaxFiles
      BY BillsAssumption
    <2>3. QED
      BY <2>1, <2>2 DEF Memory
  <1>3. Move(a, "await", m)
    BY <1>1 DEF Goto
  <1> HIDE DEF m
  <1>4. TurnOK(a)
    BY SnapType DEF IInv, TypeOK, receipt_upload, Select, TurnOK
  <1>5. Prepared(a, "await", m)
    BY <1>2 DEF Prepared, receipt_upload, Begin, Working
  <1>6. QED
    BY <1>2, <1>3, <1>4, <1>5, SameData, StepInv DEF receipt_upload, PCs

\* receipt_delete preserves the invariant.
LEMMA receipt_deleteInv ==
  ASSUME IInv, NEW a \in Actors, NEW b \in Bills, receipt_delete(a, b)
  PROVE  IInv'
  <1>1. PICK r \in Receipts :
          /\ receipt_delete_row(r)
          /\ Goto(a, "render", Did([Loaded("receipt_delete", b) EXCEPT !.got = {r}],
                                  "receipt_delete", r))
          /\ Disturb(a, receipt[r].bill)
    BY DEF receipt_delete
  <1> DEFINE n == [Loaded("receipt_delete", b) EXCEPT !.got = {r}]
             m == Did(n, "receipt_delete", r)
  <1>2. m \in Memory /\ m.bill = b
    <2>1. Loaded("receipt_delete", b) \in Memory /\ Loaded("receipt_delete", b).bill = b
      BY LoadedType DEF IInv, Ops
    <2>2. n \in Memory /\ n.bill = b
      BY <2>1 DEF Memory
    <2> HIDE DEF n
    <2>3. <<"receipt_delete", r>> \in Writes
      BY WritesAre
    <2>4. QED
      BY <2>2, <2>3, DidIs
  <1>3. Move(a, "render", m)
    BY <1>1 DEF Goto
  <1> HIDE DEF m
  <1>4. DataOK
    BY <1>1 DEF IInv, TypeOK, receipt_delete, receipt_delete_row, DataOK, NothingDangles, store
  <1>5. TurnOK(a)
    BY <1>1, SnapType, LoopType, DisturbType DEF IInv, TypeOK, receipt_delete, Commit, TurnOK
  <1>6. Prepared(a, "render", m)
    BY <1>2 DEF Prepared, receipt_delete, Begin
  <1>7. QED
    BY <1>2, <1>3, <1>4, <1>5, <1>6, StepInv DEF PCs

\* receipt_reorder preserves the invariant.
LEMMA receipt_reorderInv ==
  ASSUME IInv, NEW a \in Actors, NEW b \in Bills, receipt_reorder(a, b)
  PROVE  IInv'
  <1>1. Loaded("reorder", b) \in Memory /\ Loaded("reorder", b).bill = b
    BY LoadedType DEF IInv, Ops
  <1>2. TurnOK(a)
    BY SnapType DEF IInv, TypeOK, receipt_reorder, Select, TurnOK
  <1>3. Prepared(a, "await", Loaded("reorder", b))
    BY <1>1 DEF Prepared, receipt_reorder, Begin
  <1>4. QED
    BY <1>1, <1>2, <1>3, SameData, StepInv DEF receipt_reorder, Goto, PCs

\* Handler preserves the invariant.
LEMMA HandlerInv ==
  ASSUME IInv, NEW a \in Actors, NEW b \in Bills, Handler(a, b)
  PROVE  IInv'
  BY BeginNowInv, receipt_uploadInv, receipt_deleteInv, receipt_reorderInv
     DEF Handler, bill_edit, bill_change_status, bill_delete_post, bill_regenerate_pdf, Ops

\* The last position of a receipt that the order names.
LastPlace(order, r) ==
    CHOOSE i \in 0..Len(order) - 1 :
        order[i + 1] = r /\ \A j \in i + 2..Len(order) : order[j] # r

LEMMA LastPlaceIs ==
  ASSUME NEW n \in Nat, NEW order \in [1..n -> Receipts], NEW k \in 1..n
  PROVE  LastPlace(order, order[k]) \in 0..n - 1 /\ order[LastPlace(order, order[k]) + 1] = order[k]
  <1> DEFINE r == order[k]
             places == {i \in 1..n : order[i] = r}
  <1>1. places # {} /\ places \in SUBSET Nat /\ Len(order) = n
    OBVIOUS
  <1>2. IsFiniteSet(places)
    <2>1. IsFiniteSet(1..n) /\ places \in SUBSET (1..n)
      BY FS_Interval
    <2> HIDE DEF places
    <2>2. QED
      BY <2>1, FS_Subset
  <1>3. PICK p \in places : \A i \in places : i <= p
    <2> HIDE DEF places
    <2>1. QED
      BY <1>1, <1>2, MaxExists
  <1>4. /\ p - 1 \in 0..Len(order) - 1 /\ order[(p - 1) + 1] = r
        /\ \A j \in (p - 1) + 2..Len(order) : order[j] # r
    BY <1>1, <1>3
  <1>5. LastPlace(order, r) \in 0..Len(order) - 1 /\ order[LastPlace(order, r) + 1] = r
    BY <1>4 DEF LastPlace
  <1>6. QED
    BY <1>1, <1>5

\* What update_sort_orders does to each row: a receipt that the order names
\* gets a position, its last one.
LEMMA ReorderedRows ==
  ASSUME TypeOK, NEW n \in Nat, NEW order \in [1..n -> Receipts], update_sort_orders(order)
  PROVE  /\ receipt' \in [Receipts -> ReceiptRow \cup {None}]
         /\ \A r \in Receipts :
               /\ receipt'[r] = None <=> receipt[r] = None
               /\ receipt[r] # None => receipt'[r].bill = receipt[r].bill
               /\ (\A i \in 1..n : order[i] # r) => receipt'[r] = receipt[r]
         /\ \A i \in 1..n : receipt[order[i]] # None =>
               /\ receipt'[order[i]].sort \in 0..n - 1
               /\ order[receipt'[order[i]].sort + 1] = order[i]
  <1>1. Len(order) = n
    OBVIOUS
  <1>2. receipt' = [r \in Receipts |->
           IF receipt[r] # None /\ \E i \in 1..n : order[i] = r
           THEN [receipt[r] EXCEPT !.sort = LastPlace(order, r)] ELSE receipt[r]]
    <2>1. receipt' = [r \in Receipts |->
             IF receipt[r] # None /\ \E i \in 1..Len(order) : order[i] = r
             THEN [receipt[r] EXCEPT !.sort = LastPlace(order, r)] ELSE receipt[r]]
      BY Zenon DEF update_sort_orders, LastPlace
    <2>2. QED
      BY <1>1, <2>1
  <1>3. ASSUME NEW i \in 1..n, receipt[order[i]] # None
        PROVE  /\ receipt'[order[i]] \in ReceiptRow
               /\ receipt'[order[i]].bill = receipt[order[i]].bill
               /\ receipt'[order[i]].sort = LastPlace(order, order[i])
    <2>1. receipt[order[i]] \in ReceiptRow /\ LastPlace(order, order[i]) \in Nat
      <3>1. LastPlace(order, order[i]) \in 0..n - 1
        BY LastPlaceIs
      <3>2. QED
        BY <1>3, <3>1 DEF TypeOK
    <2>2. receipt'[order[i]] = [receipt[order[i]] EXCEPT !.sort = LastPlace(order, order[i])]
      BY <1>2, <1>3
    <2>3. QED
      BY <2>1, <2>2 DEF ReceiptRow
  <1>4. ASSUME NEW r \in Receipts, receipt[r] = None \/ \A i \in 1..n : order[i] # r
        PROVE  receipt'[r] = receipt[r]
    BY <1>2, <1>4
  <1>5. ASSUME NEW r \in Receipts
        PROVE  /\ receipt'[r] \in ReceiptRow \cup {None}
               /\ receipt'[r] = None <=> receipt[r] = None
               /\ receipt[r] # None => receipt'[r].bill = receipt[r].bill
    <2>1. CASE receipt[r] = None \/ \A i \in 1..n : order[i] # r
      BY <1>4, <2>1 DEF TypeOK
    <2>2. CASE receipt[r] # None /\ \E i \in 1..n : order[i] = r
      BY <1>3, <2>2, NoneAssumption
    <2>3. QED
      BY <2>1, <2>2
  <1>6. \A i \in 1..n : receipt[order[i]] # None =>
           /\ receipt'[order[i]].sort \in 0..n - 1
           /\ order[receipt'[order[i]].sort + 1] = order[i]
    BY <1>3, LastPlaceIs
  <1>7. DOMAIN receipt' = Receipts /\ receipt' = [r \in DOMAIN receipt' |-> receipt'[r]]
    BY <1>2
  <1>8. QED
    BY <1>4, <1>5, <1>6, <1>7

\* reorder_receipts preserves the invariant.
LEMMA reorder_receiptsInv ==
  ASSUME IInv, NEW a \in Actors, reorder_receipts(a)
  PROVE  IInv'
  <1>1. PICK n \in 0..Cardinality(Receipts) : \E order \in [1..n -> Receipts] :
          /\ update_sort_orders(order)
          /\ Goto(a, "render", Did([req[a] EXCEPT !.order = order],
                                  "update_sort_orders", req[a].bill))
    BY DEF reorder_receipts
  <1>2. PICK order \in [1..n -> Receipts] :
          /\ update_sort_orders(order)
          /\ Goto(a, "render", Did([req[a] EXCEPT !.order = order],
                                  "update_sort_orders", req[a].bill))
    BY <1>1
  <1>3. n \in Nat /\ order \in Seq(Receipts)
    BY FS_CardinalityType, BillsAssumption
  <1> DEFINE k == [req[a] EXCEPT !.order = order]
             m == Did(k, "update_sort_orders", req[a].bill)
  <1>4. m \in Memory /\ m.bill = req[a].bill /\ m.left = req[a].left
    <2>1. k \in Memory /\ k.bill = req[a].bill /\ k.left = req[a].left
      BY <1>3, MemoryType DEF IInv, Memory
    <2>2. req[a].bill \in Bills
      BY DEF reorder_receipts, IInv, AllReady, Ready
    <2> HIDE DEF k
    <2>3. <<"update_sort_orders", req[a].bill>> \in Writes
      BY <2>2, WritesAre
    <2>4. QED
      BY <2>1, <2>3, DidIs
  <1>5. Move(a, "render", m)
    BY <1>2 DEF Goto
  <1> HIDE DEF m
  <1>6. receipt' \in [Receipts -> ReceiptRow \cup {None}]
        /\ \A r \in Receipts : receipt'[r] # None => receipt[r] # None
    BY <1>2, <1>3, ReorderedRows DEF IInv
  <1>7. DataOK
    BY <1>6 DEF IInv, TypeOK, reorder_receipts, DataOK, NothingDangles, store
  <1>8. TurnOK(a)
    BY SnapType, LoopType, DisturbType DEF IInv, TypeOK, reorder_receipts, Commit, TurnOK
  <1>9. Prepared(a, "render", m)
    BY <1>4 DEF Prepared, reorder_receipts, IInv, AllReady, Ready
  <1>10. QED
    BY <1>4, <1>5, <1>7, <1>8, <1>9, StepInv DEF PCs

\* bill_generate preserves the invariant.
LEMMA bill_generateInv ==
  ASSUME IInv, NEW a \in Actors, bill_generate(a)
  PROVE  IInv'
  <1>1. PICK n \in 0..MaxFiles :
          Goto(a, "await", [Blank EXCEPT !.op = "generate", !.info = billing.info, !.left = n])
    BY DEF bill_generate
  <1> DEFINE m == [Blank EXCEPT !.op = "generate", !.info = billing.info, !.left = n]
  <1>2. m \in Memory /\ m.op = "generate"
    BY BlankType DEF IInv, TypeOK, BillingRow, Memory, Ops
  <1>3. Move(a, "await", m)
    BY <1>1 DEF Goto
  <1> HIDE DEF m
  <1>4. TurnOK(a)
    BY SnapType DEF IInv, TypeOK, bill_generate, Select, TurnOK
  <1>5. Prepared(a, "await", m)
    BY <1>2 DEF Prepared, bill_generate, Working
  <1>6. QED
    BY <1>2, <1>3, <1>4, <1>5, SameData, StepInv DEF bill_generate, PCs

\* generate_bill preserves the invariant.
LEMMA generate_billInv ==
  ASSUME IInv, NEW a \in Actors, NEW b \in Bills, NEW c \in Items, generate_bill(a, b, c),
         UNCHANGED <<billing, receipt, store>>, loop' \in Web \cup {None},
         quiet' \in [Actors -> BOOLEAN]
  PROVE  IInv'
  <1> DEFINE n == [req[a] EXCEPT !.op = "generate", !.bill = b]
             m == Did(n, "bill_create", b)
  <1>1. m \in Memory /\ m.bill = b /\ m.left = req[a].left
    <2>1. n \in Memory /\ n.bill = b /\ n.left = req[a].left
      <3>1. req[a] \in Memory
        BY MemoryType DEF IInv
      <3>2. QED
        BY <3>1 DEF Memory, Ops
    <2> HIDE DEF n
    <2>2. <<"bill_create", b>> \in Writes
      BY WritesAre
    <2>3. QED
      BY <2>1, <2>2, DidIs
  <1>2. Move(a, "reread", m)
    BY DEF generate_bill, Goto
  <1> HIDE DEF m
  <1>3. DataOK
    BY BillsAssumption DEF IInv, TypeOK, generate_bill, bill_create, BillRow, DataOK, NothingDangles, store
  <1>4. TurnOK(a)
    BY SnapType DEF IInv, TypeOK, generate_bill, Commit, TurnOK
  <1>5. Prepared(a, "reread", m)
    BY <1>1 DEF Prepared, generate_bill, Commit, IInv, TypeOK, AllReady, Ready
  <1>6. QED
    BY <1>1, <1>2, <1>3, <1>4, <1>5, StepInv DEF PCs

\* bill_generate_resumes preserves the invariant.
LEMMA bill_generate_resumesInv ==
  ASSUME IInv, NEW a \in Actors, bill_generate_resumes(a)
  PROVE  IInv'
  BY generate_billInv, LoopType DEF bill_generate_resumes, IInv, TypeOK

\* An actor that ends its operation leaves the invariant.
LEMMA EndInv ==
  ASSUME IInv, NEW a \in Actors, Goto(a, "idle", Blank), DataOK,
         UNCHANGED loop \/ Yield(a), UNCHANGED snap \/ Commit(a),
         quiet' \in [Actors -> BOOLEAN]
  PROVE  IInv'
  <1>1. TurnOK(a)
    BY SnapType, LoopType DEF IInv, TypeOK, Commit, TurnOK
  <1>2. Prepared(a, "idle", Blank)
    BY DEF Prepared, Working, Blank
  <1>3. QED
    BY <1>1, <1>2, BlankType, StepInv DEF Goto, PCs

\* SkipFile preserves the invariant.
LEMMA SkipFileInv ==
  ASSUME IInv, NEW a \in Actors, SkipFile(a)
  PROVE  IInv'
  <1>1. req[a].bill \in Bills /\ req[a].left \in 0..MaxFiles /\ a \in Web
        /\ req[a].op # "reorder"
    BY MemoryType DEF SkipFile, IInv, Memory
  <1>2. ASSUME NEW n \in 0..MaxFiles, NEW to \in {"await", "log"},
               Goto(a, to, [req[a] EXCEPT !.left = n]), TurnOK(a)
        PROVE  IInv'
    <2> DEFINE m == [req[a] EXCEPT !.left = n]
    <2>1. m \in Memory /\ m.bill = req[a].bill /\ m.op = req[a].op
      BY MemoryType DEF IInv, Memory
    <2>2. Move(a, to, m)
      BY <1>2 DEF Goto
    <2> HIDE DEF m
    <2>3. Prepared(a, to, m)
      BY <1>1, <2>1 DEF Prepared
    <2>4. QED
      BY <1>2, <2>1, <2>2, <2>3, SameData, StepInv DEF SkipFile, PCs
  <1>3. CASE req[a].left > 1
    <2>1. TurnOK(a)
      BY <1>3 DEF IInv, TypeOK, SkipFile, TurnOK
    <2>2. req[a].left - 1 \in 0..MaxFiles
      BY <1>1, <1>3, BillsAssumption
    <2>3. Goto(a, "await", [req[a] EXCEPT !.left = req[a].left - 1])
      BY <1>3, MemoryType DEF SkipFile, IInv, Memory
    <2>4. QED
      BY <1>2, <2>1, <2>2, <2>3
  <1>4. CASE ~ (req[a].left > 1) /\ req[a].op = "generate"
    <2>1. TurnOK(a)
      BY <1>4, LoopType DEF IInv, TypeOK, SkipFile, TurnOK
    <2>2. 0 \in 0..MaxFiles
      BY BillsAssumption
    <2>3. QED
      BY <1>2, <1>4, <2>1, <2>2 DEF SkipFile
  <1>5. CASE ~ (req[a].left > 1) /\ req[a].op # "generate"
    BY <1>5, EndInv, SameData DEF SkipFile, IInv, TypeOK
  <1>6. QED
    BY <1>3, <1>4, <1>5

\* Refused preserves the invariant.
LEMMA RefusedInv ==
  ASSUME IInv, NEW a \in Actors, Refused(a)
  PROVE  IInv'
  BY EndInv, SameData DEF Refused, IInv, TypeOK

-----------------------------------------------------------------------------
\* list_billings_menu preserves the invariant.
LEMMA list_billings_menuInv ==
  ASSUME IInv, NEW a \in Actors, list_billings_menu(a)
  PROVE  IInv'
  <1> DEFINE m == [Blank EXCEPT !.info = Read(a).billing.info]
  <1>1. Read(a).billing.info \in Infos
    BY ReadType DEF list_billings_menu, IInv, BillingRow
  <1>2. m \in Memory /\ m.left = 0
    BY <1>1, BlankType DEF Memory, Blank
  <1>3. Move(a, "billing", m)
    BY DEF list_billings_menu, Goto
  <1> HIDE DEF m
  <1>4. TurnOK(a)
    BY SnapType DEF IInv, TypeOK, list_billings_menu, Select, TurnOK
  <1>5. Prepared(a, "billing", m)
    BY <1>2 DEF Prepared, Working
  <1>6. QED
    BY <1>2, <1>3, <1>4, <1>5, SameData, StepInv DEF list_billings_menu, PCs

\* generate_bill_menu preserves the invariant.
LEMMA generate_bill_menuInv ==
  ASSUME IInv, NEW a \in Actors, generate_bill_menu(a)
  PROVE  IInv'
  <1>1. quiet' \in [Actors -> BOOLEAN] /\ loop' \in Web \cup {None}
    BY DEF generate_bill_menu, IInv, TypeOK
  <1>2. QED
    BY <1>1, generate_billInv DEF generate_bill_menu

\* list_bills_menu preserves the invariant.
LEMMA list_bills_menuInv ==
  ASSUME IInv, NEW a \in Actors, list_bills_menu(a)
  PROVE  IInv'
  <1> DEFINE v == Read(a)
             held(b, i, s) == [req[a] EXCEPT !.bill = b, !.items = i, !.status = s]
  <1>1. PICK b \in Bills : /\ Goto(a, "menu", held(b, v.bill[b].items, v.bill[b].status))
                           /\ quiet' = [quiet EXCEPT ![a] =
                                 v.bill[b] = bill[b] /\ req[a].info = billing.info]
    BY DEF list_bills_menu
  <1>2. v.bill[b].items \in Items \cup {None} /\ v.bill[b].status \in Statuses
    BY ReadType DEF list_bills_menu, IInv, BillRow
  <1>3. ASSUME NEW i \in Items \cup {None}, NEW s \in Statuses
        PROVE  /\ held(b, i, s) \in Memory /\ held(b, i, s).bill = b
               /\ held(b, i, s).left = req[a].left
    BY MemoryType DEF IInv, Memory
  <1> DEFINE m == held(b, v.bill[b].items, v.bill[b].status)
  <1>4. m \in Memory /\ m.bill = b /\ m.left = req[a].left
    <2> HIDE DEF v, held
    <2>1. QED
      BY <1>2, <1>3
  <1>5. Move(a, "menu", m)
    BY <1>1 DEF Goto
  <1>6. TurnOK(a)
    BY <1>1, SnapType DEF IInv, TypeOK, list_bills_menu, Select, TurnOK
  <1> HIDE DEF m
  <1>7. Prepared(a, "menu", m)
    BY <1>4 DEF Prepared, IInv, AllReady, Ready
  <1>8. QED
    BY <1>4, <1>5, <1>6, <1>7, SameData, StepInv DEF list_bills_menu, PCs

\* MenuChoice preserves the invariant.
LEMMA MenuChoiceInv ==
  ASSUME IInv, NEW a \in Actors, NEW o \in Ops,
         NEW to \in {"update", "status", "render", "delete"}, MenuChoice(a, o, to)
  PROVE  IInv'
  <1> DEFINE m == [req[a] EXCEPT !.op = o]
  <1>1. m \in Memory /\ m.bill = req[a].bill /\ m.left = req[a].left
    BY MemoryType DEF IInv, Memory
  <1>2. Move(a, to, m)
    BY DEF MenuChoice, Goto
  <1> HIDE DEF m
  <1>3. TurnOK(a)
    BY DEF IInv, TypeOK, MenuChoice, TurnOK
  <1>4. Prepared(a, to, m)
    BY <1>1 DEF Prepared, MenuChoice, IInv, AllReady, Ready, Working
  <1>5. QED
    BY <1>1, <1>2, <1>3, <1>4, SameData, StepInv DEF MenuChoice, PCs

\* voltar preserves the invariant.
LEMMA voltarInv ==
  ASSUME IInv, NEW a \in Actors, voltar(a)
  PROVE  IInv'
  <1>1. CASE pc[a] = "menu"
    <2> DEFINE m == [Blank EXCEPT !.info = req[a].info]
    <2>1. m \in Memory /\ m.left = 0
      BY BlankType, MemoryType DEF IInv, Memory, Blank
    <2>2. Move(a, "billing", m)
      BY <1>1 DEF voltar, Goto
    <2> HIDE DEF m
    <2>3. TurnOK(a)
      BY DEF IInv, TypeOK, voltar, TurnOK
    <2>4. Prepared(a, "billing", m)
      BY <2>1 DEF Prepared, Working
    <2>5. QED
      BY <2>1, <2>2, <2>3, <2>4, SameData, StepInv DEF voltar, PCs
  <1>2. CASE pc[a] # "menu"
    BY <1>2, EndInv, SameData DEF voltar, IInv, TypeOK
  <1>3. QED
    BY <1>1, <1>2

\* Another value of the billing keeps the data right.
LEMMA NewBilling ==
  ASSUME IInv, NEW w \in BillingRow, billing' = w, UNCHANGED <<bill, receipt, store>>
  PROVE  DataOK
  BY DEF IInv, TypeOK, DataOK, NothingDangles, store

\* The snapshot the CLI takes after it has written the billing.
LEMMA FreshType ==
  ASSUME IInv, NEW a \in Actors, NEW w \in BillingRow, billing' = w,
         \/ snap' = [snap EXCEPT ![a] = Kept(a, [View EXCEPT !.billing = billing'])]
         \/ Commit(a)
  PROVE  /\ DOMAIN snap' = Actors /\ snap'[a] \in Snapshot(a) \cup {None}
         /\ \A x \in Actors \ {a} : snap'[x] = snap[x]
  <1>1. Kept(a, [View EXCEPT !.billing = w]) \in Snapshot(a)
    BY DEF IInv, TypeOK, Kept, View, Snapshot
  <1>2. QED
    BY <1>1 DEF IInv, TypeOK, Commit

\* edit_billing_menu preserves the invariant.
LEMMA edit_billing_menuInv ==
  ASSUME IInv, NEW a \in Actors, edit_billing_menu(a)
  PROVE  IInv'
  <1>1. PICK i \in Infos :
          /\ billing' = [billing EXCEPT !.info = i]
          /\ IF billing.live
             THEN /\ Goto(a, "billing", [req[a] EXCEPT !.info = i])
                  /\ snap' = [snap EXCEPT ![a] = Kept(a, [View EXCEPT !.billing = billing'])]
             ELSE Goto(a, "idle", Blank) /\ Commit(a)
          /\ quiet' = [x \in Actors |->
                x = a \/ (quiet[x] /\ (pc[x] = "idle" \/ i = billing.info))]
    BY DEF edit_billing_menu
  <1>2. [billing EXCEPT !.info = i] \in BillingRow
    BY DEF IInv, TypeOK, BillingRow
  <1>3. DataOK
    BY <1>1, <1>2, NewBilling DEF edit_billing_menu
  <1>4. TurnOK(a)
    <2>1. quiet' \in [Actors -> BOOLEAN]
      BY <1>1
    <2>2. loop' \in Web \cup {None}
      BY DEF edit_billing_menu, IInv, TypeOK
    <2>3. QED
      BY <1>1, <1>2, <2>1, <2>2, FreshType DEF TurnOK
  <1>5. CASE billing.live
    <2> DEFINE m == [req[a] EXCEPT !.info = i]
    <2>1. a \notin Web /\ req[a].left = 0
      BY BillsAssumption DEF edit_billing_menu, IInv, AllReady, Ready
    <2>2. m \in Memory /\ m.left = req[a].left
      BY MemoryType DEF IInv, Memory
    <2>3. Move(a, "billing", m)
      BY <1>1, <1>5 DEF Goto
    <2> HIDE DEF m
    <2>4. Prepared(a, "billing", m)
      BY <2>1, <2>2 DEF Prepared, Working
    <2>5. QED
      BY <1>3, <1>4, <2>2, <2>3, <2>4, StepInv DEF PCs
  <1>6. CASE ~ billing.live
    <2>1. Move(a, "idle", Blank)
      BY <1>1, <1>6 DEF Goto
    <2>2. Prepared(a, "idle", Blank)
      BY DEF Prepared, Working, Blank
    <2>3. QED
      BY <1>3, <1>4, <2>1, <2>2, BlankType, StepInv DEF PCs
  <1>7. QED
    BY <1>5, <1>6

\* excluir_cobranca preserves the invariant.
LEMMA excluir_cobrancaInv ==
  ASSUME IInv, NEW a \in Actors, excluir_cobranca(a)
  PROVE  IInv'
  <1>1. [billing EXCEPT !.live = FALSE] \in BillingRow
    BY DEF IInv, TypeOK, BillingRow
  <1>2. DataOK
    BY <1>1, NewBilling DEF excluir_cobranca
  <1>3. TurnOK(a)
    BY <1>1, FreshType DEF excluir_cobranca, IInv, TypeOK, TurnOK
  <1>4. Move(a, "idle", Blank) /\ Prepared(a, "idle", Blank)
    BY DEF excluir_cobranca, Goto, Prepared, Working, Blank
  <1>5. QED
    BY <1>2, <1>3, <1>4, BlankType, StepInv DEF PCs

\* sair preserves the invariant.
LEMMA sairInv ==
  ASSUME IInv, NEW a \in Actors, sair(a)
  PROVE  IInv'
  <1>1. TypeOK'
    BY SnapType DEF sair, IInv, TypeOK, tables, store
  <1>2. AllReady'
    BY DEF sair, IInv, TypeOK, AllReady, Ready, Working, Commit, store
  <1>3. QED
    BY <1>1, <1>2 DEF sair, IInv, NothingDangles, tables, store

\* Menu preserves the invariant.
LEMMA MenuInv ==
  ASSUME IInv, NEW a \in Actors, Menu(a)
  PROVE  IInv'
  <1>1. CASE edit_bill_menu(a) \/ alterar_status(a) \/ regenerar_pdf(a) \/ excluir_fatura(a)
    BY <1>1, MenuChoiceInv
       DEF edit_bill_menu, alterar_status, regenerar_pdf, excluir_fatura, Ops
  <1>2. QED
    BY <1>1, list_billings_menuInv, generate_bill_menuInv, list_bills_menuInv,
       edit_billing_menuInv, excluir_cobrancaInv, voltarInv, sairInv DEF Menu

-----------------------------------------------------------------------------
\* ScriptList preserves the invariant.
LEMMA ScriptListInv ==
  ASSUME IInv, NEW a \in Actors, ScriptList(a)
  PROVE  IInv'
  <1> DEFINE todo == [b \in Bills |-> IF billing.live /\ get_by_uuid(View, b)
                                      THEN bill[b].items ELSE None]
             held(t) == [Blank EXCEPT !.op = "regenerate", !.info = billing.info, !.todo = t]
  <1>1. todo \in [Bills -> Items \cup {None}]
    BY DEF IInv, TypeOK, BillRow
  <1>2. ASSUME NEW t \in [Bills -> Items \cup {None}]
        PROVE  held(t) \in Memory /\ held(t).left = 0
    BY BlankType DEF IInv, TypeOK, BillingRow, Memory, Ops, Blank
  <1>3. Move(a, "next", held(todo))
    BY DEF ScriptList, Goto
  <1> HIDE DEF todo, held
  <1>4. held(todo) \in Memory /\ held(todo).left = 0
    BY <1>1, <1>2
  <1>5. TurnOK(a)
    BY SnapType DEF IInv, TypeOK, ScriptList, Select, TurnOK
  <1>6. Prepared(a, "next", held(todo))
    BY <1>4 DEF Prepared, Working
  <1>7. QED
    BY <1>3, <1>4, <1>5, <1>6, SameData, StepInv DEF ScriptList, PCs

\* ScriptNext preserves the invariant.
LEMMA ScriptNextInv ==
  ASSUME IInv, NEW a \in Actors, ScriptNext(a)
  PROVE  IInv'
  <1>1. PICK b \in Bills :
          Goto(a, "render", [req[a] EXCEPT !.bill = b, !.items = req[a].todo[b],
                                           !.todo[b] = None, !.did = {}])
    BY DEF ScriptNext
  <1> DEFINE m == [req[a] EXCEPT !.bill = b, !.items = req[a].todo[b], !.todo[b] = None,
                             !.did = {}]
  <1>2. m \in Memory /\ m.bill = b /\ m.left = req[a].left
    <2>1. req[a] \in Memory
      BY MemoryType DEF IInv
    <2>2. QED
      BY <2>1 DEF Memory
  <1>3. Move(a, "render", m)
    BY <1>1 DEF Goto
  <1> HIDE DEF m
  <1>4. TurnOK(a)
    BY DEF IInv, TypeOK, ScriptNext, TurnOK
  <1>5. Prepared(a, "render", m)
    BY <1>2 DEF Prepared, IInv, AllReady, Ready
  <1>6. QED
    BY <1>2, <1>3, <1>4, <1>5, SameData, StepInv DEF ScriptNext, PCs

\* ScriptEnd preserves the invariant.
LEMMA ScriptEndInv ==
  ASSUME IInv, NEW a \in Actors, ScriptEnd(a)
  PROVE  IInv'
  BY EndInv, SameData DEF ScriptEnd, IInv, TypeOK

\* Fail preserves the invariant.
LEMMA FailInv ==
  ASSUME IInv, NEW a \in Actors, Fail(a)
  PROVE  IInv'
  <1>1. CASE UNCHANGED pdf /\ quiet' = [quiet EXCEPT ![a] = TRUE]
    BY <1>1, EndInv, SameData DEF Fail, IInv, TypeOK, store
  <1>2. CASE /\ pc[a] = "save"
             /\ pdf' = [pdf EXCEPT ![req[a].bill] = Torn]
             /\ quiet' = [x \in Actors |-> x = a \/ (quiet[x] /\ ~ Holds(x, req[a].bill))]
    <2>1. Torn \in Doc
      BY DEF Torn, Unmerged, Doc
    <2>2. DataOK
      BY <1>2, <2>1, NoneAssumption DEF Fail, IInv, TypeOK, DataOK, NothingDangles, tables
    <2>3. QED
      BY <1>2, <2>2, EndInv DEF Fail
  <1>3. QED
    BY <1>1, <1>2 DEF Fail

\* Billing preserves the invariant.
LEMMA BillingInv ==
  ASSUME IInv, EditBilling \/ DeleteBilling
  PROVE  IInv'
  <1>1. UNCHANGED <<bill, receipt, store, loop, pc, snap, req>>
    BY DEF EditBilling, DeleteBilling
  <1>2. TypeOK'
    <2>1. billing' \in BillingRow
      BY DEF EditBilling, DeleteBilling, BillingRow, IInv, TypeOK
    <2>2. quiet' \in [Actors -> BOOLEAN]
      BY DEF EditBilling, DeleteBilling, IInv, TypeOK
    <2>3. QED
      BY <1>1, <2>1, <2>2 DEF IInv, TypeOK, store
  <1>3. NothingDangles'
    BY <1>1 DEF IInv, NothingDangles, store
  <1>4. AllReady'
    BY <1>1 DEF IInv, AllReady, Ready, Working, store
  <1>5. QED
    BY <1>2, <1>3, <1>4 DEF IInv

\* Service preserves the invariant.
LEMMA ServiceInv ==
  ASSUME IInv, NEW a \in Actors, Service(a)
  PROVE  IInv'
  BY RenderInv, RetrieveFailsInv, SavePdfInv, StorePdfPathInv, update_billInv,
     change_statusInv, delete_billInv, AddReceiptFileInv, AddReceiptRowInv, safe_logInv
     DEF Service

\* Every step keeps the invariant.
LEMMA NextInv == IInv /\ [Next]_vars => IInv'
  <1> SUFFICES ASSUME IInv, [Next]_vars PROVE IInv'
    OBVIOUS
  <1>1. CASE UNCHANGED vars
    BY <1>1 DEF vars, IInv, TypeOK, NothingDangles, AllReady, Ready
  <1>2. CASE EditBilling \/ DeleteBilling
    BY <1>2, BillingInv
  <1>3. ASSUME NEW a \in Actors, Service(a) \/ bill_generate(a) \/ Fail(a)
        PROVE  IInv'
    BY <1>3, ServiceInv, bill_generateInv, FailInv
  <1>4. ASSUME NEW a \in Actors, Resumed(a)
        PROVE  IInv'
    BY <1>4, bill_generate_resumesInv, SkipFileInv, reorder_receiptsInv, RefusedInv DEF Resumed
  <1>5. ASSUME NEW a \in Actors, Menu(a) \/ RunScript(a)
        PROVE  IInv'
    BY <1>5, MenuInv, ScriptListInv, ScriptNextInv, ScriptEndInv DEF RunScript
  <1>6. ASSUME NEW a \in Actors, NEW b \in Bills, Handler(a, b)
        PROVE  IInv'
    BY <1>6, HandlerInv
  <1>7. QED
    BY <1>1, <1>2, <1>3, <1>4, <1>5, <1>6 DEF Next

\* In every behaviour of the three programs, with any number of requests,
\* CLI sessions, scripts, bills and receipts and a failure after any step,
\* every table, object and piece of memory has its type.
THEOREM TypeCorrect == Spec => []TypeOK
  <1>1. IInv => TypeOK
    BY DEF IInv
  <1>2. QED
    BY <1>1, InitInv, NextInv, PTL DEF Spec

\* In every such behaviour no committed row points at a missing object: the
\* order save, then commit of _generate_and_store_pdf and of add_receipt is
\* enough, whatever crashes and whoever interferes.
THEOREM NoDanglingRows == Spec => []NothingDangles
  <1>1. IInv => NothingDangles
    BY DEF IInv
  <1>2. QED
    BY <1>1, InitInv, NextInv, PTL DEF Spec
=============================================================================
