--------------------------- MODULE Migrations_proofs ---------------------------
(***************************************************************************)
(* Migrations for any chain and any number of processes: what one may rely *)
(* on while others migrate, fail, or are killed.                           *)
(***************************************************************************)
EXTENDS Migrations, TLAPS

Pcs == {"new", "dead", "run", "serve"}

AllDrops == UNION {Drops(k) : k \in Revisions}

\* Where each process is.
Places ==
    /\ version \in 0..Latest
    /\ pc \in [Procs -> Pcs]
    /\ rev \in [Procs -> 1..Latest + 1]
    /\ next \in [Procs -> Nat \ {0}]
    /\ \A p \in Procs : pc[p] = "run" => rev[p] <= Latest /\ next[p] <= Len(Chain[rev[p]]) + 1

\* No process is ahead of the version table, and one serves at its head.
Behind ==
    \A p \in Procs : /\ pc[p] = "run" => rev[p] <= version + 1
                     /\ pc[p] = "serve" => version = Latest

\* What is added and never dropped is there from then on: by every revision
\* that is done, and by every statement that a process has executed.
Kept ==
    /\ \A r \in 1..version : Adds(r) \ AllDrops \subseteq schema
    /\ \A p \in Procs : pc[p] = "run" =>
          \A i \in 1..next[p] - 1 : Chain[rev[p]][i].adds \ AllDrops \subseteq schema

\* x is added by the first statement of r only, and never dropped.
IsLock(x, r) ==
    /\ x \in Chain[r][1].adds /\ x \notin AllDrops
    /\ \A k \in Revisions : \A i \in 1..Len(Chain[k]) : x \in Chain[k][i].adds => k = r /\ i = 1

SchemaInv ==
    /\ schema \subseteq UNION {Adds(r) : r \in Revisions}
    /\ Kept

PInv == Places /\ Behind

MInv == PInv /\ SchemaInv /\ OneAtATime

-----------------------------------------------------------------------------
(* The chain.                                                               *)

LEMMA LatestType == Latest \in Nat
  BY MigrationsAssumption DEF Latest

LEMMA StatementIn ==
  ASSUME NEW r \in Revisions, NEW i \in 1..Len(Chain[r])
  PROVE  Chain[r][i].adds \subseteq Adds(r) /\ Chain[r][i].drops \subseteq AllDrops
<1>1. Chain[r][i].adds \subseteq Adds(r) /\ Chain[r][i].drops \subseteq Drops(r)
  BY DEF Adds, Drops
<1> QED BY <1>1 DEF AllDrops

LEMMA FirstStatement == \A r \in Revisions : Len(Chain[r]) \in Nat \ {0} /\ 1 \in 1..Len(Chain[r])
  BY MigrationsAssumption DEF Revisions, Latest

\* A revision of Locking has a lock.
LEMMA Locks == \A r \in Locking : \E x : IsLock(x, r)
<1> SUFFICES ASSUME NEW r \in Locking PROVE \E x : IsLock(x, r)
  OBVIOUS
<1>1. PICK x \in Chain[r][1].adds :
         \A k \in Revisions : \A i \in 1..Len(Chain[k]) : x \in Chain[k][i].adds => k = r /\ i = 1
  BY LocksAssumption
<1>2. r \in Revisions /\ Undone(r) = {}
  BY DEF Locking
<1>3. x \in Adds(r)
  BY <1>1, <1>2, FirstStatement, StatementIn
<1>4. x \notin AllDrops
  BY <1>2, <1>3 DEF Undone, AllDrops
<1> QED BY <1>1, <1>4 DEF IsLock

-----------------------------------------------------------------------------
(* Places.                                                                  *)

LEMMA InitPlaces == Init => PInv
  BY LatestType DEF Init, PInv, Places, Behind, Pcs

\* A process that goes on at the revision after the version of the table.
LEMMA GoesToPlaces ==
  ASSUME PInv, NEW p \in Procs, NEW v \in 0..Latest, v >= version, version' = v,
         GoesTo(p, v + 1)
  PROVE  PInv'
<1> USE LatestType
<1>1. /\ pc' = [pc EXCEPT ![p] = IF v + 1 > Latest THEN "serve" ELSE "run"]
      /\ rev' = [rev EXCEPT ![p] = v + 1] /\ next' = [next EXCEPT ![p] = 1]
  BY DEF GoesTo
<1>2. pc' \in [Procs -> Pcs] /\ rev' \in [Procs -> 1..Latest + 1] /\ next' \in [Procs -> Nat \ {0}]
  BY <1>1 DEF PInv, Places, Pcs
<1>3. ASSUME NEW q \in Procs, pc'[q] = "run"
      PROVE  /\ rev'[q] <= Latest /\ next'[q] <= Len(Chain[rev'[q]]) + 1
             /\ rev'[q] <= v + 1
  <2>1. CASE q = p
    <3>1. v + 1 \in Revisions /\ rev'[q] = v + 1 /\ next'[q] = 1
      BY <1>1, <1>3, <2>1 DEF PInv, Places, Revisions
    <3> QED BY <3>1, FirstStatement DEF Revisions
  <2>2. CASE q # p
    <3>1. pc[q] = "run" /\ rev'[q] = rev[q] /\ next'[q] = next[q]
      BY <1>1, <1>3, <2>2 DEF PInv, Places
    <3> QED BY <3>1 DEF PInv, Places, Behind
  <2> QED BY <2>1, <2>2
<1>4. ASSUME NEW q \in Procs, pc'[q] = "serve"
      PROVE  v = Latest
  <2>1. CASE q = p
    BY <1>1, <1>4, <2>1 DEF PInv, Places
  <2>2. CASE q # p
    BY <1>1, <1>4, <2>2 DEF PInv, Places, Behind
  <2> QED BY <2>1, <2>2
<1> QED BY <1>2, <1>3, <1>4 DEF PInv, Places, Behind

LEMMA EndsPlaces ==
  ASSUME PInv, NEW p \in Procs, Ends(p), UNCHANGED <<version, rev, next>>
  PROVE  PInv'
<1>1. pc' = [pc EXCEPT ![p] = "dead"]
  BY DEF Ends
<1>2. pc' \in [Procs -> Pcs]
  BY <1>1 DEF PInv, Places, Pcs
<1>3. \A q \in Procs : pc'[q] # "dead" => pc'[q] = pc[q]
  BY <1>1 DEF PInv, Places
<1> QED BY <1>2, <1>3 DEF PInv, Places, Behind

LEMMA ExecutePlaces ==
  ASSUME PInv, NEW p \in Procs, Execute(p)
  PROVE  /\ PInv' /\ rev[p] \in Revisions /\ next[p] \in 1..Len(Chain[rev[p]])
         /\ UNCHANGED <<version, pc, rev>> /\ next' = [next EXCEPT ![p] = next[p] + 1]
<1>1. /\ pc[p] = "run" /\ next[p] <= Len(Chain[rev[p]])
      /\ UNCHANGED <<version, pc, rev>> /\ next' = [next EXCEPT ![p] = next[p] + 1]
  BY DEF Execute, Running
<1>2. rev[p] \in Revisions
  BY <1>1, LatestType DEF PInv, Places, Revisions
<1>3. Len(Chain[rev[p]]) \in Nat
  BY <1>2, FirstStatement
<1>4. next[p] \in 1..Len(Chain[rev[p]])
  BY <1>1, <1>3 DEF PInv, Places
<1>5. next' \in [Procs -> Nat \ {0}]
  BY <1>1 DEF PInv, Places
<1>6. \A q \in Procs : pc[q] = "run" => next'[q] <= Len(Chain[rev[q]]) + 1
  BY <1>1, <1>3, <1>4 DEF PInv, Places
<1> QED BY <1>1, <1>2, <1>4, <1>5, <1>6 DEF PInv, Places, Behind

\* A revision ends when its last statement has been executed.
LEMMA UpdatePlaces ==
  ASSUME PInv, NEW p \in Procs, update_version(p)
  PROVE  /\ PInv' /\ rev[p] \in Revisions /\ version' = rev[p] /\ version = rev[p] - 1
         /\ pc[p] = "run" /\ next[p] = Len(Chain[rev[p]]) + 1
         /\ schema' = schema
<1>1. /\ pc[p] = "run" /\ ~ (next[p] <= Len(Chain[rev[p]])) /\ version = rev[p] - 1
      /\ version' = rev[p] /\ GoesTo(p, rev[p] + 1) /\ schema' = schema
  BY DEF update_version, Running
<1>2. rev[p] \in Revisions
  BY <1>1, LatestType DEF PInv, Places, Revisions
<1>3. Len(Chain[rev[p]]) \in Nat
  BY <1>2, FirstStatement
<1>4. next[p] = Len(Chain[rev[p]]) + 1
  BY <1>1, <1>3 DEF PInv, Places
<1>5. rev[p] \in 0..Latest /\ rev[p] >= version
  BY <1>1, <1>2, LatestType DEF Revisions, PInv, Places
<1> QED BY <1>1, <1>2, <1>4, <1>5, GoesToPlaces

LEMMA NextPlaces == ASSUME PInv, [Next]_vars PROVE PInv'
<1>1. ASSUME NEW p \in Procs, initialize_db(p) PROVE PInv'
  BY <1>1, GoesToPlaces, LatestType DEF initialize_db, PInv, Places
<1>2. ASSUME NEW p \in Procs, StatementFails(p) \/ VersionFails(p) \/ Kill(p) PROVE PInv'
  BY <1>2, EndsPlaces DEF StatementFails, VersionFails, Kill
<1>3. CASE UNCHANGED vars
  BY <1>3 DEF vars, PInv, Places, Behind
<1> QED BY <1>1, <1>2, <1>3, ExecutePlaces, UpdatePlaces DEF Next

-----------------------------------------------------------------------------
(* What is in the schema.                                                   *)

LEMMA InitSchema == Init => SchemaInv
<1> SUFFICES ASSUME Init PROVE SchemaInv
  OBVIOUS
<1>1. version \in 0..Latest /\ schema = Whole(version) /\ pc = [p \in Procs |-> "new"]
  BY DEF Init
<1>2. 1..version \subseteq Revisions
  BY <1>1, LatestType DEF Revisions
<1>3. schema \subseteq UNION {Adds(r) : r \in Revisions}
  BY <1>1, <1>2 DEF Whole
<1>4. \A r \in 1..version : Adds(r) \ AllDrops \subseteq schema
  BY <1>1, <1>2 DEF Whole, AllDrops
<1> QED BY <1>1, <1>3, <1>4 DEF SchemaInv, Kept

\* A step that leaves the schema and the version alone, and moves processes
\* only to the beginning of a revision.
LEMMA SameSchema ==
  ASSUME SchemaInv, PInv, schema' = schema, version' = version,
         \A q \in Procs : pc'[q] = "run" =>
            next'[q] = 1 \/ (pc[q] = "run" /\ rev'[q] = rev[q] /\ next'[q] = next[q])
  PROVE  SchemaInv'
<1>1. ASSUME NEW q \in Procs, pc'[q] = "run", NEW i \in 1..next'[q] - 1
      PROVE  Chain[rev'[q]][i].adds \ AllDrops \subseteq schema
  <2>1. next'[q] # 1
    BY <1>1
  <2>2. pc[q] = "run" /\ rev'[q] = rev[q] /\ next'[q] = next[q]
    BY <1>1, <2>1
  <2> QED BY <1>1, <2>2 DEF SchemaInv, Kept
<1> QED BY <1>1 DEF SchemaInv, Kept

LEMMA ExecuteSchema ==
  ASSUME SchemaInv, PInv, NEW p \in Procs, Execute(p)
  PROVE  SchemaInv'
<1>1. /\ rev[p] \in Revisions /\ next[p] \in 1..Len(Chain[rev[p]])
      /\ UNCHANGED <<version, pc, rev>> /\ next' = [next EXCEPT ![p] = next[p] + 1]
  BY ExecutePlaces
<1>2. schema' = (schema \ Statement(p).drops) \cup Statement(p).adds
  BY DEF Execute
<1>3. Statement(p).adds \subseteq Adds(rev[p]) /\ Statement(p).drops \subseteq AllDrops
  BY <1>1, StatementIn DEF Statement
<1>4. schema' \subseteq UNION {Adds(r) : r \in Revisions}
  BY <1>1, <1>2, <1>3 DEF SchemaInv
<1>5. \A x \in schema : x \notin AllDrops => x \in schema'
  BY <1>2, <1>3
<1>6. \A r \in 1..version' : Adds(r) \ AllDrops \subseteq schema'
  BY <1>1, <1>5 DEF SchemaInv, Kept
<1>7. ASSUME NEW q \in Procs, pc'[q] = "run", NEW i \in 1..next'[q] - 1
      PROVE  Chain[rev'[q]][i].adds \ AllDrops \subseteq schema'
  <2>1. CASE i \in 1..next[q] - 1
    <3>1. Chain[rev[q]][i].adds \ AllDrops \subseteq schema
      BY <1>1, <1>7, <2>1 DEF SchemaInv, Kept
    <3> QED BY <1>1, <1>5, <3>1
  <2>2. CASE i \notin 1..next[q] - 1
    <3>1. q = p /\ i = next[p]
      BY <1>1, <1>7, <2>2 DEF PInv, Places
    <3>2. Chain[rev[q]][i].adds = Statement(p).adds
      BY <3>1 DEF Statement
    <3> QED BY <1>1, <1>2, <3>2
  <2> QED BY <2>1, <2>2
<1> QED BY <1>4, <1>6, <1>7 DEF SchemaInv, Kept

LEMMA UpdateSchema ==
  ASSUME SchemaInv, PInv, NEW p \in Procs, update_version(p)
  PROVE  SchemaInv'
<1>1. /\ rev[p] \in Revisions /\ version' = rev[p] /\ version = rev[p] - 1
      /\ pc[p] = "run" /\ next[p] = Len(Chain[rev[p]]) + 1 /\ schema' = schema
  BY UpdatePlaces
<1>2. /\ pc' = [pc EXCEPT ![p] = IF rev[p] + 1 > Latest THEN "serve" ELSE "run"]
      /\ rev' = [rev EXCEPT ![p] = rev[p] + 1] /\ next' = [next EXCEPT ![p] = 1]
  BY DEF update_version, GoesTo
<1>3. ASSUME NEW q \in Procs, pc'[q] = "run", NEW i \in 1..next'[q] - 1
      PROVE  Chain[rev'[q]][i].adds \ AllDrops \subseteq schema'
  <2>1. q # p
    BY <1>2, <1>3 DEF PInv, Places
  <2>2. pc[q] = "run" /\ rev'[q] = rev[q] /\ next'[q] = next[q]
    BY <1>2, <1>3, <2>1 DEF PInv, Places
  <2> QED BY <1>1, <1>3, <2>2 DEF SchemaInv, Kept
<1>4. Len(Chain[rev[p]]) \in Nat
  BY <1>1, FirstStatement
<1>5. \A i \in 1..Len(Chain[rev[p]]) : Chain[rev[p]][i].adds \ AllDrops \subseteq schema
  BY <1>1, <1>4 DEF SchemaInv, Kept
<1>6. Adds(rev[p]) \ AllDrops \subseteq schema
  BY <1>5 DEF Adds
<1>7. \A r \in 1..version' : r = rev[p] \/ r \in 1..version
  BY <1>1, LatestType DEF Revisions
<1>8. \A r \in 1..version' : Adds(r) \ AllDrops \subseteq schema'
  BY <1>1, <1>6, <1>7 DEF SchemaInv, Kept
<1> QED BY <1>1, <1>3, <1>8 DEF SchemaInv, Kept

LEMMA NextSchema == ASSUME SchemaInv, PInv, [Next]_vars PROVE SchemaInv'
<1>1. ASSUME NEW p \in Procs, initialize_db(p) PROVE SchemaInv'
  BY <1>1, SameSchema DEF initialize_db, GoesTo, PInv, Places
<1>2. ASSUME NEW p \in Procs, StatementFails(p) \/ VersionFails(p) \/ Kill(p) PROVE SchemaInv'
  BY <1>2, SameSchema DEF StatementFails, VersionFails, Kill, Ends, PInv, Places
<1>3. CASE UNCHANGED vars
  BY <1>3, SameSchema DEF vars
<1> QED BY <1>1, <1>2, <1>3, ExecuteSchema, UpdateSchema DEF Next

-----------------------------------------------------------------------------
(* One at a time.                                                           *)

LEMMA InitOne == Init => OneAtATime
  BY DEF Init, OneAtATime, Inside

\* A step after which no process is inside a revision that it was not inside of.
LEMMA SameOne ==
  ASSUME OneAtATime, version' = version,
         \A q \in Procs, r \in Locking : Inside(q, r)' => Inside(q, r)
  PROVE  OneAtATime'
  BY DEF OneAtATime

\* The lock of a revision is there when a process is inside of it, and when the
\* revision is done.
LEMMA LockTaken ==
  ASSUME SchemaInv, PInv, NEW r \in Locking, NEW x, IsLock(x, r),
         version >= r \/ \E q \in Procs : Inside(q, r)
  PROVE  x \in schema
<1>1. r \in Revisions /\ r \in Nat \ {0} /\ 1 \in 1..Len(Chain[r])
  BY FirstStatement, LatestType DEF Locking, Revisions
<1>2. CASE version >= r
  <2>1. r \in 1..version
    BY <1>1, <1>2, LatestType DEF PInv, Places
  <2>2. x \in Adds(r)
    BY <1>1, StatementIn DEF IsLock
  <2> QED BY <2>1, <2>2 DEF IsLock, SchemaInv, Kept
<1>3. CASE \E q \in Procs : Inside(q, r)
  <2>1. PICK q \in Procs : Inside(q, r)
    BY <1>3
  <2>2. pc[q] = "run" /\ rev[q] = r /\ 1 \in 1..next[q] - 1
    BY <2>1 DEF Inside, PInv, Places
  <2> QED BY <2>2 DEF IsLock, SchemaInv, Kept
<1> QED BY <1>2, <1>3

LEMMA ExecuteOne ==
  ASSUME MInv, NEW p \in Procs, Execute(p)
  PROVE  OneAtATime'
<1>1. /\ rev[p] \in Revisions /\ next[p] \in 1..Len(Chain[rev[p]])
      /\ UNCHANGED <<version, pc, rev>> /\ next' = [next EXCEPT ![p] = next[p] + 1]
      /\ pc[p] = "run"
  BY ExecutePlaces DEF MInv, Execute, Running
<1>2. \A q \in Procs \ {p}, r \in Locking : Inside(q, r)' => Inside(q, r)
  BY <1>1 DEF Inside, MInv, PInv, Places
<1>3. CASE next[p] > 1 \/ rev[p] \notin Locking
  <2>1. \A r \in Locking : Inside(p, r)' => Inside(p, r)
    BY <1>1, <1>3 DEF Inside
  <2> QED BY <1>1, <1>2, <2>1, SameOne DEF MInv
<1>4. CASE ~ (next[p] > 1) /\ rev[p] \in Locking
  <2>1. next[p] = 1
    BY <1>1, <1>4
  <2>2. PICK x : IsLock(x, rev[p])
    BY <1>4, Locks
  <2>3. x \in Statement(p).adds /\ Statement(p).adds \cap schema = {}
    BY <2>1, <2>2 DEF IsLock, Statement, Execute, Possible
  <2>4. x \notin schema
    BY <2>3
  <2>5. ~ (version >= rev[p]) /\ \A q \in Procs : ~ Inside(q, rev[p])
    BY <1>4, <2>2, <2>4, LockTaken DEF MInv
  <2>6. version = rev[p] - 1
    BY <1>1, <2>5, LatestType DEF MInv, PInv, Places, Behind, Revisions
  <2>7. ASSUME NEW q \in Procs, NEW r \in Locking, Inside(q, r)'
        PROVE  /\ version' = r - 1
               /\ \A o \in Procs \ {q} : ~ Inside(o, r)'
    <3>1. CASE q = p
      <4>1. r = rev[p]
        BY <1>1, <2>7, <3>1 DEF Inside
      <4> QED BY <1>1, <1>2, <2>5, <2>6, <3>1, <4>1
    <3>2. CASE q # p
      <4>1. Inside(q, r)
        BY <1>2, <2>7, <3>2
      <4>2. version = r - 1 /\ \A o \in Procs \ {q} : ~ Inside(o, r)
        BY <4>1 DEF MInv, OneAtATime
      <4>3. r # rev[p]
        BY <2>5, <4>1
      <4>4. ~ Inside(p, r)'
        BY <1>1, <4>3 DEF Inside
      <4> QED BY <1>1, <1>2, <4>2, <4>4
    <3> QED BY <3>1, <3>2
  <2> QED BY <2>7 DEF OneAtATime
<1> QED BY <1>3, <1>4

LEMMA UpdateOne ==
  ASSUME MInv, NEW p \in Procs, update_version(p)
  PROVE  OneAtATime'
<1>1. /\ rev[p] \in Revisions /\ version' = rev[p] /\ version = rev[p] - 1
      /\ pc[p] = "run" /\ next[p] = Len(Chain[rev[p]]) + 1
  BY UpdatePlaces DEF MInv
<1>2. /\ pc' = [pc EXCEPT ![p] = IF rev[p] + 1 > Latest THEN "serve" ELSE "run"]
      /\ rev' = [rev EXCEPT ![p] = rev[p] + 1] /\ next' = [next EXCEPT ![p] = 1]
  BY DEF update_version, GoesTo
<1>3. next[p] > 1
  BY <1>1, FirstStatement
<1>4. \A r \in Locking : ~ Inside(p, r)'
  BY <1>2 DEF Inside, MInv, PInv, Places
<1>5. ASSUME NEW q \in Procs \ {p}, NEW r \in Locking, Inside(q, r)'
      PROVE  FALSE
  <2>1. Inside(q, r)
    BY <1>2, <1>5 DEF Inside, MInv, PInv, Places
  <2>2. version = r - 1 /\ ~ Inside(p, r)
    BY <2>1 DEF MInv, OneAtATime
  <2>3. r = rev[p]
    BY <1>1, <2>2, LatestType DEF Revisions, Locking
  <2> QED BY <1>1, <1>3, <2>2, <2>3 DEF Inside
<1> QED BY <1>4, <1>5 DEF OneAtATime

LEMMA NextOne == ASSUME MInv, [Next]_vars PROVE OneAtATime'
<1>1. ASSUME NEW p \in Procs, initialize_db(p) PROVE OneAtATime'
  <2>1. \A q \in Procs, r \in Locking : Inside(q, r)' => Inside(q, r)
    BY <1>1 DEF initialize_db, GoesTo, Inside, MInv, PInv, Places
  <2> QED BY <1>1, <2>1, SameOne DEF initialize_db, MInv
<1>2. ASSUME NEW p \in Procs, StatementFails(p) \/ VersionFails(p) \/ Kill(p) PROVE OneAtATime'
  <2>1. \A q \in Procs, r \in Locking : Inside(q, r)' => Inside(q, r)
    BY <1>2 DEF StatementFails, VersionFails, Kill, Ends, Inside, MInv, PInv, Places
  <2> QED BY <1>2, <2>1, SameOne DEF StatementFails, VersionFails, Kill, MInv
<1>3. CASE UNCHANGED vars
  BY <1>3 DEF vars, MInv, OneAtATime, Inside
<1> QED BY <1>1, <1>2, <1>3, ExecuteOne, UpdateOne DEF Next

LEMMA Inductive == Spec => []MInv
<1>1. Init => MInv
  BY InitPlaces, InitSchema, InitOne DEF MInv
<1>2. MInv /\ [Next]_vars => MInv'
  BY NextPlaces, NextSchema, NextOne DEF MInv
<1> QED BY <1>1, <1>2, PTL DEF Spec

-----------------------------------------------------------------------------
(* The theorems.                                                            *)

\* Whatever the chain is, if its revisions begin with a statement of their own:
\* of the processes that migrate together only one gets past the beginning of
\* a revision, and only of the one that is due.
THEOREM OneRunsAtATime == Spec => []OneAtATime
<1>1. MInv => OneAtATime
  BY DEF MInv
<1> QED BY <1>1, Inductive, PTL

\* A process that serves, on a database that any number of others have
\* migrated, failed at or were killed at, has every object that the chain adds
\* for good, and beyond it only what a stalled process has added again.
THEOREM ServesOnWhole == Spec => []ServesOnWholeSchema
<1>1. ASSUME MInv, NEW p \in Procs, pc[p] = "serve"
      PROVE  Whole(Latest) \subseteq schema /\ schema \subseteq Whole(Latest) \cup Leftovers
  <2>1. version = Latest
    BY <1>1 DEF MInv, PInv, Behind
  <2>2. \A r \in Revisions : Adds(r) \ AllDrops \subseteq schema
    BY <1>1, <2>1 DEF MInv, SchemaInv, Kept, Revisions
  <2>3. Whole(Latest) = (UNION {Adds(r) : r \in Revisions}) \ AllDrops
    BY DEF Whole, AllDrops, Revisions
  <2>4. Whole(Latest) \subseteq schema
    BY <2>2, <2>3
  <2>5. ASSUME NEW x \in schema PROVE x \in Whole(Latest) \cup Leftovers
    <3>1. PICK r \in Revisions : x \in Adds(r)
      BY <1>1 DEF MInv, SchemaInv
    <3>2. CASE x \in AllDrops
      BY <3>1, <3>2 DEF Leftovers, Undone, AllDrops
    <3>3. CASE x \notin AllDrops
      BY <2>3, <3>1, <3>3
    <3> QED BY <3>2, <3>3
  <2> QED BY <2>4, <2>5
<1>2. MInv => ServesOnWholeSchema
  BY <1>1 DEF ServesOnWholeSchema
<1> QED BY <1>2, Inductive, PTL

-----------------------------------------------------------------------------
(* Types: the rows of Repeatable.                                           *)

IdType == [billing: Uuids, bill: Uuids, path: Uuids \X Uuids]

PlanType == [billing: BOOLEAN, bill: BOOLEAN, path: Uuids \X Uuids]

\* Nothing is computed for a database without rows.
RowsInv ==
    /\ overlap \in BOOLEAN /\ killed \in BOOLEAN
    /\ \/ ids = None /\ plan = [p \in Procs |-> None]
       \/ ids \in IdType /\ plan \in [Procs -> PlanType \cup {None}]

LEMMA CollectedType ==
  ASSUME ids \in IdType, NEW p \in Procs
  PROVE  Collected(p) \in PlanType
<1> DEFINE path == IF ~ (ids.bill = Uuid4) THEN ids.path
                   ELSE <<IF ids.billing = Uuid4 THEN p ELSE ids.path[1], p>>
<1>1. ids.path \in Uuids \X Uuids /\ p \in Uuids
  BY DEF IdType, Uuids
<1>2. path \in Uuids \X Uuids
  BY <1>1
<1>3. Collected(p) = [billing |-> ids.billing = Uuid4, bill |-> ids.bill = Uuid4, path |-> path]
  BY DEF Collected
<1> HIDE DEF path
<1> QED BY <1>2, <1>3 DEF PlanType

LEMMA ReplacedType ==
  ASSUME ids \in IdType, NEW p \in Procs, plan[p] \in PlanType
  PROVE  Replaced(p) \in IdType
<1>1. p \in Uuids
  BY DEF Uuids
<1> QED BY <1>1 DEF Replaced, IdType, PlanType

LEMMA InitRows == Init => RowsInv
<1> SUFFICES ASSUME Init PROVE RowsInv
  OBVIOUS
<1>1. Rows(version) \in IdType
  BY DEF Rows, IdType, Uuids, Uuid4
<1>2. ids = None \/ ids \in IdType
  BY <1>1 DEF Init
<1> QED BY <1>2 DEF Init, RowsInv

\* A step that computes nothing and may forget what has been computed.
LEMMA ForgetRows ==
  ASSUME RowsInv, NEW p \in Procs, ids' = ids, plan' \in {plan, [plan EXCEPT ![p] = None]},
         overlap' \in BOOLEAN, killed' \in BOOLEAN
  PROVE  RowsInv'
<1>1. CASE ids = None /\ plan = [q \in Procs |-> None]
  <2>1. plan' = [q \in Procs |-> None]
    BY <1>1
  <2> QED BY <1>1, <2>1 DEF RowsInv
<1>2. CASE ids \in IdType /\ plan \in [Procs -> PlanType \cup {None}]
  <2>1. plan' \in [Procs -> PlanType \cup {None}]
    BY <1>2
  <2> QED BY <1>2, <2>1 DEF RowsInv
<1> QED BY <1>1, <1>2 DEF RowsInv

LEMMA ExecuteRows == ASSUME RowsInv, NEW p \in Procs, Execute(p) PROVE RowsInv'
<1>1. overlap' \in BOOLEAN /\ killed' \in BOOLEAN
  BY DEF Execute, RowsInv
<1>2. CASE ids = None /\ plan = [q \in Procs |-> None]
  BY <1>1, <1>2 DEF Execute, RowsInv
<1>3. CASE ids \in IdType /\ plan \in [Procs -> PlanType \cup {None}]
  <2>1. ids' \in IdType
    BY <1>3, ReplacedType DEF Execute
  <2>2. plan' \in [Procs -> PlanType \cup {None}]
    BY <1>3, CollectedType DEF Execute
  <2> QED BY <1>1, <2>1, <2>2 DEF RowsInv
<1> QED BY <1>2, <1>3 DEF RowsInv

LEMMA NextRows == ASSUME RowsInv, [Next]_vars PROVE RowsInv'
<1>1. ASSUME NEW p \in Procs,
             \/ initialize_db(p) \/ StatementFails(p) \/ update_version(p)
             \/ VersionFails(p) \/ Kill(p)
      PROVE  RowsInv'
  <2>1. overlap' \in BOOLEAN /\ killed' \in BOOLEAN
    BY <1>1 DEF initialize_db, StatementFails, update_version, VersionFails, Kill, RowsInv
  <2>2. ids' = ids /\ plan' \in {plan, [plan EXCEPT ![p] = None]}
    BY <1>1 DEF initialize_db, StatementFails, update_version, VersionFails, Kill, Ends
  <2> QED BY <2>1, <2>2, ForgetRows
<1>2. CASE UNCHANGED vars
  BY <1>2 DEF vars, RowsInv
<1> QED BY <1>1, <1>2, ExecuteRows DEF Next

\* The state of migrations has its type: no statement is looked for behind the
\* end of a revision, no revision behind the end of the chain, and nothing is
\* written to rows but what was computed for them.
THEOREM MigrationsTypeCorrect == Spec => []TypeOK
<1>1. Init => RowsInv
  BY InitRows
<1>2. RowsInv /\ [Next]_vars => RowsInv'
  BY NextRows
<1>3. MInv /\ RowsInv => TypeOK
  BY DEF MInv, PInv, Places, Pcs, SchemaInv, RowsInv, TypeOK, IdType, PlanType
<1> QED BY <1>1, <1>2, <1>3, Inductive, PTL DEF Spec

-----------------------------------------------------------------------------
(* The paths of the PDFs.                                                   *)

\* The path is that of the billing and of the bill, replaced together.
Follows(d) ==
    /\ d.path = <<d.billing, d.bill>>
    /\ d.billing = Uuid4 <=> d.bill = Uuid4

\* While nobody has met another one at Repeatable, what a process has collected
\* there is what it would collect now.
PathInv ==
    ~ overlap =>
       /\ ids # None => Follows(ids)
       /\ \A p \in Procs : Inside(p, Repeatable) =>
             \A q \in Procs \ {p} : ~ Inside(q, Repeatable)
       /\ \A p \in Procs : plan[p] # None =>
             /\ Inside(p, Repeatable)
             /\ next[p] = 2 => ids # None /\ plan[p] = Collected(p)

LEMMA InitPath == Init => PathInv
  BY DEF Init, PathInv, Rows, Inside, Follows

\* A step after which no process is inside Repeatable that was not, and those
\* that have computed something are where they were.
LEMMA SamePath ==
  ASSUME PathInv, ids' = ids, overlap' = overlap,
         \A q \in Procs : Inside(q, Repeatable)' => Inside(q, Repeatable),
         \A q \in Procs : plan'[q] # None =>
            /\ plan[q] = plan'[q] /\ next'[q] = next[q]
            /\ Inside(q, Repeatable) => Inside(q, Repeatable)'
  PROVE  PathInv'
<1>1. \A q \in Procs : Collected(q)' = Collected(q)
  BY DEF Collected
<1> QED BY <1>1 DEF PathInv

\* The only process at Repeatable replaces the rows that it has collected.
LEMMA ReplacedFollows ==
  ASSUME NEW p \in Procs, plan[p] = Collected(p), Follows(ids)
  PROVE  Follows(Replaced(p))
<1>1. CASE ids.bill = Uuid4
  <2>1. Collected(p) = [billing |-> TRUE, bill |-> TRUE, path |-> <<p, p>>]
    BY <1>1 DEF Collected, Follows
  <2>2. Replaced(p) = [billing |-> p, bill |-> p, path |-> <<p, p>>]
    BY <1>1, <2>1 DEF Replaced, Follows
  <2> QED BY <2>2 DEF Follows
<1>2. CASE ids.bill # Uuid4
  <2>1. Collected(p) = [billing |-> FALSE, bill |-> FALSE, path |-> ids.path]
    BY <1>2 DEF Collected, Follows
  <2>2. Replaced(p) = [billing |-> ids.billing, bill |-> ids.bill, path |-> ids.path]
    BY <2>1 DEF Replaced
  <2> QED BY <2>2 DEF Follows
<1> QED BY <1>1, <1>2

LEMMA ExecutePath ==
  ASSUME PathInv, RowsInv, MInv, NEW p \in Procs, Execute(p)
  PROVE  PathInv'
<1>1. /\ rev[p] \in Revisions /\ next[p] \in 1..Len(Chain[rev[p]])
      /\ UNCHANGED <<version, pc, rev>> /\ next' = [next EXCEPT ![p] = next[p] + 1]
      /\ pc[p] = "run"
  BY ExecutePlaces DEF MInv, Execute, Running
<1>2. next \in [Procs -> Nat \ {0}] /\ plan \in [Procs -> PlanType \cup {None}]
  BY DEF MInv, PInv, Places, RowsInv
<1>3. /\ Statement(p).rows = "collect" => rev[p] = Repeatable /\ next[p] = 1
      /\ Statement(p).rows = "replace" => rev[p] = Repeatable /\ next[p] = 2
  BY <1>1, RowsAssumption DEF Statement
<1>4. SUFFICES ASSUME ~ overlap' PROVE PathInv'
  BY DEF PathInv
<1>5. ~ overlap /\ (rev[p] = Repeatable => \A q \in Procs \ {p} : ~ Inside(q, Repeatable))
  BY <1>4 DEF Execute
<1>6. \A q \in Procs \ {p} : Inside(q, Repeatable)' <=> Inside(q, Repeatable)
  BY <1>1, <1>2 DEF Inside
<1>7. \A q \in Procs : Inside(q, Repeatable)' =>
         \A o \in Procs \ {q} : ~ Inside(o, Repeatable)'
  <2>1. CASE rev[p] = Repeatable
    BY <1>5, <1>6, <2>1
  <2>2. CASE rev[p] # Repeatable
    <3>1. ~ Inside(p, Repeatable)'
      BY <1>1, <2>2 DEF Inside
    <3> QED BY <1>5, <1>6, <3>1 DEF PathInv
  <2> QED BY <2>1, <2>2
<1>8. ids' = ids \/ (/\ Statement(p).rows = "replace" /\ plan[p] # None
                     /\ ids' = Replaced(p) /\ plan' = plan)
  BY DEF Execute
<1>9. CASE ids' = ids
  <2>1. \A q \in Procs : Collected(q)' = Collected(q)
    BY <1>9 DEF Collected
  <2>2. ASSUME NEW q \in Procs, plan'[q] # None
        PROVE  /\ Inside(q, Repeatable)'
               /\ next'[q] = 2 => ids' # None /\ plan'[q] = Collected(q)'
    <3>1. CASE q # p
      <4>1. plan[q] = plan'[q] /\ next'[q] = next[q]
        BY <1>1, <1>2, <3>1 DEF Execute
      <4> QED BY <1>5, <1>6, <1>9, <2>1, <2>2, <3>1, <4>1 DEF PathInv
    <3>2. CASE q = p /\ Statement(p).rows = "collect" /\ ids # None
      <4>1. plan'[q] = Collected(p) /\ next'[p] = 2 /\ rev[p] = Repeatable
        BY <1>1, <1>2, <1>3, <3>2 DEF Execute
      <4> QED BY <1>1, <1>9, <2>1, <3>2, <4>1 DEF Inside
    <3>3. CASE q = p /\ ~ (Statement(p).rows = "collect" /\ ids # None)
      <4>1. plan' = plan
        BY <3>3 DEF Execute
      <4>2. Inside(p, Repeatable)
        BY <1>5, <2>2, <3>3, <4>1 DEF PathInv
      <4>3. next[p] > 1 /\ rev[p] = Repeatable
        BY <4>2 DEF Inside
      <4>4. next'[p] = next[p] + 1 /\ next'[p] > 2
        BY <1>1, <1>2, <4>3
      <4> QED BY <1>1, <3>3, <4>3, <4>4 DEF Inside
    <3> QED BY <3>1, <3>2, <3>3
  <2> QED BY <1>5, <1>7, <1>9, <2>2 DEF PathInv
<1>10. CASE /\ Statement(p).rows = "replace" /\ plan[p] # None
            /\ ids' = Replaced(p) /\ plan' = plan
  <2>1. rev[p] = Repeatable /\ next[p] = 2
    BY <1>3, <1>10
  <2>2. ids # None /\ plan[p] = Collected(p) /\ Follows(ids)
    BY <1>5, <1>10, <2>1 DEF PathInv
  <2>3. Follows(ids')
    BY <1>10, <2>2, ReplacedFollows
  <2>4. \A q \in Procs \ {p} : plan[q] = None
    BY <1>5, <2>1 DEF PathInv
  <2>5. next'[p] = 3
    BY <1>1, <1>2, <2>1
  <2>6. Inside(p, Repeatable)'
    BY <1>1, <2>1, <2>5 DEF Inside
  <2>7. ASSUME NEW q \in Procs, plan'[q] # None PROVE q = p
    BY <1>10, <2>4, <2>7
  <2> QED BY <1>7, <2>3, <2>5, <2>6, <2>7 DEF PathInv
<1> QED BY <1>8, <1>9, <1>10

LEMMA NextPath == ASSUME PathInv, RowsInv, MInv, [Next]_vars PROVE PathInv'
<1> USE DEF MInv, PInv, Places
<1>1. plan \in [Procs -> PlanType \cup {None}]
  BY DEF RowsInv
<1>3. ASSUME NEW p \in Procs, initialize_db(p) PROVE PathInv'
  <2>1. pc[p] \in {"new", "dead"} /\ ~ Inside(p, Repeatable)
    BY <1>3 DEF initialize_db, Inside
  <2>2. ids' = ids /\ overlap' = overlap /\ plan' = plan
    BY <1>3 DEF initialize_db
  <2>3. ~ Inside(p, Repeatable)' /\ \A q \in Procs \ {p} :
           next'[q] = next[q] /\ (Inside(q, Repeatable)' <=> Inside(q, Repeatable))
    BY <1>3 DEF initialize_db, GoesTo, Inside
  <2>4. CASE ~ overlap
    <3>1. plan[p] = None
      BY <2>1, <2>4 DEF PathInv
    <3> QED BY <2>2, <2>3, <3>1, SamePath
  <2> QED BY <2>2, <2>4 DEF PathInv
<1>4. ASSUME NEW p \in Procs, StatementFails(p) \/ VersionFails(p) \/ Kill(p) PROVE PathInv'
  <2>1. /\ ids' = ids /\ overlap' = overlap /\ rev' = rev /\ next' = next
        /\ pc' = [pc EXCEPT ![p] = "dead"] /\ plan' = [plan EXCEPT ![p] = None]
    BY <1>4 DEF StatementFails, VersionFails, Kill, Ends
  <2>2. \A q \in Procs : Inside(q, Repeatable)' => Inside(q, Repeatable)
    BY <2>1 DEF Inside
  <2>3. \A q \in Procs : plan'[q] # None => q # p /\ plan'[q] = plan[q]
    BY <1>1, <2>1
  <2>4. \A q \in Procs \ {p} : Inside(q, Repeatable) => Inside(q, Repeatable)'
    BY <2>1 DEF Inside
  <2> QED BY <2>1, <2>2, <2>3, <2>4, SamePath
<1>5. ASSUME NEW p \in Procs, update_version(p) PROVE PathInv'
  <2>1. /\ ids' = ids /\ overlap' = overlap /\ plan' = [plan EXCEPT ![p] = None]
    BY <1>5 DEF update_version
  <2>2. ~ Inside(p, Repeatable)' /\ \A q \in Procs \ {p} :
           next'[q] = next[q] /\ (Inside(q, Repeatable)' <=> Inside(q, Repeatable))
    BY <1>5 DEF update_version, GoesTo, Inside
  <2>3. \A q \in Procs : plan'[q] # None => q # p /\ plan'[q] = plan[q]
    BY <1>1, <2>1
  <2> QED BY <2>1, <2>2, <2>3, SamePath
<1>6. CASE UNCHANGED vars
  BY <1>6, SamePath DEF vars, Inside
<1> QED BY <1>3, <1>4, <1>5, <1>6, ExecutePath DEF Next

\* The revision that replaces uuids leaves every PDF's path in agreement with
\* the uuids of its billing and bill, however often it is killed and run again,
\* unless two processes are at it at the same time.
THEOREM PathsAreFollowed == Spec => []PathsFollowUuids
<1>1. Init => RowsInv /\ PathInv
  BY InitRows, InitPath
<1>2. MInv /\ RowsInv /\ PathInv /\ [Next]_vars => RowsInv' /\ PathInv'
  BY NextRows, NextPath
<1>3. PathInv => PathsFollowUuids
  BY DEF PathInv, PathsFollowUuids, Follows
<1> QED BY <1>1, <1>2, <1>3, Inductive, PTL DEF Spec

-----------------------------------------------------------------------------
(* What errors leave.                                                       *)

Objects == UNION {Adds(r) : r \in Revisions}

\* The statement has been executed: by whoever finished the revision, or by a
\* process that is in it.
Done(r, i) ==
    r <= version \/ \E p \in Procs : pc[p] = "run" /\ rev[p] = r /\ i < next[p]

Added(x) == \E r \in Revisions : \E i \in 1..Len(Chain[r]) : Done(r, i) /\ x \in Chain[r][i].adds

Gone(x) == \E r \in Revisions : \E i \in 1..Len(Chain[r]) : Done(r, i) /\ x \in Chain[r][i].drops

\* The schema has nothing but what was added by such statements, and all of it
\* that they have not dropped.
AsDone == /\ \A x \in schema : Added(x)
          /\ \A x \in Objects : Added(x) => x \in schema \/ Gone(x)

\* Nobody else is in the revision that is due, unless it may be repeated.
OneIsDue ==
    \A p \in Procs : \A q \in Procs \ {p} :
        Inside(p, version + 1) /\ Inside(q, version + 1) => version + 1 = Repeatable

ExactInv == ~ killed => AsDone /\ OneIsDue

LEMMA InitExact == Init => ExactInv
<1> SUFFICES ASSUME Init PROVE AsDone /\ OneIsDue
  BY DEF ExactInv
<1>1. version \in 0..Latest /\ schema = Whole(version) /\ pc = [p \in Procs |-> "new"]
  BY DEF Init
<1>2. 1..version \subseteq Revisions
  BY <1>1, LatestType DEF Revisions
<1>3. \A r, i : Done(r, i) <=> r <= version
  BY <1>1 DEF Done
<1>4. ASSUME NEW x \in schema PROVE Added(x)
  <2>1. PICK r \in 1..version : x \in Adds(r)
    BY <1>1 DEF Whole
  <2>2. PICK i \in 1..Len(Chain[r]) : x \in Chain[r][i].adds
    BY <2>1 DEF Adds
  <2> QED BY <1>1, <1>2, <1>3, <2>2 DEF Added
<1>5. ASSUME NEW x, Added(x) PROVE x \in schema \/ Gone(x)
  <2>1. PICK r \in Revisions : \E i \in 1..Len(Chain[r]) : r <= version /\ x \in Chain[r][i].adds
    BY <1>3, <1>5 DEF Added
  <2>2. r \in 1..version /\ x \in Adds(r)
    BY <1>1, <2>1, LatestType, StatementIn DEF Revisions
  <2>3. CASE \E k \in 1..version : x \in Drops(k)
    <3>1. PICK k \in 1..version : x \in Drops(k)
      BY <2>3
    <3>2. PICK j \in 1..Len(Chain[k]) : x \in Chain[k][j].drops
      BY <3>1 DEF Drops
    <3> QED BY <1>1, <1>2, <1>3, <3>2 DEF Gone
  <2>4. CASE ~ \E k \in 1..version : x \in Drops(k)
    BY <1>1, <2>2, <2>4 DEF Whole
  <2> QED BY <2>3, <2>4
<1>6. OneIsDue
  BY <1>1 DEF OneIsDue, Inside
<1> QED BY <1>4, <1>5, <1>6 DEF AsDone

\* A step after which the same statements have been executed.
LEMMA SameDone ==
  ASSUME AsDone, schema' = schema,
         \A r \in Revisions : \A i \in 1..Len(Chain[r]) : Done(r, i)' <=> Done(r, i)
  PROVE  AsDone'
<1>1. \A x : Added(x)' <=> Added(x)
  BY DEF Added
<1>2. \A x : Gone(x)' <=> Gone(x)
  BY DEF Gone
<1> QED BY <1>1, <1>2 DEF AsDone

\* A step that moves a process that is in no revision, or at the beginning of
\* one, or in one that is done, to where it has executed nothing.
LEMMA SameExact ==
  ASSUME AsDone, OneIsDue, PInv, NEW p \in Procs, schema' = schema, version' = version,
         ~ Inside(p, version + 1), pc'[p] = "run" => next'[p] = 1,
         \A q \in Procs \ {p} : pc'[q] = pc[q] /\ rev'[q] = rev[q] /\ next'[q] = next[q]
  PROVE  AsDone' /\ OneIsDue'
<1>1. ASSUME NEW r \in Revisions, NEW i \in 1..Len(Chain[r])
      PROVE  Done(r, i)' <=> Done(r, i)
  <2>1. r \in Nat /\ i \in Nat /\ i >= 1
    BY LatestType, FirstStatement DEF Revisions
  <2>2. ~ (pc'[p] = "run" /\ i < next'[p])
    BY <2>1
  <2>3. pc[p] = "run" /\ rev[p] = r /\ i < next[p] => r <= version
    BY <2>1 DEF Inside, PInv, Places, Behind
  <2> QED BY <2>2, <2>3 DEF Done
<1>2. AsDone'
  BY <1>1, SameDone
<1>3. \A q \in Procs : Inside(q, version + 1)' => Inside(q, version + 1)
  BY DEF Inside
<1>4. OneIsDue'
  BY <1>3 DEF OneIsDue
<1> QED BY <1>2, <1>4

\* What the statement of a revision drops was added by an earlier statement.
LEMMA DropsLater ==
  ASSUME NEW r \in Revisions, NEW i \in 1..Len(Chain[r]), NEW x \in Chain[r][i].adds,
         NEW k \in Revisions, NEW j \in 1..Len(Chain[k]), x \in Chain[k][j].drops
  PROVE  Before(r, i, k, j)
<1>1. PICK m \in Revisions : \E n \in 1..Len(Chain[m]) :
         Before(m, n, k, j) /\ x \in Chain[m][n].adds
  BY StepwiseAssumption
<1>2. PICK n \in 1..Len(Chain[m]) : Before(m, n, k, j) /\ x \in Chain[m][n].adds
  BY <1>1
<1>3. m = r /\ n = i
  BY <1>2, StepwiseAssumption
<1> QED BY <1>2, <1>3

\* Nothing is executed of a revision later than the one that is due.
LEMMA DoneUntil ==
  ASSUME PInv, NEW r \in Revisions, NEW i \in 1..Len(Chain[r]), Done(r, i)
  PROVE  r <= version + 1
  BY LatestType DEF PInv, Places, Behind, Done, Revisions

\* A statement of the revision that is due can be executed, once the process
\* has executed those before it: an error hits only who is at the beginning of
\* a revision, or in one that another process has finished.
LEMMA CanGoOn ==
  ASSUME AsDone, OneIsDue, PInv, NEW p \in Procs, Running(p), Inside(p, version + 1)
  PROVE  Possible(Statement(p))
<1> DEFINE r == rev[p]
           i == next[p]
           s == Chain[r][i]
<1>1. /\ pc[p] = "run" /\ r = version + 1 /\ i > 1 /\ r \in Revisions
      /\ i \in 1..Len(Chain[r]) /\ Statement(p) = s
  BY LatestType, FirstStatement DEF Inside, Running, Statement, PInv, Places, Revisions
<1>2. version \in Nat
  BY LatestType DEF PInv, Places
<1>3. CASE r = Repeatable \/ \A q \in Procs \ {p} : ~ Inside(q, version + 1)
  <2>1. ASSUME NEW k \in Revisions, NEW j \in 1..Len(Chain[k]), Done(k, j),
               Chain[k][j].adds # {} \/ Chain[k][j].drops # {}
        PROVE  Before(k, j, r, i)
    <3>1. k \in Nat /\ j \in Nat /\ j >= 1
      BY LatestType, FirstStatement DEF Revisions
    <3>2. k # Repeatable
      <4>1. k = Repeatable => Adds(k) = {} /\ Drops(k) = {}
        BY BeginsAssumption
      <4> QED BY <2>1, <4>1 DEF Adds, Drops
    <3>3. CASE k <= version
      BY <1>1, <1>2, <3>1, <3>3 DEF Before
    <3>4. CASE ~ (k <= version)
      <4>1. PICK q \in Procs : pc[q] = "run" /\ rev[q] = k /\ j < next[q]
        BY <2>1, <3>4 DEF Done
      <4>2. k = version + 1
        BY <1>2, <2>1, <3>1, <3>4, DoneUntil
      <4>3. Inside(q, version + 1)
        BY <3>1, <4>1, <4>2 DEF Inside, PInv, Places
      <4>4. q = p
        BY <1>1, <1>3, <3>2, <4>2, <4>3
      <4> QED BY <1>1, <4>1, <4>4 DEF Before
    <3> QED BY <3>3, <3>4
  <2>2. ASSUME NEW x \in s.adds, x \in schema PROVE FALSE
    <3>1. PICK k \in Revisions : \E j \in 1..Len(Chain[k]) : Done(k, j) /\ x \in Chain[k][j].adds
      BY <2>2 DEF AsDone, Added
    <3>2. PICK j \in 1..Len(Chain[k]) : Done(k, j) /\ x \in Chain[k][j].adds
      BY <3>1
    <3>3. k = r /\ j = i
      BY <1>1, <2>2, <3>2, StepwiseAssumption
    <3> QED BY <1>1, <2>1, <3>2, <3>3 DEF Before, PInv, Places
  <2>3. ASSUME NEW y \in s.drops \cup s.needs PROVE y \in schema
    <3>1. PICK k \in Revisions : \E j \in 1..Len(Chain[k]) : Before(k, j, r, i) /\ y \in Chain[k][j].adds
      BY <1>1, StepwiseAssumption
    <3>2. PICK j \in 1..Len(Chain[k]) : Before(k, j, r, i) /\ y \in Chain[k][j].adds
      BY <3>1
    <3>3. Done(k, j)
      BY <1>1, <1>2, <3>2, LatestType DEF Before, Done, Revisions
    <3>4. y \in Objects /\ Added(y)
      BY <3>2, <3>3, StatementIn DEF Added, Objects
    <3>5. ASSUME Gone(y) PROVE FALSE
      <4>1. PICK m \in Revisions : \E n \in 1..Len(Chain[m]) : Done(m, n) /\ y \in Chain[m][n].drops
        BY <3>5 DEF Gone
      <4>2. PICK n \in 1..Len(Chain[m]) : Done(m, n) /\ y \in Chain[m][n].drops
        BY <4>1
      <4>3. Before(m, n, r, i)
        BY <2>1, <4>2
      <4> QED BY <1>1, <2>3, <4>2, <4>3, StepwiseAssumption
    <3> QED BY <3>4, <3>5 DEF AsDone
  <2> QED BY <1>1, <2>2, <2>3 DEF Possible
<1> QED BY <1>1, <1>3 DEF OneIsDue

LEMMA ExecuteExact ==
  ASSUME AsDone, OneIsDue, PInv, NEW p \in Procs, Execute(p)
  PROVE  AsDone' /\ OneIsDue'
<1> DEFINE r == rev[p]
           i == next[p]
           s == Chain[r][i]
<1>1. /\ r \in Revisions /\ i \in 1..Len(Chain[r]) /\ pc[p] = "run"
      /\ UNCHANGED <<version, pc, rev>> /\ next' = [next EXCEPT ![p] = i + 1]
  BY ExecutePlaces DEF Execute, Running
<1>2. schema' = (schema \ s.drops) \cup s.adds /\ s.adds \cap schema = {}
  BY DEF Execute, Possible, Statement
<1>3. i \in Nat /\ version \in Nat /\ next \in [Procs -> Nat \ {0}]
  BY LatestType DEF PInv, Places
<1>4. rev'[p] = r /\ pc'[p] = "run" /\ i < next'[p]
  BY <1>1, <1>3
<1>5. ASSUME NEW k \in Revisions, NEW j \in 1..Len(Chain[k])
      PROVE  Done(k, j)' <=> Done(k, j) \/ (k = r /\ j = i)
  <2>1. \A q \in Procs : j < next'[q] <=> j < next[q] \/ (q = p /\ j = i)
    BY <1>1, <1>3
  <2>2. Done(k, j) => Done(k, j)'
    BY <1>1, <2>1 DEF Done
  <2>3. Done(k, j)' => Done(k, j) \/ (k = r /\ j = i)
    BY <1>1, <2>1 DEF Done
  <2>4. k = r /\ j = i => Done(k, j)'
    BY <1>4 DEF Done
  <2> QED BY <2>2, <2>3, <2>4
<1>6. \A x : Added(x)' <=> Added(x) \/ x \in s.adds
  BY <1>1, <1>5 DEF Added
<1>7. \A x : Gone(x)' <=> Gone(x) \/ x \in s.drops
  BY <1>1, <1>5 DEF Gone
<1>8. AsDone'
  BY <1>2, <1>6, <1>7 DEF AsDone
<1>9. ASSUME version + 1 # Repeatable, ~ (i > 1), r = version + 1, NEW q \in Procs \ {p},
             Inside(q, version + 1)
      PROVE  FALSE
  <2>1. PICK x \in Chain[r][1].adds : x \notin Drops(r)
    BY <1>1, <1>9, BeginsAssumption
  <2>2. i = 1 /\ x \notin schema
    BY <1>2, <1>3, <1>9, <2>1
  <2>3. x \in Objects /\ Added(x)
    BY <1>1, <1>9, <2>1, <2>2, StatementIn DEF Inside, Done, Added, Objects
  <2>4. PICK k \in Revisions : \E j \in 1..Len(Chain[k]) : Done(k, j) /\ x \in Chain[k][j].drops
    BY <2>2, <2>3 DEF AsDone, Gone
  <2>5. PICK j \in 1..Len(Chain[k]) : Done(k, j) /\ x \in Chain[k][j].drops
    BY <2>4
  <2>6. Before(r, 1, k, j)
    BY <1>1, <2>1, <2>2, <2>5, DropsLater
  <2>7. k # r
    BY <2>1, <2>5 DEF Drops
  <2> QED BY <1>3, <1>9, <2>5, <2>6, <2>7, DoneUntil, LatestType DEF Before, Revisions
<1>10. \A q \in Procs : Inside(q, version + 1)' =>
          Inside(q, version + 1) \/ (q = p /\ r = version + 1)
  BY <1>1, <1>3 DEF Inside
<1>11. Inside(p, version + 1) \/ r # version + 1 \/ ~ (i > 1)
  BY <1>1 DEF Inside
<1>12. OneIsDue'
  <2>1. SUFFICES ASSUME NEW q \in Procs, NEW o \in Procs \ {q},
                        Inside(q, version + 1)', Inside(o, version + 1)',
                        version + 1 # Repeatable
                 PROVE  FALSE
    BY <1>1 DEF OneIsDue
  <2> QED BY <1>9, <1>10, <1>11, <2>1 DEF OneIsDue
<1> QED BY <1>8, <1>12

LEMMA UpdateExact ==
  ASSUME AsDone, OneIsDue, PInv, NEW p \in Procs, update_version(p)
  PROVE  AsDone' /\ OneIsDue'
<1>1. /\ rev[p] \in Revisions /\ version' = rev[p] /\ version = rev[p] - 1
      /\ pc[p] = "run" /\ next[p] = Len(Chain[rev[p]]) + 1 /\ schema' = schema
  BY UpdatePlaces
<1>2. /\ pc' = [pc EXCEPT ![p] = IF rev[p] + 1 > Latest THEN "serve" ELSE "run"]
      /\ rev' = [rev EXCEPT ![p] = rev[p] + 1] /\ next' = [next EXCEPT ![p] = 1]
  BY DEF update_version, GoesTo
<1>3. version \in Nat /\ version' = version + 1 /\ next'[p] = 1
  BY <1>1, <1>2, LatestType DEF PInv, Places, Revisions
<1>4. \A q \in Procs \ {p} : pc'[q] = pc[q] /\ rev'[q] = rev[q] /\ next'[q] = next[q]
  BY <1>2 DEF PInv, Places
<1>5. ASSUME NEW r \in Revisions, NEW i \in 1..Len(Chain[r])
      PROVE  Done(r, i)' <=> Done(r, i)
  <2>1. r \in Nat /\ Len(Chain[r]) \in Nat /\ i \in 1..Len(Chain[r])
    BY LatestType, FirstStatement DEF Revisions
  <2>2. CASE r <= version + 1
    <3>1. Done(r, i)'
      BY <1>3, <2>2 DEF Done
    <3>2. ASSUME r = version + 1 PROVE Done(r, i)
      <4>1. rev[p] = r
        BY <1>1, <1>3, <3>2
      <4>2. i < next[p]
        BY <1>1, <2>1, <4>1
      <4> QED BY <1>1, <4>1, <4>2 DEF Done
    <3>3. r # version + 1 => Done(r, i)
      BY <1>3, <2>1, <2>2 DEF Done
    <3> QED BY <3>1, <3>2, <3>3
  <2>3. CASE ~ (r <= version + 1)
    <3>1. ~ Done(r, i)
      BY <2>3, DoneUntil
    <3>2. ~ Done(r, i)'
      BY <1>3, <1>4, <2>1, <2>3, <3>1 DEF Done
    <3> QED BY <3>1, <3>2
  <2> QED BY <2>2, <2>3
<1>6. AsDone'
  BY <1>1, <1>5, SameDone
<1>7. \A q \in Procs : ~ Inside(q, version + 1)'
  BY <1>3, <1>4 DEF Inside, PInv, Places, Behind
<1> QED BY <1>6, <1>7 DEF OneIsDue

LEMMA NextExact == ASSUME ExactInv, PInv, [Next]_vars PROVE ExactInv'
<1> SUFFICES ASSUME ~ killed' PROVE AsDone' /\ OneIsDue'
  BY DEF ExactInv
<1>1. ~ killed /\ AsDone /\ OneIsDue
  <2>1. ASSUME NEW p \in Procs,
               \/ initialize_db(p) \/ Execute(p) \/ StatementFails(p)
               \/ update_version(p) \/ VersionFails(p) \/ Kill(p)
        PROVE  killed => killed'
    BY <2>1 DEF initialize_db, Execute, StatementFails, update_version, VersionFails, Kill
  <2>2. UNCHANGED vars => killed' = killed
    BY DEF vars
  <2> QED BY <2>1, <2>2 DEF Next, ExactInv
<1>2. ASSUME NEW p \in Procs, initialize_db(p) PROVE AsDone' /\ OneIsDue'
  <2>1. /\ schema' = schema /\ version' = version /\ next'[p] = 1
        /\ \A q \in Procs \ {p} : pc'[q] = pc[q] /\ rev'[q] = rev[q] /\ next'[q] = next[q]
    BY <1>2 DEF initialize_db, GoesTo, PInv, Places
  <2>2. ~ Inside(p, version + 1)
    BY <1>2 DEF initialize_db, Inside
  <2> QED BY <1>1, <2>1, <2>2, SameExact
<1>3. ASSUME NEW p \in Procs, StatementFails(p) \/ VersionFails(p) \/ Kill(p)
      PROVE  AsDone' /\ OneIsDue'
  <2>1. /\ schema' = schema /\ version' = version /\ pc'[p] = "dead"
        /\ \A q \in Procs \ {p} : pc'[q] = pc[q] /\ rev'[q] = rev[q] /\ next'[q] = next[q]
    BY <1>3 DEF StatementFails, VersionFails, Kill, Ends, PInv, Places
  <2>2. ~ Inside(p, version + 1)
    <3>1. CASE StatementFails(p)
      BY <1>1, <3>1, CanGoOn DEF StatementFails
    <3>2. CASE VersionFails(p)
      BY <3>2, LatestType DEF VersionFails, Inside, PInv, Places
    <3>3. CASE Kill(p)
      BY <3>3 DEF Kill, Inside
    <3> QED BY <1>3, <3>1, <3>2, <3>3
  <2> QED BY <1>1, <2>1, <2>2, SameExact
<1>4. CASE UNCHANGED vars
  <2>1. AsDone'
    BY <1>1, <1>4 DEF vars, AsDone, Added, Gone, Done
  <2>2. OneIsDue'
    BY <1>1, <1>4 DEF vars, OneIsDue, Inside
  <2> QED BY <2>1, <2>2
<1> QED BY <1>1, <1>2, <1>3, <1>4, ExecuteExact, UpdateExact DEF Next

\* A process that meets an error has lost a race: whoever gets into the revision
\* that is due finishes it, if nobody is killed.  So what failing processes
\* leave is a whole revision, or one that another process is in.
THEOREM ErrorsLeaveWholes == Spec => []ErrorsLeaveNoHalf
<1>1. Init => ExactInv
  BY InitExact
<1>2. ExactInv /\ MInv /\ [Next]_vars => ExactInv'
  BY NextExact DEF MInv
<1>3. ASSUME ExactInv, MInv PROVE ErrorsLeaveNoHalf
  <2>1. SUFFICES ASSUME ~ killed, \A p \in Procs : ~ Inside(p, version + 1)
                 PROVE  schema \ Leftovers = Whole(version) \ Leftovers
    BY DEF ErrorsLeaveNoHalf
  <2>2. AsDone /\ PInv /\ version \in Nat
    BY <1>3, <2>1, LatestType DEF ExactInv, MInv, PInv, Places
  <2>3. ASSUME NEW r \in Revisions, NEW i \in 1..Len(Chain[r])
        PROVE  Done(r, i) <=> r \in 1..version
    <3>1. r \in Nat \ {0} /\ i \in Nat /\ i >= 1
      BY LatestType, FirstStatement DEF Revisions
    <3>2. Done(r, i) => r <= version
      <4>1. SUFFICES ASSUME NEW p \in Procs, pc[p] = "run", rev[p] = r, i < next[p]
                     PROVE  r <= version
        BY DEF Done
      <4>2. r <= version + 1 /\ next[p] > 1
        BY <2>2, <3>1, <4>1 DEF PInv, Places, Behind
      <4>3. r # version + 1
        BY <2>1, <4>1, <4>2 DEF Inside
      <4> QED BY <2>2, <3>1, <4>2, <4>3
    <3> QED BY <2>2, <3>1, <3>2 DEF Done
  <2>4. 1..version \subseteq Revisions
    BY <2>2, LatestType DEF PInv, Places, Revisions
  <2>5. \A x : Added(x) <=> \E r \in 1..version : x \in Adds(r)
    BY <2>3, <2>4 DEF Added, Adds
  <2>6. \A x : Gone(x) <=> \E r \in 1..version : x \in Drops(r)
    BY <2>3, <2>4 DEF Gone, Drops
  <2>7. ASSUME NEW x, x \notin Leftovers, \E r \in 1..version : x \in Adds(r)
        PROVE  x \in Objects /\ \A k \in Revisions : x \notin Drops(k)
    BY <2>4, <2>7 DEF Objects, Leftovers, Undone
  <2>8. ASSUME NEW x, x \notin Leftovers
        PROVE  x \in schema <=> \E r \in 1..version : x \in Adds(r)
    BY <2>2, <2>4, <2>5, <2>6, <2>7, <2>8 DEF AsDone
  <2>9. ASSUME NEW x, x \notin Leftovers
        PROVE  x \in Whole(version) <=> \E r \in 1..version : x \in Adds(r)
    BY <2>4, <2>7, <2>9 DEF Whole
  <2> QED BY <2>8, <2>9
<1> QED BY <1>1, <1>2, <1>3, Inductive, PTL DEF Spec
=============================================================================
