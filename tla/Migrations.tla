------------------------------ MODULE Migrations ------------------------------
(***************************************************************************)
(* The set-up of the database at the start of every process (web, CLI,     *)
(* scripts): initialize_db runs the pending revisions of a chain, each one *)
(* a sequence of statements, and stamps the version table after each.      *)
(*                                                                         *)
(* MariaDB commits every statement that changes the schema at once: two    *)
(* processes that start together run the same statements, and one that is  *)
(* killed leaves a revision half done.  What is there before a statement   *)
(* decides whether it succeeds; an error ends the process.                 *)
(*                                                                         *)
(* The chain is a parameter: module Revisions holds the program's.         *)
(***************************************************************************)
EXTENDS Naturals, Sequences

CONSTANTS
    Procs,      \* processes that share the database
    Chain,      \* the revisions, each a sequence of statements
    Repeatable, \* the revision that changes rows only, and may be run twice
    None

\* A statement adds objects (tables, columns, indexes) that must not be there,
\* drops some that must, needs others; rows is what it does to uuids ("none",
\* "collect" or "replace").
ASSUME MigrationsAssumption ==
    /\ Len(Chain) \in Nat
    /\ \A r \in 1..Len(Chain) : Len(Chain[r]) \in Nat \ {0}
    /\ Repeatable \in Nat

Latest == Len(Chain)

Revisions == 1..Latest

VARIABLES
    schema,     \* the objects that exist
    version,    \* table alembic_version: the place in the chain, 0 for no row
    pc,         \* "new", "dead", "run" or "serve", for each process
    rev,        \* the revision a running process is at
    next,       \* and the statement of it
    plan,       \* the uuids and the path it has computed for the rows, or None
    ids,        \* the uuids of a billing and of its bill, and the two uuids in
                \* the path of the bill's PDF; None in a database without rows, or
                \* with rows from before there were uuids
    overlap,    \* history: two processes were at the Repeatable revision
    killed      \* history: a process was killed

vars == <<schema, version, pc, rev, next, plan, ids, overlap, killed>>

Adds(r)  == UNION {Chain[r][i].adds : i \in 1..Len(Chain[r])}
Drops(r) == UNION {Chain[r][i].drops : i \in 1..Len(Chain[r])}

\* The schema of a database at version k.
Whole(k) == (UNION {Adds(r) : r \in 1..k}) \ (UNION {Drops(r) : r \in 1..k})

\* What a later revision drops: a process that has stalled for that long may
\* add it again.
Undone(r) == Adds(r) \cap UNION {Drops(k) : k \in Revisions}

Leftovers == UNION {Undone(r) : r \in Revisions}

\* The revisions of which nothing is dropped and nothing may be repeated.
Locking == {r \in Revisions \ {Repeatable} : Undone(r) = {}}

\* Each of them begins with a statement that no other one can stand in for.
ASSUME LocksAssumption ==
    \A r \in Locking : \E x \in Chain[r][1].adds :
        \A k \in Revisions : \A i \in 1..Len(Chain[k]) :
            x \in Chain[k][i].adds => k = r /\ i = 1

\* The j-th statement of revision k comes before the i-th of r.
Before(k, j, r, i) == k < r \/ (k = r /\ j < i)

\* The chain migrates an empty database: a statement adds what no other one
\* adds, and finds what it drops or needs, which an earlier one has added and
\* none has dropped.
ASSUME StepwiseAssumption ==
    \A r \in Revisions : \A i \in 1..Len(Chain[r]) :
        /\ \A k \in Revisions : \A j \in 1..Len(Chain[k]) :
              /\ Chain[k][j].adds \cap Chain[r][i].adds # {} => k = r /\ j = i
              /\ Before(k, j, r, i) =>
                    Chain[k][j].drops \cap (Chain[r][i].drops \cup Chain[r][i].needs) = {}
        /\ \A y \in Chain[r][i].drops \cup Chain[r][i].needs :
              \E k \in Revisions : \E j \in 1..Len(Chain[k]) :
                 Before(k, j, r, i) /\ y \in Chain[k][j].adds

\* Every revision but one begins with something that it adds and leaves there;
\* that one changes rows only.
ASSUME BeginsAssumption ==
    \A r \in Revisions :
        IF r = Repeatable THEN Adds(r) = {} /\ Drops(r) = {}
                          ELSE Chain[r][1].adds \ Drops(r) # {}

\* The rows are collected by the first statement of one revision, and replaced
\* by the second.
ASSUME RowsAssumption ==
    \A r \in Revisions : \A i \in 1..Len(Chain[r]) :
        /\ Chain[r][i].rows = "collect" => r = Repeatable /\ i = 1
        /\ Chain[r][i].rows = "replace" => r = Repeatable /\ i = 2

-----------------------------------------------------------------------------
(* a7b8c9d0e1f2_replace_uuid4_with_ulid.py: the rows.                       *)

Uuid4 == "uuid4"

\* Mutant: bills are collected as if the billings had been replaced before.
Collected_late(p) ==
    LET bill == ids.bill = Uuid4
    IN  [billing |-> ids.billing = Uuid4, bill |-> bill,
         path |-> IF bill THEN <<ids.path[1], p>> ELSE ids.path]

\* Billings and bills that still have a uuid4 get a new one, and the path both
\* of them (p stands for the ULIDs p makes).
Collected(p) ==
    LET billing == ids.billing = Uuid4
        bill == ids.bill = Uuid4
    IN  [billing |-> billing, bill |-> bill,
         path |-> IF ~ bill THEN ids.path
                  ELSE <<IF billing THEN p ELSE ids.path[1], p>>]

\* The billing is found by its old uuid, the bill by its id.
Replaced(p) ==
    [billing |-> IF plan[p].billing /\ ids.billing = Uuid4 THEN p ELSE ids.billing,
     bill |-> IF plan[p].bill THEN p ELSE ids.bill,
     path |-> IF plan[p].bill THEN plan[p].path ELSE ids.path]

-----------------------------------------------------------------------------
(* command.upgrade(cfg, "head").                                            *)

Statement(p) == Chain[rev[p]][next[p]]

Running(p) == pc[p] = "run" /\ next[p] <= Len(Chain[rev[p]])

\* p has executed a statement of revision r, and neither finished nor died.
Inside(p, r) == pc[p] = "run" /\ rev[p] = r /\ next[p] > 1

Possible(s) == s.adds \cap schema = {} /\ s.drops \cup s.needs \subseteq schema

\* The process goes on at revision r, or has come to the head.
GoesTo(p, r) ==
    /\ pc' = [pc EXCEPT ![p] = IF r > Latest THEN "serve" ELSE "run"]
    /\ rev' = [rev EXCEPT ![p] = r]
    /\ next' = [next EXCEPT ![p] = 1]

Ends(p) ==
    /\ pc' = [pc EXCEPT ![p] = "dead"]
    /\ plan' = [plan EXCEPT ![p] = None]

\* The version is read once, before the first revision.  The version table is
\* taken to be there: where two processes create it at once, the loser fails
\* before its first statement, as if it had not started.
initialize_db(p) ==
    /\ pc[p] \in {"new", "dead"}
    /\ GoesTo(p, version + 1)
    /\ UNCHANGED <<schema, version, plan, ids, overlap, killed>>

Execute(p) ==
    /\ Running(p) /\ Possible(Statement(p))
    /\ schema' = (schema \ Statement(p).drops) \cup Statement(p).adds
    /\ next' = [next EXCEPT ![p] = @ + 1]
    /\ plan' = IF Statement(p).rows = "collect" /\ ids # None
               THEN [plan EXCEPT ![p] = Collected(p)] ELSE plan
    /\ ids' = IF Statement(p).rows = "replace" /\ plan[p] # None THEN Replaced(p) ELSE ids
    /\ overlap' = (overlap \/ (rev[p] = Repeatable /\ \E q \in Procs \ {p} : Inside(q, Repeatable)))
    /\ UNCHANGED <<version, pc, rev, killed>>

\* Mutant: the error is caught, and the process serves.
StatementFails_caught(p) ==
    /\ Running(p) /\ ~ Possible(Statement(p))
    /\ pc' = [pc EXCEPT ![p] = "serve"]
    /\ plan' = [plan EXCEPT ![p] = None]
    /\ UNCHANGED <<schema, version, rev, next, ids, overlap, killed>>

\* Mutant: a process that fails takes its revision back.
StatementFails_undone(p) ==
    /\ Running(p) /\ ~ Possible(Statement(p))
    /\ Ends(p)
    /\ schema' = schema \ Adds(rev[p])
    /\ UNCHANGED <<version, rev, next, ids, overlap, killed>>

\* The object exists already, or does not exist.
StatementFails(p) ==
    /\ Running(p) /\ ~ Possible(Statement(p))
    /\ Ends(p)
    /\ UNCHANGED <<schema, version, rev, next, ids, overlap, killed>>

\* Mutant: the version table is not expected to be at the revision before.
update_version_unchecked(p) ==
    /\ pc[p] = "run" /\ ~ Running(p)
    /\ version' = version + 1
    /\ GoesTo(p, rev[p] + 1)
    /\ plan' = [plan EXCEPT ![p] = None]
    /\ UNCHANGED <<schema, ids, overlap, killed>>

\* Mutant: the UPDATE of the version table is never committed.
update_version_lost(p) ==
    /\ pc[p] = "run" /\ ~ Running(p) /\ version = rev[p] - 1
    /\ GoesTo(p, rev[p] + 1)
    /\ plan' = [plan EXCEPT ![p] = None]
    /\ UNCHANGED <<schema, version, ids, overlap, killed>>

\* UPDATE alembic_version ... WHERE version_num = the revision before: one row.
update_version(p) ==
    /\ pc[p] = "run" /\ ~ Running(p) /\ version = rev[p] - 1
    /\ version' = rev[p]
    /\ GoesTo(p, rev[p] + 1)
    /\ plan' = [plan EXCEPT ![p] = None]
    /\ UNCHANGED <<schema, ids, overlap, killed>>

\* "Online migration expected to match one row"
VersionFails(p) ==
    /\ pc[p] = "run" /\ ~ Running(p) /\ version # rev[p] - 1
    /\ Ends(p)
    /\ UNCHANGED <<schema, version, rev, next, ids, overlap, killed>>

\* The process is killed, or its connection is lost, between two statements;
\* or it stops after serving.
Kill(p) ==
    /\ pc[p] \in {"run", "serve"}
    /\ Ends(p)
    /\ killed' = (killed \/ pc[p] = "run")
    /\ UNCHANGED <<schema, version, rev, next, ids, overlap>>

-----------------------------------------------------------------------------
\* The rows of a database at revision k: ULIDs from the Repeatable one on, and
\* before the columns that one needs there are no uuids to follow.
Rows(k) == LET old == IF k < Repeatable THEN Uuid4 ELSE "ulid"
           IN  [billing |-> old, bill |-> old, path |-> <<old, old>>]

\* A new database, or one that an earlier release has left.
Init ==
    /\ version \in 0..Latest
    /\ schema = Whole(version)
    /\ ids \in {None} \cup (IF version > 0 /\ Chain[Repeatable][1].needs \subseteq schema
                           THEN {Rows(version)} ELSE {})
    /\ pc = [p \in Procs |-> "new"]
    /\ rev = [p \in Procs |-> 1]
    /\ next = [p \in Procs |-> 1]
    /\ plan = [p \in Procs |-> None]
    /\ overlap = FALSE
    /\ killed = FALSE

Next ==
    \E p \in Procs :
        \/ initialize_db(p) \/ Execute(p) \/ StatementFails(p)
        \/ update_version(p) \/ VersionFails(p) \/ Kill(p)

Spec == Init /\ [][Next]_vars

\* A process that has been started goes on; nothing starts it again.
Fairness == \A p \in Procs : WF_vars(/\ pc[p] \in {"new", "run"}
                                     /\ \/ initialize_db(p) \/ Execute(p) \/ StatementFails(p)
                                        \/ update_version(p) \/ VersionFails(p))

FairSpec == Spec /\ Fairness

-----------------------------------------------------------------------------
(* Properties.                                                              *)

Uuids == Procs \cup {Uuid4, "ulid"}

TypeOK ==
    /\ version \in 0..Latest
    /\ schema \subseteq UNION {Adds(r) : r \in Revisions}
    /\ pc \in [Procs -> {"new", "dead", "run", "serve"}]
    /\ rev \in [Procs -> 1..Latest + 1]
    /\ next \in [Procs -> Nat \ {0}]
    /\ \A p \in Procs : pc[p] = "run" => rev[p] <= Latest /\ next[p] <= Len(Chain[rev[p]]) + 1
    /\ ids \in [billing: Uuids, bill: Uuids, path: Uuids \X Uuids] \cup {None}
    /\ plan \in [Procs -> [billing: BOOLEAN, bill: BOOLEAN, path: Uuids \X Uuids] \cup {None}]
    /\ overlap \in BOOLEAN /\ killed \in BOOLEAN

\* The first statement of a revision works as a lock: two processes that start
\* together never both run the rest of one revision, nor does one run a
\* revision that the version table has passed, except the Repeatable one and
\* those of which a later revision drops something.
OneAtATime ==
    \A p \in Procs, r \in Locking :
        Inside(p, r) => /\ version = r - 1
                        /\ \A q \in Procs \ {p} : ~ Inside(q, r)

\* A process serves on everything the chain has added, whoever migrated the
\* database and whoever was killed meanwhile; all there may be beyond it is
\* what a stalled process has added again.
ServesOnWholeSchema ==
    \A p \in Procs : pc[p] = "serve" =>
        Whole(Latest) \subseteq schema /\ schema \subseteq Whole(Latest) \cup Leftovers

\* An error, unlike a kill, never leaves a revision half done: the process that
\* fails is one that lost a race, and the one that won goes on.
ErrorsLeaveNoHalf ==
    \/ killed
    \/ schema \ Leftovers = Whole(version) \ Leftovers
    \/ \E p \in Procs : Inside(p, version + 1)

\* "Collect bills that still have UUID4 values (before any updates)": after the
\* revision the path of a PDF names the billing and the bill by their new
\* uuids, also if it was killed and run again, unless two processes ran it at
\* the same time.
PathsFollowUuids ==
    (ids # None /\ version >= Repeatable /\ ~ overlap) => ids.path = <<ids.billing, ids.bill>>

\* Of the processes that are started together one comes to serve, if none is
\* killed: losing a race to every other one never stops the migration.
SomeoneServes == <>(killed \/ \E p \in Procs : pc[p] = "serve")
=============================================================================
