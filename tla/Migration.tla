------------------------------ MODULE Migration ------------------------------
(***************************************************************************)
(* Schema migrations of one PostgreSQL database that several deployments   *)
(* share: migrateOne and confirmManualMigration of data/fleet.ts over      *)
(* planMigration and datastoreSchema of data/migrate.ts.  Replicas of any  *)
(* release migrate when they boot, and an operator runs migrations by      *)
(* hand; a transaction may be rolled back at any point.                    *)
(*                                                                         *)
(* A table has a kind (its model and the scope of it), columns that are    *)
(* optional or required, and indexes over some of its columns.  A change   *)
(* of a column's type is planned as one of its nullability is.             *)
(***************************************************************************)
EXTENDS Naturals, FiniteSets

CONSTANTS
    Tables, Columns, Indexes,
    Kinds,          \* the models, with their scope
    Deployments,    \* the deployments that share the database
    NameRank,       \* how their names sort
    Releases,       \* the schemas each deployment's manifests ask for
    Migrators,      \* the transactions there can be at a time
    NoTable, NoSchema, NoMigrator

Nullability == {"optional", "required"}
Shape == [columns : [Columns -> Nullability \union {"absent"}], indexes : [Indexes -> SUBSET Columns]]
Definition == [kind : Kinds, shape : Shape]
Schema == [Tables -> Definition \union {NoTable}]
Physical == [Tables -> Shape \union {NoTable}]

Present(shape) == { c \in Columns : shape.columns[c] # "absent" }

\* An index over no column is one there is not.
Sound(schema) ==
    \A t \in Tables : schema[t] # NoTable =>
        \A i \in Indexes : schema[t].shape.indexes[i] \subseteq Present(schema[t].shape)

LastByName(from) == CHOOSE e \in from : \A f \in from : NameRank[f] <= NameRank[e]

ASSUME MigrationAssumption ==
    /\ Releases \in [Deployments -> SUBSET Schema]
    /\ \A d \in Deployments : \A s \in Releases[d] : Sound(s)
    /\ \A from \in SUBSET Deployments : from # {} =>
         \E e \in from : \A f \in from : NameRank[f] <= NameRank[e]
    /\ NoTable \notin Definition \union Shape /\ NoSchema \notin Schema /\ NoMigrator \notin Migrators

VARIABLES
    mgPhysical,     \* the tables there are
    mgMarker,       \* ket_migration
    mgRecorded,     \* ket_migration_deployment
    mgLock,         \* who holds the advisory lock
    mgTx,           \* the transactions
    mgBroken        \* a statement of a plan failed for what the plan is

mgVars == <<mgPhysical, mgMarker, mgRecorded, mgLock, mgTx, mgBroken>>

NothingTouched == [t \in {} |-> NoTable]

\* work: the tables this transaction has changed, which it has locked; target: the
\* schema its marker will say; left: the statements of its plan it has not executed.
NoTx == [step |-> "none", work |-> NothingTouched]
BeginTx(d, own, allow, step) ==
    [step |-> step, deployment |-> d, own |-> own, allow |-> allow,
     target |-> NoSchema, left |-> {}, work |-> NothingTouched]

MgInit ==
    /\ mgPhysical = [t \in Tables |-> NoTable]
    /\ mgMarker = NoSchema
    /\ mgRecorded = [d \in Deployments |-> NoSchema]
    /\ mgLock = NoMigrator
    /\ mgTx = [m \in Migrators |-> NoTx]
    /\ mgBroken = FALSE

-----------------------------------------------------------------------------
(* datastoreSchema                                                         *)

\* Two deployments have different models under one name, or different tenant isolation.
Clash(s, own) == \E t \in Tables : s[t] # NoTable /\ own[t] # NoTable /\ s[t].kind # own[t].kind

\* asked: what each deployment has recorded, or is about to.
WithTable(asked, t) == { e \in Deployments : asked[e] # NoSchema /\ asked[e][t] # NoTable }
WithColumn(asked, t, c) == { e \in WithTable(asked, t) : c \in Present(asked[e][t].shape) }
WithIndex(asked, t, i) == { e \in WithTable(asked, t) : asked[e][t].shape.indexes[i] # {} }

\* Where definitions overlap the deployment that migrates wins, and before it the last by name.
Wins(d, from) == IF d \in from THEN d ELSE LastByName(from)

MergedShape(asked, d, t) ==
    [columns |-> [c \in Columns |->
        LET from == WithColumn(asked, t, c) IN
        IF from = {} THEN "absent" ELSE asked[Wins(d, from)][t].shape.columns[c]],
     indexes |-> [i \in Indexes |->
        LET from == WithIndex(asked, t, i) IN
        IF from = {} THEN {} ELSE asked[Wins(d, from)][t].shape.indexes[i]]]

\* What the database has to hold for our own release and for the others.
Target(own, d) ==
    LET asked == [mgRecorded EXCEPT ![d] = own] IN
    [t \in Tables |->
        IF WithTable(asked, t) = {} THEN NoTable
        ELSE [kind |-> asked[Wins(d, WithTable(asked, t))][t].kind, shape |-> MergedShape(asked, d, t)]]

Refused(own, d) ==
    \E e \in Deployments \ {d} : mgRecorded[e] # NoSchema /\ Clash(mgRecorded[e], own)

-----------------------------------------------------------------------------
(* planMigration: the statements that lead from one shape of a table to another. *)

CreatesTable(t, def) == [op |-> "create", table |-> t, def |-> def]
DropsTable(t) == [op |-> "drop", table |-> t]
AddsColumn(t, c, null) == [op |-> "addColumn", table |-> t, column |-> c, null |-> null]
AltersColumn(t, c, null) == [op |-> "alterColumn", table |-> t, column |-> c, null |-> null]
DropsColumn(t, c) == [op |-> "dropColumn", table |-> t, column |-> c]
CreatesIndex(t, i, on) == [op |-> "createIndex", table |-> t, index |-> i, on |-> on]
DropsIndex(t, i) == [op |-> "dropIndex", table |-> t, index |-> i]

Before(marker, t) == IF marker = NoSchema \/ marker[t] = NoTable THEN NoTable ELSE marker[t].shape
After(target, t) == IF target[t] = NoTable THEN NoTable ELSE target[t].shape

OpsOfTable(t, a, b) ==
    IF b = NoTable THEN IF a = NoTable THEN {} ELSE {DropsTable(t)}
    ELSE LET was == IF a = NoTable THEN [columns |-> b.columns, indexes |-> [i \in Indexes |-> {}]] ELSE a IN
         (IF a = NoTable THEN {CreatesTable(t, [b EXCEPT !.indexes = was.indexes])} ELSE {})
         \union { AddsColumn(t, c, b.columns[c]) : c \in Present(b) \ Present(was) }
         \union { AltersColumn(t, c, b.columns[c]) :
                    c \in { k \in Present(b) \intersect Present(was) : b.columns[k] # was.columns[k] } }
         \union { DropsColumn(t, c) : c \in Present(was) \ Present(b) }
         \union { DropsIndex(t, i) : i \in { k \in Indexes : was.indexes[k] \notin {{}, b.indexes[k]} } }
         \union { CreatesIndex(t, i, b.indexes[i]) :
                    i \in { k \in Indexes : b.indexes[k] \notin {{}, was.indexes[k]} } }

Difference(marker, target) == UNION { OpsOfTable(t, Before(marker, t), After(target, t)) : t \in Tables }

Manual(op) == op.op = "alterColumn" \/ (op.op = "addColumn" /\ op.null = "required")
Destructive(op) == op.op \in {"drop", "dropColumn", "dropIndex"}

\* A plan goes table by table, each in this order, and then drops tables.
PhaseOf(op) ==
    CASE op.op \in {"create", "addColumn", "alterColumn"} -> 1
      [] op.op = "dropIndex" -> 2 [] op.op = "dropColumn" -> 3
      [] op.op = "createIndex" -> 4 [] op.op = "drop" -> 5

GoesBefore(o, op) == (o.table = op.table \/ op.op = "drop") /\ PhaseOf(o) < PhaseOf(op)

-----------------------------------------------------------------------------
(* The database: what a statement does to a table, and when it fails.      *)

Fits(op, shape) ==
    CASE op.op = "create"      -> shape = NoTable
      [] op.op = "drop"        -> shape # NoTable
      [] op.op = "addColumn"   -> shape # NoTable /\ op.column \notin Present(shape)
      [] op.op \in {"dropColumn", "alterColumn"} -> shape # NoTable /\ op.column \in Present(shape)
      [] op.op = "createIndex" -> shape # NoTable /\ shape.indexes[op.index] = {} /\ op.on \subseteq Present(shape)
      [] op.op = "dropIndex"   -> shape # NoTable /\ shape.indexes[op.index] # {}

\* Dropping a column drops the indexes over it.
Done(op, shape) ==
    CASE op.op = "create" -> op.def
      [] op.op = "drop"   -> NoTable
      [] op.op \in {"addColumn", "alterColumn"} -> [shape EXCEPT !.columns[op.column] = op.null]
      [] op.op = "dropColumn" ->
            [columns |-> [shape.columns EXCEPT ![op.column] = "absent"],
             indexes |-> [i \in Indexes |-> IF op.column \in shape.indexes[i] THEN {} ELSE shape.indexes[i]]]
      [] op.op = "createIndex" -> [shape EXCEPT !.indexes[op.index] = op.on]
      [] op.op = "dropIndex"   -> [shape EXCEPT !.indexes[op.index] = {}]

View(m, t) == IF t \in DOMAIN mgTx[m].work THEN mgTx[m].work[t] ELSE mgPhysical[t]

\* A table another transaction has changed is locked until that one ends.
Unlocked(m, t) == \A n \in Migrators \ {m} : t \notin DOMAIN mgTx[n].work

Worked(m, op) ==
    [t \in DOMAIN mgTx[m].work \union {op.table} |-> IF t = op.table THEN Done(op, View(m, t)) ELSE View(m, t)]

-----------------------------------------------------------------------------
(* Transactions                                                            *)

AtStep(m, step) == mgTx[m].step = step
TxGoes(m, tx) == mgTx' = [mgTx EXCEPT ![m] = tx]

\* ROLLBACK, which gives up the lock.
RollsBack(m) ==
    /\ TxGoes(m, NoTx)
    /\ mgLock' = IF mgLock = m THEN NoMigrator ELSE mgLock

\* migrateOne: a replica of some release boots, or the command line migrates.
MigrateOne(m, d, own, allow) ==
    /\ mgTx[m] = NoTx
    /\ TxGoes(m, BeginTx(d, own, allow, "lock"))
    /\ UNCHANGED <<mgPhysical, mgMarker, mgRecorded, mgLock, mgBroken>>

\* Mutant: the lock is not waited for.
LockOrNot == TRUE

LockIsFree == mgLock = NoMigrator

\* pg_advisory_xact_lock
TakeLock(m) ==
    /\ mgTx[m].step \in {"lock", "handLock"}
    /\ LockIsFree
    /\ mgLock' = m
    /\ TxGoes(m, [mgTx[m] EXCEPT !.step = IF @ = "lock" THEN "plan" ELSE "confirm"])
    /\ UNCHANGED <<mgPhysical, mgMarker, mgRecorded, mgBroken>>

\* readApplied, targetFor and planMigration; what throws rolls back.
PlanIt(m) ==
    /\ AtStep(m, "plan")
    /\ LET tx == mgTx[m]
           target == Target(tx.own, tx.deployment)
           ops == Difference(mgMarker, target)
       IN IF \/ Refused(tx.own, tx.deployment)
             \/ \E o \in ops : Manual(o)
             \/ ~tx.allow /\ \E o \in ops : Destructive(o)
         THEN RollsBack(m)
         ELSE /\ TxGoes(m, [tx EXCEPT !.step = "exec", !.target = target, !.left = ops])
              /\ UNCHANGED mgLock
    /\ UNCHANGED <<mgPhysical, mgMarker, mgRecorded, mgBroken>>

\* The next statement of the plan is executed, and fails when it does not fit.
Exec(m) ==
    /\ AtStep(m, "exec")
    /\ \E op \in mgTx[m].left :
        /\ ~ \E o \in mgTx[m].left : GoesBefore(o, op)
        /\ Unlocked(m, op.table)
        /\ IF Fits(op, View(m, op.table))
           THEN /\ TxGoes(m, [mgTx[m] EXCEPT !.left = @ \ {op}, !.work = Worked(m, op)])
                /\ UNCHANGED <<mgLock, mgBroken>>
           ELSE RollsBack(m) /\ mgBroken' = TRUE
    /\ UNCHANGED <<mgPhysical, mgMarker, mgRecorded>>

\* writeApplied, writeDeployment, COMMIT: the marker is one unit with the statements.
Commit(m) ==
    /\ AtStep(m, "exec") /\ mgTx[m].left = {}
    /\ mgPhysical' = [t \in Tables |-> View(m, t)]
    /\ mgMarker' = mgTx[m].target
    /\ mgRecorded' = [mgRecorded EXCEPT ![mgTx[m].deployment] = mgTx[m].own]
    /\ RollsBack(m)
    /\ UNCHANGED mgBroken

\* A statement fails, the process dies, or the database breaks a deadlock.
Abort(m) ==
    /\ mgTx[m] # NoTx
    /\ RollsBack(m)
    /\ UNCHANGED <<mgPhysical, mgMarker, mgRecorded, mgBroken>>

-----------------------------------------------------------------------------
(* confirmManualMigration, in the transaction of the operator's statements. *)

BeginByHand(m, d, own) ==
    /\ mgTx[m] = NoTx /\ mgMarker # NoSchema
    /\ TxGoes(m, BeginTx(d, own, TRUE, "byHand"))
    /\ UNCHANGED <<mgPhysical, mgMarker, mgRecorded, mgLock, mgBroken>>

\* Something the target differs in, which may be done wrong, or left out.
ByHand(m) ==
    /\ AtStep(m, "byHand")
    /\ \E o \in Difference(mgMarker, Target(mgTx[m].own, mgTx[m].deployment)), null \in Nullability :
         LET op == IF o.op = "addColumn" THEN [o EXCEPT !.null = null] ELSE o IN
         /\ Unlocked(m, op.table) /\ Fits(op, View(m, op.table))
         /\ TxGoes(m, [mgTx[m] EXCEPT !.work = Worked(m, op)])
    /\ UNCHANGED <<mgPhysical, mgMarker, mgRecorded, mgLock, mgBroken>>

AsksToConfirm(m) ==
    /\ AtStep(m, "byHand")
    /\ TxGoes(m, [mgTx[m] EXCEPT !.step = "handLock"])
    /\ UNCHANGED <<mgPhysical, mgMarker, mgRecorded, mgLock, mgBroken>>

\* physicalSchemaIssues: the tables and columns of the marker and of the target.
Issues(m, marker, target) ==
    \E t \in Tables :
        LET was == Before(marker, t)
            wanted == After(target, t)
            there == View(m, t)
        IN \/ wanted = NoTable /\ was # NoTable /\ there # NoTable
           \/ wanted # NoTable /\ there = NoTable
           \/ /\ wanted # NoTable /\ there # NoTable
              /\ \/ \E c \in Present(wanted) : there.columns[c] # wanted.columns[c]
                 \/ was # NoTable /\ \E c \in Present(was) \ Present(wanted) : c \in Present(there)
                 \/ \E i \in Indexes : wanted.indexes[i] # {} /\ there.indexes[i] # wanted.indexes[i]
                 \/ was # NoTable /\ \E i \in Indexes :
                        was.indexes[i] # {} /\ wanted.indexes[i] = {} /\ there.indexes[i] # {}

\* Only a difference that asks for a migration by hand is confirmed.
Confirm(m) ==
    /\ AtStep(m, "confirm")
    /\ LET tx == mgTx[m]
           target == Target(tx.own, tx.deployment)
       IN IF \/ Refused(tx.own, tx.deployment)
             \/ ~ \E o \in Difference(mgMarker, target) : Manual(o)
             \/ Issues(m, mgMarker, target)
         THEN RollsBack(m)
         ELSE /\ TxGoes(m, [tx EXCEPT !.step = "exec", !.target = target])
              /\ UNCHANGED mgLock
    /\ UNCHANGED <<mgPhysical, mgMarker, mgRecorded, mgBroken>>

MgNext ==
    \E m \in Migrators :
        \/ \E d \in Deployments : \E own \in Releases[d] :
             (\E allow \in BOOLEAN : MigrateOne(m, d, own, allow)) \/ BeginByHand(m, d, own)
        \/ TakeLock(m) \/ PlanIt(m) \/ Exec(m) \/ Commit(m) \/ Abort(m)
        \/ ByHand(m) \/ AsksToConfirm(m) \/ Confirm(m)

MgSpec == MgInit /\ [][MgNext]_mgVars

-----------------------------------------------------------------------------
MgTypeOK ==
    /\ mgPhysical \in Physical
    /\ mgMarker \in Schema \union {NoSchema}
    /\ mgRecorded \in [Deployments -> Schema \union {NoSchema}]
    /\ mgLock \in Migrators \union {NoMigrator}
    /\ mgBroken \in BOOLEAN

\* Whatever replicas, releases and operators migrate at once and wherever they fail: the marker
\* says what the database holds; what is recorded for a deployment is still there, and the
\* recorded deployments agree on every table they share; and no plan has a statement that fails.
MigrationsAreWhole ==
    /\ \A t \in Tables : mgPhysical[t] = Before(mgMarker, t)
    /\ \A d \in Deployments : mgRecorded[d] # NoSchema =>
         /\ \A t \in Tables : mgRecorded[d][t] # NoTable =>
              /\ mgPhysical[t] # NoTable
              /\ Present(mgRecorded[d][t].shape) \subseteq Present(mgPhysical[t])
         /\ \A e \in Deployments : mgRecorded[e] # NoSchema => ~ Clash(mgRecorded[d], mgRecorded[e])
    /\ ~ mgBroken
=============================================================================
