----------------------------- MODULE SqliteQueue -----------------------------
(***************************************************************************)
(* The operations of packages/ketjs/src/data/sqlite.ts over its one        *)
(* connection: the root adapter queues them behind each other (serialize), *)
(* a transaction holds its place in the queue while its body awaits, and   *)
(* the adapter its body is given goes past the queue.  Any code may call   *)
(* the root adapter at any time, the body of a transaction and what it     *)
(* left running too; and a scoped adapter may be used after its end.       *)
(*                                                                         *)
(* A statement writes one row.  The connection is modelled as SQLite's: a  *)
(* statement joins the transaction that is open on it, whoever sent it.    *)
(***************************************************************************)
EXTENDS Naturals, Sequences, FiniteSets

CONSTANTS
    SqOps,          \* the operations that are called
    SqScoped,       \* bound: the statements of a transaction's body
    NoOp

ASSUME SqliteAssumption == SqScoped \in Nat /\ NoOp \notin SqOps

VARIABLES
    sqOp,           \* the operations
    sqQueue,        \* those that wait in operationTail, the next first
    sqRunning,      \* the one whose turn it is
    sqConn,         \* the connection: open, in a transaction
    sqDb,           \* the rows that are committed
    sqUncommitted   \* those of the transaction that is open on the connection

sqVars == <<sqOp, sqQueue, sqRunning, sqConn, sqDb, sqUncommitted>>

\* inside: the transaction in whose asynchronous context it was called.
\* body is where its body is; active: marker.active, and that of its scoped adapter.
Op == [kind : {"none", "write", "tx", "close"}, inside : SqOps \union {NoOp},
       at : {"new", "queued", "body", "done", "failed", "refused"}, active : BOOLEAN, wrote : 0 .. SqScoped]
NewOp == [kind |-> "none", inside |-> NoOp, at |-> "new", active |-> FALSE, wrote |-> 0]

\* The n-th row of an operation.
SqRow == SqOps \X (0 .. SqScoped)
RowsOf(o) == { r \in SqRow : r[1] = o }

SqInit ==
    /\ sqOp = [o \in SqOps |-> NewOp]
    /\ sqQueue = <<>> /\ sqRunning = NoOp
    /\ sqConn = [open |-> TRUE, inTx |-> FALSE]
    /\ sqDb = {} /\ sqUncommitted = {}

-----------------------------------------------------------------------------

\* transactionContext.getStore()?.active
Misused(inside) == inside # NoOp /\ sqOp[inside].active

\* serialize(): called in the context of a transaction's body, or of none.
SqCall(o, kind, inside) ==
    /\ sqOp[o] = NewOp
    /\ inside # NoOp => sqOp[inside].kind = "tx" /\ sqOp[inside].at \in {"body", "done", "failed"}
    /\ sqOp' = [sqOp EXCEPT ![o] = [NewOp EXCEPT !.kind = kind, !.inside = inside,
                                    !.at = IF Misused(inside) THEN "refused" ELSE "queued"]]
    /\ sqQueue' = IF Misused(inside) THEN sqQueue ELSE Append(sqQueue, o)
    /\ UNCHANGED <<sqRunning, sqConn, sqDb, sqUncommitted>>

\* Mutant: nothing waits for the body of a transaction.
TurnOfAny == TRUE

\* The promise of the operation before has settled.
TurnIsFree == sqRunning = NoOp

\* A statement on the connection: it joins the transaction that is open there.
Executes(row) ==
    IF sqConn.inTx THEN sqUncommitted' = sqUncommitted \union {row} /\ UNCHANGED sqDb
    ELSE sqDb' = sqDb \union {row} /\ UNCHANGED sqUncommitted

NextIs(o) == TurnIsFree /\ sqQueue # <<>> /\ o = Head(sqQueue) /\ sqQueue' = Tail(sqQueue)

OpSettles(o, outcome) == sqOp' = [sqOp EXCEPT ![o].at = outcome, ![o].active = FALSE]

\* exec, all and run: synchronous, once it is their turn.  A statement may fail.
SqStatement(o) ==
    /\ NextIs(o) /\ sqOp[o].kind = "write"
    /\ \/ sqConn.open /\ Executes(<<o, 0>>) /\ OpSettles(o, "done")
       \/ OpSettles(o, "failed") /\ UNCHANGED <<sqDb, sqUncommitted>>
    /\ UNCHANGED <<sqRunning, sqConn>>

SqClose(o) ==
    /\ NextIs(o) /\ sqOp[o].kind = "close"
    /\ sqConn' = [open |-> FALSE, inTx |-> FALSE]
    /\ sqUncommitted' = {}
    /\ OpSettles(o, "done")
    /\ UNCHANGED <<sqRunning, sqDb>>

\* tx(): BEGIN, which fails on a connection that is closed or inside a transaction.
SqBegin(o) ==
    /\ NextIs(o) /\ sqOp[o].kind = "tx"
    /\ \/ /\ sqConn.open /\ ~sqConn.inTx
          /\ sqConn' = [sqConn EXCEPT !.inTx = TRUE]
          /\ sqRunning' = o
          /\ sqOp' = [sqOp EXCEPT ![o].at = "body", ![o].active = TRUE]
       \/ OpSettles(o, "failed") /\ UNCHANGED <<sqRunning, sqConn>>
    /\ UNCHANGED <<sqDb, sqUncommitted>>

\* within(): the scoped adapter, from the body or from what kept hold of it.
ScopeIsLive(o) == sqOp[o].active

SqScopedStatement(o) ==
    /\ sqOp[o].kind = "tx" /\ ScopeIsLive(o) /\ sqConn.open
    /\ sqOp[o].wrote < SqScoped
    /\ sqOp' = [sqOp EXCEPT ![o].wrote = @ + 1]
    /\ Executes(<<o, sqOp[o].wrote + 1>>)
    /\ UNCHANGED <<sqQueue, sqRunning, sqConn>>

\* What the body awaits of the root adapter itself: it goes on once that was answered.
Awaits(o) == \E p \in SqOps : sqOp[p].inside = o /\ sqOp[p].at = "queued"

TxEnds(o, outcome) ==
    /\ OpSettles(o, outcome)
    /\ sqRunning' = NoOp
    /\ sqConn' = [sqConn EXCEPT !.inTx = FALSE]
    /\ sqUncommitted' = {}
    /\ UNCHANGED sqQueue

\* The body returned.
SqCommit(o) ==
    /\ sqOp[o].at = "body" /\ ~Awaits(o)
    /\ sqDb' = sqDb \union sqUncommitted
    /\ TxEnds(o, "done")

\* The body threw, or COMMIT did.
SqRollback(o) ==
    /\ sqOp[o].at = "body" /\ ~Awaits(o)
    /\ UNCHANGED sqDb
    /\ TxEnds(o, "failed")

SqNext ==
    \E o \in SqOps :
        \/ \E inside \in SqOps \union {NoOp} : \E kind \in {"write", "tx", "close"} : SqCall(o, kind, inside)
        \/ SqStatement(o) \/ SqClose(o) \/ SqBegin(o) \/ SqScopedStatement(o) \/ SqCommit(o) \/ SqRollback(o)

SqSpec == SqInit /\ [][SqNext]_sqVars

\* The queue goes on, and a body that waits for nothing returns or throws.
SqFairness ==
    /\ WF_sqVars(\E o \in SqOps : SqStatement(o) \/ SqClose(o) \/ SqBegin(o))
    /\ WF_sqVars(\E o \in SqOps : SqCommit(o) \/ SqRollback(o))

SqFairSpec == SqSpec /\ SqFairness

-----------------------------------------------------------------------------
SqTypeOK ==
    /\ sqOp \in [SqOps -> Op]
    /\ sqQueue \in Seq(SqOps)
    /\ sqRunning \in SqOps \union {NoOp}
    /\ sqConn \in [open : BOOLEAN, inTx : BOOLEAN]
    /\ sqDb \subseteq SqRow /\ sqUncommitted \subseteq SqRow

\* What an operation answers is what became of its rows, however calls interleave with the awaits of a
\* transaction's body: done is committed, all of it; failed, refused or still to come is not there;
\* and what is uncommitted is of the one transaction whose turn it is.
SqAllOrNothing ==
    /\ \A o \in SqOps :
         LET rows == IF sqOp[o].kind = "tx" THEN { <<o, i>> : i \in 1 .. sqOp[o].wrote }
                     ELSE IF sqOp[o].kind = "write" THEN { <<o, 0>> } ELSE {}
         IN sqDb \intersect RowsOf(o) = (IF sqOp[o].at = "done" THEN rows ELSE {})
    /\ sqUncommitted # {} => sqRunning # NoOp /\ sqUncommitted \subseteq RowsOf(sqRunning)

\* Every call is answered, also one made inside a transaction, which would wait behind itself in the
\* queue if it were not refused: the calls are bounded here, so that the queue is empty again and again.
SqAnswers == []<>(\A o \in SqOps : sqOp[o].at # "queued")
=============================================================================
