------------------------------- MODULE MCTables -------------------------------
(***************************************************************************)
(* What several processes, and the calls of one, do to a tenant's database *)
(* between each other's statements, each table as a small instance: the    *)
(* job queue, the receipts and numbers of function calls, the rate         *)
(* counters, the schema, and the way to the database itself, which comes   *)
(* and goes (Tenants).  They share no variable, so a behaviour exercises   *)
(* one of them, the part it starts with, and leaves the others as they     *)
(* begin.  The model values are shared, so that one symmetry serves every  *)
(* part.                                                                   *)
(***************************************************************************)
EXTENDS JobQueue, FnCall, RateLimit, Migration, Tenants, TLC

CONSTANTS
    x1, x2, y1, y2,                         \* interchangeable
    key, empty, producer, rescuer,          \* the queue's
    txKey, plainKey,                              \* idempotency keys
    e1, e2, e3,                             \* adapters
    d1, d2, t1, t2, colA, colB, ix, k1, k2  \* deployments, and what their schemas name

VARIABLE part

PairX == {x1, x2}
PairY == {y1, y2}
Symmetry == Permutations(PairX) \union Permutations(PairY)

MCKeys == {key, empty}
MCEmptyKeys == {empty}
MCProducers == {producer}
MCRescuers == {rescuer}
MCQueues == {"default"}
MCPriorities == {0}
MCMaxAttempts == {1}

MCIdemKeys == {txKey, plainKey}
MCTxKeys == {txKey}

\* Two deployments share a datastore.  The first one's releases add an index, move it to
\* a column of its own, and drop the first column; the second one's make that column
\* required, add a table, and declare the table of the first as another kind.
MCTables == {t1, t2}
MCColumns == {colA, colB}
MCIndexes == {ix}
MCKinds == {k1, k2}
MCDeployments == {d1, d2}
Columned(x, y) == (colA :> x) @@ (colB :> y)
Declared(kind, x, y, on) ==
    [kind |-> kind, shape |-> [columns |-> Columned(x, y), indexes |-> (ix :> on)]]
One(def) == (t1 :> def) @@ (t2 :> NoTable)
Both(def) == (t1 :> def) @@ (t2 :> def)
Small == Declared(k1, "optional", "absent", {})
MCNameRank == (d1 :> 1) @@ (d2 :> 2)
MCReleases ==
    (d1 :> { One(Small), One(Declared(k1, "optional", "optional", {colA})),
             One(Declared(k1, "absent", "optional", {colB})) }) @@
    (d2 :> { One(Declared(k1, "required", "absent", {})), Both(Small),
             One(Declared(k2, "optional", "absent", {})) })

MCAdapters == {e1, e2, e3}

MCInit ==
    /\ part \in {"queue", "call", "rate", "schema", "tenants"}
    /\ Init /\ CallInit /\ RtInit /\ MgInit /\ TnInit

\* Nothing changes outside the part.
Only(p) ==
    /\ part = p /\ UNCHANGED part
    /\ p # "queue" => UNCHANGED queueVars
    /\ p # "call" => UNCHANGED callVars
    /\ p # "rate" => UNCHANGED rtVars
    /\ p # "schema" => UNCHANGED mgVars
    /\ p # "tenants" => UNCHANGED tnVars

MCNext ==
    \/ Only("queue") /\ Next
    \/ Only("call") /\ CallNext
    \/ Only("rate") /\ RtNext
    \/ Only("schema") /\ MgNext
    \/ Only("tenants") /\ TnNext

MCSpec == MCInit /\ [][MCNext]_<<part, queueVars, callVars, rtVars, mgVars, tnVars>>
=============================================================================
