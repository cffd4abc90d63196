------------------------------ MODULE Context ------------------------------
(***************************************************************************)
(* The context a server function or a job is given (server/ctx.ts), as     *)
(* callFn hands it out (server/fn.ts): every access a handler makes to     *)
(* rows, jobs and notifications goes through it, and it is where the scope *)
(* of the request, the declared effects, a dry run and a transaction take  *)
(* hold.  A handler is arbitrary code, so any operation may come next.     *)
(*                                                                         *)
(* An operation that throws before it reaches the database changes         *)
(* nothing, and the handler may go on or fail; such an operation is not    *)
(* enabled.  Between a reference's check and the statement it guards other *)
(* calls run.  A transaction sees what is committed and what it changed    *)
(* itself (read committed); inside its body the handler uses the context   *)
(* the body is given.  Receipts and numbers are in FnCall.                 *)
(***************************************************************************)
EXTENDS Integers, Sequences, FiniteSets

CONSTANTS
    Companies, Branches,
    ModelDefs,    \* model -> [scope, append, target, fields it refers with]
    Ids, ModelOf, \* the rows there can be, and the model of each
    NameOf,       \* the value of its column id, told by one of the rows that can have it
    Fns,          \* function or job -> its declaration, and what its handler uses beside rows
    Requests,     \* what requests carry: a function, a scope, the functions they may call, dry or not
    NoOne,        \* null, and no row
    Erased,       \* the row is deleted; a row inserted under its id afterwards is another
    MaxWork,      \* bound: calls and job runs, a call counting two, one after the other or at once
    MaxOps,       \* bound: function or job -> operations of one call
    KeptRows      \* the rows that may be there before

\* A request's scope: where it writes and what it reads, of companies and of branches.
Scope ==
    [company : Companies \union {NoOne}, companies : (SUBSET Companies) \union {NoOne},
     branch : Branches \union {NoOne}, branches : (SUBSET Branches) \union {NoOne}]

\* A row, by whom it was last written, and the row it was found to refer to then: blind
\* when nobody had the id it refers with, which is all that the column holds.
CxRow ==
    [model : DOMAIN ModelDefs, by : Nat, ref : Ids \union {NoOne}, blind : BOOLEAN,
     company : Companies \union {NoOne}, branch : Branches \union {NoOne}]

\* Rows that can have the id: in a company, unless their model is shared.
RowOf(id) == {r \in CxRow : r.model = ModelOf[id] /\ (ModelDefs[r.model].scope # "shared" => r.company \in Companies)}

ASSUME ContextAssumption ==
    /\ NoOne \notin Companies \union Branches \union Ids
    /\ NoOne # Erased /\ NoOne \notin CxRow /\ Erased \notin CxRow
    /\ ModelOf \in [Ids -> DOMAIN ModelDefs] /\ NameOf \in [Ids -> Ids]
    /\ \A id \in Ids : NameOf[NameOf[id]] = NameOf[id] /\ ModelOf[NameOf[id]] = ModelOf[id]
    /\ \A fn \in DOMAIN Fns :
        Fns[fn].cross \in BOOLEAN /\ Fns[fn].transactional \in BOOLEAN /\ Fns[fn].enqueues \subseteq DOMAIN Fns
    /\ \A request \in Requests :
        request.fn \in DOMAIN Fns /\ request.scope \in Scope /\ request.dry \in BOOLEAN
    /\ DOMAIN KeptRows \subseteq Ids
    /\ \A id \in DOMAIN KeptRows : KeptRows[id] \in RowOf(id) /\ KeptRows[id].ref = NoOne
    /\ MaxWork \in Nat /\ MaxOps \in [DOMAIN Fns -> Nat]

VARIABLES
    cxRows,   \* the tables: the rows there are, NoOne for one not there yet
    cxCalls,  \* the calls so far, in order
    cxJobs    \* the queue: jobs that wait

cxVars == <<cxRows, cxCalls, cxJobs>>

NoRows == [id \in {} |-> NoOne]
NoTx == [open |-> FALSE, rows |-> NoRows, jobs |-> {}, notices |-> {}, done |-> {}, writes |-> {}, was |-> {}]
BeginTx(wrote) == [NoTx EXCEPT !.open = TRUE, !.was = wrote]
Between == [op |-> "none"]

-----------------------------------------------------------------------------
(* The scope of a call.                                                    *)

ScopeKind(m) == ModelDefs[m].scope
Shared(m) == ScopeKind(m) = "shared"
ScopesByCompany == \E m \in DOMAIN ModelDefs : ~Shared(m)
Present(row) == row \notin {NoOne, Erased}
FnOf(c) == Fns[cxCalls[c].fn]
Dry(c) == cxCalls[c].dry
CallScope(c) == cxCalls[c].scope

GlobalScope == [company |-> NoOne, companies |-> NoOne, branch |-> NoOne, branches |-> NoOne]

\* createContext refuses a scope that writes where it may not read.
Coherent(s) == s.company # NoOne /\ s.companies # NoOne => s.company \in s.companies

Readable(s) ==
    IF s.companies # NoOne THEN s.companies
    ELSE IF s.company # NoOne THEN {s.company} ELSE {}

\* Whether the filter `scoped` adds to a query on m lets the row through.
InScope(op, s, row) ==
    \/ Shared(row.model)
    \/ op.cross
    \/ /\ row.company \in Readable(s)
       /\ ScopeKind(row.model) = "company+branch" /\ s.branches # NoOne => row.branch \in s.branches

\* `readCompanies` throws when the scope names no company.
CanRead(op, s, m) == Shared(m) \/ op.cross \/ Readable(s) # {}

\* `stamp` and what it throws on; the company and the branch of a new row.
CanStamp(s, m) ==
    \/ Shared(m)
    \/ /\ s.company # NoOne
       /\ ScopeKind(m) = "company+branch" =>
            /\ s.branch # NoOne
            /\ s.branches # NoOne => s.branch \in s.branches

Stamped(s, m, ref, blind, by) ==
    [model |-> m, by |-> by, ref |-> ref, blind |-> blind,
     company |-> IF Shared(m) THEN NoOne ELSE s.company,
     branch |-> IF ScopeKind(m) = "company+branch" THEN s.branch ELSE NoOne]

\* The WHERE clause of an update: one company, that of the request, and its branches.
Updates(op, s, row) ==
    \/ Shared(row.model)
    \/ op.cross
    \/ /\ row.company = s.company
       /\ ScopeKind(row.model) = "company+branch" /\ s.branches # NoOne => row.branch \in s.branches

\* The companies a call is entitled to.
Authority(op, s) == IF op.cross THEN Companies ELSE Readable(s)

-----------------------------------------------------------------------------
(* Statements.                                                             *)

Numbered == DOMAIN cxCalls
InTx(c) == cxCalls[c].tx.open
Running(c) == cxCalls[c].status = "running"

\* What the connection of the call shows: the tables, and over them its own changes.
SeenAs(c, id) == IF id \in DOMAIN cxCalls[c].tx.rows THEN cxCalls[c].tx.rows[id] ELSE cxRows[id]
Seen(c) == [id \in Ids |-> SeenAs(c, id)]

\* The rows that can have the id of this one, in turn.
Bearers(id) == {t \in Ids : NameOf[t] = NameOf[id]}

Names == {NameOf[id] : id \in Ids}

\* A row another transaction has changed, or put under that id, is locked until that one ends.
Unlocked(c, id) == \A d \in Numbered \ {c} : Bearers(id) \intersect DOMAIN cxCalls[d].tx.rows = {}

\* A handler that is between two operations, and may do one more.
Acts(c) ==
    /\ Running(c) /\ cxCalls[c].at = Between /\ cxCalls[c].due = {}
    /\ cxCalls[c].ops < MaxOps[cxCalls[c].fn]

\* Mutant: a transaction has no report of its own.
RecordedOutside(call, write) == [call EXCEPT !.writes = @ \union {write}]

\* `record`: the report of the context in use, that of the transaction inside one.
Recorded(call, write) ==
    IF call.tx.open THEN [call EXCEPT !.tx.writes = @ \union {write}]
    ELSE [call EXCEPT !.writes = @ \union {write}]

OneMore(call) == [call EXCEPT !.ops = @ + 1]

Touches(call, rows) ==
    [call EXCEPT !.touched = @ \union {r.company : r \in {row \in rows : ~Shared(row.model)}}]

\* These rows in the place of those.
Over(rows, others) ==
    [id \in DOMAIN rows \union DOMAIN others |-> IF id \in DOMAIN rows THEN rows[id] ELSE others[id]]
Single(id, row) == [i \in {id} |-> row]

\* A statement makes these rows of the table, at once or in the transaction of the call.
Puts(c, call, rows, changes) ==
    IF call.tx.open
    THEN /\ cxCalls' = [cxCalls EXCEPT ![c] = [call EXCEPT !.tx.rows = Over(rows, call.tx.rows),
                                                     !.tx.done = @ \union changes]]
         /\ UNCHANGED cxRows
    ELSE /\ cxCalls' = [cxCalls EXCEPT ![c] = [call EXCEPT !.done = @ \union changes]]
         /\ cxRows' = Over(rows, cxRows)

\* An entry of the report, and the change it reports.
Change(call, op, on) == [op |-> op, on |-> on, tx |-> IF call.tx.open THEN call.txs ELSE 0]

-----------------------------------------------------------------------------
(* Calls and job runs.                                                     *)

Call(fn, scope, dry, limit) ==
    [fn |-> fn, scope |-> scope, dry |-> dry, limit |-> limit, status |-> "running", at |-> Between,
     ops |-> 0, writes |-> {}, done |-> {}, heard |-> {}, wrote |-> {}, touched |-> {}, due |-> {},
     txs |-> 1, rolled |-> {},
     tx |-> IF Fns[fn].transactional THEN BeginTx({}) ELSE NoTx]

Work == Len(cxCalls) + Cardinality({c \in Numbered : FnOf(c).kind = "function"})

Ended(fn) == [Call(fn, GlobalScope, FALSE, {}) EXCEPT !.status = "ended", !.tx = NoTx]

\* callFn: permission, the rules of transactional and idempotent functions and of dry
\* runs, then the context.  A transactional function runs in a transaction of its own.
\* A deployment that does not scope by company has one global scope.
CxCall(request) ==
    LET scope == IF ScopesByCompany THEN request.scope ELSE GlobalScope
        fn == request.fn
        dry == request.dry
    IN
    /\ Work + 1 < MaxWork
    /\ fn \in request.allow
    /\ Fns[fn].kind = "function"
    /\ dry => Fns[fn].dryRun /\ ~Fns[fn].transactional
    /\ Coherent(scope)
    /\ cxCalls' = Append(cxCalls, Call(fn, scope, dry, Authority(Fns[fn], scope)))
    /\ UNCHANGED <<cxRows, cxJobs>>

\* A worker runs a job with the scope the job was stored with.
CxRunJob(job) ==
    /\ Work < MaxWork
    /\ job \in cxJobs
    /\ Coherent(job.scope)
    /\ cxJobs' = cxJobs \ {job}
    /\ cxCalls' = Append(cxCalls, Call(job.fn, job.scope, FALSE, job.limit))
    /\ UNCHANGED cxRows

\* The handler returns or throws.  Of a call that has ended only its function matters.
CxEnds(c) ==
    /\ Running(c) /\ ~InTx(c) /\ cxCalls[c].at = Between /\ cxCalls[c].due = {}
    /\ cxCalls' = [cxCalls EXCEPT ![c] = Ended(cxCalls[c].fn)]
    /\ UNCHANGED <<cxRows, cxJobs>>

-----------------------------------------------------------------------------
(* db                                                                      *)

\* all, one, count, group and select, with what they preload: every query goes through
\* the filter of its own model.
CxRead(c, m) ==
    LET call == cxCalls[c]  op == FnOf(c)  s == CallScope(c)
        seen == {id \in Ids : Present(SeenAs(c, id)) /\ ModelOf[id] = m /\ InScope(op, s, SeenAs(c, id))}
        named == UNION {Bearers(ref) : ref \in {SeenAs(c, id).ref : id \in seen} \intersect Ids}
        preloaded == {id \in named : Present(SeenAs(c, id)) /\ InScope(op, s, SeenAs(c, id))}
    IN /\ Acts(c)
       /\ m \in op.reads /\ CanRead(op, s, m)
       /\ \E preload \in {{}} \union {preloaded : t \in {ModelDefs[m].target} \intersect op.reads} :
            cxCalls' = [cxCalls EXCEPT ![c] = OneMore(Touches(call, {SeenAs(c, id) : id \in seen \union preload}))]
       /\ UNCHANGED <<cxRows, cxJobs>>

Found(c, ref) == ref # NoOne /\ Present(SeenAs(c, ref))

\* What a handler refers with is an id: ref is the row that has it now, or the id alone.
Meant(c, ref) ==
    ref # NoOne /\ ~Found(c, ref) =>
        NameOf[ref] = ref /\ \A t \in Bearers(ref) : ~Found(c, t)

\* Mutant: any company the scope may read will do.
RefersInSight(c, m, ref) ==
    ~(Shared(m) \/ FnOf(c).cross) =>
        (Found(c, ref) /\ ~Shared(ModelOf[ref]) => SeenAs(c, ref).company \in Readable(CallScope(c)))

\* refuseCrossCompanyReferences: a SELECT over every company's rows.
RefersInside(c, m, ref) ==
    ~(Shared(m) \/ FnOf(c).cross) =>
        /\ CallScope(c).company # NoOne
        /\ Found(c, ref) /\ ~Shared(ModelOf[ref]) => SeenAs(c, ref).company = CallScope(c).company

Blind(c, ref) == ref # NoOne /\ ~Found(c, ref)

\* insert and insertIfAbsent up to their statement; the caller names the id, one that is
\* taken or one whose row was deleted as well.  A dry run ends here.
CxInsert(c, id, ref) ==
    LET m == ModelOf[id]
        row == Stamped(CallScope(c), m, ref, Blind(c, ref), c)
        noted == OneMore(Recorded(cxCalls[c], Change(cxCalls[c], "insert", id)))
    IN /\ Acts(c) /\ Meant(c, ref)
       /\ m \in FnOf(c).writes
       /\ CanStamp(CallScope(c), m)
       /\ RefersInside(c, m, ref)
       /\ cxCalls' = [cxCalls EXCEPT ![c] =
             IF Dry(c) THEN noted ELSE [noted EXCEPT !.at = [op |-> "insert", id |-> id, row |-> row]]]
       /\ UNCHANGED <<cxRows, cxJobs>>

\* The statement: a new row under the id; a taken id throws, or is left alone by
\* ON CONFLICT DO NOTHING.  Bound: an id is used again as often as it has bearers.
CxInserts(c) ==
    LET at == cxCalls[c].at
        call == [cxCalls[c] EXCEPT !.at = Between]
    IN /\ Running(c) /\ at.op = "insert"
       /\ Unlocked(c, at.id)
       /\ \/ /\ \E id \in Bearers(at.id) : Present(SeenAs(c, id))
             /\ cxCalls' = [cxCalls EXCEPT ![c] = call]
             /\ UNCHANGED cxRows
          \/ /\ \A id \in Bearers(at.id) : ~Present(SeenAs(c, id))
             /\ \E id \in {new \in Bearers(at.id) : SeenAs(c, new) = NoOne} :
                  Puts(c, Touches([call EXCEPT !.wrote = @ \union {id}], {at.row}),
                       Single(id, at.row), {Change(call, "insert", at.id)})
       /\ UNCHANGED cxJobs

\* update up to its statement: compareAndSet and an updating changeset end up here too.
CxUpdate(c, id, ref) ==
    LET m == ModelOf[id]
        noted == OneMore(Recorded(cxCalls[c], Change(cxCalls[c], "update", id)))
    IN /\ Acts(c) /\ Meant(c, ref)
       /\ ~ModelDefs[m].append
       /\ m \in FnOf(c).writes
       /\ RefersInside(c, m, ref)
       /\ cxCalls' = [cxCalls EXCEPT ![c] =
             IF Dry(c) THEN noted
             ELSE [noted EXCEPT !.at = [op |-> "update", id |-> id, ref |-> ref, blind |-> Blind(c, ref)]]]
       /\ UNCHANGED <<cxRows, cxJobs>>

\* Its WHERE names the id; what else it names, as compareAndSet does, may not hold.
CxUpdates(c, holds) ==
    LET at == cxCalls[c].at
        call == [cxCalls[c] EXCEPT !.at = Between]
        hit == {id \in Bearers(at.id) : /\ holds /\ Present(SeenAs(c, id))
                                        /\ Updates(FnOf(c), CallScope(c), SeenAs(c, id))}
        patched(row) == [row EXCEPT !.ref = at.ref, !.blind = at.blind, !.by = c]
    IN /\ Running(c) /\ at.op = "update"
       /\ Unlocked(c, at.id)
       /\ \/ /\ hit = {}
             /\ cxCalls' = [cxCalls EXCEPT ![c] = call]
             /\ UNCHANGED cxRows
          \/ \E id \in hit :
                Puts(c, Touches([call EXCEPT !.wrote = @ \union {id}], {SeenAs(c, id)}),
                     Single(id, patched(SeenAs(c, id))), {Change(call, "update", at.id)})
       /\ UNCHANGED cxJobs

\* del: one statement, over every company the scope may read.  Its record names the
\* model only, and a dry run leaves before the scope is asked.
CxDelete(c, ids) ==
    LET op == FnOf(c)  s == CallScope(c)  m == ModelOf[CHOOSE id \in ids : TRUE]
        noted == OneMore(Recorded(cxCalls[c], Change(cxCalls[c], "delete", m)))
        gone == {id \in ids : Present(SeenAs(c, id)) /\ InScope(op, s, SeenAs(c, id))}
    IN /\ Acts(c)
       /\ \A id \in ids : ModelOf[id] = m
       /\ ~ModelDefs[m].append
       /\ m \in op.writes
       /\ IF Dry(c)
          THEN /\ cxCalls' = [cxCalls EXCEPT ![c] = noted]
               /\ UNCHANGED cxRows
          ELSE /\ CanRead(op, s, m)
               /\ \A id \in gone : Unlocked(c, id)
               /\ Puts(c, Touches(noted, {SeenAs(c, id) : id \in gone}), [id \in gone |-> Erased],
                           {Change(noted, "delete", m) : id \in gone})
       /\ UNCHANGED cxJobs

-----------------------------------------------------------------------------
(* jobs, tx, notify                                                        *)

\* What a job is stored with: the scope of its caller, or all of one company.
OneCompany(s, company) == [s EXCEPT !.company = company, !.companies = {company}, !.branch = NoOne, !.branches = NoOne]
JobOf(op, s, fn, named) ==
    [fn |-> fn,
     scope |-> IF named = NoOne THEN s ELSE OneCompany(s, named),
     limit |-> IF Fns[fn].cross THEN Companies ELSE Authority(op, s)]

\* jobs.enqueue: of another company only from an operation that declares crossCompany.
CxEnqueue(c, fn, named) ==
    LET op == FnOf(c)
        job == JobOf(op, CallScope(c), fn, named)
        change == Change(cxCalls[c], "enqueue", fn)
        noted == OneMore(Recorded(cxCalls[c], change))
    IN /\ Acts(c)
       /\ fn \in op.enqueues
       /\ named # NoOne => op.cross /\ ScopesByCompany
       /\ IF Dry(c)
          THEN cxCalls' = [cxCalls EXCEPT ![c] = noted] /\ UNCHANGED cxJobs
          ELSE IF InTx(c)
          THEN /\ cxCalls' = [cxCalls EXCEPT ![c] = [noted EXCEPT !.tx.jobs = @ \union {job},
                                                                  !.tx.done = @ \union {change}]]
               /\ UNCHANGED cxJobs
          ELSE /\ cxCalls' = [cxCalls EXCEPT ![c] = [noted EXCEPT !.done = @ \union {change}]]
               /\ cxJobs' = cxJobs \union {job}
       /\ UNCHANGED cxRows

\* tx: nothing nests, on either adapter.  One transaction of a call is enough here.
CxTxBegin(c) ==
    /\ Acts(c) /\ ~InTx(c)
    /\ "tx" \in FnOf(c).uses /\ cxCalls[c].txs = 1
    /\ cxCalls' = [cxCalls EXCEPT ![c] = [cxCalls[c] EXCEPT !.tx = BeginTx(cxCalls[c].wrote)]]
    /\ UNCHANGED <<cxRows, cxJobs>>

\* COMMIT.  The writes of the body join the report.  PostgreSQL delivers its
\* notifications now; those of the process are delivered next.
CxCommit(c) ==
    LET call == cxCalls[c] IN
    /\ Running(c) /\ InTx(c) /\ call.at = Between
    /\ cxRows' = Seen(c)
    /\ cxJobs' = cxJobs \union call.tx.jobs
    /\ cxCalls' = [cxCalls EXCEPT ![c] =
          [call EXCEPT !.tx = NoTx, !.txs = @ + 1, !.writes = @ \union call.tx.writes,
                       !.done = @ \union call.tx.done, !.due = call.tx.notices,
                       !.ops = IF FnOf(c).transactional THEN MaxOps[call.fn] ELSE @]]

\* The body throws: its rows, jobs, notices and records are gone.  A transactional
\* function fails with it.
CxRollback(c) ==
    LET call == cxCalls[c] IN
    /\ Running(c) /\ InTx(c) /\ call.at = Between
    /\ cxCalls' = [cxCalls EXCEPT ![c] =
          IF FnOf(c).transactional THEN Ended(call.fn)
          ELSE [call EXCEPT !.tx = NoTx, !.wrote = call.tx.was, !.txs = @ + 1, !.rolled = @ \union {call.txs}]]
    /\ UNCHANGED <<cxRows, cxJobs>>

\* The notices a transaction held, delivered by the process once it has committed.
CxDeliver(c) ==
    LET call == cxCalls[c] IN
    /\ Running(c) /\ call.due # {}
    /\ cxCalls' = [cxCalls EXCEPT ![c] = [call EXCEPT !.heard = @ \union call.due, !.due = {}]]
    /\ UNCHANGED <<cxRows, cxJobs>>

\* notify: of something this call has written.  A dry run tells nobody; in a
\* transaction the notice is held, by the process or by PostgreSQL.
CxNotify(c, id) ==
    LET call == OneMore(cxCalls[c]) IN
    /\ Acts(c)
    /\ "notify" \in FnOf(c).uses /\ id \in call.wrote
    /\ cxCalls' = [cxCalls EXCEPT ![c] =
          IF Dry(c) THEN call
          ELSE IF InTx(c) THEN [call EXCEPT !.tx.notices = @ \union {NameOf[id]}]
          ELSE [call EXCEPT !.heard = @ \union {NameOf[id]}]]
    /\ UNCHANGED <<cxRows, cxJobs>>


-----------------------------------------------------------------------------
CxInit ==
    /\ cxRows \in {[id \in Ids |-> IF id \in there THEN KeptRows[id] ELSE NoOne] : there \in SUBSET DOMAIN KeptRows}
    /\ cxCalls = <<>> /\ cxJobs = {}

Refs(id) == {NoOne} \union {t \in Ids : ModelOf[t] = ModelDefs[ModelOf[id]].target}

\* What a handler does next.
CxOperates(c) ==
    \/ \E m \in DOMAIN ModelDefs : CxRead(c, m)
    \/ \E id \in Names : \E ref \in Refs(id) : CxInsert(c, id, ref) \/ CxUpdate(c, id, ref)
    \/ \E ids \in (SUBSET Ids) \ {{}} : CxDelete(c, ids)
    \/ \E fn \in FnOf(c).enqueues, named \in Companies \union {NoOne} : CxEnqueue(c, fn, named)
    \/ CxTxBegin(c)
    \/ \E id \in cxCalls[c].wrote : CxNotify(c, id)

CxNext ==
    \/ \E request \in Requests : CxCall(request)
    \/ \E job \in cxJobs : CxRunJob(job)
    \/ \E c \in {d \in Numbered : Acts(d)} : CxOperates(c)
    \/ \E c \in {d \in Numbered : Running(d)} :
         \/ CxEnds(c) \/ CxInserts(c) \/ CxCommit(c) \/ CxRollback(c) \/ CxDeliver(c)
         \/ \E holds \in BOOLEAN : CxUpdates(c, holds)

-----------------------------------------------------------------------------
CxTypeOK ==
    /\ \A id \in Ids : Present(cxRows[id]) => cxRows[id].model = ModelOf[id]
    /\ Work <= MaxWork
    /\ \A c \in Numbered : cxCalls[c].status \in {"running", "ended"} /\ cxCalls[c].ops <= MaxOps[cxCalls[c].fn]

\* What a call touches, be it to read, to write or to delete, stays with the companies it is
\* entitled to, and so does what the jobs it enqueues do, and the jobs of those.  For del
\* these are all it may read, not only the one it writes to.
StaysInScope ==
    \A c \in Numbered : cxCalls[c].touched \subseteq Authority(FnOf(c), CallScope(c)) \intersect cxCalls[c].limit

\* What a call inserted or updated is there, as long as it is, in the one company the call
\* writes to, and in its sight: no row lands, or is taken, where the scope does not write.
WritesToOne ==
    \A c \in Numbered : \A id \in cxCalls[c].wrote :
        Present(SeenAs(c, id)) =>
            /\ Updates(FnOf(c), CallScope(c), SeenAs(c, id))
            /\ InScope(FnOf(c), CallScope(c), SeenAs(c, id))

\* The row that a reference was checked against, as long as it is there, is of the company of
\* the row that refers to it, unless an operation across companies wrote that or nobody had
\* the id when it was checked.  Another row may have the id by now, of any company.
RefersWithin ==
    \A id \in Ids :
        LET row == cxRows[id] IN
        Present(row) /\ ~Shared(row.model) /\ row.ref \in Ids =>
            LET held == cxRows[row.ref] IN
            Present(held) /\ ~Shared(held.model) /\ held.company # row.company =>
                row.blind \/ FnOf(row.by).cross

\* The scope of a request holds wherever its work goes.
ScopeHolds == StaysInScope /\ WritesToOne /\ RefersWithin

\* A listener that is told of a row finds what the call did to it committed.
HeardIsCommitted ==
    \A c \in Numbered : cxCalls[c].heard \subseteq {d.on : d \in cxCalls[c].done}

\* The report of a call names every change it committed, and nothing of a transaction
\* that was rolled back.
ReportIsTrue ==
    \A c \in Numbered :
        /\ cxCalls[c].done \subseteq cxCalls[c].writes
        /\ \A w \in cxCalls[c].writes : w.tx \notin cxCalls[c].rolled

\* A rehearsal changes nothing and tells nobody.
RehearsalIsQuiet == \A c \in Numbered : Dry(c) => cxCalls[c].done = {} /\ cxCalls[c].heard = {}

\* What others learn of a call is what it did.
AccountIsTrue == HeardIsCommitted /\ ReportIsTrue /\ RehearsalIsQuiet

CxSpec == CxInit /\ [][CxNext]_cxVars
=============================================================================
