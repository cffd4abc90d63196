------------------------------- MODULE JobQueue -------------------------------
(***************************************************************************)
(* The durable job queue of packages/ketjs/src/server/queue.ts: the rows   *)
(* of one ket_job table and every operation of the Queue object on them.   *)
(* Each action is one SQL statement (or one transaction), because that is  *)
(* what the database makes atomic.  An operation the code spells as a read *)
(* followed by a write -- enqueue and rescue -- keeps what it read in a    *)
(* variable of its caller, so that other callers' statements fall between. *)
(*                                                                         *)
(* Time is kept as what the statements compare: whether scheduled_at has   *)
(* come (due) and whether lease_until is still ahead (lease).              *)
(***************************************************************************)
EXTENDS Naturals, FiniteSets

CONSTANTS
    Ids,            \* job ids; each is inserted at most once
    NoJob,          \* no job at all
    Keys,           \* unique-key spaces: (job, unique_key, COALESCE(company_id, ''))
    EmptyKeys,      \* the ones of Keys whose unique_key is the empty string
    NoKey,          \* unique_key IS NULL
    Queues,         \* queue names
    Priorities,     \* priorities in use; zero is the most urgent
    MaxAttempts,    \* the maxAttempts callers ask for
    AttemptBound,   \* bound: no job is claimed more often than this
    ReopenBound,    \* bound: no job is taken up by the operator after this many claims
    BatchLimit,     \* the largest limit claimBatch is called with
    RescueLimit,    \* limit of rescue
    Workers,        \* ids of claiming workers
    NoWorker,       \* worker_id IS NULL
    Producers,      \* callers of enqueue
    Rescuers        \* callers of rescue

ASSUME QueueAssumption ==
    /\ EmptyKeys \subseteq Keys
    /\ NoKey \notin Keys
    /\ NoJob \notin Ids
    /\ NoWorker \notin Workers
    /\ Priorities \subseteq Nat
    /\ MaxAttempts \subseteq Nat \ {0}
    /\ AttemptBound \in Nat /\ ReopenBound \in Nat
    /\ BatchLimit \in Nat \ {0}
    /\ RescueLimit \in Nat \ {0}

VARIABLES
    jobs,       \* the ket_job table
    enqueuing,  \* what each producer's enqueue() is about to do
    sweep       \* the expired rows each rescue() read and has yet to settle

queueVars == <<jobs, enqueuing, sweep>>

-----------------------------------------------------------------------------
(* Rows *)

Waiting == {"available", "scheduled", "retryable"}
Active == Waiting \union {"executing"}
Terminal == {"completed", "discarded", "cancelled"}

Row == [ state : Active \union Terminal,
         key : Keys \union {NoKey},
         queue : Queues,
         priority : Priorities,
         attempt : Nat,
         max : Nat,
         due : BOOLEAN,
         worker : Workers \union {NoWorker},
         lease : {"none", "live", "expired"} ]

\* No row yet, and no row any more.
Unborn == [state |-> "unborn"]
Pruned == [state |-> "pruned"]

\* What enqueue passes to INSERT: a runAt in the future makes the row scheduled.
NewRows ==
    { [ state |-> IF due THEN "available" ELSE "scheduled",
        key |-> k, queue |-> q, priority |-> p, attempt |-> 0, max |-> m,
        due |-> due, worker |-> NoWorker, lease |-> "none" ] :
      due \in BOOLEAN, k \in Keys \union {NoKey}, q \in Queues,
      p \in Priorities, m \in MaxAttempts }

\* What rescue's SELECT returned for one row.
Observation == [ id : Ids, worker : Workers \union {NoWorker},
                 attempt : Nat, max : Nat ]

Idle == [step |-> "idle"]
EnqueueState ==
    {Idle} \union [ step : {"lookup", "insert"}, row : NewRows, tries : 0 .. 2 ]

HasRow(j) == jobs[j].state \notin {"unborn", "pruned"}
IsActive(j) == jobs[j].state \in Active

\* Mutant: the index leaves the running jobs out.
OccupiesWaiting(j, k) == k # NoKey /\ jobs[j].state \in Waiting /\ jobs[j].key = k

\* The partial unique index ket_job_unique_company holds the active rows of a key.
Occupies(j, k) == k # NoKey /\ IsActive(j) /\ jobs[j].key = k
Taken(k) == \E j \in Ids : Occupies(j, k)

\* Mutant: the worker id stays.
UnleasedKeepsWorker(row, state) == [row EXCEPT !.state = state, !.lease = "none"]

\* Every statement that takes a row out of executing clears its lease, save cancel.
Unleased(row, state) ==
    [row EXCEPT !.state = state, !.worker = NoWorker, !.lease = "none"]

\* "state = 'executing' AND worker_id = ..." (workerGuard)
Held(j, w) == jobs[j].state = "executing" /\ jobs[j].worker = w

-----------------------------------------------------------------------------
Init ==
    /\ jobs = [ j \in Ids |-> Unborn ]
    /\ enqueuing = [ c \in Producers |-> Idle ]
    /\ sweep = [ r \in Rescuers |-> {} ]

(***************************************************************************)
(* enqueue: INSERT .. ON CONFLICT DO NOTHING; when the key is taken, up to *)
(* three rounds of SELECT the job that has it, and INSERT again when that  *)
(* job has ended in between.                                               *)
(***************************************************************************)
Insert(row) ==
    /\ ~Taken(row.key)
    /\ \E j \in Ids : jobs[j] = Unborn /\ jobs' = [jobs EXCEPT ![j] = row]

\* `if (o.uniqueKey)`: a caller with no key, or an empty one, does not look up.
LooksUp(row) == row.key \in Keys \ EmptyKeys

Enqueue(c, row) ==
    /\ enqueuing[c] = Idle
    /\ \/ Insert(row) /\ UNCHANGED enqueuing
       \/ /\ Taken(row.key) /\ LooksUp(row)
          /\ enqueuing' = [enqueuing EXCEPT
                             ![c] = [step |-> "lookup", row |-> row, tries |-> 0]]
          /\ UNCHANGED jobs
    /\ UNCHANGED sweep

\* The SELECT: the caller is given the job that has the key, or inserts again.
EnqueueLookup(c) ==
    /\ enqueuing[c].step = "lookup"
    /\ enqueuing' = [enqueuing EXCEPT
         ![c] = IF Taken(@.row.key) THEN Idle ELSE [@ EXCEPT !.step = "insert"]]
    /\ UNCHANGED <<jobs, sweep>>

NextTry(call) == [call EXCEPT !.step = "lookup", !.tries = call.tries + 1]

\* The third failure throws "could not resolve unique job".
EnqueueAgain(c) ==
    /\ enqueuing[c].step = "insert"
    /\ \/ /\ Insert(enqueuing[c].row)
          /\ enqueuing' = [enqueuing EXCEPT ![c] = Idle]
       \/ /\ Taken(enqueuing[c].row.key)
          /\ enqueuing' = [enqueuing EXCEPT
               ![c] = IF @.tries = 2 THEN Idle ELSE NextTry(@)]
          /\ UNCHANGED jobs
    /\ UNCHANGED sweep

(***************************************************************************)
(* claimBatch: the most urgent due rows of a queue, in one transaction.    *)
(***************************************************************************)
Claimable(q) == { j \in Ids : /\ jobs[j].state \in Waiting
                              /\ jobs[j].queue = q
                              /\ jobs[j].due }

Batch(q, limit, B) ==
    /\ B \subseteq Claimable(q) /\ B # {}
    /\ Cardinality(B) <= limit
    /\ Cardinality(B) = limit \/ B = Claimable(q)
    /\ \A j \in B, i \in Claimable(q) \ B : jobs[j].priority <= jobs[i].priority

\* Mutant: the attempt is not counted with the lease.
ClaimedUncounted(row, w) == [row EXCEPT !.state = "executing", !.worker = w, !.lease = "live"]

Claimed(row, w) ==
    [row EXCEPT !.state = "executing", !.attempt = @ + 1, !.worker = w, !.lease = "live"]

ClaimBatch(w, q, limit, B) ==
    /\ Batch(q, limit, B)
    /\ \A j \in B : jobs[j].attempt < AttemptBound
    /\ jobs' = [ j \in Ids |-> IF j \in B THEN Claimed(jobs[j], w) ELSE jobs[j] ]
    /\ UNCHANGED <<enqueuing, sweep>>

(***************************************************************************)
(* The holder's statements.                                                *)
(***************************************************************************)
Heartbeat(j, w) ==
    /\ Held(j, w)
    /\ jobs' = [jobs EXCEPT ![j].lease = "live"]
    /\ UNCHANGED <<enqueuing, sweep>>

Complete(j, w) ==
    /\ Held(j, w)
    /\ jobs' = [jobs EXCEPT ![j] = Unleased(@, "completed")]
    /\ UNCHANGED <<enqueuing, sweep>>

\* retry(id, error, runAt): due says whether runAt has come.
Retry(j, w, due) ==
    /\ Held(j, w)
    /\ jobs' = [jobs EXCEPT ![j] = [Unleased(@, "retryable") EXCEPT !.due = due]]
    /\ UNCHANGED <<enqueuing, sweep>>

Discard(j, w) ==
    /\ Held(j, w)
    /\ jobs' = [jobs EXCEPT ![j] = Unleased(@, "discarded")]
    /\ UNCHANGED <<enqueuing, sweep>>

(***************************************************************************)
(* The operator's statements.                                              *)
(***************************************************************************)
\* Leaves worker_id and lease_until as they are.
Cancel(j) ==
    /\ IsActive(j)
    /\ jobs' = [jobs EXCEPT ![j].state = "cancelled"]
    /\ UNCHANGED <<enqueuing, sweep>>

Reopened(row) ==
    [Unleased(row, "available") EXCEPT
       !.due = TRUE,
       !.max = IF row.max <= row.attempt THEN row.attempt + 1 ELSE row.max]

\* The UPDATE fails on the unique index when another active job has the key.
RetryNow(j) ==
    /\ jobs[j].state \in {"retryable", "discarded"}
    /\ \A i \in Ids \ {j} : ~Occupies(i, jobs[j].key)
    /\ jobs[j].attempt <= ReopenBound
    /\ jobs' = [jobs EXCEPT ![j] = Reopened(@)]
    /\ UNCHANGED <<enqueuing, sweep>>

\* Mutant: waiting rows are pruned as well.
PruneWaiting(S) ==
    /\ S # {} /\ \A j \in S : jobs[j].state \in Terminal \union Waiting
    /\ jobs' = [ j \in Ids |-> IF j \in S THEN Pruned ELSE jobs[j] ]
    /\ UNCHANGED <<enqueuing, sweep>>

\* One DELETE; which terminal rows are old enough is left open.
Prune(S) ==
    /\ S # {} /\ \A j \in S : jobs[j].state \in Terminal
    /\ jobs' = [ j \in Ids |-> IF j \in S THEN Pruned ELSE jobs[j] ]
    /\ UNCHANGED <<enqueuing, sweep>>

\* fail and release: compatibility entry points, with no guard on the holder.
Fail(j) ==
    /\ jobs[j].state = "executing"
    /\ jobs' = [jobs EXCEPT ![j] = [Unleased(@, "retryable") EXCEPT !.due = TRUE]]
    /\ UNCHANGED <<enqueuing, sweep>>

Release(j) ==
    /\ jobs[j].state = "executing"
    /\ jobs' = [jobs EXCEPT ![j] = [Unleased(@, "available") EXCEPT !.due = TRUE]]
    /\ UNCHANGED <<enqueuing, sweep>>

(***************************************************************************)
(* rescue: SELECT the expired rows, then settle them one UPDATE at a time, *)
(* each guarded by the worker id the SELECT returned.                      *)
(***************************************************************************)
\* Mutant: a row on its last attempt is not looked at.
ExpiredWithAttemptsLeft ==
    { j \in Ids : /\ jobs[j].state = "executing" /\ jobs[j].lease = "expired"
                  /\ jobs[j].attempt < jobs[j].max }

Expired == { j \in Ids : jobs[j].state = "executing" /\ jobs[j].lease = "expired" }

Observe(j) == [ id |-> j, worker |-> jobs[j].worker,
                attempt |-> jobs[j].attempt, max |-> jobs[j].max ]

RescueSelect(r) ==
    /\ sweep[r] = {}
    /\ \E S \in SUBSET Expired :
         /\ S # {} /\ Cardinality(S) <= RescueLimit
         /\ Cardinality(S) = RescueLimit \/ S = Expired
         /\ sweep' = [sweep EXCEPT ![r] = { Observe(j) : j \in S }]
    /\ UNCHANGED <<jobs, enqueuing>>

RescueSettle(r, o) ==
    /\ o \in sweep[r]
    /\ sweep' = [sweep EXCEPT ![r] = @ \ {o}]
    /\ jobs' = IF Held(o.id, o.worker)
               THEN [jobs EXCEPT ![o.id] =
                       IF o.attempt >= o.max
                       THEN Unleased(@, "discarded")
                       ELSE [Unleased(@, "retryable") EXCEPT !.due = TRUE]]
               ELSE jobs
    /\ UNCHANGED enqueuing

\* The rescuer crashes, or one of its statements throws: the rest is not settled.
RescueStop(r) ==
    /\ sweep[r] # {}
    /\ sweep' = [sweep EXCEPT ![r] = {}]
    /\ UNCHANGED <<jobs, enqueuing>>

(***************************************************************************)
(* Time.                                                                   *)
(***************************************************************************)
ComesDue(j) ==
    /\ jobs[j].state \in Waiting /\ ~jobs[j].due
    /\ jobs' = [jobs EXCEPT ![j].due = TRUE]
    /\ UNCHANGED <<enqueuing, sweep>>

LeaseExpires(j) ==
    /\ jobs[j].state = "executing" /\ jobs[j].lease = "live"
    /\ jobs' = [jobs EXCEPT ![j].lease = "expired"]
    /\ UNCHANGED <<enqueuing, sweep>>

-----------------------------------------------------------------------------
ProducerNext == \E c \in Producers :
    \/ \E row \in NewRows : Enqueue(c, row)
    \/ EnqueueLookup(c)
    \/ EnqueueAgain(c)

WorkerNext == \E w \in Workers :
    \/ \E q \in Queues, limit \in 1 .. BatchLimit, B \in SUBSET Ids :
         ClaimBatch(w, q, limit, B)
    \/ \E j \in Ids :
         \/ Heartbeat(j, w)
         \/ Complete(j, w)
         \/ \E due \in BOOLEAN : Retry(j, w, due)
         \/ Discard(j, w)

OperatorNext ==
    \/ \E j \in Ids : Cancel(j) \/ RetryNow(j) \/ Fail(j) \/ Release(j)
    \/ \E S \in SUBSET Ids : Prune(S)

RescuerNext == \E r \in Rescuers :
    \/ RescueSelect(r)
    \/ \E o \in sweep[r] : RescueSettle(r, o)
    \/ RescueStop(r)

TimeNext == \E j \in Ids : ComesDue(j) \/ LeaseExpires(j)

Next == ProducerNext \/ WorkerNext \/ OperatorNext \/ RescuerNext \/ TimeNext

QueueSpec == Init /\ [][Next]_queueVars

-----------------------------------------------------------------------------
(* Properties *)

TypeOK ==
    /\ jobs \in [Ids -> Row \union {Unborn, Pruned}]
    /\ enqueuing \in [Producers -> EnqueueState]
    /\ sweep \in [Rescuers -> SUBSET Observation]

\* The unique key coalesces active delivery: at no time are two active jobs of
\* one key in the table, whatever ends, is rescued, re-opened by the operator or
\* enqueued again in between (the index at queue.ts:144, enqueue and retryNow).
OneActivePerKey ==
    \A i, j \in Ids :
      /\ jobs[i].state \in Active /\ jobs[j].state \in Active
      /\ jobs[i].key = jobs[j].key /\ jobs[i].key # NoKey
      => i = j

\* No row is stranded: an executing row names its holder and has a lease that can
\* expire (rescue selects on lease_until < now, which NULL never satisfies), and
\* a waiting row has neither, so that a late statement of an earlier holder
\* cannot pass the worker guard on it.
LeaseIffExecuting ==
    \A j \in Ids :
      /\ jobs[j].state = "executing" => jobs[j].worker # NoWorker /\ jobs[j].lease # "none"
      /\ jobs[j].state \in Waiting => jobs[j].worker = NoWorker /\ jobs[j].lease = "none"

\* An outcome is decided once: no late complete, retry, discard, heartbeat, rescue
\* or cancel changes a terminal row.  Only the operator's retry re-opens a
\* discarded job, with an attempt left to it, and prune removes the row.
TerminalIsFinal ==
    [][ \A j \in Ids : jobs[j].state \in Terminal /\ jobs'[j] # jobs[j] =>
          \/ jobs'[j] = Pruned
          \/ /\ jobs[j].state = "discarded" /\ jobs'[j].state = "available"
             /\ jobs'[j].attempt < jobs'[j].max ]_jobs

\* The queue keeps the promise of JobContract: callers see a key that belongs to
\* one job at a time and lives that end once, whatever the statements interleave.
Life == [ j \in Ids |->
            CASE jobs[j].state \in Waiting -> "waiting"
              [] jobs[j].state = "executing" -> "running"
              [] jobs[j].state = "discarded" -> "failed"
              [] jobs[j].state \in {"completed", "cancelled"} -> "closed"
              [] OTHER -> jobs[j].state ]

Slot == [ k \in Keys |->
            IF Taken(k) THEN CHOOSE j \in Ids : Occupies(j, k) ELSE NoJob ]

Contract == INSTANCE JobContract WITH life <- Life, slot <- Slot, Free <- NoJob

KeepsContract == Contract!Spec
=============================================================================
