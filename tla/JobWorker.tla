------------------------------ MODULE JobWorker ------------------------------
(***************************************************************************)
(* The worker processes of packages/ketjs/src/server/worker.ts over the    *)
(* table of JobQueue: the poll pass (rescue, then claim what there is room *)
(* for), execute() with its timeout and heartbeat timers, the settlement   *)
(* of a run, shutdown and crashes.  One database, one process per worker   *)
(* id: a restarted process gets a fresh id.                                *)
(*                                                                         *)
(* A run is one call of execute().  A process can hold two runs of one job *)
(* at once: the lease of the first expired, and the same process rescued   *)
(* and claimed the job again.                                              *)
(***************************************************************************)
EXTENDS JobQueue

CONSTANTS
    Concurrency,    \* how many runs of a queue a worker starts
    MaxClaim,       \* the most one claim of the poll pass asks for
    Mortal,         \* the workers that may crash
    Closable        \* the workers that may be closed

ASSUME WorkerAssumption ==
    /\ Concurrency \in [Queues -> Nat]
    /\ MaxClaim \in 1 .. BatchLimit
    /\ Mortal \subseteq Workers /\ Closable \subseteq Workers
    /\ Rescuers = Workers

VARIABLES
    process,        \* each worker: "up", "draining", "aborting" or "down"
    runs,           \* the calls of execute() under way
    controllers,    \* each worker's map from job id to the attempt that registered
    lost            \* leases whose holder's call to the database failed

workerVars == <<process, runs, controllers, lost>>
allVars == <<jobs, enqueuing, sweep, process, runs, controllers, lost>>

\* attempt and max are those of the row the claim returned.
Run == [ worker : Workers, id : Ids, queue : Queues, attempt : Nat, max : Nat,
         step : {"handling", "completing", "failing", "unknown"},
         aborted : BOOLEAN ]

Lease(r) == [worker |-> r.worker, id |-> r.id, attempt |-> r.attempt]
RunsOf(w) == { r \in runs : r.worker = w }
Running(w) == process[w] # "down"

MinOf(a, b) == IF a <= b THEN a ELSE b
\* Mutant: the room is counted in jobs, not in runs.
RoomByJob(w, q) == Concurrency[q] - Cardinality({ r.id : r \in RunsOf(w) })

Room(w, q) == Concurrency[q] - Cardinality({ r \in RunsOf(w) : r.queue = q })

Replace(r, s) == (runs \ {r}) \union {s}

WorkerInit ==
    /\ Init
    /\ process = [w \in Workers |-> "up"]
    /\ runs = {}
    /\ controllers = [w \in Workers |-> [j \in Ids |-> 0]]
    /\ lost = {}

-----------------------------------------------------------------------------
(***************************************************************************)
(* The poll pass.  Its rescue is throttled, so a pass may skip it.         *)
(***************************************************************************)
BeginRescue(w) == process[w] = "up" /\ RescueSelect(w) /\ UNCHANGED workerVars

GoOnRescue(w, o) == Running(w) /\ RescueSettle(w, o) /\ UNCHANGED workerVars

\* A statement of rescue throws: the pass ends with worker_tick_error.
FailRescue(w) == Running(w) /\ RescueStop(w) /\ UNCHANGED workerVars

\* Mutant: max_attempts is not among the columns the claim returns.
NewRunWithoutMax(j, w, known) ==
    [ worker |-> w, id |-> j, queue |-> jobs[j].queue,
      attempt |-> jobs[j].attempt + 1,
      step |-> IF known THEN "handling" ELSE "unknown", aborted |-> FALSE ]

\* known: the module that declares the job is composed and enabled.
NewRun(j, w, known) ==
    [ worker |-> w, id |-> j, queue |-> jobs[j].queue,
      attempt |-> jobs[j].attempt + 1, max |-> jobs[j].max,
      step |-> IF known THEN "handling" ELSE "unknown", aborted |-> FALSE ]

\* claimBatch with limit Math.min(10, room), skipped when there is no room.
ClaimForRoom(w, q, B) ==
    \E limit \in 1 .. MaxClaim :
        limit = MinOf(MaxClaim, Room(w, q)) /\ ClaimBatch(w, q, limit, B)

Claim(w, q, B) ==
    /\ process[w] = "up" /\ sweep[w] = {}
    /\ ClaimForRoom(w, q, B)
    /\ \E known \in [B -> BOOLEAN] :
         /\ runs' = runs \union { NewRun(j, w, known[j]) : j \in B }
         /\ controllers' = [controllers EXCEPT ![w] =
              [ j \in Ids |-> IF j \in B /\ known[j] THEN jobs[j].attempt + 1 ELSE @[j] ]]
    /\ UNCHANGED <<process, lost>>

\* The claim commits and its answer is lost: rows are leased to no run.
ClaimLost(w, q, B) ==
    /\ process[w] = "up" /\ sweep[w] = {}
    /\ ClaimForRoom(w, q, B)
    /\ lost' = lost \union
         { [worker |-> w, id |-> j, attempt |-> jobs[j].attempt + 1] : j \in B }
    /\ UNCHANGED <<process, runs, controllers>>

-----------------------------------------------------------------------------
(***************************************************************************)
(* execute().                                                              *)
(***************************************************************************)

\* The finally block: timers are cleared, and the controller that is registered
\* under the job's id, whichever run registered it, is forgotten.
Leave(r) ==
    /\ runs' = runs \ {r}
    /\ controllers' = IF r.step = "unknown" THEN controllers
                      ELSE [controllers EXCEPT ![r.worker][r.id] = 0]

Quiet == UNCHANGED <<jobs, enqueuing, sweep>>

\* The statement ran, or its guard matched no row.
Guarded(r, Statement) == IF Held(r.id, r.worker) THEN Statement ELSE Quiet

TimesOut(r) ==
    /\ r.step = "handling" /\ ~r.aborted
    /\ runs' = Replace(r, [r EXCEPT !.aborted = TRUE])
    /\ Quiet /\ UNCHANGED <<process, controllers, lost>>

\* The interval runs until finally, whatever the handler does with its signal.
Beats(r) ==
    /\ r.step # "unknown"
    /\ IF Held(r.id, r.worker)
       THEN Heartbeat(r.id, r.worker) /\ UNCHANGED runs
       ELSE Quiet /\ runs' = Replace(r, [r EXCEPT !.aborted = TRUE])
    /\ UNCHANGED <<process, controllers, lost>>

\* The handler returns; an aborted signal turns the return into a failure.
Returns(r) ==
    /\ r.step = "handling"
    /\ runs' = Replace(r, [r EXCEPT !.step = IF r.aborted THEN "failing" ELSE "completing"])
    /\ Quiet /\ UNCHANGED <<process, controllers, lost>>

Throws(r) ==
    /\ r.step = "handling"
    /\ runs' = Replace(r, [r EXCEPT !.step = "failing"])
    /\ Quiet /\ UNCHANGED <<process, controllers, lost>>

Completes(r) ==
    /\ r.step = "completing"
    /\ Guarded(r, Complete(r.id, r.worker))
    /\ Leave(r)
    /\ UNCHANGED <<process, lost>>

\* queue.complete throws, with or without its UPDATE done: the catch block follows.
CompleteThrows(r) ==
    /\ r.step = "completing"
    /\ Quiet \/ Complete(r.id, r.worker)
    /\ runs' = Replace(r, [r EXCEPT !.step = "failing"])
    /\ UNCHANGED <<process, controllers, lost>>

Fails(r) ==
    /\ r.step = "failing"
    /\ IF r.attempt >= r.max
       THEN Guarded(r, Discard(r.id, r.worker))
       ELSE \E due \in BOOLEAN : Guarded(r, Retry(r.id, r.worker, due))
    /\ Leave(r)
    /\ UNCHANGED <<process, lost>>

DiscardsUnknown(r) ==
    /\ r.step = "unknown"
    /\ Guarded(r, Discard(r.id, r.worker))
    /\ Leave(r)
    /\ UNCHANGED <<process, lost>>

\* queue.retry or queue.discard throws before its UPDATE: the run is gone and the
\* row keeps its lease until it expires.
SettleThrows(r) ==
    /\ r.step \in {"failing", "unknown"}
    /\ lost' = lost \union {Lease(r)}
    /\ Leave(r)
    /\ Quiet /\ UNCHANGED process

-----------------------------------------------------------------------------
(***************************************************************************)
(* Shutdown: stop polling, wait out the grace period, abort what is left.  *)
(***************************************************************************)
\* `await loop`: a pass under way is finished first, so that close() takes effect
\* between two passes.
Close(w) ==
    /\ w \in Closable /\ process[w] = "up" /\ sweep[w] = {}
    /\ process' = [process EXCEPT ![w] = "draining"]
    /\ Quiet /\ UNCHANGED <<runs, controllers, lost>>

\* The grace period is over: every controller in the map is aborted.
GraceEnds(w) ==
    /\ process[w] = "draining" /\ RunsOf(w) # {}
    /\ process' = [process EXCEPT ![w] = "aborting"]
    /\ runs' = { IF r.worker = w /\ controllers[w][r.id] = r.attempt
                 THEN [r EXCEPT !.aborted = TRUE] ELSE r : r \in runs }
    /\ Quiet /\ UNCHANGED <<controllers, lost>>

Gone(w) ==
    /\ process' = [process EXCEPT ![w] = "down"]
    /\ runs' = runs \ RunsOf(w)
    /\ controllers' = [controllers EXCEPT ![w] = [j \in Ids |-> 0]]
    /\ UNCHANGED lost

\* close() returned and the process exits, with or without runs under way.
Exit(w) ==
    /\ \/ process[w] = "aborting"
       \/ process[w] = "draining" /\ RunsOf(w) = {}
    /\ Gone(w) /\ Quiet

Crash(w) ==
    /\ w \in Mortal /\ Running(w)
    /\ Gone(w)
    /\ sweep' = [sweep EXCEPT ![w] = {}]
    /\ UNCHANGED <<jobs, enqueuing>>

-----------------------------------------------------------------------------
Produce == ProducerNext /\ UNCHANGED workerVars

\* ket jobs cancel, retry and prune.
Operate ==
    /\ \/ \E j \in Ids : Cancel(j) \/ RetryNow(j)
       \/ \E S \in SUBSET Ids : Prune(S)
    /\ UNCHANGED workerVars

TimePasses == TimeNext /\ UNCHANGED workerVars

Polls(w) ==
    \/ BeginRescue(w)
    \/ \E o \in sweep[w] : GoOnRescue(w, o)
    \/ FailRescue(w)
    \/ \E q \in Queues, B \in SUBSET Ids : Claim(w, q, B) \/ ClaimLost(w, q, B)

Executes(r) ==
    \/ TimesOut(r) \/ Beats(r) \/ Returns(r) \/ Throws(r)
    \/ Completes(r) \/ CompleteThrows(r) \/ Fails(r)
    \/ DiscardsUnknown(r) \/ SettleThrows(r)

Ends(w) == Close(w) \/ GraceEnds(w) \/ Exit(w) \/ Crash(w)

WorkerStep ==
    \/ Produce \/ Operate \/ TimePasses
    \/ \E w \in Workers : Polls(w) \/ Ends(w)
    \/ \E r \in runs : Executes(r)

WorkerSpec == WorkerInit /\ [][WorkerStep]_allVars

\* What follows the handler's end is done.
Settles(w) == \E r \in RunsOf(w) :
    \/ Completes(r) \/ CompleteThrows(r)
    \/ Fails(r) \/ DiscardsUnknown(r) \/ SettleThrows(r)

\* The interval of a run of its holder, whichever attempt it is, renews the lease.
Renewed(j) == \E r \in runs : r.id = j /\ Held(j, r.worker) /\ r.step # "unknown"

\* The workers that are neither closed nor crash.
Staying == Workers \ (Mortal \union Closable)

(***************************************************************************)
(* Clocks advance: waiting rows come due, a lease that nobody renews       *)
(* expires, a run's timer fires.  A handler need not end: execute() awaits *)
(* it, and its timer only aborts the signal.  What follows a handler is    *)
(* done.  A worker that is not stopped keeps its loop going, and its       *)
(* statements do not fail for ever: every pass rescues (when the throttle  *)
(* lets it) and then claims, whence strong fairness of the two.            *)
(***************************************************************************)
Fairness ==
    /\ \A j \in Ids : /\ WF_allVars(ComesDue(j) /\ UNCHANGED workerVars)
                     /\ WF_allVars(LeaseExpires(j) /\ ~Renewed(j) /\ UNCHANGED workerVars)
    /\ \A w \in Workers : /\ WF_allVars(\E r \in RunsOf(w) : TimesOut(r))
                         /\ WF_allVars(Settles(w))
    /\ \A w \in Staying :
         /\ SF_allVars(BeginRescue(w))
         /\ SF_allVars(\E o \in sweep[w] : GoOnRescue(w, o))
         /\ SF_allVars(\E q \in Queues, B \in SUBSET Ids : Claim(w, q, B))

FairWorkerSpec == WorkerSpec /\ Fairness

-----------------------------------------------------------------------------
(* Properties *)

WorkerTypeOK ==
    /\ process \in [Workers -> {"up", "draining", "aborting", "down"}]
    /\ runs \subseteq Run
    /\ controllers \in [Workers -> [Ids -> Nat]]
    /\ lost \subseteq [worker : Workers, id : Ids, attempt : Nat]

\* Each delivery goes to one run: claims, rescues, operator retries and crashes in
\* any order never start two runs of one attempt, in one process or in two, and no
\* run is ahead of its row (claimBatch counts the attempt as it takes the lease).
OneRunPerAttempt ==
    /\ \A r, s \in runs : r.id = s.id /\ r.attempt = s.attempt => r = s
    /\ \A r \in runs : HasRow(r.id) => r.attempt <= jobs[r.id].attempt

\* No lease is held by nobody: a row executing for a live process has the run that
\* was started for it, unless a call to the database failed in between -- late runs
\* of the same job settle, heartbeat and leave without orphaning the current one.
LeaseHasRun ==
    \A j \in Ids : jobs[j].state = "executing" /\ Running(jobs[j].worker) =>
      LET lease == [worker |-> jobs[j].worker, id |-> j, attempt |-> jobs[j].attempt]
      IN lease \in lost \/ \E r \in runs : Lease(r) = lease

\* A worker never executes more of a queue than its deployment allows, though it
\* claims in batches and learns of ended runs late (runOnce's room).
WithinConcurrency ==
    \A w \in Workers, q \in Queues :
      Cardinality({ r \in RunsOf(w) : r.queue = q }) <= Concurrency[q]

\* The runs of a process and its leases fit each other, and its room: both of the above.
RunsKept == LeaseHasRun /\ WithinConcurrency

\* The workers use the queue as its specification has it: every step of theirs is
\* one of JobQueue's or leaves the table alone.
UsesQueue == QueueSpec

\* A handler goes on though its signal was aborted ("handler_ignored_abort").
Ignores(r) == r.step = "handling" /\ r.aborted

\* Such handlers stand in the way of a job: one of its own, whose interval renews
\* the lease, or, for a job that waits, as many in every staying worker as there is
\* room for.
Obstructed(j) ==
    \/ \E r \in runs : Ignores(r) /\ r.id = j /\ Held(j, r.worker)
    \/ /\ jobs[j].state \in Waiting
       /\ \A w \in Staying :
            Cardinality({ r \in RunsOf(w) : Ignores(r) /\ r.queue = jobs[j].queue })
              = Concurrency[jobs[j].queue]

\* Every job ends: as long as one worker lives on, a job that was enqueued reaches
\* a terminal state, through crashes, lost answers, expired leases and late runs --
\* unless from some moment on handlers that ignore their aborted signal stand in
\* its way, which the timeout cannot end (worker.ts:285-296, 342).
EveryJobEnds ==
    \A j \in Ids : []<>~IsActive(j) \/ <>[]Obstructed(j)

\* What docs/jobs.md promises of ctx.signal: "aborted on timeout or shutdown".
ShutdownAbortsEveryRun ==
    \A r \in runs : process[r.worker] = "aborting" /\ r.step = "handling" => r.aborted
=============================================================================
