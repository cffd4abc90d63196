---------------------------- MODULE JobWorkerProofs ----------------------------
(***************************************************************************)
(* For any number of workers and jobs: the workers use the queue as        *)
(* JobQueue specifies it, so that its theorems hold of the whole system;   *)
(* no attempt of a job is ever started twice; no lease is left without its *)
(* run; and no worker runs more of a queue than it may.                    *)
(***************************************************************************)
EXTENDS JobWorker, JobQueueProofs, FiniteSetTheorems

-----------------------------------------------------------------------------
(* Refinement: every step of the workers is a step of the queue or none.   *)

\* A step that leaves the queue alone stutters in it.
LEMMA QuietIsQueue == Quiet => [Next]_queueVars
  BY DEF Quiet, queueVars

\* The claim of a poll pass is claimBatch with a limit it may have.
LEMMA ClaimIsQueue ==
    ASSUME NEW w \in Workers, NEW q \in Queues, NEW B \in SUBSET Ids,
           ClaimForRoom(w, q, B)
    PROVE  WorkerNext
  <1>1. PICK limit \in 1 .. MaxClaim : ClaimBatch(w, q, limit, B)
    BY DEF ClaimForRoom
  <1>2. limit \in 1 .. BatchLimit
    BY <1>1, WorkerAssumption, QueueAssumption
  <1>. QED
    BY <1>1, <1>2 DEF WorkerNext

\* A poll pass takes steps of the queue.
LEMMA PollsIsQueue ==
    ASSUME NEW w \in Workers, Polls(w)
    PROVE  [Next]_queueVars
  <1>1. w \in Rescuers
    BY WorkerAssumption
  <1>2. CASE BeginRescue(w) \/ FailRescue(w) \/ \E o \in sweep[w] : GoOnRescue(w, o)
    BY <1>1, <1>2 DEF BeginRescue, FailRescue, GoOnRescue, Next, RescuerNext
  <1>3. ASSUME NEW q \in Queues, NEW B \in SUBSET Ids, Claim(w, q, B) \/ ClaimLost(w, q, B)
        PROVE  [Next]_queueVars
    BY <1>3, ClaimIsQueue DEF Claim, ClaimLost, Next
  <1>. QED
    BY <1>2, <1>3 DEF Polls

\* execute() takes steps of the queue, each settlement under its guard.
LEMMA ExecutesIsQueue ==
    ASSUME NEW r \in runs, r.id \in Ids, r.worker \in Workers, Executes(r)
    PROVE  [Next]_queueVars
  <1>1. ASSUME \/ Heartbeat(r.id, r.worker) \/ Complete(r.id, r.worker)
               \/ \E due \in BOOLEAN : Retry(r.id, r.worker, due)
               \/ Discard(r.id, r.worker)
        PROVE  [Next]_queueVars
    BY <1>1 DEF Next, WorkerNext
  <1>2. CASE TimesOut(r) \/ Returns(r) \/ Throws(r) \/ SettleThrows(r)
    BY <1>2, QuietIsQueue DEF TimesOut, Returns, Throws, SettleThrows
  <1>3. CASE Beats(r)
    BY <1>1, <1>3, QuietIsQueue DEF Beats
  <1>4. CASE Completes(r) \/ CompleteThrows(r)
    BY <1>1, <1>4, QuietIsQueue DEF Completes, CompleteThrows, Guarded
  <1>5. CASE Fails(r) \/ DiscardsUnknown(r)
    BY <1>1, <1>5, QuietIsQueue DEF Fails, DiscardsUnknown, Guarded
  <1>. QED
    BY <1>2, <1>3, <1>4, <1>5 DEF Executes

\* Shutdown leaves the queue alone; a crash only ends the rescue under way.
LEMMA EndsIsQueue ==
    ASSUME TypeOK, NEW w \in Workers, Ends(w)
    PROVE  [Next]_queueVars
  <1>1. CASE Close(w) \/ GraceEnds(w) \/ Exit(w)
    BY <1>1, QuietIsQueue DEF Close, GraceEnds, Exit
  <1>2. CASE Crash(w)
    <2>1. CASE sweep[w] = {}
      BY <1>2, <2>1 DEF Crash, TypeOK, queueVars
    <2>2. CASE sweep[w] # {}
      BY <1>2, <2>2, WorkerAssumption DEF Crash, RescueStop, RescuerNext, Next
    <2>. QED
      BY <2>1, <2>2
  <1>. QED
    BY <1>1, <1>2 DEF Ends

\* Every step of the workers is a step of the queue or leaves it alone.
LEMMA StepIsQueue ==
    ASSUME TypeOK, runs \subseteq Run, [WorkerStep]_allVars
    PROVE  [Next]_queueVars
  <1>1. CASE Produce \/ Operate \/ TimePasses
    BY <1>1 DEF Produce, Operate, TimePasses, Next, OperatorNext
  <1>2. CASE \E w \in Workers : Polls(w) \/ Ends(w)
    BY <1>2, PollsIsQueue, EndsIsQueue
  <1>3. CASE \E r \in runs : Executes(r)
    BY <1>3, ExecutesIsQueue DEF Run
  <1>4. CASE UNCHANGED allVars
    BY <1>4 DEF allVars, queueVars
  <1>. QED
    BY <1>1, <1>2, <1>3, <1>4 DEF WorkerStep

-----------------------------------------------------------------------------
(***************************************************************************)
(* Runs.  A run is never ahead of its row, and a claim counts the attempt  *)
(* before it starts the run: a new run is therefore ahead of all others of *)
(* its job.                                                                *)
(***************************************************************************)
RunsTyped == runs \subseteq Run
RunsBorn == \A r \in runs : jobs[r.id] # Unborn
RunInv == RunsTyped /\ RunsBorn /\ OneRunPerAttempt

\* Rows do not come back from the dead and their attempts are never uncounted.
LEMMA RowsAhead ==
    ASSUME TypeOK, RowsStep, NEW j \in Ids, jobs[j] # Unborn
    PROVE  /\ jobs'[j] # Unborn
           /\ jobs'[j].state \notin {"unborn", "pruned"} =>
                HasRow(j) /\ jobs[j].attempt <= jobs'[j].attempt
  <1>1. RowStep(jobs[j], jobs'[j]) /\ jobs[j] \in Row \union {Pruned}
    BY DEF RowsStep, TypeOK
  <1>2. \A row \in Row : row # Unborn /\ row.attempt <= row.attempt
    BY AttemptOfRow DEF Row, Unborn, Active, Waiting, Terminal
  <1>. QED
    BY <1>1, <1>2 DEF RowStep, HasRow, Row, Unborn, Pruned, Active, Waiting, Terminal

\* The runs of the next state stand for runs of this one, one for one.
LEMMA RunsCarried ==
    ASSUME TypeOK, RowsStep, RunInv, runs' \subseteq Run,
           NEW from \in [runs' -> runs],
           \A s \in runs' : s.id = from[s].id /\ s.attempt = from[s].attempt,
           \A s, t \in runs' : from[s] = from[t] => s = t
    PROVE  RunInv'
  <1>1. ASSUME NEW s \in runs'
        PROVE  /\ jobs'[s.id] # Unborn
               /\ jobs'[s.id].state \notin {"unborn", "pruned"} =>
                    s.attempt <= jobs'[s.id].attempt
    <2>1. /\ from[s] \in runs /\ s.id = from[s].id /\ s.attempt = from[s].attempt
          /\ s.id \in Ids /\ s.attempt \in Nat
      BY DEF Run
    <2>2. jobs[s.id] # Unborn
      BY <2>1 DEF RunInv, RunsBorn
    <2>3. HasRow(s.id) => s.attempt <= jobs[s.id].attempt
      BY <2>1 DEF RunInv, OneRunPerAttempt
    <2>4. HasRow(s.id) => jobs[s.id].attempt \in Nat
      BY <2>1 DEF HasRow, TypeOK, Row, Unborn, Pruned
    <2>5. /\ jobs'[s.id] # Unborn
          /\ jobs'[s.id].state \notin {"unborn", "pruned"} =>
                HasRow(s.id) /\ jobs[s.id].attempt <= jobs'[s.id].attempt
      BY <2>1, <2>2, RowsAhead
    <2>6. jobs'[s.id].state \notin {"unborn", "pruned"} => jobs'[s.id].attempt \in Nat
      BY <2>1, RowsTyped DEF Row, Unborn, Pruned
    <2>. QED
      BY <2>1, <2>3, <2>4, <2>5, <2>6
  <1>2. ASSUME NEW s \in runs', NEW t \in runs', s.id = t.id, s.attempt = t.attempt
        PROVE  s = t
    <2>1. from[s] = from[t]
      BY <1>2 DEF RunInv, OneRunPerAttempt
    <2>. QED
      BY <2>1
  <1>. QED
    BY <1>1, <1>2 DEF RunInv, RunsTyped, RunsBorn, OneRunPerAttempt, HasRow

\* Runs that leave disturb no other run.
LEMMA RunsLeave ==
    ASSUME TypeOK, RowsStep, RunInv, runs' \subseteq runs
    PROVE  RunInv'
  <1>. DEFINE from == [s \in runs' |-> s]
  <1>1. runs' \subseteq Run /\ from \in [runs' -> runs]
    BY DEF RunInv, RunsTyped
  <1>. QED
    BY <1>1, RunsCarried

\* A run that moves on keeps its job and its attempt.
LEMMA RunsReplaced ==
    ASSUME TypeOK, RowsStep, RunInv, NEW r \in runs, NEW s \in Run,
           runs' = Replace(r, s), s.id = r.id, s.attempt = r.attempt
    PROVE  RunInv'
  <1>. DEFINE from == [t \in runs' |-> IF t = s THEN r ELSE t]
  <1>1. runs' \subseteq Run /\ from \in [runs' -> runs]
    BY DEF RunInv, RunsTyped, Replace
  <1>2. \A t \in runs' : t.id = from[t].id /\ t.attempt = from[t].attempt
    BY DEF Replace
  <1>3. \A t, u \in runs' : from[t] = from[u] => t = u
    BY DEF Replace
  <1>. QED
    BY <1>1, <1>2, <1>3, RunsCarried

\* A step of the workers takes each row to a row it may become.
LEMMA WorkerStepRows ==
    ASSUME TypeOK, LeaseIffExecuting, RunsTyped, [WorkerStep]_allVars
    PROVE  RowsStep
  BY StepIsQueue, NextRows DEF RunsTyped

\* A claim starts runs of jobs that wait, each one attempt ahead of its row.
LEMMA ClaimRuns ==
    ASSUME TypeOK, RowsStep, RunInv, NEW w \in Workers, NEW q \in Queues,
           NEW B \in SUBSET Ids, Claim(w, q, B)
    PROVE  RunInv'
  <1>1. PICK limit \in 1 .. MaxClaim, known \in [B -> BOOLEAN] :
          /\ ClaimBatch(w, q, limit, B)
          /\ runs' = runs \union { NewRun(j, w, known[j]) : j \in B }
    BY DEF Claim, ClaimForRoom
  <1>2. ASSUME NEW j \in B
        PROVE  jobs[j] \in Row /\ jobs[j].attempt \in Nat /\ jobs[j].state \in Waiting
    <2>1. jobs[j].state \in Waiting
      BY <1>1 DEF ClaimBatch, Batch, Claimable
    <2>. QED
      BY <2>1, StateOfRow DEF Active, Row
  <1>3. ASSUME NEW j \in B
        PROVE  /\ NewRun(j, w, known[j]) \in Run
               /\ NewRun(j, w, known[j]).id = j
               /\ NewRun(j, w, known[j]).attempt = jobs[j].attempt + 1
               /\ jobs'[j] # Unborn /\ jobs'[j].attempt = jobs[j].attempt + 1
    <2>1. jobs'[j] = Claimed(jobs[j], w)
      BY <1>1 DEF ClaimBatch
    <2>2. jobs'[j] \in Row /\ jobs'[j].attempt = jobs[j].attempt + 1
      BY <1>2, <2>1, ClaimedRow
    <2>3. jobs'[j] # Unborn
      BY <2>2 DEF Row, Unborn, Active, Waiting, Terminal
    <2>4. jobs[j].queue \in Queues /\ jobs[j].max \in Nat /\ jobs[j].attempt + 1 \in Nat
      BY <1>2 DEF Row
    <2>5. NewRun(j, w, known[j]) \in Run
      BY <2>4 DEF NewRun, Run
    <2>. QED
      BY <2>2, <2>3, <2>5 DEF NewRun
  <1>4. RunsTyped'
    BY <1>1, <1>3 DEF RunInv, RunsTyped
  <1>5. ASSUME NEW r \in runs
        PROVE  /\ jobs'[r.id] # Unborn
               /\ jobs'[r.id].state \notin {"unborn", "pruned"} =>
                    r.attempt <= jobs'[r.id].attempt
    <2>1. r.id \in Ids /\ r.attempt \in Nat /\ jobs[r.id] # Unborn
      BY DEF RunInv, RunsTyped, RunsBorn, Run
    <2>2. HasRow(r.id) => r.attempt <= jobs[r.id].attempt /\ jobs[r.id].attempt \in Nat
      BY <2>1 DEF RunInv, OneRunPerAttempt, HasRow, TypeOK, Row, Unborn, Pruned
    <2>3. /\ jobs'[r.id] # Unborn
          /\ jobs'[r.id].state \notin {"unborn", "pruned"} =>
                HasRow(r.id) /\ jobs[r.id].attempt <= jobs'[r.id].attempt
      BY <2>1, RowsAhead
    <2>4. jobs'[r.id].state \notin {"unborn", "pruned"} => jobs'[r.id].attempt \in Nat
      BY <2>1, RowsTyped DEF Row, Unborn, Pruned
    <2>. QED
      BY <2>1, <2>2, <2>3, <2>4
  <1>6. ASSUME NEW r \in runs, NEW j \in B
        PROVE  ~(r.id = j /\ r.attempt = jobs[j].attempt + 1)
    <2>1. r.id = j => r.attempt <= jobs[j].attempt
      BY <1>2 DEF RunInv, OneRunPerAttempt, HasRow, Waiting
    <2>2. r.attempt \in Nat
      BY DEF RunInv, RunsTyped, Run
    <2>. QED
      BY <1>2, <2>1, <2>2
  <1>7. \A r \in runs' : /\ jobs'[r.id] # Unborn
                         /\ jobs'[r.id].state \notin {"unborn", "pruned"} =>
                              r.attempt <= jobs'[r.id].attempt
    <2>1. ASSUME NEW j \in B
          PROVE  jobs[j].attempt + 1 <= jobs'[j].attempt
      BY <1>2, <1>3
    <2>. QED
      BY <1>1, <1>3, <1>5, <2>1
  <1>8. \A r, s \in runs' : r.id = s.id /\ r.attempt = s.attempt => r = s
    BY <1>1, <1>3, <1>6 DEF RunInv, OneRunPerAttempt
  <1>. QED
    BY <1>4, <1>7, <1>8 DEF RunInv, RunsBorn, OneRunPerAttempt, HasRow

\* execute() starts no run.
LEMMA ExecutesRuns ==
    ASSUME TypeOK, RowsStep, RunInv, NEW r \in runs, Executes(r)
    PROVE  RunInv'
  <1>1. r \in Run
    BY DEF RunInv, RunsTyped
  <1>2. ASSUME NEW s \in { [r EXCEPT !.aborted = TRUE], [r EXCEPT !.step = "failing"],
                           [r EXCEPT !.step = "completing"] }
        PROVE  s \in Run /\ s.id = r.id /\ s.attempt = r.attempt
    BY <1>1 DEF Run
  <1>3. CASE TimesOut(r) \/ Returns(r) \/ Throws(r) \/ CompleteThrows(r) \/ Beats(r)
    <2>1. \/ \E s \in { [r EXCEPT !.aborted = TRUE], [r EXCEPT !.step = "failing"],
                        [r EXCEPT !.step = "completing"] } : runs' = Replace(r, s)
          \/ runs' = runs
      BY <1>3 DEF TimesOut, Returns, Throws, CompleteThrows, Beats
    <2>. QED
      BY <1>2, <2>1, RunsReplaced, RunsLeave
  <1>4. CASE Completes(r) \/ Fails(r) \/ DiscardsUnknown(r) \/ SettleThrows(r)
    BY <1>4, RunsLeave DEF Completes, Fails, DiscardsUnknown, SettleThrows, Leave
  <1>. QED
    BY <1>3, <1>4 DEF Executes

\* Shutdown and crashes start no run.
LEMMA EndsRuns ==
    ASSUME TypeOK, RowsStep, RunInv, NEW w \in Workers, Ends(w)
    PROVE  RunInv'
  <1>1. CASE Close(w) \/ Exit(w) \/ Crash(w)
    BY <1>1, RunsLeave DEF Close, Exit, Crash, Gone
  <1>2. CASE GraceEnds(w)
    <2>. DEFINE told(r) == IF r.worker = w /\ controllers[w][r.id] = r.attempt
                           THEN [r EXCEPT !.aborted = TRUE] ELSE r
    <2>1. runs' = { told(r) : r \in runs }
      BY <1>2 DEF GraceEnds
    <2>2. \A r \in runs : told(r) \in Run /\ told(r).id = r.id /\ told(r).attempt = r.attempt
      BY DEF RunInv, RunsTyped, Run
    <2>. DEFINE from == [s \in runs' |-> CHOOSE r \in runs : told(r) = s]
    <2>3. \A s \in runs' : from[s] \in runs /\ told(from[s]) = s
      BY <2>1
    <2>. HIDE DEF told
    <2>4. runs' \subseteq Run
      BY <2>1, <2>2
    <2>5. from \in [runs' -> runs]
      BY <2>3
    <2>6. \A s \in runs' : s.id = from[s].id /\ s.attempt = from[s].attempt
      BY <2>2, <2>3
    <2>7. \A s, t \in runs' : from[s] = from[t] => s = t
      BY <2>3
    <2>. HIDE DEF from
    <2>. QED
      BY <2>4, <2>5, <2>6, <2>7, RunsCarried
  <1>. QED
    BY <1>1, <1>2 DEF Ends

-----------------------------------------------------------------------------
(* The theorems *)

SystemInv == QueueInv /\ RunInv

\* The invariant of queue and workers is inductive, and every step is one of the queue.
LEMMA SystemStep == SystemInv /\ [WorkerStep]_allVars => SystemInv' /\ [Next]_queueVars
  <1>. SUFFICES ASSUME SystemInv, [WorkerStep]_allVars
                PROVE  SystemInv' /\ [Next]_queueVars
    OBVIOUS
  <1>1. [Next]_queueVars
    BY StepIsQueue DEF SystemInv, QueueInv, RunInv, RunsTyped
  <1>2. QueueInv'
    BY <1>1, InvStep DEF SystemInv
  <1>3. RowsStep
    BY <1>1, NextRows DEF SystemInv, QueueInv
  <1>4. RunInv'
    <2>1. CASE Produce \/ Operate \/ TimePasses \/ UNCHANGED allVars
      BY <1>3, <2>1, RunsLeave
         DEF Produce, Operate, TimePasses, workerVars, allVars, SystemInv, QueueInv
    <2>2. CASE \E w \in Workers : Polls(w)
      BY <1>3, <2>2, RunsLeave, ClaimRuns
         DEF Polls, BeginRescue, GoOnRescue, FailRescue, ClaimLost, workerVars,
             SystemInv, QueueInv
    <2>3. CASE \E w \in Workers : Ends(w)
      BY <1>3, <2>3, EndsRuns DEF SystemInv, QueueInv
    <2>4. CASE \E r \in runs : Executes(r)
      BY <1>3, <2>4, ExecutesRuns DEF SystemInv, QueueInv
    <2>. QED
      BY <2>1, <2>2, <2>3, <2>4 DEF WorkerStep
  <1>. QED
    BY <1>1, <1>2, <1>4 DEF SystemInv

\* It holds at the start.
LEMMA SystemInit == WorkerInit => SystemInv /\ Init
  BY InitTypeOK DEF WorkerInit, SystemInv, QueueInv, RunInv, RunsTyped, RunsBorn,
     OneRunPerAttempt

\* The invariant holds in every reachable state of the workers and their queue.
THEOREM SystemInvariance == WorkerSpec => []SystemInv
  BY SystemInit, SystemStep, PTL DEF WorkerSpec

\* Whatever the workers, the operator and the clocks do, the table sees only the
\* operations of JobQueue: its theorems hold of the composed system.
THEOREM WorkersUseQueue == WorkerSpec => UsesQueue
  BY SystemInit, SystemStep, SystemInvariance, PTL DEF WorkerSpec, UsesQueue, QueueSpec

\* For any number of processes and jobs, no attempt of a job is started twice.
THEOREM AttemptStartedOnce == WorkerSpec => []OneRunPerAttempt
  BY SystemInvariance, PTL DEF SystemInv, RunInv

\* In the composed system too a unique key has one active job at a time.
THEOREM UniqueKeyUnderWorkers == WorkerSpec => []OneActivePerKey
  BY SystemInvariance, PTL DEF SystemInv, QueueInv

-----------------------------------------------------------------------------
(***************************************************************************)
(* Leases and room.  No statement makes a row executing but a claim, and   *)
(* each claim leaves a run, or a record of the lost answer, for every row  *)
(* it took; a run that leaves has settled the row it holds, or its         *)
(* statement is known to have failed.                                      *)
(***************************************************************************)
QueueRuns(w, q) == { r \in RunsOf(w) : r.queue = q }

WithinRoom == \A w \in Workers, q \in Queues :
    IsFiniteSet(QueueRuns(w, q)) /\ Cardinality(QueueRuns(w, q)) <= Concurrency[q]

\* Finitely many jobs were ever enqueued, whatever the set of their ids.
Born == { j \in Ids : jobs[j] # Unborn }

WorkersInv == WorkerTypeOK /\ LeaseHasRun /\ IsFiniteSet(Born) /\ WithinRoom

\* What every statement but a claim keeps: who executes a row, and which attempt; and it
\* inserts one row at most.
LeaseKept(j) == jobs'[j].state = "executing" =>
    /\ jobs[j].state = "executing"
    /\ jobs'[j].worker = jobs[j].worker /\ jobs'[j].attempt = jobs[j].attempt

TableKept ==
    /\ \A j \in Ids : LeaseKept(j)
    /\ \E i : \A j \in Ids \ {i} : jobs'[j] # Unborn => jobs[j] # Unborn

\* A statement on one row that does not make it executing.
LEMMA OneRowKept ==
    ASSUME TypeOK, NEW i \in Ids, NEW new, jobs' = [jobs EXCEPT ![i] = new],
           new.state = "executing" =>
             jobs[i].state = "executing" /\ new.worker = jobs[i].worker /\ new.attempt = jobs[i].attempt
    PROVE  TableKept
  <1>1. jobs'[i] = new /\ \A j \in Ids \ {i} : jobs'[j] = jobs[j]
    BY DEF TypeOK
  <1>2. \A j \in Ids : LeaseKept(j)
    BY <1>1 DEF LeaseKept
  <1>. QED
    BY <1>1, <1>2 DEF TableKept

\* No statement at all.
LEMMA NoRowKept ==
    ASSUME UNCHANGED jobs
    PROVE  TableKept
  BY DEF TableKept, LeaseKept

\* enqueue inserts one row, which waits.
LEMMA ProducerKept ==
    ASSUME TypeOK, ProducerNext
    PROVE  TableKept
  <1>1. ASSUME NEW row \in NewRows, Insert(row)
        PROVE  TableKept
    <2>1. row.state # "executing"
      BY NewRowIsRow DEF Waiting
    <2>. QED
      BY <1>1, <2>1, OneRowKept DEF Insert
  <1>2. ASSUME NEW c \in Producers, EnqueueAgain(c), Insert(enqueuing[c].row)
        PROVE  TableKept
    <2>1. enqueuing[c].row \in NewRows
      BY <1>2 DEF EnqueueAgain, TypeOK, EnqueueState, Idle
    <2>. QED
      BY <1>1, <1>2, <2>1
  <1>. QED
    BY <1>1, <1>2, NoRowKept DEF ProducerNext, Enqueue, EnqueueLookup, EnqueueAgain

\* A row that loses its lease is not executing.
LEMMA UnleasedKept ==
    ASSUME TypeOK, NEW j \in Ids, jobs[j].state = "executing", NEW due \in BOOLEAN,
           NEW s \in (Active \union Terminal) \ {"executing"},
           \/ jobs' = [jobs EXCEPT ![j] = Unleased(jobs[j], s)]
           \/ jobs' = [jobs EXCEPT ![j] = [Unleased(jobs[j], s) EXCEPT !.due = due]]
    PROVE  TableKept /\ jobs'[j].state # "executing"
  <1>1. jobs[j] \in Row
    BY StateOfRow DEF Active
  <1>2. Unleased(jobs[j], s).state = s
    BY <1>1, UnleasedRow
  <1>3. [Unleased(jobs[j], s) EXCEPT !.due = due].state = s
    BY ZenonT(30), <1>1, UnleasedDueRow
  <1>4. jobs'[j].state = s
    BY <1>2, <1>3 DEF TypeOK
  <1>. QED
    BY <1>2, <1>3, <1>4, OneRowKept

\* The holder's statements.
LEMMA HolderKept ==
    ASSUME TypeOK, NEW j \in Ids, NEW w, NEW due \in BOOLEAN,
           Heartbeat(j, w) \/ Complete(j, w) \/ Retry(j, w, due) \/ Discard(j, w)
    PROVE  TableKept /\ (Heartbeat(j, w) \/ jobs'[j].state # "executing")
  <1>1. jobs[j] \in Row /\ jobs[j].state = "executing"
    BY StateOfRow DEF Heartbeat, Complete, Retry, Discard, Held, Active
  <1>2. CASE Heartbeat(j, w)
    <2>. DEFINE new == [jobs[j] EXCEPT !.lease = "live"]
    <2>1. new.state = jobs[j].state /\ new.worker = jobs[j].worker /\ new.attempt = jobs[j].attempt
      BY <1>1 DEF Row
    <2>2. jobs' = [jobs EXCEPT ![j] = new]
      BY <1>2 DEF Heartbeat
    <2>. HIDE DEF new
    <2>3. TableKept
      BY <1>1, <2>1, <2>2, OneRowKept
    <2>. QED
      BY <1>2, <2>3
  <1>3. CASE Complete(j, w) \/ Retry(j, w, due) \/ Discard(j, w)
    BY <1>1, <1>3, UnleasedKept DEF Complete, Retry, Discard, Active, Waiting, Terminal
  <1>. QED
    BY <1>2, <1>3

\* The operator's statements.
LEMMA OperatorKept ==
    ASSUME TypeOK, NEW j \in Ids, Cancel(j) \/ RetryNow(j)
    PROVE  TableKept
  <1>1. jobs[j] \in Row
    BY StateOfRow DEF Cancel, RetryNow, IsActive, Active, Waiting, Terminal
  <1>2. CASE Cancel(j)
    <2>1. [jobs[j] EXCEPT !.state = "cancelled"].state = "cancelled"
      BY <1>1 DEF Row
    <2>. QED
      BY <1>2, <2>1, OneRowKept DEF Cancel
  <1>3. CASE RetryNow(j)
    <2>1. Reopened(jobs[j]).state = "available"
      BY <1>1 DEF Row, Reopened, Unleased
    <2>. QED
      BY <1>3, <2>1, OneRowKept DEF RetryNow
  <1>. QED
    BY <1>2, <1>3

\* A prune leaves rows that are not executing, and inserts none.
LEMMA PruneKept ==
    ASSUME TypeOK, NEW S \in SUBSET Ids, Prune(S)
    PROVE  TableKept
  <1>1. \A j \in Ids : jobs'[j] = jobs[j] \/ (jobs'[j] = Pruned /\ jobs[j].state \in Terminal)
    BY DEF Prune
  <1>2. \A j \in Ids : LeaseKept(j)
    BY <1>1 DEF LeaseKept, Pruned
  <1>3. \A j \in Ids : jobs'[j] # Unborn => jobs[j] # Unborn
    BY <1>1 DEF Unborn, Terminal
  <1>. QED
    BY <1>2, <1>3 DEF TableKept

\* rescue ends leases and starts none.
LEMMA RescueKept ==
    ASSUME TypeOK, NEW w \in Rescuers, NEW o \in sweep[w], RescueSettle(w, o)
    PROVE  TableKept
  <1>1. o \in Observation
    BY DEF TypeOK
  <1>2. CASE Held(o.id, o.worker)
    <2>1. o.id \in Ids /\ jobs[o.id].state = "executing"
      BY <1>1, <1>2 DEF Observation, Held
    <2>4. {"discarded", "retryable"} \subseteq (Active \union Terminal) \ {"executing"} /\ TRUE \in BOOLEAN
      BY DEF Active, Waiting, Terminal
    <2>2. CASE o.attempt >= o.max
      <3>1. jobs' = [jobs EXCEPT ![o.id] = Unleased(jobs[o.id], "discarded")]
        BY <1>2, <2>2 DEF RescueSettle
      <3>. QED
        BY <2>1, <2>4, <3>1, UnleasedKept
    <2>3. CASE ~(o.attempt >= o.max)
      <3>1. jobs' = [jobs EXCEPT ![o.id] = [Unleased(jobs[o.id], "retryable") EXCEPT !.due = TRUE]]
        BY <1>2, <2>3 DEF RescueSettle
      <3>. QED
        BY <2>1, <2>4, <3>1, UnleasedKept
    <2>. QED
      BY <2>2, <2>3
  <1>. QED
    BY <1>2, NoRowKept DEF RescueSettle

\* Time makes no row executing.
LEMMA TimeKept ==
    ASSUME TypeOK, NEW j \in Ids, ComesDue(j) \/ LeaseExpires(j)
    PROVE  TableKept
  <1>1. jobs[j] \in Row
    BY StateOfRow DEF ComesDue, LeaseExpires, Active
  <1>. DEFINE late == [jobs[j] EXCEPT !.lease = "expired"]
              due == [jobs[j] EXCEPT !.due = TRUE]
  <1>2. late.state = jobs[j].state /\ late.worker = jobs[j].worker /\ late.attempt = jobs[j].attempt
    BY <1>1 DEF Row
  <1>3. due.state = jobs[j].state /\ due.worker = jobs[j].worker /\ due.attempt = jobs[j].attempt
    BY <1>1 DEF Row
  <1>4. jobs' = [jobs EXCEPT ![j] = late] \/ jobs' = [jobs EXCEPT ![j] = due]
    BY DEF ComesDue, LeaseExpires
  <1>. HIDE DEF late, due
  <1>. QED
    BY <1>2, <1>3, <1>4, OneRowKept

\* A run that is under way goes on, or its lease is lost, or its process is gone, or it has
\* not got its row any more.
RunSettled(r) ==
    \/ \E s \in runs' : Lease(s) = Lease(r)
    \/ Lease(r) \in lost'
    \/ process'[r.worker] = "down"
    \/ ~(jobs'[r.id].state = "executing" /\ jobs'[r.id].worker = r.worker)

LeasesCovered ==
    /\ \A r \in runs : RunSettled(r)
    /\ lost \subseteq lost'
    /\ \A w \in Workers : process'[w] # "down" => process[w] # "down"

\* The runs of the next state stand for runs of this one, in the same worker and queue.
RoomKept == \E from \in [runs' -> runs] :
    /\ \A s \in runs' : s.worker = from[s].worker /\ s.queue = from[s].queue
    /\ \A s, t \in runs' : from[s] = from[t] => s = t

\* The lease of a row that was executing still has its run, or a reason to have none.
LEMMA LeasesStep ==
    ASSUME TypeOK', LeaseIffExecuting', LeaseHasRun, TableKept, LeasesCovered
    PROVE  LeaseHasRun'
  <1>. SUFFICES ASSUME NEW j \in Ids, jobs'[j].state = "executing",
                       process'[jobs'[j].worker] # "down",
                       NEW lease, lease = [worker |-> jobs'[j].worker, id |-> j, attempt |-> jobs'[j].attempt]
                PROVE  lease \in lost' \/ \E s \in runs' : Lease(s) = lease
    BY DEF LeaseHasRun, Running, Lease
  <1>1. /\ jobs[j].state = "executing"
        /\ jobs'[j].worker = jobs[j].worker /\ jobs'[j].attempt = jobs[j].attempt
    BY DEF TableKept, LeaseKept
  <1>2. jobs'[j].worker \in Workers
    BY RowsTyped DEF TypeOK, LeaseIffExecuting, Row, Unborn, Pruned
  <1>3. lease \in lost \/ \E r \in runs : Lease(r) = lease
    BY <1>1, <1>2 DEF LeaseHasRun, Running, LeasesCovered
  <1>4. CASE lease \in lost
    BY <1>4 DEF LeasesCovered
  <1>5. ASSUME NEW r \in runs, Lease(r) = lease
        PROVE  lease \in lost' \/ \E s \in runs' : Lease(s) = lease
    <2>1. r.worker = jobs'[j].worker /\ r.id = j
      BY <1>5 DEF Lease
    <2>2. RunSettled(r)
      BY DEF LeasesCovered
    <2>. QED
      BY <1>5, <2>1, <2>2 DEF RunSettled
  <1>. QED
    BY <1>3, <1>4, <1>5

\* Runs that go on, one for one, take no more room.
LEMMA RoomStep ==
    ASSUME WorkerAssumption, WithinRoom, RoomKept
    PROVE  WithinRoom'
  <1>. SUFFICES ASSUME NEW w \in Workers, NEW q \in Queues,
                       NEW S, S = { r \in runs' : r.worker = w /\ r.queue = q }
                PROVE  IsFiniteSet(S) /\ Cardinality(S) <= Concurrency[q]
    <2>1. \A w \in Workers, q \in Queues :
            QueueRuns(w, q)' = { r \in runs' : r.worker = w /\ r.queue = q }
      BY DEF QueueRuns, RunsOf
    <2>. QED
      BY <2>1 DEF WithinRoom
  <1>1. PICK from \in [runs' -> runs] :
          /\ \A s \in runs' : s.worker = from[s].worker /\ s.queue = from[s].queue
          /\ \A s, t \in runs' : from[s] = from[t] => s = t
    BY DEF RoomKept
  <1>. DEFINE f == [s \in S |-> from[s]]
  <1>2. f \in Injection(S, QueueRuns(w, q))
    <2>1. \A s \in S : from[s] \in QueueRuns(w, q)
      BY <1>1 DEF QueueRuns, RunsOf
    <2>2. f \in [S -> QueueRuns(w, q)]
      BY <2>1
    <2>3. \A s, u \in S : f[s] = f[u] => s = u
      BY <1>1
    <2>. HIDE DEF f
    <2>. QED
      BY <2>2, <2>3 DEF Injection, IsInjective
  <1>3. IsFiniteSet(QueueRuns(w, q)) /\ Cardinality(QueueRuns(w, q)) <= Concurrency[q]
    BY DEF WithinRoom
  <1>. HIDE DEF f
  <1>4. IsFiniteSet(S) /\ Cardinality(S) <= Cardinality(QueueRuns(w, q))
    BY <1>2, <1>3, FS_Injection
  <1>5. Cardinality(S) \in Nat /\ Cardinality(QueueRuns(w, q)) \in Nat /\ Concurrency[q] \in Nat
    BY <1>3, <1>4, FS_CardinalityType DEF WorkerAssumption
  <1>. QED
    BY <1>3, <1>4, <1>5

LEMMA RoomLeaves ==
    ASSUME runs' \subseteq runs
    PROVE  RoomKept
  <1>. DEFINE from == [s \in runs' |-> s]
  <1>1. from \in [runs' -> runs]
    OBVIOUS
  <1>. QED
    BY <1>1 DEF RoomKept

LEMMA RoomReplaced ==
    ASSUME NEW r \in runs, NEW s, runs' = Replace(r, s), s.worker = r.worker, s.queue = r.queue
    PROVE  RoomKept
  <1>. DEFINE from == [t \in runs' |-> IF t = s THEN r ELSE t]
  <1>1. from \in [runs' -> runs]
    BY DEF Replace
  <1>2. \A t \in runs' : t.worker = from[t].worker /\ t.queue = from[t].queue
    OBVIOUS
  <1>3. \A t, u \in runs' : from[t] = from[u] => t = u
    BY DEF Replace
  <1>. QED
    BY <1>1, <1>2, <1>3 DEF RoomKept

\* At most one job is inserted.
LEMMA BornStep ==
    ASSUME TableKept, IsFiniteSet(Born)
    PROVE  IsFiniteSet(Born')
  <1>1. PICK i : \A j \in Ids \ {i} : jobs'[j] # Unborn => jobs[j] # Unborn
    BY DEF TableKept
  <1>2. Born' \in SUBSET (Born \union {i})
    BY <1>1 DEF Born
  <1>3. IsFiniteSet(Born \union {i})
    BY FS_AddElement
  <1>. QED
    BY <1>2, <1>3, FS_Subset

WorkersKept == TableKept /\ LeasesCovered /\ RoomKept /\ WorkerTypeOK'

\* What changes nothing of the workers.
LEMMA OthersKept ==
    ASSUME TableKept, WorkerTypeOK, UNCHANGED workerVars
    PROVE  WorkersKept
  <1>1. LeasesCovered
    BY DEF LeasesCovered, RunSettled, workerVars
  <1>. QED
    BY <1>1, RoomLeaves DEF WorkersKept, WorkerTypeOK, workerVars

\* execute() until it settles.
LEMMA RunMovesKept ==
    ASSUME TypeOK, WorkerTypeOK, NEW r \in runs,
           TimesOut(r) \/ Returns(r) \/ Throws(r) \/ CompleteThrows(r) \/ Beats(r)
    PROVE  WorkersKept
  <1>1. r \in Run
    BY DEF WorkerTypeOK
  <1>2. ASSUME NEW s \in { [r EXCEPT !.aborted = TRUE], [r EXCEPT !.step = "failing"],
                           [r EXCEPT !.step = "completing"] }
        PROVE  s \in Run /\ s.worker = r.worker /\ s.queue = r.queue /\ Lease(s) = Lease(r)
    BY <1>1 DEF Run, Lease
  <1>3. /\ \/ \E s \in { [r EXCEPT !.aborted = TRUE], [r EXCEPT !.step = "failing"],
                          [r EXCEPT !.step = "completing"] } : runs' = Replace(r, s)
           \/ runs' = runs
        /\ UNCHANGED <<process, controllers, lost>>
    BY DEF TimesOut, Returns, Throws, CompleteThrows, Beats
  <1>4. TableKept
    <2>1. r.id \in Ids /\ TRUE \in BOOLEAN
      BY <1>1 DEF Run
    <2>2. UNCHANGED jobs \/ Heartbeat(r.id, r.worker) \/ Complete(r.id, r.worker)
      BY DEF TimesOut, Returns, Throws, CompleteThrows, Beats, Quiet
    <2>. QED
      BY <2>1, <2>2, NoRowKept, HolderKept
  <1>5. RoomKept
    BY <1>2, <1>3, RoomReplaced, RoomLeaves
  <1>6. \A t \in runs : \E s \in runs' : Lease(s) = Lease(t)
    BY <1>2, <1>3 DEF Replace
  <1>7. LeasesCovered
    BY <1>3, <1>6 DEF LeasesCovered, RunSettled
  <1>8. WorkerTypeOK'
    BY <1>2, <1>3 DEF WorkerTypeOK, Replace
  <1>. QED
    BY <1>4, <1>5, <1>7, <1>8 DEF WorkersKept

\* execute() at its end: the row is settled, or it was not the run's, or it is lost.
LEMMA RunEndsKept ==
    ASSUME TypeOK, WorkerTypeOK, NEW r \in runs,
           Completes(r) \/ Fails(r) \/ DiscardsUnknown(r) \/ SettleThrows(r)
    PROVE  WorkersKept
  <1>1. r \in Run /\ r.id \in Ids /\ r.worker \in Workers /\ r.attempt \in Nat /\ TRUE \in BOOLEAN
    BY DEF WorkerTypeOK, Run
  <1>2. /\ runs' = runs \ {r} /\ UNCHANGED process
        /\ controllers' = controllers \/ controllers' = [controllers EXCEPT ![r.worker][r.id] = 0]
        /\ lost' = lost \/ lost' = lost \union {Lease(r)}
    BY DEF Completes, Fails, DiscardsUnknown, SettleThrows, Leave
  <1>3. \/ UNCHANGED jobs /\ (Held(r.id, r.worker) => Lease(r) \in lost')
        \/ Complete(r.id, r.worker) \/ Discard(r.id, r.worker)
        \/ \E due \in BOOLEAN : Retry(r.id, r.worker, due)
    BY DEF Completes, Fails, DiscardsUnknown, SettleThrows, Guarded, Quiet
  <1>4. TableKept
    BY <1>1, <1>3, NoRowKept, HolderKept
  <1>5. RunSettled(r)
    <2>1. CASE UNCHANGED jobs /\ (Held(r.id, r.worker) => Lease(r) \in lost')
      BY <2>1 DEF RunSettled, Held
    <2>2. ASSUME NEW due \in BOOLEAN,
                 Complete(r.id, r.worker) \/ Discard(r.id, r.worker) \/ Retry(r.id, r.worker, due)
          PROVE  TableKept /\ jobs'[r.id].state # "executing"
      <3>1. jobs[r.id] \in Row /\ jobs[r.id].state = "executing"
        BY <1>1, <2>2, StateOfRow DEF Complete, Discard, Retry, Held, Active
      <3>. QED
        BY <1>1, <2>2, <3>1, UnleasedKept DEF Complete, Retry, Discard, Active, Waiting, Terminal
    <2>. QED
      BY <1>1, <1>3, <2>1, <2>2 DEF RunSettled
  <1>6. LeasesCovered
    BY <1>2, <1>5 DEF LeasesCovered, RunSettled
  <1>7. Lease(r) \in [worker : Workers, id : Ids, attempt : Nat]
    BY <1>1 DEF Lease
  <1>8. [controllers EXCEPT ![r.worker][r.id] = 0] \in [Workers -> [Ids -> Nat]]
    BY <1>1 DEF WorkerTypeOK
  <1>9. WorkerTypeOK'
    BY <1>2, <1>7, <1>8 DEF WorkerTypeOK
  <1>. QED
    BY <1>2, <1>4, <1>6, <1>9, RoomLeaves DEF WorkersKept

\* Shutdown, exit and crash.
LEMMA EndsKept ==
    ASSUME TypeOK, WorkerTypeOK, NEW w \in Workers, Ends(w)
    PROVE  WorkersKept
  <1>1. TableKept
    BY NoRowKept DEF Ends, Close, GraceEnds, Exit, Crash, Quiet
  <1>2. CASE Close(w)
    <2>1. LeasesCovered
      BY <1>2 DEF LeasesCovered, RunSettled, Close, WorkerTypeOK
    <2>2. WorkerTypeOK'
      BY <1>2 DEF WorkerTypeOK, Close
    <2>. QED
      BY <1>1, <1>2, <2>1, <2>2, RoomLeaves DEF WorkersKept, Close
  <1>3. CASE Exit(w) \/ Crash(w)
    <2>1. Gone(w)
      BY <1>3 DEF Exit, Crash
    <2>2. \A v \in Workers : process'[v] # "down" => process[v] = process'[v]
      BY <2>1 DEF Gone, WorkerTypeOK
    <2>3. \A r \in runs : r \in runs' \/ process'[r.worker] = "down"
      BY <2>1 DEF Gone, RunsOf, WorkerTypeOK
    <2>4. LeasesCovered
      BY <2>1, <2>2, <2>3 DEF LeasesCovered, RunSettled, Gone
    <2>5. WorkerTypeOK'
      BY <2>1 DEF WorkerTypeOK, Gone
    <2>. QED
      BY <1>1, <2>1, <2>4, <2>5, RoomLeaves DEF WorkersKept, Gone
  <1>4. CASE GraceEnds(w)
    <2>. DEFINE told(r) == IF r.worker = w /\ controllers[w][r.id] = r.attempt
                           THEN [r EXCEPT !.aborted = TRUE] ELSE r
    <2>1. runs' = { told(r) : r \in runs }
      BY <1>4 DEF GraceEnds
    <2>2. \A r \in runs : /\ told(r) \in Run /\ Lease(told(r)) = Lease(r)
                          /\ told(r).worker = r.worker /\ told(r).queue = r.queue
      BY DEF WorkerTypeOK, Run, Lease
    <2>. DEFINE from == [s \in runs' |-> CHOOSE r \in runs : told(r) = s]
    <2>3. \A s \in runs' : from[s] \in runs /\ told(from[s]) = s
      BY <2>1
    <2>. HIDE DEF told
    <2>4. from \in [runs' -> runs]
      BY <2>3
    <2>5. \A s \in runs' : s.worker = from[s].worker /\ s.queue = from[s].queue
      BY <2>2, <2>3
    <2>6. \A s, t \in runs' : from[s] = from[t] => s = t
      BY <2>3
    <2>. HIDE DEF from
    <2>7. RoomKept
      BY <2>4, <2>5, <2>6 DEF RoomKept
    <2>8. \A r \in runs : \E s \in runs' : Lease(s) = Lease(r)
      BY <2>1, <2>2
    <2>9. LeasesCovered
      BY <1>4, <2>8 DEF LeasesCovered, RunSettled, GraceEnds, WorkerTypeOK
    <2>10. runs' \subseteq Run
      BY <2>1, <2>2
    <2>11. WorkerTypeOK'
      BY <1>4, <2>10 DEF WorkerTypeOK, GraceEnds
    <2>. QED
      BY <1>1, <2>7, <2>9, <2>11 DEF WorkersKept
  <1>. QED
    BY <1>2, <1>3, <1>4 DEF Ends

\* What a claim, answered or not, makes of the table.
LEMMA ClaimedTable ==
    ASSUME TypeOK, IsFiniteSet(Born), WithinRoom,
           NEW w \in Workers, NEW q \in Queues, NEW B \in SUBSET Ids, ClaimForRoom(w, q, B)
    PROVE  /\ \A j \in B : /\ jobs[j] \in Row /\ jobs[j].queue = q /\ jobs[j].state \in Waiting
                            /\ jobs'[j].state = "executing" /\ jobs'[j].worker = w
                            /\ jobs'[j].attempt = jobs[j].attempt + 1
           /\ \A j \in Ids \ B : jobs'[j] = jobs[j]
           /\ IsFiniteSet(B) /\ B \subseteq Born
           /\ Cardinality(QueueRuns(w, q)) + Cardinality(B) <= Concurrency[q]
  <1>1. PICK limit \in 1 .. MaxClaim : limit = MinOf(MaxClaim, Room(w, q)) /\ ClaimBatch(w, q, limit, B)
    BY DEF ClaimForRoom
  <1>2. ASSUME NEW j \in B
        PROVE  jobs[j] \in Row /\ jobs[j].queue = q /\ jobs[j].state \in Waiting
    <2>1. jobs[j].state \in Waiting /\ jobs[j].queue = q
      BY <1>1 DEF ClaimBatch, Batch, Claimable
    <2>. QED
      BY <2>1, StateOfRow DEF Active
  <1>3. ASSUME NEW j \in B
        PROVE  /\ jobs'[j].state = "executing" /\ jobs'[j].worker = w
               /\ jobs'[j].attempt = jobs[j].attempt + 1
    <2>1. jobs'[j] = Claimed(jobs[j], w)
      BY <1>1 DEF ClaimBatch
    <2>. QED
      BY <1>2, <2>1, ClaimedRow
  <1>4. \A j \in Ids \ B : jobs'[j] = jobs[j]
    BY <1>1 DEF ClaimBatch
  <1>5. B \subseteq Born /\ IsFiniteSet(B)
    <2>1. B \in SUBSET Born
      BY <1>2 DEF Born, Unborn, Waiting
    <2>. QED
      BY <2>1, FS_Subset
  <1>6. Cardinality(QueueRuns(w, q)) + Cardinality(B) <= Concurrency[q]
    <2>1. Cardinality(QueueRuns(w, q)) \in Nat /\ Cardinality(B) \in Nat /\ Concurrency[q] \in Nat
      BY <1>5, FS_CardinalityType, WorkerAssumption DEF WithinRoom
    <2>2. Room(w, q) = Concurrency[q] - Cardinality(QueueRuns(w, q))
      BY DEF Room, QueueRuns
    <2>3. limit <= Room(w, q)
      BY <1>1, <2>1, <2>2, WorkerAssumption, QueueAssumption DEF MinOf
    <2>4. Cardinality(B) <= limit /\ limit \in Nat
      BY <1>1, WorkerAssumption, QueueAssumption DEF ClaimBatch, Batch
    <2>. QED
      BY <2>1, <2>2, <2>3, <2>4
  <1>. QED
    BY <1>2, <1>3, <1>4, <1>5, <1>6

\* The runs a claim starts: one for each row, with its new lease.
LEMMA ClaimKept ==
    ASSUME TypeOK, WorkersInv, NEW w \in Workers, NEW q \in Queues, NEW B \in SUBSET Ids,
           Claim(w, q, B)
    PROVE  WorkersInv'
  <1>1. PICK known \in [B -> BOOLEAN] :
          /\ runs' = runs \union { NewRun(j, w, known[j]) : j \in B }
          /\ controllers' = [controllers EXCEPT ![w] =
               [ j \in Ids |-> IF j \in B /\ known[j] THEN jobs[j].attempt + 1 ELSE controllers[w][j] ]]
    BY DEF Claim
  <1>2. ClaimForRoom(w, q, B) /\ UNCHANGED <<process, lost>>
    BY DEF Claim
  <1>. DEFINE started == [j \in B |-> NewRun(j, w, known[j])]
              new == { NewRun(j, w, known[j]) : j \in B }
  <1>3. /\ \A j \in B : /\ jobs[j] \in Row /\ jobs[j].queue = q /\ jobs[j].state \in Waiting
                         /\ jobs'[j].state = "executing" /\ jobs'[j].worker = w
                         /\ jobs'[j].attempt = jobs[j].attempt + 1
        /\ \A j \in Ids \ B : jobs'[j] = jobs[j]
        /\ IsFiniteSet(B) /\ B \subseteq Born
        /\ Cardinality(QueueRuns(w, q)) + Cardinality(B) <= Concurrency[q]
    BY <1>2, ClaimedTable DEF WorkersInv
  <1>4. ASSUME NEW j \in B
        PROVE  /\ NewRun(j, w, known[j]) \in Run
               /\ NewRun(j, w, known[j]).worker = w /\ NewRun(j, w, known[j]).queue = q
               /\ Lease(NewRun(j, w, known[j])) = [worker |-> w, id |-> j, attempt |-> jobs[j].attempt + 1]
    <2>1. jobs[j].max \in Nat /\ jobs[j].attempt + 1 \in Nat /\ jobs[j].queue = q
      BY <1>3 DEF Row
    <2>. QED
      BY <2>1 DEF NewRun, Run, Lease
  <1>5. WorkerTypeOK'
    <2>1. \A j \in B : jobs[j].attempt + 1 \in Nat
      BY <1>3 DEF Row
    <2>2. [ j \in Ids |-> IF j \in B /\ known[j] THEN jobs[j].attempt + 1 ELSE controllers[w][j] ] \in [Ids -> Nat]
      BY <2>1 DEF WorkersInv, WorkerTypeOK
    <2>3. controllers' \in [Workers -> [Ids -> Nat]]
      BY <1>1, <2>2 DEF WorkersInv, WorkerTypeOK
    <2>4. runs' \subseteq Run
      BY <1>1, <1>4 DEF WorkersInv, WorkerTypeOK
    <2>. QED
      BY <1>2, <2>3, <2>4 DEF WorkersInv, WorkerTypeOK
  <1>6. LeaseHasRun'
    <2>. SUFFICES ASSUME NEW j \in Ids, jobs'[j].state = "executing", process'[jobs'[j].worker] # "down",
                         NEW lease, lease = [worker |-> jobs'[j].worker, id |-> j, attempt |-> jobs'[j].attempt]
                  PROVE  lease \in lost' \/ \E s \in runs' : Lease(s) = lease
      BY DEF LeaseHasRun, Lease, Running
    <2>1. CASE j \in B
      <3>1. Lease(NewRun(j, w, known[j])) = lease /\ NewRun(j, w, known[j]) \in runs'
        BY <1>1, <1>3, <1>4, <2>1
      <3>. QED
        BY <3>1
    <2>2. CASE j \notin B
      <3>1. jobs'[j] = jobs[j]
        BY <1>3, <2>2
      <3>2. Running(jobs[j].worker)
        BY <1>2, <3>1 DEF Running
      <3>. QED
        BY <1>1, <1>2, <3>1, <3>2 DEF WorkersInv, LeaseHasRun
    <2>. QED
      BY <2>1, <2>2
  <1>7. IsFiniteSet(Born')
    <2>1. Born' \in SUBSET Born
      BY <1>3 DEF Born
    <2>. QED
      BY <2>1, FS_Subset DEF WorkersInv
  <1>8. IsFiniteSet(new) /\ Cardinality(new) <= Cardinality(B)
    <2>1. started \in Surjection(B, new)
      BY DEF Surjection
    <2>. HIDE DEF started, new
    <2>. QED
      BY <1>3, <2>1, FS_Surjection
  <1>9. ASSUME NEW v \in Workers, NEW p \in Queues,
               NEW S, S = { r \in runs' : r.worker = v /\ r.queue = p }
        PROVE  IsFiniteSet(S) /\ Cardinality(S) <= Concurrency[p]
    <2>1. IsFiniteSet(QueueRuns(v, p)) /\ Cardinality(QueueRuns(v, p)) <= Concurrency[p]
      BY DEF WorkersInv, WithinRoom
    <2>2. CASE v = w /\ p = q
      <3>1. S \in SUBSET (QueueRuns(w, q) \union new)
        BY <1>1, <1>9, <2>2 DEF QueueRuns, RunsOf
      <3>. HIDE DEF new
      <3>2. /\ IsFiniteSet(QueueRuns(w, q) \union new)
            /\ Cardinality(QueueRuns(w, q) \union new) =
                 Cardinality(QueueRuns(w, q)) + Cardinality(new) - Cardinality(QueueRuns(w, q) \intersect new)
        BY <1>8, <2>1, <2>2, FS_Union
      <3>3. IsFiniteSet(S) /\ Cardinality(S) <= Cardinality(QueueRuns(w, q) \union new)
        BY <3>1, <3>2, FS_Subset
      <3>4. IsFiniteSet(QueueRuns(w, q) \intersect new)
        BY <1>8, FS_Intersection
      <3>5. /\ Cardinality(S) \in Nat /\ Cardinality(QueueRuns(w, q)) \in Nat /\ Cardinality(B) \in Nat
            /\ Cardinality(new) \in Nat /\ Cardinality(QueueRuns(w, q) \intersect new) \in Nat
            /\ Concurrency[q] \in Nat
        BY <1>3, <1>8, <2>1, <2>2, <3>3, <3>4, FS_CardinalityType, WorkerAssumption
      <3>. QED
        BY <1>3, <1>8, <2>2, <3>2, <3>3, <3>5
    <2>3. CASE ~(v = w /\ p = q)
      <3>1. S = QueueRuns(v, p)
        BY <1>1, <1>4, <1>9, <2>3 DEF QueueRuns, RunsOf
      <3>. QED
        BY <2>1, <3>1
    <2>. QED
      BY <2>2, <2>3
  <1>10. WithinRoom'
    <2>1. \A v \in Workers, p \in Queues :
            QueueRuns(v, p)' = { r \in runs' : r.worker = v /\ r.queue = p }
      BY DEF QueueRuns, RunsOf
    <2>. QED
      BY <1>9, <2>1 DEF WithinRoom
  <1>. QED
    BY <1>5, <1>6, <1>7, <1>10 DEF WorkersInv

\* A claim whose answer is lost leaves the record of every lease it took.
LEMMA ClaimLostKept ==
    ASSUME TypeOK, WorkersInv, NEW w \in Workers, NEW q \in Queues, NEW B \in SUBSET Ids,
           ClaimLost(w, q, B)
    PROVE  WorkersInv'
  <1>1. /\ ClaimForRoom(w, q, B) /\ UNCHANGED <<process, runs, controllers>>
        /\ lost' = lost \union
             { [worker |-> w, id |-> j, attempt |-> jobs[j].attempt + 1] : j \in B }
    BY DEF ClaimLost
  <1>2. /\ \A j \in B : /\ jobs[j] \in Row /\ jobs[j].queue = q /\ jobs[j].state \in Waiting
                         /\ jobs'[j].state = "executing" /\ jobs'[j].worker = w
                         /\ jobs'[j].attempt = jobs[j].attempt + 1
        /\ \A j \in Ids \ B : jobs'[j] = jobs[j]
        /\ IsFiniteSet(B) /\ B \subseteq Born
        /\ Cardinality(QueueRuns(w, q)) + Cardinality(B) <= Concurrency[q]
    BY <1>1, ClaimedTable DEF WorkersInv
  <1>3. WorkerTypeOK'
    <2>1. \A j \in B : jobs[j].attempt + 1 \in Nat
      BY <1>2 DEF Row
    <2>. QED
      BY <1>1, <2>1 DEF WorkersInv, WorkerTypeOK
  <1>4. LeaseHasRun'
    <2>. SUFFICES ASSUME NEW j \in Ids, jobs'[j].state = "executing", process'[jobs'[j].worker] # "down",
                         NEW lease, lease = [worker |-> jobs'[j].worker, id |-> j, attempt |-> jobs'[j].attempt]
                  PROVE  lease \in lost' \/ \E s \in runs' : Lease(s) = lease
      BY DEF LeaseHasRun, Lease, Running
    <2>1. CASE j \in B
      BY <1>1, <1>2, <2>1
    <2>2. CASE j \notin B
      <3>1. jobs'[j] = jobs[j]
        BY <1>2, <2>2
      <3>2. Running(jobs[j].worker)
        BY <1>1, <3>1 DEF Running
      <3>. QED
        BY <1>1, <3>1, <3>2 DEF WorkersInv, LeaseHasRun
    <2>. QED
      BY <2>1, <2>2
  <1>5. IsFiniteSet(Born')
    <2>1. Born' \in SUBSET Born
      BY <1>2 DEF Born
    <2>. QED
      BY <2>1, FS_Subset DEF WorkersInv
  <1>6. WithinRoom'
    BY <1>1 DEF WorkersInv, WithinRoom, QueueRuns, RunsOf
  <1>. QED
    BY <1>3, <1>4, <1>5, <1>6 DEF WorkersInv

\* Leases and room are kept by every step of the system.
LEMMA WorkersStep ==
    ASSUME SystemInv, SystemInv', WorkersInv, [WorkerStep]_allVars
    PROVE  WorkersInv'
  <1>1. TypeOK /\ WorkerTypeOK /\ TypeOK' /\ LeaseIffExecuting'
    BY DEF SystemInv, QueueInv, WorkersInv
  <1>2. ASSUME WorkersKept
        PROVE  WorkersInv'
    BY <1>1, <1>2, LeasesStep, RoomStep, BornStep, WorkerAssumption DEF WorkersKept, WorkersInv
  <1>3. CASE Produce \/ Operate \/ TimePasses \/ UNCHANGED allVars
    <2>1. UNCHANGED workerVars
      BY <1>3 DEF Produce, Operate, TimePasses, allVars, workerVars
    <2>2. TableKept
      <3>1. CASE Produce
        BY <1>1, <3>1, ProducerKept DEF Produce
      <3>2. CASE Operate
        BY <1>1, <3>2, OperatorKept, PruneKept DEF Operate
      <3>3. CASE TimePasses
        BY <1>1, <3>3, TimeKept DEF TimePasses, TimeNext
      <3>4. CASE UNCHANGED allVars
        BY <3>4, NoRowKept DEF allVars
      <3>. QED
        BY <1>3, <3>1, <3>2, <3>3, <3>4
    <2>. QED
      BY <1>1, <1>2, <2>1, <2>2, OthersKept
  <1>4. ASSUME NEW w \in Workers, Polls(w)
        PROVE  WorkersInv'
    <2>1. CASE BeginRescue(w) \/ FailRescue(w)
      BY <1>1, <1>2, <2>1, NoRowKept, OthersKept
         DEF BeginRescue, FailRescue, RescueSelect, RescueStop
    <2>2. ASSUME NEW o \in sweep[w], GoOnRescue(w, o)
          PROVE  WorkersInv'
      BY <1>1, <1>2, <2>2, RescueKept, OthersKept, WorkerAssumption DEF GoOnRescue
    <2>. QED
      BY <1>1, <1>4, <2>1, <2>2, ClaimKept, ClaimLostKept DEF Polls
  <1>5. ASSUME NEW w \in Workers, Ends(w)
        PROVE  WorkersInv'
    BY <1>1, <1>2, <1>5, EndsKept
  <1>6. ASSUME NEW r \in runs, Executes(r)
        PROVE  WorkersInv'
    BY <1>1, <1>2, <1>6, RunMovesKept, RunEndsKept DEF Executes
  <1>. QED
    BY <1>3, <1>4, <1>5, <1>6 DEF WorkerStep

\* They hold at the start.
LEMMA WorkersStart == WorkerInit => WorkersInv
  <1>. SUFFICES ASSUME WorkerInit
                PROVE  WorkersInv
    OBVIOUS
  <1>1. WorkerTypeOK
    BY DEF WorkerInit, WorkerTypeOK
  <1>2. LeaseHasRun
    BY DEF WorkerInit, Init, LeaseHasRun, Unborn
  <1>3. Born = {}
    BY DEF WorkerInit, Init, Born
  <1>4. \A w \in Workers, q \in Queues : QueueRuns(w, q) = {} /\ 0 <= Concurrency[q]
    BY WorkerAssumption DEF WorkerInit, QueueRuns, RunsOf
  <1>5. WithinRoom
    BY <1>4, FS_EmptySet DEF WithinRoom
  <1>. QED
    BY <1>1, <1>2, <1>3, <1>5, FS_EmptySet DEF WorkersInv

\* The invariant of leases and room holds in every reachable state.
THEOREM WorkersInvariance == WorkerSpec => []WorkersInv
  BY WorkersStart, WorkersStep, SystemInvariance, PTL DEF WorkerSpec

\* The workers' variables keep their types: a controller is registered for an attempt, a run is
\* of a row that was claimed.
THEOREM WorkersTypeCorrect == WorkerSpec => []WorkerTypeOK
  BY WorkersInvariance, PTL DEF WorkersInv

\* For any number of processes, jobs and queues: no lease of a live process is without its run,
\* unless a call to the database failed, and no process runs more of a queue than it may.
THEOREM LeasesAndRoom == WorkerSpec => []RunsKept
  <1>1. WorkersInv => RunsKept
    BY DEF WorkersInv, RunsKept, WithinRoom, WithinConcurrency, QueueRuns
  <1>. QED
    BY <1>1, WorkersInvariance, PTL

\* So does the composed system implement the contract of the queue.
THEOREM ContractUnderWorkers == WorkerSpec => KeepsContract
  BY WorkersUseQueue, ContractKept, PTL DEF UsesQueue
=============================================================================
