---------------------------- MODULE JobQueueProofs ----------------------------
(***************************************************************************)
(* What JobQueue's runs check on two jobs, proved for any number of jobs,  *)
(* keys, workers, producers and rescuers: types, leases and unique keys,   *)
(* outcomes that are final, and that the queue implements JobContract.     *)
(***************************************************************************)
EXTENDS JobQueue, TLAPS

\* A row in one of the seven states of the code is a row of the table.
LEMMA StateOfRow ==
    ASSUME TypeOK, NEW j \in Ids, jobs[j].state \in Active \union Terminal
    PROVE  jobs[j] \in Row
  BY DEF TypeOK, Active, Waiting, Terminal, Unborn, Pruned

\* What enqueue inserts is a row of the table, waiting and without a lease.
LEMMA NewRowIsRow ==
    ASSUME NEW row \in NewRows
    PROVE  /\ row \in Row
           /\ row.state \in Waiting
           /\ row.worker = NoWorker /\ row.lease = "none"
  <1>1. PICK due \in BOOLEAN, k \in Keys \union {NoKey}, q \in Queues,
             p \in Priorities, m \in MaxAttempts :
          row = [ state |-> IF due THEN "available" ELSE "scheduled",
                  key |-> k, queue |-> q, priority |-> p, attempt |-> 0, max |-> m,
                  due |-> due, worker |-> NoWorker, lease |-> "none" ]
    BY DEF NewRows
  <1>2. m \in Nat
    BY QueueAssumption
  <1>. QED
    BY <1>1, <1>2 DEF Row, Active, Waiting

\* Attempts are numbers.
LEMMA AttemptOfRow ==
    ASSUME NEW row \in Row
    PROVE  row.attempt \in Nat /\ row.attempt <= row.attempt
  BY DEF Row

\* Taking the lease off a row leaves a row, with nothing else changed.
LEMMA UnleasedRow ==
    ASSUME NEW row \in Row, NEW s \in Active \union Terminal
    PROVE  /\ Unleased(row, s) \in Row
           /\ Unleased(row, s).state = s
           /\ Unleased(row, s).worker = NoWorker
           /\ Unleased(row, s).lease = "none"
           /\ Unleased(row, s).key = row.key
           /\ Unleased(row, s).attempt = row.attempt
           /\ row.attempt <= Unleased(row, s).attempt
           /\ Unleased(row, s).max = row.max
  BY AttemptOfRow DEF Row, Unleased

\* As UnleasedRow, with the time of the next attempt set.
LEMMA UnleasedDueRow ==
    ASSUME NEW row \in Row, NEW s \in Active \union Terminal, NEW due \in BOOLEAN
    PROVE  LET new == [Unleased(row, s) EXCEPT !.due = due]
           IN  /\ new \in Row /\ new.state = s
               /\ new.worker = NoWorker /\ new.lease = "none"
               /\ new.key = row.key
               /\ row.attempt <= new.attempt
  <1>1. row.attempt <= row.attempt
    BY AttemptOfRow
  <1>. QED
    BY <1>1 DEF Row, Unleased

\* A claim turns a row into an executing row of the worker with a live lease.
LEMMA ClaimedRow ==
    ASSUME NEW row \in Row, NEW w \in Workers
    PROVE  /\ Claimed(row, w) \in Row
           /\ Claimed(row, w).state = "executing"
           /\ Claimed(row, w).worker = w
           /\ Claimed(row, w).lease = "live"
           /\ Claimed(row, w).key = row.key
           /\ Claimed(row, w).attempt = row.attempt + 1
           /\ row.attempt <= Claimed(row, w).attempt
           /\ Claimed(row, w).max = row.max
  <1>1. row.attempt + 1 \in Nat /\ row.attempt <= row.attempt + 1
    BY AttemptOfRow
  <1>2. "executing" \in Active \union Terminal /\ "live" \in {"none", "live", "expired"}
    BY DEF Active
  <1>. QED
    BY <1>1, <1>2 DEF Row, Claimed

-----------------------------------------------------------------------------
(***************************************************************************)
(* One table-wide step seen from one row.  Every action of the queue, for  *)
(* every row, is one of these five cases; the invariants about single rows *)
(* and the finality of outcomes are read off from them.                    *)
(***************************************************************************)
LeaseOK(row) ==
    /\ row.state = "executing" => row.worker # NoWorker /\ row.lease # "none"
    /\ row.state \in Waiting => row.worker = NoWorker /\ row.lease = "none"

RowStep(r, s) ==
    \/ s = r
    \/ r = Unborn /\ s \in NewRows
    \/ r.state \in Terminal /\ s = Pruned
    \/ /\ r.state = "discarded" /\ s \in Row /\ s.state = "available"
       /\ s.key = r.key /\ s.attempt < s.max /\ LeaseOK(s)
       /\ r.attempt <= s.attempt
    \/ /\ r.state \in Active /\ s \in Row /\ s.key = r.key /\ LeaseOK(s)
       /\ r.attempt <= s.attempt

RowsStep ==
    /\ DOMAIN jobs' = Ids /\ jobs' = [j \in Ids |-> jobs'[j]]
    /\ \A j \in Ids : RowStep(jobs[j], jobs'[j])

\* A statement that writes one row and leaves the rest of the table alone.
LEMMA OneRowStep ==
    ASSUME TypeOK, NEW i \in Ids, NEW s,
           jobs' = [jobs EXCEPT ![i] = s], RowStep(jobs[i], s)
    PROVE  RowsStep
  BY DEF TypeOK, RowsStep, RowStep

\* A step that leaves the table alone keeps every row.
LEMMA QuietStep ==
    ASSUME TypeOK, UNCHANGED jobs
    PROVE  RowsStep
  BY DEF TypeOK, RowsStep, RowStep

\* enqueue changes at most one row, from unborn to a new waiting row.
LEMMA ProducerRows ==
    ASSUME TypeOK, ProducerNext
    PROVE  RowsStep
  <1>1. ASSUME NEW row \in NewRows, Insert(row)
        PROVE  RowsStep
    <2>1. PICK j \in Ids : jobs[j] = Unborn /\ jobs' = [jobs EXCEPT ![j] = row]
      BY <1>1 DEF Insert
    <2>. QED
      BY <2>1, OneRowStep DEF RowStep
  <1>2. PICK c \in Producers :
          (\E row \in NewRows : Enqueue(c, row)) \/ EnqueueLookup(c) \/ EnqueueAgain(c)
    BY DEF ProducerNext
  <1>3. CASE \E row \in NewRows : Enqueue(c, row)
    BY <1>1, <1>3, QuietStep DEF Enqueue
  <1>4. CASE EnqueueLookup(c)
    BY <1>4, QuietStep DEF EnqueueLookup
  <1>5. CASE EnqueueAgain(c)
    <2>1. enqueuing[c] \in EnqueueState /\ enqueuing[c] # Idle
      BY <1>5 DEF EnqueueAgain, TypeOK, Idle
    <2>2. enqueuing[c].row \in NewRows
      BY <2>1 DEF EnqueueState
    <2>. QED
      BY <1>1, <1>5, <2>2, QuietStep DEF EnqueueAgain
  <1>. QED
    BY <1>2, <1>3, <1>4, <1>5

\* A worker's claim, heartbeat and settlement keep each row a row with its lease coupled to its state.
LEMMA WorkerRows ==
    ASSUME TypeOK, LeaseIffExecuting, WorkerNext
    PROVE  RowsStep
  <1>1. PICK w \in Workers :
          \/ \E q \in Queues, limit \in 1 .. BatchLimit, B \in SUBSET Ids :
               ClaimBatch(w, q, limit, B)
          \/ \E j \in Ids : \/ Heartbeat(j, w) \/ Complete(j, w)
                            \/ \E due \in BOOLEAN : Retry(j, w, due)
                            \/ Discard(j, w)
    BY DEF WorkerNext
  <1>2. w # NoWorker
    BY QueueAssumption
  <1>3. CASE \E q \in Queues, limit \in 1 .. BatchLimit, B \in SUBSET Ids :
               ClaimBatch(w, q, limit, B)
    <2>1. PICK q \in Queues, limit \in 1 .. BatchLimit, B \in SUBSET Ids :
            ClaimBatch(w, q, limit, B)
      BY <1>3
    <2>2. jobs' = [ j \in Ids |-> IF j \in B THEN Claimed(jobs[j], w) ELSE jobs[j] ]
      BY <2>1 DEF ClaimBatch
    <2>3. ASSUME NEW j \in B
          PROVE  RowStep(jobs[j], Claimed(jobs[j], w))
      <3>1. jobs[j].state \in Waiting
        BY <2>1 DEF ClaimBatch, Batch, Claimable
      <3>2. jobs[j] \in Row
        BY <3>1, StateOfRow DEF Active
      <3>. QED
        BY <1>2, <3>1, <3>2, ClaimedRow DEF RowStep, LeaseOK, Active, Waiting
    <2>. QED
      BY <2>2, <2>3 DEF RowsStep, RowStep
  <1>4. ASSUME NEW j \in Ids, Held(j, w)
        PROVE  jobs[j] \in Row /\ jobs[j].state = "executing"
    BY <1>4, StateOfRow DEF Held, Active
  <1>5. ASSUME NEW j \in Ids, Heartbeat(j, w)
        PROVE  RowsStep
    <2>1. Held(j, w) /\ jobs' = [jobs EXCEPT ![j] = [jobs[j] EXCEPT !.lease = "live"]]
      BY <1>5 DEF Heartbeat
    <2>2. RowStep(jobs[j], [jobs[j] EXCEPT !.lease = "live"])
      BY <1>2, <1>4, <2>1, AttemptOfRow DEF RowStep, LeaseOK, Row, Held, Active, Waiting
    <2>. QED
      BY <2>1, <2>2, OneRowStep
  <1>6. ASSUME NEW j \in Ids, Complete(j, w)
        PROVE  RowsStep
    <2>1. Held(j, w) /\ jobs' = [jobs EXCEPT ![j] = Unleased(jobs[j], "completed")]
      BY <1>6 DEF Complete
    <2>2. RowStep(jobs[j], Unleased(jobs[j], "completed"))
      BY <1>4, <2>1, UnleasedRow DEF RowStep, LeaseOK, Active, Waiting, Terminal
    <2>. QED
      BY <2>1, <2>2, OneRowStep
  <1>7. ASSUME NEW j \in Ids, NEW due \in BOOLEAN, Retry(j, w, due)
        PROVE  RowsStep
    <2>. DEFINE new == [Unleased(jobs[j], "retryable") EXCEPT !.due = due]
    <2>1. Held(j, w) /\ jobs' = [jobs EXCEPT ![j] = new]
      BY <1>7 DEF Retry
    <2>2. RowStep(jobs[j], new)
      BY <1>4, <2>1, UnleasedDueRow DEF RowStep, LeaseOK, Active, Waiting
    <2>. QED
      BY <2>1, <2>2, OneRowStep
  <1>8. ASSUME NEW j \in Ids, Discard(j, w)
        PROVE  RowsStep
    <2>1. Held(j, w) /\ jobs' = [jobs EXCEPT ![j] = Unleased(jobs[j], "discarded")]
      BY <1>8 DEF Discard
    <2>2. RowStep(jobs[j], Unleased(jobs[j], "discarded"))
      BY <1>4, <2>1, UnleasedRow DEF RowStep, LeaseOK, Active, Waiting, Terminal
    <2>. QED
      BY <2>1, <2>2, OneRowStep
  <1>. QED
    BY <1>1, <1>3, <1>5, <1>6, <1>7, <1>8

\* The operator's statements and the compatibility ones do, too.
LEMMA OperatorRows ==
    ASSUME TypeOK, LeaseIffExecuting, OperatorNext
    PROVE  RowsStep
  <1>1. ASSUME NEW j \in Ids, Cancel(j)
        PROVE  RowsStep
    <2>1. jobs[j] \in Row /\ jobs[j].state \in Active
      BY <1>1, StateOfRow DEF Cancel, IsActive
    <2>2. RowStep(jobs[j], [jobs[j] EXCEPT !.state = "cancelled"])
      BY <2>1, AttemptOfRow DEF RowStep, LeaseOK, Row, Active, Waiting, Terminal
    <2>. QED
      BY <1>1, <2>2, OneRowStep DEF Cancel
  <1>2. ASSUME NEW j \in Ids, RetryNow(j)
        PROVE  RowsStep
    <2>. DEFINE r == jobs[j]
                max == IF r.max <= r.attempt THEN r.attempt + 1 ELSE r.max
                new == [Unleased(r, "available") EXCEPT !.due = TRUE, !.max = max]
    <2>1. r \in Row /\ r.state \in {"retryable", "discarded"}
      BY <1>2, StateOfRow DEF RetryNow, Active, Waiting, Terminal
    <2>2. r.attempt \in Nat /\ r.max \in Nat
      BY <2>1 DEF Row
    <2>3. max \in Nat /\ r.attempt < max /\ r.attempt <= r.attempt
      BY <2>2
    <2>4. /\ Unleased(r, "available") \in Row
          /\ Unleased(r, "available").max = r.max
          /\ Unleased(r, "available").attempt = r.attempt
          /\ Unleased(r, "available").key = r.key
          /\ Unleased(r, "available").state = "available"
          /\ Unleased(r, "available").worker = NoWorker
          /\ Unleased(r, "available").lease = "none"
      BY <2>1, UnleasedRow DEF Active, Waiting
    <2>5. new \in Row /\ new.max = max /\ new.attempt = r.attempt /\ new.key = r.key
          /\ new.state = "available" /\ new.worker = NoWorker /\ new.lease = "none"
      <3>. HIDE DEF max
      <3>. QED
        BY <2>3, <2>4 DEF Row
    <2>6. RowStep(r, new)
      <3>. HIDE DEF max, new
      <3>. QED
        BY <2>1, <2>3, <2>5 DEF RowStep, LeaseOK, Active, Waiting
    <2>7. jobs' = [jobs EXCEPT ![j] = new]
      BY <1>2 DEF RetryNow, Reopened
    <2>. QED
      BY <2>6, <2>7, OneRowStep
  <1>3. ASSUME NEW j \in Ids, Fail(j) \/ Release(j)
        PROVE  RowsStep
    <2>1. jobs[j] \in Row /\ jobs[j].state = "executing"
      BY <1>3, StateOfRow DEF Fail, Release, Active
    <2>2. PICK s \in {"retryable", "available"} :
            jobs' = [jobs EXCEPT ![j] = [Unleased(jobs[j], s) EXCEPT !.due = TRUE]]
      BY <1>3 DEF Fail, Release
    <2>3. RowStep(jobs[j], [Unleased(jobs[j], s) EXCEPT !.due = TRUE])
      BY ZenonT(30), <2>1, UnleasedDueRow DEF RowStep, LeaseOK, Active, Waiting
    <2>. QED
      BY <2>2, <2>3, OneRowStep
  <1>4. ASSUME NEW S \in SUBSET Ids, Prune(S)
        PROVE  RowsStep
    BY <1>4 DEF Prune, RowsStep, RowStep
  <1>. QED
    BY <1>1, <1>2, <1>3, <1>4 DEF OperatorNext

\* So does a rescue's settlement, whatever it observed.
LEMMA RescuerRows ==
    ASSUME TypeOK, RescuerNext
    PROVE  RowsStep
  <1>1. ASSUME NEW r \in Rescuers, NEW o \in sweep[r], RescueSettle(r, o)
        PROVE  RowsStep
    <2>1. o.id \in Ids
      BY DEF TypeOK, Observation
    <2>2. CASE Held(o.id, o.worker)
      <3>1. jobs[o.id] \in Row /\ jobs[o.id].state = "executing"
        BY <2>1, <2>2, StateOfRow DEF Held, Active
      <3>2. CASE o.attempt >= o.max
        <4>1. jobs' = [jobs EXCEPT ![o.id] = Unleased(jobs[o.id], "discarded")]
          BY <1>1, <2>2, <3>2 DEF RescueSettle
        <4>2. RowStep(jobs[o.id], Unleased(jobs[o.id], "discarded"))
          BY <3>1, UnleasedRow DEF RowStep, LeaseOK, Active, Waiting, Terminal
        <4>. QED
          BY <2>1, <4>1, <4>2, OneRowStep
      <3>3. CASE ~(o.attempt >= o.max)
        <4>. DEFINE new == [Unleased(jobs[o.id], "retryable") EXCEPT !.due = TRUE]
        <4>1. jobs' = [jobs EXCEPT ![o.id] = new]
          BY <1>1, <2>2, <3>3 DEF RescueSettle
        <4>2. /\ new \in Row /\ new.state = "retryable" /\ new.key = jobs[o.id].key
              /\ new.worker = NoWorker /\ new.lease = "none"
              /\ jobs[o.id].attempt <= new.attempt
          <5>1. "retryable" \in Active \union Terminal /\ TRUE \in BOOLEAN
            BY DEF Active, Waiting
          <5>. QED
            BY ONLY ZenonT(30), <3>1, <5>1, UnleasedDueRow
        <4>3. RowStep(jobs[o.id], new)
          <5>. HIDE DEF new
          <5>. QED
            BY <3>1, <4>2 DEF RowStep, LeaseOK, Active, Waiting
        <4>. QED
          BY <2>1, <4>1, <4>3, OneRowStep
      <3>. QED
        BY <3>2, <3>3
    <2>3. CASE ~Held(o.id, o.worker)
      BY <1>1, <2>3, QuietStep DEF RescueSettle
    <2>. QED
      BY <2>2, <2>3
  <1>2. ASSUME NEW r \in Rescuers, RescueSelect(r) \/ RescueStop(r)
        PROVE  RowsStep
    BY <1>2, QuietStep DEF RescueSelect, RescueStop
  <1>. QED
    BY <1>1, <1>2 DEF RescuerNext

\* So do the passing of time and of leases.
LEMMA TimeRows ==
    ASSUME TypeOK, LeaseIffExecuting, TimeNext
    PROVE  RowsStep
  <1>1. ASSUME NEW j \in Ids, ComesDue(j)
        PROVE  RowsStep
    <2>1. jobs[j] \in Row /\ jobs[j].state \in Waiting
      BY <1>1, StateOfRow DEF ComesDue, Active
    <2>2. RowStep(jobs[j], [jobs[j] EXCEPT !.due = TRUE])
      BY <2>1, AttemptOfRow DEF RowStep, LeaseOK, LeaseIffExecuting, Row, Active, Waiting
    <2>. QED
      BY <1>1, <2>2, OneRowStep DEF ComesDue
  <1>2. ASSUME NEW j \in Ids, LeaseExpires(j)
        PROVE  RowsStep
    <2>1. jobs[j] \in Row /\ jobs[j].state = "executing"
      BY <1>2, StateOfRow DEF LeaseExpires, Active
    <2>2. RowStep(jobs[j], [jobs[j] EXCEPT !.lease = "expired"])
      BY <2>1, AttemptOfRow DEF RowStep, LeaseOK, LeaseIffExecuting, Row, Active, Waiting
    <2>. QED
      BY <1>2, <2>2, OneRowStep DEF LeaseExpires
  <1>. QED
    BY <1>1, <1>2 DEF TimeNext

\* Every step of the queue takes each row to a row it may become (RowStep).
LEMMA NextRows ==
    ASSUME TypeOK, LeaseIffExecuting, [Next]_queueVars
    PROVE  RowsStep
  BY ProducerRows, WorkerRows, OperatorRows, RescuerRows, TimeRows, QuietStep
     DEF Next, queueVars

-----------------------------------------------------------------------------
(* The invariants *)

\* The empty table satisfies the three invariants.
LEMMA InitTypeOK == Init => TypeOK /\ LeaseIffExecuting /\ OneActivePerKey
  BY DEF Init, TypeOK, LeaseIffExecuting, OneActivePerKey, EnqueueState, Idle,
         Unborn, Active, Waiting

\* The table keeps its type because each of its rows does.
LEMMA RowsTyped ==
    ASSUME TypeOK, RowsStep
    PROVE  jobs' \in [Ids -> Row \union {Unborn, Pruned}]
  <1>1. ASSUME NEW j \in Ids
        PROVE  jobs'[j] \in Row \union {Unborn, Pruned}
    <2>1. jobs[j] \in Row \union {Unborn, Pruned}
      BY DEF TypeOK
    <2>2. RowStep(jobs[j], jobs'[j])
      BY DEF RowsStep
    <2>. QED
      BY <2>1, <2>2, NewRowIsRow DEF RowStep
  <1>. QED
    BY <1>1 DEF RowsStep

\* Every step keeps the callers' variables, enqueuing and sweep, in their types.
LEMMA CallersTyped ==
    ASSUME TypeOK, [Next]_queueVars
    PROVE  /\ enqueuing' \in [Producers -> EnqueueState]
           /\ sweep' \in [Rescuers -> SUBSET Observation]
  <1>1. ASSUME NEW c \in Producers, NEW row \in NewRows, Enqueue(c, row)
        PROVE  enqueuing' \in [Producers -> EnqueueState] /\ UNCHANGED sweep
    BY <1>1 DEF Enqueue, TypeOK, EnqueueState
  <1>2. ASSUME NEW c \in Producers, EnqueueLookup(c) \/ EnqueueAgain(c)
        PROVE  enqueuing' \in [Producers -> EnqueueState] /\ UNCHANGED sweep
    <2>1. /\ enqueuing[c] \in [ step : {"lookup", "insert"}, row : NewRows, tries : 0 .. 2 ]
          /\ Idle \in EnqueueState
      BY <1>2 DEF EnqueueLookup, EnqueueAgain, TypeOK, EnqueueState, Idle
    <2>2. [enqueuing[c] EXCEPT !.step = "insert"] \in EnqueueState
      BY <2>1 DEF EnqueueState
    <2>3. ASSUME enqueuing[c].tries # 2
          PROVE  NextTry(enqueuing[c]) \in EnqueueState
      <3>1. enqueuing[c].tries + 1 \in 0 .. 2
        BY <2>1, <2>3
      <3>. QED
        BY <2>1, <3>1 DEF EnqueueState, NextTry
    <2>. QED
      BY <1>2, <2>1, <2>2, <2>3 DEF EnqueueLookup, EnqueueAgain, TypeOK
  <1>3. ASSUME NEW r \in Rescuers, RescueSelect(r)
        PROVE  sweep' \in [Rescuers -> SUBSET Observation] /\ UNCHANGED enqueuing
    <2>1. ASSUME NEW j \in Expired
          PROVE  Observe(j) \in Observation
      BY StateOfRow DEF Expired, Observe, Observation, Row, Active
    <2>. QED
      BY <1>3, <2>1 DEF RescueSelect, TypeOK
  <1>4. ASSUME NEW r \in Rescuers, NEW o \in sweep[r], RescueSettle(r, o)
        PROVE  sweep' \in [Rescuers -> SUBSET Observation] /\ UNCHANGED enqueuing
    BY <1>4 DEF RescueSettle, TypeOK
  <1>5. ASSUME NEW r \in Rescuers, RescueStop(r)
        PROVE  sweep' \in [Rescuers -> SUBSET Observation] /\ UNCHANGED enqueuing
    BY <1>5 DEF RescueStop, TypeOK
  <1>6. CASE WorkerNext \/ OperatorNext \/ TimeNext \/ UNCHANGED queueVars
    BY <1>6 DEF TypeOK, queueVars, WorkerNext, OperatorNext, TimeNext, ClaimBatch,
         Heartbeat, Complete, Retry, Discard, Cancel, RetryNow, Prune, Fail, Release,
         ComesDue, LeaseExpires
  <1>. QED
    BY <1>1, <1>2, <1>3, <1>4, <1>5, <1>6 DEF Next, ProducerNext, RescuerNext, TypeOK

\* Every step keeps the lease coupled to the executing state.
LEMMA LeaseStep ==
    ASSUME TypeOK, LeaseIffExecuting, RowsStep
    PROVE  LeaseIffExecuting'
  <1>1. ASSUME NEW j \in Ids
        PROVE  LeaseOK(jobs'[j])
    <2>1. LeaseOK(jobs[j]) /\ RowStep(jobs[j], jobs'[j])
      BY DEF LeaseIffExecuting, LeaseOK, RowsStep
    <2>. QED
      BY <2>1, NewRowIsRow DEF RowStep, LeaseOK, Pruned, Waiting
  <1>. QED
    BY <1>1 DEF LeaseIffExecuting, LeaseOK

-----------------------------------------------------------------------------
(***************************************************************************)
(* One active job per key.  A step is harmless when every row it leaves    *)
(* active was active before under the same key; the two operations that    *)
(* make a row active, Insert and RetryNow, find the key free.              *)
(***************************************************************************)
Keeps(S) ==
    \A j \in S : jobs'[j].state \in Active =>
                   jobs[j].state \in Active /\ jobs'[j].key = jobs[j].key

\* Row i may become active, no other active row having its key.
LEMMA KeyStep ==
    ASSUME OneActivePerKey, NEW i \in Ids, Keeps(Ids \ {i}),
           \A j \in Ids \ {i} :
             ~(jobs[j].state \in Active /\ jobs[j].key = jobs'[i].key /\ jobs'[i].key # NoKey)
    PROVE  OneActivePerKey'
  BY DEF Keeps, OneActivePerKey

\* A step in which no row enters the active states keeps the keys unique.
LEMMA KeepStep ==
    ASSUME OneActivePerKey, Keeps(Ids)
    PROVE  OneActivePerKey'
  BY DEF Keeps, OneActivePerKey

\* INSERT .. ON CONFLICT DO NOTHING keeps the keys unique.
LEMMA InsertKeys ==
    ASSUME TypeOK, OneActivePerKey, NEW row \in NewRows, Insert(row)
    PROVE  OneActivePerKey'
  <1>1. PICK i \in Ids : jobs[i] = Unborn /\ jobs' = [jobs EXCEPT ![i] = row]
    BY DEF Insert
  <1>2. Keeps(Ids \ {i}) /\ jobs'[i] = row
    BY <1>1 DEF Keeps, TypeOK
  <1>3. \A j \in Ids : ~(jobs[j].state \in Active /\ jobs[j].key = row.key /\ row.key # NoKey)
    BY DEF Insert, Taken, Occupies, IsActive
  <1>. QED
    BY <1>2, <1>3, KeyStep

\* The operator's retry re-opens a job only when its key is free.
LEMMA RetryNowKeys ==
    ASSUME TypeOK, OneActivePerKey, NEW i \in Ids, RetryNow(i)
    PROVE  OneActivePerKey'
  <1>1. jobs[i] \in Row
    BY StateOfRow DEF RetryNow, Active, Waiting, Terminal
  <1>2. jobs' = [jobs EXCEPT ![i] = Reopened(jobs[i])]
    BY DEF RetryNow
  <1>3. Keeps(Ids \ {i}) /\ jobs'[i].key = jobs[i].key
    BY <1>1, <1>2 DEF Keeps, TypeOK, Reopened, Unleased, Row
  <1>4. \A j \in Ids \ {i} :
          ~(jobs[j].state \in Active /\ jobs[j].key = jobs[i].key /\ jobs[i].key # NoKey)
    BY DEF RetryNow, Occupies, IsActive
  <1>. QED
    BY <1>3, <1>4, KeyStep

\* enqueue, in all of its rounds, keeps the keys unique.
LEMMA ProducerKeys ==
    ASSUME TypeOK, OneActivePerKey, ProducerNext
    PROVE  OneActivePerKey'
  <1>1. PICK c \in Producers :
          (\E row \in NewRows : Enqueue(c, row)) \/ EnqueueLookup(c) \/ EnqueueAgain(c)
    BY DEF ProducerNext
  <1>2. CASE UNCHANGED jobs
    BY <1>2 DEF OneActivePerKey
  <1>3. CASE \E row \in NewRows : Enqueue(c, row)
    BY <1>2, <1>3, InsertKeys DEF Enqueue
  <1>4. CASE EnqueueLookup(c)
    BY <1>2, <1>4 DEF EnqueueLookup
  <1>5. CASE EnqueueAgain(c)
    <2>1. enqueuing[c].row \in NewRows
      BY <1>5 DEF EnqueueAgain, TypeOK, EnqueueState, Idle
    <2>. QED
      BY <1>2, <1>5, <2>1, InsertKeys DEF EnqueueAgain
  <1>. QED
    BY <1>1, <1>3, <1>4, <1>5

\* Outside enqueue and retryNow, a row that is not active stays as it is or is pruned.
SettledStay ==
    \A j \in Ids : jobs[j].state \notin Active =>
        jobs'[j] = jobs[j] \/ (jobs[j].state \in Terminal /\ jobs'[j] = Pruned)

\* No step but an insert or the operator's retry makes a row active that was not.
LEMMA OthersSettled ==
    ASSUME TypeOK,
           \/ WorkerNext \/ RescuerNext \/ TimeNext \/ UNCHANGED jobs
           \/ \E j \in Ids : Cancel(j) \/ Fail(j) \/ Release(j)
           \/ \E S \in SUBSET Ids : Prune(S)
    PROVE  SettledStay
  <1>1. ASSUME NEW i \in Ids, NEW new, jobs[i].state \in Active,
               jobs' = [jobs EXCEPT ![i] = new]
        PROVE  SettledStay
    BY <1>1 DEF TypeOK, SettledStay
  <1>2. CASE WorkerNext
    <2>1. PICK w \in Workers :
            \/ \E q \in Queues, limit \in 1 .. BatchLimit, B \in SUBSET Ids :
               ClaimBatch(w, q, limit, B)
            \/ \E j \in Ids : \/ Heartbeat(j, w) \/ Complete(j, w)
                              \/ \E due \in BOOLEAN : Retry(j, w, due)
                              \/ Discard(j, w)
      BY <1>2 DEF WorkerNext
    <2>2. ASSUME NEW q \in Queues, NEW limit \in 1 .. BatchLimit, NEW B \in SUBSET Ids,
                 ClaimBatch(w, q, limit, B)
          PROVE  SettledStay
      BY <2>2 DEF ClaimBatch, Batch, Claimable, SettledStay, Active
    <2>3. ASSUME NEW j \in Ids,
                 \/ Heartbeat(j, w) \/ Complete(j, w)
                 \/ \E due \in BOOLEAN : Retry(j, w, due)
                 \/ Discard(j, w)
          PROVE  SettledStay
      BY <1>1, <2>3 DEF Heartbeat, Complete, Retry, Discard, Held, Active
    <2>. QED
      BY <2>1, <2>2, <2>3
  <1>3. CASE RescuerNext
    <2>1. ASSUME NEW r \in Rescuers, NEW o \in sweep[r], RescueSettle(r, o)
          PROVE  SettledStay
      <3>1. o.id \in Ids
        BY DEF TypeOK, Observation
      <3>2. CASE Held(o.id, o.worker)
        BY <1>1, <2>1, <3>1, <3>2 DEF RescueSettle, Held, Active
      <3>3. CASE ~Held(o.id, o.worker)
        BY <2>1, <3>3 DEF RescueSettle, SettledStay
      <3>. QED
        BY <3>2, <3>3
    <2>. QED
      BY <1>3, <2>1 DEF RescuerNext, RescueSelect, RescueStop, SettledStay
  <1>4. CASE TimeNext
    BY <1>1, <1>4 DEF TimeNext, ComesDue, LeaseExpires, Active
  <1>5. CASE UNCHANGED jobs
    BY <1>5 DEF SettledStay
  <1>6. CASE \E j \in Ids : Cancel(j) \/ Fail(j) \/ Release(j)
    BY <1>1, <1>6 DEF Cancel, Fail, Release, IsActive, Active
  <1>7. CASE \E S \in SUBSET Ids : Prune(S)
    BY <1>7 DEF Prune, SettledStay
  <1>. QED
    BY <1>2, <1>3, <1>4, <1>5, <1>6, <1>7

\* Hence those steps keep the keys unique.
LEMMA OtherKeys ==
    ASSUME TypeOK, OneActivePerKey, RowsStep, SettledStay
    PROVE  OneActivePerKey'
  <1>1. ASSUME NEW j \in Ids, jobs'[j].state \in Active
        PROVE  jobs[j].state \in Active /\ jobs'[j].key = jobs[j].key
    <2>1. jobs[j].state \in Active
      BY <1>1 DEF SettledStay, Pruned, Active, Waiting
    <2>. QED
      BY <1>1, <2>1 DEF RowsStep, RowStep, Unborn, Active, Waiting, Terminal
  <1>. QED
    BY <1>1, KeepStep DEF Keeps

-----------------------------------------------------------------------------
(* The theorems *)

QueueInv == TypeOK /\ LeaseIffExecuting /\ OneActivePerKey

\* The conjunction of the three invariants is inductive.
LEMMA InvStep == QueueInv /\ [Next]_queueVars => QueueInv'
  <1>. SUFFICES ASSUME QueueInv, [Next]_queueVars PROVE QueueInv'
    OBVIOUS
  <1>1. RowsStep
    BY NextRows DEF QueueInv
  <1>2. TypeOK'
    BY <1>1, RowsTyped, CallersTyped DEF QueueInv, TypeOK
  <1>3. LeaseIffExecuting'
    BY <1>1, LeaseStep DEF QueueInv
  <1>4. OneActivePerKey'
    <2>1. CASE ProducerNext
      BY <2>1, ProducerKeys DEF QueueInv
    <2>2. CASE \E j \in Ids : RetryNow(j)
      BY <2>2, RetryNowKeys DEF QueueInv
    <2>3. CASE ~ProducerNext /\ ~(\E j \in Ids : RetryNow(j))
      BY <1>1, <2>3, OthersSettled, OtherKeys DEF QueueInv, Next, OperatorNext, queueVars
    <2>. QED
      BY <2>1, <2>2, <2>3
  <1>. QED
    BY <1>2, <1>3, <1>4 DEF QueueInv

\* The inductive invariant: types, leases and keys hold in every reachable table.
THEOREM Invariance == QueueSpec => []QueueInv
  <1>1. Init => QueueInv
    BY InitTypeOK DEF QueueInv
  <1>. QED
    BY <1>1, InvStep, PTL DEF QueueSpec

\* Every operation of the queue keeps the table, the producers' calls and the
\* rescuers' snapshots well typed.
THEOREM TypeCorrect == QueueSpec => []TypeOK
  BY Invariance, PTL DEF QueueInv

\* For any number of jobs and callers, no executing row is without a holder and an
\* expiring lease, and no waiting row keeps those of an earlier holder.
THEOREM LeaseCoupled == QueueSpec => []LeaseIffExecuting
  BY Invariance, PTL DEF QueueInv

\* For any number of jobs and callers, a unique key has one active job at a time.
THEOREM UniqueKey == QueueSpec => []OneActivePerKey
  BY Invariance, PTL DEF QueueInv

\* For any number of jobs and callers, an outcome is final: late statements of
\* holders and rescuers do not change it.
THEOREM OutcomeIsFinal == QueueSpec => TerminalIsFinal
  <1>1. QueueInv /\ [Next]_queueVars =>
          [ \A j \in Ids : jobs[j].state \in Terminal /\ jobs'[j] # jobs[j] =>
              \/ jobs'[j] = Pruned
              \/ /\ jobs[j].state = "discarded" /\ jobs'[j].state = "available"
                 /\ jobs'[j].attempt < jobs'[j].max ]_jobs
    <2>. SUFFICES ASSUME QueueInv, [Next]_queueVars, NEW j \in Ids,
                         jobs[j].state \in Terminal, jobs'[j] # jobs[j]
                  PROVE  \/ jobs'[j] = Pruned
                         \/ /\ jobs[j].state = "discarded" /\ jobs'[j].state = "available"
                            /\ jobs'[j].attempt < jobs'[j].max
      OBVIOUS
    <2>1. RowStep(jobs[j], jobs'[j])
      BY NextRows DEF QueueInv, RowsStep
    <2>. QED
      BY <2>1 DEF RowStep, Unborn, Active, Waiting, Terminal
  <1>. QED
    BY <1>1, Invariance, PTL DEF QueueSpec, TerminalIsFinal

-----------------------------------------------------------------------------
(***************************************************************************)
(* The queue implements its contract.  What a caller sees of a table is    *)
(* each job's life and, because a key has one active job, whose each key   *)
(* is; a statement on one row is then an admission, a return, an end or a  *)
(* re-opening of the contract, or nothing at all.                          *)
(***************************************************************************)
LifeOf(row) ==
    CASE row.state \in Waiting -> "waiting"
      [] row.state = "executing" -> "running"
      [] row.state = "discarded" -> "failed"
      [] row.state \in {"completed", "cancelled"} -> "closed"
      [] OTHER -> row.state

Owns(row, k) == k # NoKey /\ row.state \in Active /\ row.key = k

SlotOf(table) == [ k \in Keys |->
    IF \E j \in Ids : Owns(table[j], k) THEN CHOOSE j \in Ids : Owns(table[j], k) ELSE NoJob ]

OneOwner(table) == \A i, j \in Ids :
    /\ table[i].state \in Active /\ table[j].state \in Active
    /\ table[i].key = table[j].key /\ table[i].key # NoKey
    => i = j

\* The slot of a key is the job that owns it.
LEMMA SlotIsOwner ==
    ASSUME NEW table, OneOwner(table), NEW k \in Keys
    PROVE  /\ SlotOf(table)[k] \in Ids \union {NoJob}
           /\ \A j \in Ids : SlotOf(table)[k] = j <=> Owns(table[j], k)
  <1>1. NoJob \notin Ids
    BY QueueAssumption
  <1>2. \A i, j \in Ids : Owns(table[i], k) /\ Owns(table[j], k) => i = j
    BY DEF OneOwner, Owns
  <1>3. CASE \E j \in Ids : Owns(table[j], k)
    <2>. DEFINE owner == CHOOSE j \in Ids : Owns(table[j], k)
    <2>1. owner \in Ids /\ Owns(table[owner], k)
      BY <1>3
    <2>2. SlotOf(table)[k] = owner
      BY <1>3 DEF SlotOf
    <2>. HIDE DEF owner
    <2>. QED
      BY <1>2, <2>1, <2>2
  <1>4. CASE ~\E j \in Ids : Owns(table[j], k)
    BY <1>1, <1>4 DEF SlotOf
  <1>. QED
    BY <1>3, <1>4

\* Tables with the same owners have the same slots.
LEMMA SlotsStay ==
    ASSUME NEW t, NEW u, OneOwner(t), OneOwner(u),
           \A j \in Ids, k \in Keys : Owns(t[j], k) <=> Owns(u[j], k)
    PROVE  SlotOf(u) = SlotOf(t)
  <1>1. ASSUME NEW k \in Keys
        PROVE  SlotOf(u)[k] = SlotOf(t)[k]
    <2>1. /\ SlotOf(t)[k] \in Ids \union {NoJob}
          /\ \A j \in Ids : SlotOf(t)[k] = j <=> Owns(t[j], k)
      BY SlotIsOwner
    <2>2. /\ SlotOf(u)[k] \in Ids \union {NoJob}
          /\ \A j \in Ids : SlotOf(u)[k] = j <=> Owns(u[j], k)
      BY SlotIsOwner
    <2>. QED
      BY <2>1, <2>2
  <1>2. SlotOf(t) = [k \in Keys |-> SlotOf(t)[k]] /\ SlotOf(u) = [k \in Keys |-> SlotOf(u)[k]]
    BY DEF SlotOf
  <1>. QED
    BY <1>1, <1>2

\* A job that ends leaves its key free.
LEMMA SlotFreed ==
    ASSUME NEW t, NEW u, OneOwner(t), OneOwner(u), NEW i \in Ids,
           \A j \in Ids : j # i => u[j] = t[j], u[i].state \notin Active
    PROVE  SlotOf(u) = [k \in Keys |-> IF SlotOf(t)[k] = i THEN NoJob ELSE SlotOf(t)[k]]
  <1>1. ASSUME NEW k \in Keys
        PROVE  SlotOf(u)[k] = IF SlotOf(t)[k] = i THEN NoJob ELSE SlotOf(t)[k]
    <2>1. /\ SlotOf(t)[k] \in Ids \union {NoJob}
          /\ \A j \in Ids : SlotOf(t)[k] = j <=> Owns(t[j], k)
      BY SlotIsOwner
    <2>2. /\ SlotOf(u)[k] \in Ids \union {NoJob}
          /\ \A j \in Ids : SlotOf(u)[k] = j <=> Owns(u[j], k)
      BY SlotIsOwner
    <2>3. ~Owns(u[i], k) /\ \A j \in Ids \ {i} : Owns(u[j], k) <=> Owns(t[j], k)
      BY DEF Owns
    <2>. QED
      BY <2>1, <2>2, <2>3, QueueAssumption
  <1>2. SlotOf(u) = [k \in Keys |-> SlotOf(u)[k]]
    BY DEF SlotOf
  <1>. QED
    BY <1>1, <1>2

\* A job that becomes active takes its key, which was free.
LEMMA SlotTaken ==
    ASSUME NEW t, NEW u, OneOwner(t), OneOwner(u), NEW i \in Ids,
           \A j \in Ids : j # i => u[j] = t[j],
           t[i].state \notin Active, u[i].state \in Active, u[i].key \in Keys \union {NoKey}
    PROVE  IF u[i].key = NoKey THEN SlotOf(u) = SlotOf(t)
           ELSE /\ SlotOf(t)[u[i].key] = NoJob
                /\ SlotOf(u) = [SlotOf(t) EXCEPT ![u[i].key] = i]
  <1>1. CASE u[i].key = NoKey
    BY <1>1, SlotsStay DEF Owns
  <1>2. CASE u[i].key # NoKey
    <2>1. ASSUME NEW k \in Keys
          PROVE  /\ SlotOf(t)[k] \in Ids \union {NoJob}
                 /\ \A j \in Ids : SlotOf(t)[k] = j <=> Owns(t[j], k)
                 /\ SlotOf(u)[k] \in Ids \union {NoJob}
                 /\ \A j \in Ids : SlotOf(u)[k] = j <=> Owns(u[j], k)
      BY SlotIsOwner
    <2>2. Owns(u[i], u[i].key) /\ u[i].key \in Keys
      BY <1>2 DEF Owns
    <2>3. \A j \in Ids : ~Owns(t[j], u[i].key)
      BY <1>2, <2>2 DEF Owns, OneOwner
    <2>4. SlotOf(t)[u[i].key] = NoJob
      BY <2>1, <2>2, <2>3
    <2>5. ASSUME NEW k \in Keys
          PROVE  SlotOf(u)[k] = IF k = u[i].key THEN i ELSE SlotOf(t)[k]
      <3>1. CASE k = u[i].key
        BY <2>1, <2>2, <3>1
      <3>2. CASE k # u[i].key
        <4>1. \A j \in Ids : Owns(u[j], k) <=> Owns(t[j], k)
          BY <3>2 DEF Owns
        <4>. QED
          BY <2>1, <3>2, <4>1
      <3>. QED
        BY <3>1, <3>2
    <2>6. SlotOf(t) = [k \in Keys |-> SlotOf(t)[k]] /\ SlotOf(u) = [k \in Keys |-> SlotOf(u)[k]]
      BY DEF SlotOf
    <2>. QED
      BY <1>2, <2>4, <2>5, <2>6
  <1>. QED
    BY <1>1, <1>2

\* What the refinement mapping makes of a table and of the next one.
LEMMA Mapping ==
    ASSUME OneActivePerKey, OneActivePerKey'
    PROVE  /\ Life = [j \in Ids |-> LifeOf(jobs[j])] /\ Life' = [j \in Ids |-> LifeOf(jobs'[j])]
           /\ Slot = SlotOf(jobs) /\ Slot' = SlotOf(jobs')
           /\ OneOwner(jobs) /\ OneOwner(jobs')
  <1>1. Life = [j \in Ids |-> LifeOf(jobs[j])] /\ Life' = [j \in Ids |-> LifeOf(jobs'[j])]
    BY DEF Life, LifeOf
  <1>2. Slot = SlotOf(jobs) /\ Slot' = SlotOf(jobs')
    BY DEF Slot, SlotOf, Taken, Occupies, IsActive, Owns
  <1>3. OneOwner(jobs) /\ OneOwner(jobs')
    BY DEF OneActivePerKey, OneOwner
  <1>. QED
    BY <1>1, <1>2, <1>3

\* A statement that leaves every job where it is in its life, and active rows with their keys.
LEMMA ContractStutters ==
    ASSUME OneActivePerKey, OneActivePerKey',
           \A j \in Ids : /\ LifeOf(jobs'[j]) = LifeOf(jobs[j])
                         /\ \A k \in Keys : Owns(jobs[j], k) <=> Owns(jobs'[j], k)
    PROVE  UNCHANGED Contract!vars
  BY Mapping, SlotsStay DEF Contract!vars

\* A statement that hands jobs out.
LEMMA ContractHandsOut ==
    ASSUME OneActivePerKey, OneActivePerKey', NEW B \in SUBSET Ids,
           \A j \in Ids : IF j \in B THEN LifeOf(jobs[j]) = "waiting" /\ LifeOf(jobs'[j]) = "running"
                         ELSE LifeOf(jobs'[j]) = LifeOf(jobs[j]),
           \A j \in Ids, k \in Keys : Owns(jobs[j], k) <=> Owns(jobs'[j], k)
    PROVE  Contract!HandOut(B)
  BY Mapping, SlotsStay DEF Contract!HandOut

\* One that forgets jobs that have ended.
LEMMA ContractForgets ==
    ASSUME OneActivePerKey, OneActivePerKey', NEW S \in SUBSET Ids,
           \A j \in Ids : IF j \in S THEN LifeOf(jobs[j]) \in {"failed", "closed"} /\ LifeOf(jobs'[j]) = "pruned"
                         ELSE LifeOf(jobs'[j]) = LifeOf(jobs[j]),
           \A j \in Ids, k \in Keys : Owns(jobs[j], k) <=> Owns(jobs'[j], k)
    PROVE  Contract!Forget(S)
  BY Mapping, SlotsStay DEF Contract!Forget

\* One that gives a job back.
LEMMA ContractComesBack ==
    ASSUME OneActivePerKey, OneActivePerKey', TypeOK, NEW i \in Ids, NEW new,
           jobs' = [jobs EXCEPT ![i] = new],
           LifeOf(jobs[i]) = "running", LifeOf(new) = "waiting",
           \A k \in Keys : Owns(jobs[i], k) <=> Owns(new, k)
    PROVE  Contract!ComeBack(i)
  <1>1. jobs'[i] = new /\ \A j \in Ids : j # i => jobs'[j] = jobs[j]
    BY DEF TypeOK
  <1>2. ASSUME NEW j \in Ids, NEW k \in Keys
        PROVE  Owns(jobs[j], k) <=> Owns(jobs'[j], k)
    <2>1. CASE j = i
      BY <1>1, <2>1
    <2>2. CASE j # i
      BY <1>1, <2>2
    <2>. QED
      BY <2>1, <2>2
  <1>3. OneOwner(jobs) /\ OneOwner(jobs')
    BY Mapping
  <1>4. SlotOf(jobs') = SlotOf(jobs)
    BY <1>2, <1>3, SlotsStay
  <1>. QED
    BY <1>1, <1>4, Mapping DEF Contract!ComeBack

\* One that ends a job.
LEMMA ContractEnds ==
    ASSUME OneActivePerKey, OneActivePerKey', TypeOK, NEW i \in Ids, NEW new, NEW how,
           jobs' = [jobs EXCEPT ![i] = new], new.state \notin Active, LifeOf(new) = how,
           \/ LifeOf(jobs[i]) = "running" /\ how \in {"failed", "closed"}
           \/ LifeOf(jobs[i]) = "waiting" /\ how = "closed"
    PROVE  Contract!End(i, how)
  <1>1. jobs'[i] = new /\ \A j \in Ids : j # i => jobs'[j] = jobs[j]
    BY DEF TypeOK
  <1>2. OneOwner(jobs) /\ OneOwner(jobs')
    BY Mapping
  <1>3. jobs'[i].state \notin Active /\ \A j \in Ids : j # i => jobs'[j] = jobs[j]
    BY <1>1
  <1>4. SlotOf(jobs') = [k \in Keys |-> IF SlotOf(jobs)[k] = i THEN NoJob ELSE SlotOf(jobs)[k]]
    <2>1. PICK t : t = jobs
      OBVIOUS
    <2>2. PICK u : u = jobs'
      OBVIOUS
    <2>3. OneOwner(t) /\ OneOwner(u) /\ u[i].state \notin Active /\ \A j \in Ids : j # i => u[j] = t[j]
      BY <1>2, <1>3, <2>1, <2>2
    <2>4. SlotOf(u) = [k \in Keys |-> IF SlotOf(t)[k] = i THEN NoJob ELSE SlotOf(t)[k]]
      BY <2>3, SlotFreed
    <2>. QED
      BY <2>1, <2>2, <2>4
  <1>5. Life' = [Life EXCEPT ![i] = how] /\ Life[i] = LifeOf(jobs[i])
    BY <1>1, Mapping
  <1>6. Slot' = [k \in Keys |-> IF Slot[k] = i THEN NoJob ELSE Slot[k]]
    BY <1>4, Mapping
  <1>. QED
    BY <1>5, <1>6 DEF Contract!End

\* One that makes a job active, for the first time or again.
LEMMA ContractTakes ==
    ASSUME OneActivePerKey, OneActivePerKey', TypeOK, NEW i \in Ids, NEW new,
           jobs' = [jobs EXCEPT ![i] = new], jobs[i].state \notin Active,
           new.state \in Waiting, new.key \in Keys \union {NoKey}
    PROVE  /\ LifeOf(jobs[i]) = "unborn" => Contract!Admit(i, new.key)
           /\ LifeOf(jobs[i]) = "failed" => Contract!Reopen(i, new.key)
  <1>1. jobs'[i] = new /\ \A j \in Ids : j # i => jobs'[j] = jobs[j]
    BY DEF TypeOK
  <1>2. Contract!Takes(i, new.key)
    <2>1. OneOwner(jobs) /\ OneOwner(jobs')
      BY Mapping
    <2>2. jobs'[i].state \in Active /\ jobs'[i].key \in Keys \union {NoKey}
      BY <1>1 DEF Active
    <2>3. \A j \in Ids : j # i => jobs'[j] = jobs[j]
      BY <1>1
    <2>4. IF jobs'[i].key = NoKey THEN SlotOf(jobs') = SlotOf(jobs)
          ELSE /\ SlotOf(jobs)[jobs'[i].key] = NoJob
               /\ SlotOf(jobs') = [SlotOf(jobs) EXCEPT ![jobs'[i].key] = i]
      <3>1. PICK t : t = jobs
        OBVIOUS
      <3>2. PICK u : u = jobs'
        OBVIOUS
      <3>3. /\ OneOwner(t) /\ OneOwner(u) /\ t[i].state \notin Active /\ u[i].state \in Active
            /\ u[i].key \in Keys \union {NoKey} /\ \A j \in Ids : j # i => u[j] = t[j]
        BY <2>1, <2>2, <2>3, <3>1, <3>2
      <3>4. IF u[i].key = NoKey THEN SlotOf(u) = SlotOf(t)
            ELSE SlotOf(t)[u[i].key] = NoJob /\ SlotOf(u) = [SlotOf(t) EXCEPT ![u[i].key] = i]
        BY <3>3, SlotTaken
      <3>. QED
        BY <3>1, <3>2, <3>4
    <2>. QED
      BY <1>1, <2>4, Mapping DEF Contract!Takes
  <1>3. LifeOf(new) = "waiting"
    BY DEF LifeOf, Waiting
  <1>4. Life' = [Life EXCEPT ![i] = "waiting"]
    BY <1>1, <1>3, Mapping
  <1>5. Life[i] = LifeOf(jobs[i])
    BY Mapping
  <1>. QED
    BY <1>2, <1>4, <1>5 DEF Contract!Admit, Contract!Reopen

\* A statement that takes a row's lease off: a return, or an end.
LEMMA ContractUnleases ==
    ASSUME OneActivePerKey, OneActivePerKey', TypeOK, NEW i \in Ids,
           jobs[i].state = "executing", NEW due \in BOOLEAN,
           NEW s \in {"available", "retryable", "completed", "discarded"},
           \/ jobs' = [jobs EXCEPT ![i] = Unleased(jobs[i], s)]
           \/ jobs' = [jobs EXCEPT ![i] = [Unleased(jobs[i], s) EXCEPT !.due = due]]
    PROVE  Contract!ComeBack(i) \/ \E how \in {"failed", "closed"} : Contract!End(i, how)
  <1>1. jobs[i] \in Row
    BY StateOfRow DEF Active
  <1>2. PICK new : /\ jobs' = [jobs EXCEPT ![i] = new]
                   /\ new = Unleased(jobs[i], s) \/ new = [Unleased(jobs[i], s) EXCEPT !.due = due]
    OBVIOUS
  <1>3. s \in Active \union Terminal
    BY DEF Active, Waiting, Terminal
  <1>4. new.state = s /\ new.key = jobs[i].key
    <2>1. PICK row \in Row : row = jobs[i]
      BY <1>1
    <2>2. Unleased(row, s).state = s /\ Unleased(row, s).key = row.key
      BY <1>3, UnleasedRow
    <2>3. LET later == [Unleased(row, s) EXCEPT !.due = due]
          IN  later.state = s /\ later.key = row.key
      BY DEF Row, Unleased
    <2>. QED
      BY <1>2, <2>1, <2>2, <2>3
  <1>5. LifeOf(jobs[i]) = "running"
    BY DEF LifeOf, Waiting
  <1>6. CASE s \in {"available", "retryable"}
    <2>1. LifeOf(new) = "waiting"
      BY <1>4, <1>6 DEF LifeOf, Waiting
    <2>2. \A k \in Keys : Owns(jobs[i], k) <=> Owns(new, k)
      BY <1>4, <1>6 DEF Owns, Active, Waiting
    <2>. QED
      BY <1>2, <1>5, <2>1, <2>2, ContractComesBack
  <1>7. CASE s \in {"completed", "discarded"}
    <2>1. LifeOf(new) \in {"failed", "closed"} /\ new.state \notin Active
      BY <1>4, <1>7 DEF LifeOf, Active, Waiting
    <2>2. PICK how \in {"failed", "closed"} : LifeOf(new) = how
      BY <2>1
    <2>. QED
      BY <1>2, <1>5, <2>1, <2>2, ContractEnds
  <1>. QED
    BY <1>6, <1>7

\* A statement on one row that changes neither its state's life nor its key.
LEMMA ContractKeepsRow ==
    ASSUME OneActivePerKey, OneActivePerKey', TypeOK, NEW i \in Ids, NEW new,
           jobs' = [jobs EXCEPT ![i] = new], LifeOf(new) = LifeOf(jobs[i]),
           new.key = jobs[i].key, new.state \in Active, jobs[i].state \in Active
    PROVE  UNCHANGED Contract!vars
  <1>1. jobs'[i] = new /\ \A j \in Ids \ {i} : jobs'[j] = jobs[j]
    BY DEF TypeOK
  <1>2. ASSUME NEW j \in Ids
        PROVE  /\ LifeOf(jobs'[j]) = LifeOf(jobs[j])
               /\ \A k \in Keys : Owns(jobs[j], k) <=> Owns(jobs'[j], k)
    <2>1. CASE j = i
      BY <1>1, <2>1 DEF Owns
    <2>2. CASE j # i
      BY <1>1, <2>2
    <2>. QED
      BY <2>1, <2>2
  <1>. QED
    BY <1>2, ContractStutters

\* A table that stays.
LEMMA ContractQuiet ==
    ASSUME OneActivePerKey, OneActivePerKey', UNCHANGED jobs
    PROVE  UNCHANGED Contract!vars
  BY ContractStutters

\* enqueue.
LEMMA ProducerContract ==
    ASSUME OneActivePerKey, OneActivePerKey', TypeOK, ProducerNext
    PROVE  [Contract!Next]_Contract!vars
  <1>1. ASSUME NEW row \in NewRows, Insert(row)
        PROVE  Contract!Next
    <2>1. PICK i \in Ids : jobs[i] = Unborn /\ jobs' = [jobs EXCEPT ![i] = row]
      BY <1>1 DEF Insert
    <2>2. row.state \in Waiting /\ row.key \in Keys \union {NoKey}
      BY NewRowIsRow DEF Row
    <2>3. LifeOf(jobs[i]) = "unborn" /\ jobs[i].state \notin Active
      BY <2>1 DEF LifeOf, Unborn, Active, Waiting
    <2>. QED
      BY <2>1, <2>2, <2>3, ContractTakes DEF Contract!Next
  <1>2. ASSUME NEW c \in Producers, EnqueueAgain(c), Insert(enqueuing[c].row)
        PROVE  Contract!Next
    <2>1. enqueuing[c].row \in NewRows
      BY <1>2 DEF EnqueueAgain, TypeOK, EnqueueState, Idle
    <2>. QED
      BY <1>1, <1>2, <2>1
  <1>. QED
    BY <1>1, <1>2, ContractQuiet DEF ProducerNext, Enqueue, EnqueueLookup, EnqueueAgain

\* claimBatch.
LEMMA ClaimContract ==
    ASSUME OneActivePerKey, OneActivePerKey', TypeOK, NEW w \in Workers, NEW q \in Queues,
           NEW limit \in 1 .. BatchLimit, NEW B \in SUBSET Ids, ClaimBatch(w, q, limit, B)
    PROVE  Contract!HandOut(B)
  <1>1. ASSUME NEW j \in B
        PROVE  /\ LifeOf(jobs[j]) = "waiting" /\ LifeOf(jobs'[j]) = "running"
               /\ \A k \in Keys : Owns(jobs[j], k) <=> Owns(jobs'[j], k)
    <2>1. jobs[j].state \in Waiting /\ jobs'[j] = Claimed(jobs[j], w)
      BY DEF ClaimBatch, Batch, Claimable
    <2>2. jobs[j] \in Row
      BY <2>1, StateOfRow DEF Active
    <2>3. jobs'[j].state = "executing" /\ jobs'[j].key = jobs[j].key
      BY <2>1, <2>2, ClaimedRow
    <2>. QED
      BY <2>1, <2>3 DEF LifeOf, Owns, Active, Waiting
  <1>2. \A j \in Ids \ B : jobs'[j] = jobs[j]
    BY DEF ClaimBatch
  <1>. QED
    BY <1>1, <1>2, ContractHandsOut

\* The holder's, the rescuer's and the clock's statements on one row.
LEMMA RowContract ==
    ASSUME OneActivePerKey, OneActivePerKey', TypeOK, NEW j \in Ids, NEW w, NEW due \in BOOLEAN,
           \/ Heartbeat(j, w) \/ Complete(j, w) \/ Retry(j, w, due) \/ Discard(j, w)
           \/ Fail(j) \/ Release(j) \/ ComesDue(j) \/ LeaseExpires(j)
    PROVE  [Contract!Next]_Contract!vars
  <1>1. jobs[j] \in Row /\ jobs[j].state \in Active
    BY StateOfRow DEF Heartbeat, Complete, Retry, Discard, Fail, Release, ComesDue, LeaseExpires, Held, Active
  <1>2. CASE Complete(j, w) \/ Retry(j, w, due) \/ Discard(j, w) \/ Fail(j) \/ Release(j)
    <2>1. Contract!ComeBack(j) \/ \E how \in {"failed", "closed"} : Contract!End(j, how)
      BY <1>2, ContractUnleases DEF Complete, Retry, Discard, Fail, Release, Held
    <2>. QED
      BY <2>1 DEF Contract!Next
  <1>3. CASE Heartbeat(j, w) \/ ComesDue(j) \/ LeaseExpires(j)
    <2>1. PICK new : /\ jobs' = [jobs EXCEPT ![j] = new]
                     /\ \/ new = [jobs[j] EXCEPT !.lease = "live"]
                        \/ new = [jobs[j] EXCEPT !.lease = "expired"]
                        \/ new = [jobs[j] EXCEPT !.due = TRUE]
      BY <1>3 DEF Heartbeat, ComesDue, LeaseExpires
    <2>2. new.state = jobs[j].state /\ new.key = jobs[j].key
      BY <1>1, <2>1 DEF Row
    <2>3. LifeOf(new) = LifeOf(jobs[j])
      BY <2>2 DEF LifeOf
    <2>. QED
      BY <1>1, <2>1, <2>2, <2>3, ContractKeepsRow
  <1>. QED
    BY <1>2, <1>3

\* The operator's cancel and retry.
LEMMA OperatorContract ==
    ASSUME OneActivePerKey, OneActivePerKey', TypeOK, NEW j \in Ids, Cancel(j) \/ RetryNow(j)
    PROVE  [Contract!Next]_Contract!vars
  <1>1. jobs[j] \in Row
    BY StateOfRow DEF Cancel, RetryNow, IsActive, Active, Waiting, Terminal
  <1>2. CASE Cancel(j)
    <2>1. PICK new : new = [jobs[j] EXCEPT !.state = "cancelled"] /\ jobs' = [jobs EXCEPT ![j] = new]
      BY <1>2 DEF Cancel
    <2>2. new.state = "cancelled"
      BY <1>1, <2>1 DEF Row
    <2>3. LifeOf(new) = "closed" /\ new.state \notin Active
      BY <2>2 DEF LifeOf, Active, Waiting
    <2>4. LifeOf(jobs[j]) \in {"running", "waiting"}
      BY <1>2 DEF Cancel, IsActive, Active, Waiting, LifeOf
    <2>5. Contract!End(j, "closed")
      BY <2>1, <2>3, <2>4, ContractEnds
    <2>. QED
      BY <2>5 DEF Contract!Next
  <1>3. CASE RetryNow(j)
    <2>1. PICK new : new = Reopened(jobs[j]) /\ jobs' = [jobs EXCEPT ![j] = new]
      BY <1>3 DEF RetryNow
    <2>2. new.state = "available" /\ new.key = jobs[j].key /\ new.key \in Keys \union {NoKey}
      BY <1>1, <2>1 DEF Row, Reopened, Unleased
    <2>3. CASE jobs[j].state = "retryable"
      <3>1. LifeOf(new) = LifeOf(jobs[j]) /\ new.state \in Active /\ jobs[j].state \in Active
        BY <2>2, <2>3 DEF LifeOf, Active, Waiting
      <3>. QED
        BY <2>1, <2>2, <3>1, ContractKeepsRow
    <2>4. CASE jobs[j].state = "discarded"
      <3>1. LifeOf(jobs[j]) = "failed" /\ new.state \in Waiting /\ jobs[j].state \notin Active
        BY <2>2, <2>4 DEF LifeOf, Active, Waiting
      <3>2. Contract!Reopen(j, new.key)
        BY <2>1, <2>2, <3>1, ContractTakes
      <3>. QED
        BY <2>2, <3>2 DEF Contract!Next
    <2>. QED
      BY <1>3, <2>3, <2>4 DEF RetryNow
  <1>. QED
    BY <1>2, <1>3

\* prune.
LEMMA PruneContract ==
    ASSUME OneActivePerKey, OneActivePerKey', TypeOK, NEW S \in SUBSET Ids, Prune(S)
    PROVE  Contract!Forget(S)
  <1>1. ASSUME NEW j \in S
        PROVE  /\ LifeOf(jobs[j]) \in {"failed", "closed"} /\ LifeOf(jobs'[j]) = "pruned"
               /\ \A k \in Keys : Owns(jobs[j], k) <=> Owns(jobs'[j], k)
    <2>1. jobs[j].state \in Terminal /\ jobs'[j] = Pruned
      BY DEF Prune
    <2>. QED
      BY <2>1 DEF LifeOf, Owns, Active, Waiting, Terminal, Pruned
  <1>2. \A j \in Ids \ S : jobs'[j] = jobs[j]
    BY DEF Prune
  <1>. QED
    BY <1>1, <1>2, ContractForgets

\* rescue.
LEMMA RescueContract ==
    ASSUME OneActivePerKey, OneActivePerKey', TypeOK, NEW r \in Rescuers, NEW o \in sweep[r],
           RescueSettle(r, o)
    PROVE  [Contract!Next]_Contract!vars
  <1>1. o.id \in Ids
    BY DEF TypeOK, Observation
  <1>2. CASE Held(o.id, o.worker)
    <2>1. jobs[o.id].state = "executing" /\ TRUE \in BOOLEAN
      BY <1>2 DEF Held
    <2>2. \/ jobs' = [jobs EXCEPT ![o.id] = Unleased(jobs[o.id], "discarded")]
          \/ jobs' = [jobs EXCEPT ![o.id] = [Unleased(jobs[o.id], "retryable") EXCEPT !.due = TRUE]]
      BY <1>2 DEF RescueSettle
    <2>3. Contract!ComeBack(o.id) \/ \E how \in {"failed", "closed"} : Contract!End(o.id, how)
      BY <1>1, <2>1, <2>2, ContractUnleases
    <2>. QED
      BY <1>1, <2>3 DEF Contract!Next
  <1>3. CASE ~Held(o.id, o.worker)
    BY <1>3, ContractQuiet DEF RescueSettle
  <1>. QED
    BY <1>2, <1>3

\* Every step of the queue is a step of the contract, or none.
LEMMA ContractStep == QueueInv /\ QueueInv' /\ [Next]_queueVars => [Contract!Next]_Contract!vars
  <1>. SUFFICES ASSUME QueueInv, QueueInv', [Next]_queueVars
                PROVE  [Contract!Next]_Contract!vars
    OBVIOUS
  <1>1. TypeOK /\ OneActivePerKey /\ OneActivePerKey'
    BY DEF QueueInv
  <1>2. CASE UNCHANGED queueVars
    BY <1>1, <1>2, ContractQuiet DEF queueVars
  <1>3. CASE ProducerNext
    BY <1>1, <1>3, ProducerContract
  <1>4. CASE WorkerNext
    <2>1. PICK w \in Workers :
            \/ \E q \in Queues, limit \in 1 .. BatchLimit, B \in SUBSET Ids :
                 ClaimBatch(w, q, limit, B)
            \/ \E j \in Ids : \/ Heartbeat(j, w) \/ Complete(j, w)
                              \/ \E due \in BOOLEAN : Retry(j, w, due)
                              \/ Discard(j, w)
      BY <1>4 DEF WorkerNext
    <2>2. ASSUME NEW q \in Queues, NEW limit \in 1 .. BatchLimit, NEW B \in SUBSET Ids,
                 ClaimBatch(w, q, limit, B)
          PROVE  Contract!Next
      <3>1. Contract!HandOut(B)
        BY <1>1, <2>2, ClaimContract
      <3>. QED
        BY <3>1 DEF Contract!Next
    <2>3. ASSUME NEW j \in Ids, NEW due \in BOOLEAN,
                 Heartbeat(j, w) \/ Complete(j, w) \/ Retry(j, w, due) \/ Discard(j, w)
          PROVE  [Contract!Next]_Contract!vars
      BY <1>1, <2>3, RowContract
    <2>. QED
      BY <2>1, <2>2, <2>3
  <1>5. CASE OperatorNext
    <2>1. ASSUME NEW j \in Ids, NEW due \in BOOLEAN, Fail(j) \/ Release(j)
          PROVE  [Contract!Next]_Contract!vars
      BY <1>1, <2>1, RowContract
    <2>2. ASSUME NEW j \in Ids, Cancel(j) \/ RetryNow(j)
          PROVE  [Contract!Next]_Contract!vars
      BY <1>1, <2>2, OperatorContract
    <2>3. ASSUME NEW S \in SUBSET Ids, Prune(S)
          PROVE  Contract!Next
      BY <1>1, <2>3, PruneContract DEF Contract!Next
    <2>. QED
      BY <1>5, <2>1, <2>2, <2>3 DEF OperatorNext
  <1>6. CASE RescuerNext
    BY <1>1, <1>6, RescueContract, ContractQuiet DEF RescuerNext, RescueSelect, RescueStop
  <1>7. CASE TimeNext
    <2>1. ASSUME NEW j \in Ids, NEW due \in BOOLEAN, ComesDue(j) \/ LeaseExpires(j)
          PROVE  [Contract!Next]_Contract!vars
      BY <1>1, <2>1, RowContract
    <2>. QED
      BY <1>7, <2>1 DEF TimeNext
  <1>. QED
    BY <1>2, <1>3, <1>4, <1>5, <1>6, <1>7 DEF Next

\* An empty table is a queue nobody has called.
LEMMA ContractInit == Init => Contract!Init
  <1>. SUFFICES ASSUME Init PROVE Contract!Init
    OBVIOUS
  <1>1. Life = [j \in Ids |-> "unborn"]
    BY DEF Init, Life, Unborn, Waiting
  <1>2. \A k \in Keys : ~Taken(k)
    BY DEF Init, Taken, Occupies, IsActive, Unborn, Active, Waiting
  <1>3. Slot = [k \in Keys |-> NoJob]
    BY <1>2 DEF Slot
  <1>. QED
    BY <1>1, <1>3 DEF Contract!Init

\* The queue implements JobContract: for any number of jobs, keys, workers, producers and
\* rescuers, callers see lives that end once and keys that belong to one job at a time.
THEOREM ContractKept == QueueSpec => KeepsContract
  BY ContractInit, ContractStep, Invariance, PTL DEF QueueSpec, KeepsContract, Contract!Spec
=============================================================================
