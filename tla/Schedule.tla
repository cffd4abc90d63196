------------------------------- MODULE Schedule -------------------------------
(***************************************************************************)
(* The recurring schedules of packages/ketjs/src/server: claimDue of       *)
(* schedule.ts over the ket_schedule table, and sweepSchedules of          *)
(* worker.ts, which enqueues what was claimed.  The replicas of a worker   *)
(* deployment sweep one tenant database on timers of their own; a timer    *)
(* fires whether or not the replica's previous sweep has ended, so that    *)
(* sweeps overlap inside a replica too.  Every await is a step.            *)
(*                                                                         *)
(* Instants are natural numbers, and a schedule's ticks are the multiples  *)
(* of its period.                                                          *)
(***************************************************************************)
EXTENDS Naturals, Sequences, FiniteSets

CONSTANTS
    NoTick,         \* no row in ket_schedule
    Jobs,           \* the jobs with a schedule, in the manifest's order
    Period,         \* the period of each of them
    Replicas,       \* worker processes
    Slots,          \* bound: how many sweeps of one replica can overlap
    Skew,           \* how far a replica's clock may be behind
    LastInstant,    \* bound: the clock stops here
    Mortal,         \* the replicas that may crash
    Closable        \* the replicas that may be closed

Names == { Jobs[i] : i \in DOMAIN Jobs }

\* A worker that has no schedule makes no sweep.
ASSUME ScheduleAssumption ==
    /\ Jobs \in Seq(Names) /\ Jobs # << >>
    /\ \A i, k \in DOMAIN Jobs : Jobs[i] = Jobs[k] => i = k
    /\ Period \in [Names -> Nat \ {0}]
    /\ NoTick \notin Nat
    /\ 0 \notin Slots
    /\ Skew \in Nat /\ LastInstant \in Nat \ {0}
    /\ Mortal \subseteq Replicas /\ Closable \subseteq Replicas

VARIABLES
    now,        \* the latest clock
    lastTick,   \* ket_schedule: job |-> last_tick, NoTick while there is no row
    sweeps,     \* the calls of sweepSchedules under way
    sweeping,   \* each replica's `sweeping`: the sweep close() would wait for
    process,    \* each replica: up, closing, awaiting its sweep, closed or crashed
    live,       \* the unique keys schedule:<tick> of the jobs that are active
    fired,      \* how often each tick was enqueued
    first,      \* the tick each schedule was inserted with, NoTick before
    lost,       \* ticks claimed and then not enqueued: a crash or a throw
    skipped     \* the ticks that claims passed over, per job

schedVars == <<now, lastTick, sweeps, sweeping, process, live, fired, first, lost, skipped>>

Instants == 0 .. LastInstant
Tick == [job : Names, at : Instants]
NoSweep == 0

\* tickAt: the most recent tick at or before an instant.
TickAt(j, at) == at - (at % Period[j])

\* ticksBetween: how many ticks a claim passes over.
TicksBetween(j, from, to) == IF to > from THEN ((to - from) \div Period[j]) - 1 ELSE 0

\* step names the statement a sweep is about to execute; next is the schedule it
\* is at, read the last_tick it read, and claims what claimDue will return.
Sweep == [ replica : Replicas, slot : Slots,
           step : {"insert", "select", "update", "enqueue"},
           at : Instants, next : 1 .. Len(Jobs) + 1,
           read : Instants \union {NoTick}, claims : Seq(Tick) ]

SweepsOf(r) == { s \in sweeps : s.replica = r }
Replace(s, t) == (sweeps \ {s}) \union {t}

SchedInit ==
    /\ now = 0
    /\ lastTick = [j \in Names |-> NoTick]
    /\ sweeps = {}
    /\ sweeping = [r \in Replicas |-> NoSweep]
    /\ process = [r \in Replicas |-> "up"]
    /\ live = {}
    /\ fired = [t \in Tick |-> 0]
    /\ first = [j \in Names |-> NoTick]
    /\ lost = {}
    /\ skipped = [j \in Names |-> 0]

Queue == <<live, fired, lost>>
Table == <<lastTick, first, skipped>>

-----------------------------------------------------------------------------
(* claimDue *)

\* The timer fires.  One `now` is read for the whole pass over the schedules; the
\* handle of the sweep before it, if it still runs, is overwritten.
StartSweep(r, slot) ==
    /\ process[r] = "up"
    /\ \A s \in SweepsOf(r) : s.slot # slot
    /\ \E at \in Instants :
         /\ at <= now /\ now <= at + Skew
         /\ sweeps' = sweeps \union
              {[ replica |-> r, slot |-> slot, step |-> "insert", at |-> at,
                 next |-> 1, read |-> NoTick, claims |-> << >> ]}
    /\ sweeping' = [sweeping EXCEPT ![r] = slot]
    /\ UNCHANGED <<now, process, Queue, Table>>

\* Mutant: one schedule too many.
OnwardPastEnd(s) ==
    [s EXCEPT !.next = @ + 1, !.read = NoTick,
              !.step = IF s.next > Len(Jobs) THEN "enqueue" ELSE "insert"]

\* On to the next schedule, or to the claims once every schedule was looked at.
Onward(s) ==
    [s EXCEPT !.next = @ + 1, !.read = NoTick,
              !.step = IF s.next = Len(Jobs) THEN "enqueue" ELSE "insert"]

\* INSERT .. ON CONFLICT DO NOTHING: a schedule seen for the first time does not fire.
InsertFirst(s) ==
    /\ s.step = "insert"
    /\ LET j == Jobs[s.next]
       IN IF lastTick[j] = NoTick
          THEN /\ lastTick' = [lastTick EXCEPT ![j] = TickAt(j, s.at)]
               /\ first' = [first EXCEPT ![j] = TickAt(j, s.at)]
               /\ sweeps' = Replace(s, Onward(s))
          ELSE /\ sweeps' = Replace(s, [s EXCEPT !.step = "select"])
               /\ UNCHANGED <<lastTick, first>>
    /\ UNCHANGED <<now, sweeping, process, Queue, skipped>>

Behind(s, j) == lastTick[j] < TickAt(j, s.at)

\* SELECT last_tick: nothing to do when it is not behind the tick of this sweep.
Select(s) ==
    /\ s.step = "select"
    /\ LET j == Jobs[s.next]
       IN sweeps' = Replace(s, IF Behind(s, j)
                               THEN [s EXCEPT !.step = "update", !.read = lastTick[j]]
                               ELSE Onward(s))
    /\ UNCHANGED <<now, sweeping, process, Queue, Table>>

\* Mutant: the UPDATE names the job alone.
MovesAnyway(s, j) == s.step = "update"

\* UPDATE .. WHERE last_tick = what was read.
Moves(s, j) == lastTick[j] = s.read

MoveForward(s) ==
    /\ s.step = "update"
    /\ LET j == Jobs[s.next]
           tick == TickAt(j, s.at)
       IN IF Moves(s, j)
          THEN /\ lastTick' = [lastTick EXCEPT ![j] = tick]
               /\ skipped' = [skipped EXCEPT ![j] = @ + TicksBetween(j, s.read, tick)]
               /\ sweeps' = Replace(s,
                    [Onward(s) EXCEPT !.claims = Append(s.claims, [job |-> j, at |-> tick])])
          ELSE sweeps' = Replace(s, Onward(s)) /\ UNCHANGED <<lastTick, skipped>>
    /\ UNCHANGED <<now, sweeping, process, Queue, first>>

-----------------------------------------------------------------------------
(* sweepSchedules *)

\* enqueue with uniqueKey schedule:<tick>: coalesced while a job of that key is active.
EnqueueClaim(s) ==
    /\ s.step = "enqueue" /\ s.claims # << >>
    /\ LET tick == Head(s.claims)
       IN /\ live' = live \union {tick}
          /\ fired' = [fired EXCEPT ![tick] = IF tick \in live THEN @ ELSE @ + 1]
    /\ sweeps' = Replace(s, [s EXCEPT !.claims = Tail(@)])
    /\ UNCHANGED <<now, sweeping, process, lost, Table>>

\* The promise settles; its finally forgets `sweeping`, whichever sweep that is.
\* Once close() has evaluated `await sweeping`, only that sweep's end counts.
Forgets(s) == process[s.replica] = "awaiting" => sweeping[s.replica] = s.slot

Settles(s) ==
    /\ sweeps' = sweeps \ {s}
    /\ sweeping' = IF Forgets(s) THEN [sweeping EXCEPT ![s.replica] = NoSweep] ELSE sweeping

Finish(s) ==
    /\ s.step = "enqueue" /\ s.claims = << >>
    /\ Settles(s)
    /\ UNCHANGED <<now, process, Queue, Table>>

Claims(s) == { s.claims[i] : i \in DOMAIN s.claims }

\* A statement throws: schedule_error, and every claim not yet enqueued is dropped.
Throws(s) ==
    /\ Settles(s)
    /\ lost' = lost \union Claims(s)
    /\ UNCHANGED <<now, process, live, fired, Table>>

-----------------------------------------------------------------------------
(* Shutdown, crashes, and everything else *)

BeginClose(r) ==
    /\ r \in Closable /\ process[r] = "up"
    /\ process' = [process EXCEPT ![r] = "closing"]
    /\ UNCHANGED <<now, sweeps, sweeping, Queue, Table>>

\* The interval is cleared only after the jobs are drained: until then it fires, and
\* a sweepSchedules that returns at once takes the place of the one under way.
FireWhileClosing(r) ==
    /\ process[r] = "closing"
    /\ sweeping' = [sweeping EXCEPT ![r] = NoSweep]
    /\ UNCHANGED <<now, sweeps, process, Queue, Table>>

AwaitSweep(r) ==
    /\ process[r] = "closing"
    /\ process' = [process EXCEPT ![r] = "awaiting"]
    /\ UNCHANGED <<now, sweeps, sweeping, Queue, Table>>

\* source.close(): a sweep that still runs meets a closed source, and throws.
EndClose(r) ==
    /\ process[r] = "awaiting" /\ sweeping[r] = NoSweep
    /\ process' = [process EXCEPT ![r] = "closed"]
    /\ UNCHANGED <<now, sweeps, sweeping, Queue, Table>>

Crash(r) ==
    /\ r \in Mortal /\ process[r] \in {"up", "closing", "awaiting"}
    /\ process' = [process EXCEPT ![r] = "crashed"]
    /\ sweeps' = sweeps \ SweepsOf(r)
    /\ sweeping' = [sweeping EXCEPT ![r] = NoSweep]
    /\ lost' = lost \union UNION { Claims(s) : s \in SweepsOf(r) }
    /\ UNCHANGED <<now, live, fired, Table>>

\* A job that was enqueued ends and gives up its unique key.
JobEnds(t) ==
    /\ t \in live
    /\ live' = live \ {t}
    /\ UNCHANGED <<now, sweeps, sweeping, process, fired, lost, Table>>

Elapse ==
    /\ now < LastInstant
    /\ now' = now + 1
    /\ UNCHANGED <<sweeps, sweeping, process, Queue, Table>>

\* The source is open to the statements of a sweep.
Open(s) == process[s.replica] # "closed"

Advances(s) ==
    Open(s) /\ (InsertFirst(s) \/ Select(s) \/ MoveForward(s) \/ EnqueueClaim(s) \/ Finish(s))

SchedNext ==
    \/ \E r \in Replicas : \/ \E slot \in Slots : StartSweep(r, slot)
                           \/ BeginClose(r) \/ FireWhileClosing(r)
                           \/ AwaitSweep(r) \/ EndClose(r) \/ Crash(r)
    \/ \E s \in sweeps : Advances(s) \/ Throws(s)
    \/ \E t \in live : JobEnds(t)
    \/ Elapse

SchedSpec == SchedInit /\ [][SchedNext]_schedVars

\* The replicas nothing stops.
Stays == Replicas \ (Mortal \union Closable)

-----------------------------------------------------------------------------
(* Properties *)

SchedTypeOK ==
    /\ now \in Instants
    /\ lastTick \in [Names -> Instants \union {NoTick}]
    /\ sweeps \subseteq Sweep
    /\ \A s \in sweeps : s.step # "enqueue" => s.next \in DOMAIN Jobs
    /\ sweeping \in [Replicas -> Slots \union {NoSweep}]
    /\ process \in [Replicas -> {"up", "closing", "awaiting", "closed", "crashed"}]
    /\ live \subseteq Tick
    /\ fired \in [Tick -> Nat]
    /\ first \in [Names -> Instants \union {NoTick}]
    /\ lost \subseteq Tick
    /\ skipped \in [Names -> Nat]

\* Several replicas looking at one schedule produce at most one run of a tick, even
\* when the run of the tick ended long ago, and none of the tick a schedule was
\* installed in (schedule.ts, the compare-and-set and the first INSERT).
TickFiresOnce ==
    \A t \in Tick : /\ fired[t] <= 1
                    /\ fired[t] = 1 => t.at > first[t.job] /\ t.at % Period[t.job] = 0

\* Nothing is claimed twice or forgotten: each tick between the first and the last
\* was enqueued, waits in one sweep to be, was lost to a crash or a throw, or was
\* passed over by the claim that reports it as skipped.
TicksOf(S, j) == Cardinality({ t \in S : t.job = j })
PendingOf(j) == { p \in sweeps \X (1 .. Len(Jobs)) :
                    p[2] \in DOMAIN p[1].claims /\ p[1].claims[p[2]].job = j }

EveryTickAccounted ==
    \A j \in Names : lastTick[j] # NoTick =>
      lastTick[j] = first[j] + Period[j] *
        ( TicksOf({ t \in Tick : fired[t] = 1 }, j) + TicksOf(lost, j)
          + Cardinality(PendingOf(j)) + skipped[j] )

\* Every tick is fired, lost or passed over, and only once: both of the above.
TicksKept == TickFiresOnce /\ EveryTickAccounted

\* "The claim is durable and monotonic": whatever clocks the replicas have and
\* whatever they read earlier, no sweep moves a schedule back or stands it still.
LastTickMovesForward ==
    [][ \A j \in Names : lastTick[j] # NoTick /\ lastTick'[j] # lastTick[j] =>
          lastTick'[j] > lastTick[j] ]_lastTick

Due(t) == t.at % Period[t.job] = 0 /\ t.at + Skew <= now

\* Again and again every tick that has come for every clock is claimed or passed over, as long
\* as one replica lives on, whatever the other replicas claim, lose or drop.
DueTickIsTaken ==
    []<>(\A t \in Tick : Due(t) => lastTick[t.job] # NoTick /\ lastTick[t.job] >= t.at)
=============================================================================
