----------------------------- MODULE AdapterPool -----------------------------
(***************************************************************************)
(* createAdapterPool of packages/ketjs/src/data/pool.ts: one connection    *)
(* per datastore, opened on demand, capped, evicted when nobody leases it. *)
(* JavaScript runs a function from one await to the next without a break,  *)
(* so an action is what happens between two awaits.  Creating and opening  *)
(* an adapter, and closing one, take time and may fail.                    *)
(*                                                                         *)
(* Which idle entry evictOne picks (the least recently used) and which     *)
(* ones evictIdle finds old enough are left open.                          *)
(***************************************************************************)
EXTENDS Naturals, FiniteSets, Sequences

CONSTANTS
    Datastores, \* the datastores connections are made to
    Entries,    \* bound: the Entry objects referenced at one time
    NoEntry,    \* no entry
    Callers,    \* callers of pool.with
    Evictor,    \* the caller of evictIdle
    Closer,     \* the caller of close
    Max         \* max: the cap on connections

ASSUME PoolAssumption ==
    /\ NoEntry \notin Entries
    /\ Max \in Nat \ {0} /\ IsFiniteSet(Callers)
    /\ Evictor \notin Callers /\ Closer \notin Callers /\ Evictor # Closer

VARIABLES
    entries,    \* the Map: key |-> entry
    entry,      \* each Entry object
    closing,    \* the Set of entries being closed
    poolState,  \* "open", "closing" or "closed"
    admission,  \* who runs inside withAdmission, and who waits behind
    caller,     \* each caller: where it is, for which key, with which entry
    sweeper     \* evictIdle and close: the entries still to visit and the one at hand

poolVars == <<entries, entry, closing, poolState, admission, caller, sweeper>>

Users == Callers \union {Evictor, Closer}
Sweepers == {Evictor, Closer}

\* conn is the adapter behind the entry; opening says the promise is not null.
Absent == [key |-> NoEntry, conn |-> "none", leases |-> 0, opening |-> FALSE]
Entry == [ key : Datastores, conn : {"opening", "open", "closing", "closed"},
           leases : 0 .. Cardinality(Callers), opening : BOOLEAN ]

AtRest == [at |-> "rest", key |-> NoEntry, entry |-> NoEntry]
Caller == [ at : {"queued", "evicting", "admitted", "opening", "using"},
            key : Datastores, entry : Entries \union {NoEntry} ]

Visit == [ at : {"rest", "queued", "visiting", "waiting", "closing", "done"},
           todo : SUBSET Entries, entry : Entries \union {NoEntry} ]

PoolInit ==
    /\ entries = [k \in Datastores |-> NoEntry]
    /\ entry = [e \in Entries |-> Absent]
    /\ closing = {}
    /\ poolState = "open"
    /\ admission = << >>
    /\ caller = [c \in Callers |-> AtRest]
    /\ sweeper = [s \in Sweepers |-> [at |-> "rest", todo |-> {}, entry |-> NoEntry]]

Live == { entries[k] : k \in Datastores } \ {NoEntry}
Referenced == Live \union closing
              \union { caller[c].entry : c \in Callers }
              \union UNION { sweeper[s].todo \union {sweeper[s].entry} : s \in Sweepers }
\* An entry nobody refers to is garbage, once its open() or close() has ended.
Fresh == { e \in Entries : e \notin Referenced
                           /\ entry[e].conn \in {"none", "closed"} }

\* `if (entries.get(key) === entry) entries.delete(key)`
Without(e) == [k \in Datastores |-> IF entries[k] = e THEN NoEntry ELSE entries[k]]

Turn(u) == admission # << >> /\ Head(admission) = u
\* Work that waits for I/O ends after the promise jobs that are ready have run: a
\* caller that admission let through goes on before any connection opens or closes.
PoolSettled == \A c \in Callers : caller[c].at # "admitted"

Idle(e) == entry[e].leases = 0 /\ ~entry[e].opening /\ e \notin closing

-----------------------------------------------------------------------------
(* acquire *)

CallerGoes(c, step, e) == caller' = [caller EXCEPT ![c].at = step, ![c].entry = e]
GivesUp(c) == caller' = [caller EXCEPT ![c] = AtRest]
Passes == admission' = Tail(admission)

Lease(e, n) == [entry EXCEPT ![e].leases = n]
Unlease(e) == Lease(e, IF entry[e].leases = 0 THEN 0 ELSE entry[e].leases - 1)

\* An entry that is there and not closing is leased at once; else admission is asked.
Acquire(c, k) ==
    /\ caller[c] = AtRest /\ poolState = "open"
    /\ LET e == entries[k]
       IN IF e # NoEntry /\ e \notin closing
          THEN /\ entry' = Lease(e, entry[e].leases + 1)
               /\ caller' = [caller EXCEPT ![c] =
                    [key |-> k, entry |-> e,
                     at |-> IF entry[e].opening THEN "opening" ELSE "using"]]
               /\ UNCHANGED admission
          ELSE /\ caller' = [caller EXCEPT ![c] =
                    [key |-> k, entry |-> NoEntry, at |-> "queued"]]
               /\ admission' = Append(admission, c)
               /\ UNCHANGED entry
    /\ UNCHANGED <<entries, closing, poolState, sweeper>>

Full == Cardinality(Live) >= Max

\* Makes the entry, one object as good as another, and starts to open it.
Creates(c, map, objects) ==
    /\ Fresh # {}
    /\ LET e == CHOOSE e \in Fresh : TRUE
       IN /\ entries' = [map EXCEPT ![caller[c].key] = e]
          /\ entry' = [objects EXCEPT ![e] =
               [key |-> caller[c].key, conn |-> "opening", leases |-> 0, opening |-> TRUE]]
          /\ CallerGoes(c, "admitted", e)

Lets(c) == poolState = "open" /\ entries[caller[c].key] \notin closing

\* The turn comes: another acquire may have made the entry meanwhile.
Admit(c) ==
    /\ caller[c].at = "queued" /\ Turn(c) /\ Lets(c)
    /\ \/ /\ entries[caller[c].key] # NoEntry
          /\ CallerGoes(c, "admitted", entries[caller[c].key])
          /\ UNCHANGED <<entries, entry>>
       \/ /\ entries[caller[c].key] = NoEntry /\ ~Full
          /\ Creates(c, entries, entry)
    /\ Passes
    /\ UNCHANGED <<closing, poolState, sweeper>>

\* evictOne up to its await: room is made before anything is opened.
Evict(c, e) ==
    /\ caller[c].at = "queued" /\ Turn(c)
    /\ poolState = "open" /\ entries[caller[c].key] = NoEntry /\ Full
    /\ e \in Live /\ Idle(e)
    /\ closing' = closing \union {e}
    /\ entry' = [entry EXCEPT ![e].conn = "closing"]
    /\ CallerGoes(c, "evicting", e)
    /\ UNCHANGED <<entries, poolState, admission, sweeper>>

\* "pool is closed", "is closing during admission", "pool is full".
Refuse(c) ==
    /\ caller[c].at = "queued" /\ Turn(c)
    /\ \/ poolState # "open"
       \/ entries[caller[c].key] \in closing
       \/ entries[caller[c].key] = NoEntry /\ Full /\ ~\E e \in Live : Idle(e)
    /\ GivesUp(c) /\ Passes
    /\ UNCHANGED <<entries, entry, closing, poolState, sweeper>>

\* The victim's close() ends: its tombstone goes, and there is room, for nobody else
\* adds entries.  If that close failed, or the pool is closing, acquire throws.
Evicted(c) ==
    /\ caller[c].at = "evicting" /\ PoolSettled
    /\ LET e == caller[c].entry
           closed == [entry EXCEPT ![e].conn = "closed"]
       IN /\ closing' = closing \ {e}
          /\ \/ entries' = Without(e) /\ entry' = closed /\ GivesUp(c)
             \/ poolState = "open" /\ Creates(c, Without(e), closed)
    /\ Passes
    /\ UNCHANGED <<poolState, sweeper>>

\* Mutant: the entry is not looked at again.
AdmittedUnchecked(c) ==
    /\ caller[c].at = "admitted"
    /\ LET e == caller[c].entry
       IN /\ entry' = Lease(e, entry[e].leases + 1)
          /\ CallerGoes(c, IF entry[e].opening THEN "opening" ELSE "using", e)
    /\ UNCHANGED <<entries, closing, poolState, admission, sweeper>>

\* Back from admission: the pool or the entry may have begun to close since.
Admitted(c) ==
    /\ caller[c].at = "admitted"
    /\ LET e == caller[c].entry
       IN IF e \in closing \/ poolState # "open"
          THEN GivesUp(c) /\ UNCHANGED entry
          ELSE /\ entry' = Lease(e, entry[e].leases + 1)
               /\ CallerGoes(c, IF entry[e].opening THEN "opening" ELSE "using", e)
    /\ UNCHANGED <<entries, closing, poolState, admission, sweeper>>

\* create() and open(), or their failure: the adapter is closed, the entry deleted.
OpenEnds(e) ==
    /\ entry[e].conn = "opening" /\ PoolSettled
    /\ \/ entry' = [entry EXCEPT ![e].conn = "open"] /\ UNCHANGED entries
       \/ entry' = [entry EXCEPT ![e].conn = "closed"] /\ entries' = Without(e)
    /\ UNCHANGED <<closing, poolState, admission, caller, sweeper>>

\* `await opening` returns or throws.
Opened(c) ==
    /\ caller[c].at = "opening"
    /\ LET e == caller[c].entry
       IN /\ entry[e].conn # "opening"
          /\ IF entry[e].conn = "open" /\ poolState = "open"
             THEN entry' = [entry EXCEPT ![e].opening = FALSE] /\ CallerGoes(c, "using", e)
             ELSE /\ entry' = IF entry[e].conn = "open"
                              THEN [Unlease(e) EXCEPT ![e].opening = FALSE] ELSE Unlease(e)
                  /\ GivesUp(c)
    /\ UNCHANGED <<entries, closing, poolState, admission, sweeper>>

\* Mutant: the lease stays.
ReleaseKeepsLease(c) ==
    /\ caller[c].at = "using"
    /\ GivesUp(c)
    /\ UNCHANGED <<entries, entry, closing, poolState, admission, sweeper>>

\* release goes by key: it takes a lease off the entry the key has now.
Release(c) ==
    /\ caller[c].at = "using"
    /\ LET e == entries[caller[c].key]
       IN entry' = IF e = NoEntry THEN entry ELSE Unlease(e)
    /\ GivesUp(c)
    /\ UNCHANGED <<entries, closing, poolState, admission, sweeper>>

-----------------------------------------------------------------------------
(* evictIdle and close: each visits the entries there are when its turn comes *)

AskEvictIdle ==
    /\ sweeper[Evictor].at = "rest"
    /\ sweeper' = [sweeper EXCEPT ![Evictor].at = "queued"]
    /\ admission' = Append(admission, Evictor)
    /\ UNCHANGED <<entries, entry, closing, poolState, caller>>

AskClose ==
    /\ poolState = "open"
    /\ poolState' = "closing"
    /\ sweeper' = [sweeper EXCEPT ![Closer].at = "queued"]
    /\ admission' = Append(admission, Closer)
    /\ UNCHANGED <<entries, entry, closing, caller>>

Begin(s) ==
    /\ sweeper[s].at = "queued" /\ Turn(s)
    /\ sweeper' = [sweeper EXCEPT ![s].at = "visiting", ![s].todo = Live]
    /\ UNCHANGED <<entries, entry, closing, poolState, admission, caller>>

\* The loop of evictIdle up to the next close(): it passes over entries in use, and
\* over some that are idle but not for long enough.
CloseIdle(e, rest) ==
    /\ sweeper[Evictor].at = "visiting"
    /\ e \in sweeper[Evictor].todo /\ rest \subseteq sweeper[Evictor].todo \ {e}
    /\ Idle(e)
    /\ closing' = closing \union {e}
    /\ entry' = [entry EXCEPT ![e].conn = "closing"]
    /\ sweeper' = [sweeper EXCEPT ![Evictor] = [at |-> "closing", todo |-> rest, entry |-> e]]
    /\ UNCHANGED <<entries, poolState, admission, caller>>

\* The loop of close: an entry that is opening is waited for first.
CloseAny(e) ==
    /\ sweeper[Closer].at = "visiting" /\ e \in sweeper[Closer].todo
    /\ closing' = closing \union {e}
    /\ sweeper' = [sweeper EXCEPT ![Closer] =
         [ at |-> IF entry[e].opening THEN "waiting" ELSE "closing",
           todo |-> @.todo \ {e}, entry |-> e ]]
    /\ entry' = IF entry[e].opening THEN entry ELSE [entry EXCEPT ![e].conn = "closing"]
    /\ UNCHANGED <<entries, poolState, admission, caller>>

\* Opened, or failed to: then there is no adapter to close.
Waited ==
    /\ sweeper[Closer].at = "waiting"
    /\ LET e == sweeper[Closer].entry
       IN /\ entry[e].conn # "opening"
          /\ entry' = IF entry[e].conn = "open" THEN [entry EXCEPT ![e].conn = "closing"] ELSE entry
    /\ sweeper' = [sweeper EXCEPT ![Closer].at = "closing"]
    /\ UNCHANGED <<entries, closing, poolState, admission, caller>>

\* A close() ends.  One that fails ends evictIdle; close() collects the errors.
CloseEnds(s) ==
    /\ sweeper[s].at = "closing" /\ PoolSettled
    /\ LET e == sweeper[s].entry
       IN /\ entry' = [entry EXCEPT ![e].conn = "closed",
                                    ![e].opening = IF s = Closer THEN FALSE ELSE @]
          /\ entries' = Without(e)
          /\ closing' = closing \ {e}
    /\ sweeper' = [sweeper EXCEPT ![s].at = "visiting", ![s].entry = NoEntry]
    /\ UNCHANGED <<poolState, admission, caller>>

EndEvictIdle ==
    /\ sweeper[Evictor].at = "visiting"
    /\ sweeper' = [sweeper EXCEPT ![Evictor] = [at |-> "rest", todo |-> {}, entry |-> NoEntry]]
    /\ Passes
    /\ UNCHANGED <<entries, entry, closing, poolState, caller>>

EndPoolClose ==
    /\ sweeper[Closer].at = "visiting" /\ sweeper[Closer].todo = {}
    /\ sweeper' = [sweeper EXCEPT ![Closer].at = "done"]
    /\ entries' = [k \in Datastores |-> NoEntry]
    /\ poolState' = "closed"
    /\ Passes
    /\ UNCHANGED <<entry, closing, caller>>

-----------------------------------------------------------------------------
\* One step on the way of an acquire that was asked for, or of its user.
GoesOn(c) ==
    \/ Admit(c) \/ (\E e \in Entries : Evict(c, e)) \/ Refuse(c) \/ Evicted(c)
    \/ Admitted(c) \/ Opened(c) \/ Release(c)

EvictIdleStep == \/ \E e \in Entries, rest \in SUBSET Entries : CloseIdle(e, rest)
                 \/ Begin(Evictor) \/ CloseEnds(Evictor) \/ EndEvictIdle
CloseStep == \/ \E e \in Entries : CloseAny(e)
             \/ Begin(Closer) \/ Waited \/ CloseEnds(Closer) \/ EndPoolClose

PoolNext ==
    \/ \E c \in Callers : (\E k \in Datastores : Acquire(c, k)) \/ GoesOn(c)
    \/ \E e \in Entries : OpenEnds(e)
    \/ AskEvictIdle \/ EvictIdleStep
    \/ AskClose \/ CloseStep

PoolSpec == PoolInit /\ [][PoolNext]_poolVars

\* Connections open and close in time, users let go, and promise jobs run.
PoolFairness ==
    /\ \A c \in Callers : WF_poolVars(GoesOn(c))
    /\ \A e \in Entries : WF_poolVars(OpenEnds(e))
    /\ WF_poolVars(EvictIdleStep) /\ WF_poolVars(CloseStep)

FairPoolSpec == PoolSpec /\ PoolFairness

-----------------------------------------------------------------------------
(* Properties *)

PoolTypeOK ==
    /\ entries \in [Datastores -> Entries \union {NoEntry}]
    /\ entry \in [Entries -> Entry \union {Absent}]
    /\ closing \subseteq Entries
    /\ poolState \in {"open", "closing", "closed"}
    /\ admission \in Seq(Users)
    /\ caller \in [Callers -> Caller \union {AtRest}]
    /\ sweeper \in [Sweepers -> Visit]

Connected(e) == entry[e].conn \in {"opening", "open", "closing"}

\* The cap is on connections actually held, those still opening and those whose close
\* is in flight included; and no datastore is ever held by two of them, though an
\* entry is deleted, evicted and made again while callers wait.
WithinCap ==
    /\ Cardinality({ e \in Entries : Connected(e) }) <= Max
    /\ \A e, f \in Entries :
         Connected(e) /\ Connected(f) /\ entry[e].key = entry[f].key => e = f

\* A caller keeps the connection it was given: nothing but close() of the pool closes
\* an adapter between acquire and release (evictOne, evictIdle, a release by key that
\* would meet another caller's entry, an acquire that threw).
LeaseKeepsConnection ==
    poolState = "open" =>
      \A c \in Callers : caller[c].at = "using" =>
        /\ entry[caller[c].entry].conn = "open"
        /\ entries[caller[c].key] = caller[c].entry

\* leases counts the callers that wait for an entry or use it: none is lost, which
\* would let it be evicted under them, and none is left behind by an acquire that
\* failed, which would pin the connection for ever.
LeasesAreHeld ==
    poolState = "open" =>
      \A e \in Live :
        entry[e].leases = Cardinality({ c \in Callers :
                            caller[c].at \in {"opening", "using"} /\ caller[c].entry = e })

\* A lease is a lease to the pool and to its holder: both of the above.
LeasesHold == LeaseKeepsConnection /\ LeasesAreHeld

\* Once close() has returned no connection is left, not even one that was still
\* opening or being evicted when it was called, and none is opened afterwards.
CloseLeavesNothing ==
    poolState = "closed" => closing = {} /\ \A e \in Entries : ~Connected(e)

\* The connections there are, never more than the cap and none once closed: both of the above.
ConnectionsKept == WithinCap /\ CloseLeavesNothing

\* Everyone is answered: an acquire returns or throws and the admission lock comes
\* round, whatever fails to open or close, and close() returns.
EveryCallEnds ==
    /\ \A c \in Callers : caller[c].at # "rest" ~> caller[c].at = "rest"
    /\ poolState = "closing" ~> poolState = "closed"

\* What the pool keeps while callers, evictions and close() overlap: both of the above.
PoolKept == ConnectionsKept /\ LeasesHold
=============================================================================
