---------------------------- MODULE AdapterProofs ----------------------------
(*****************************************************************************)
(* What the connections to the databases keep, and the migrations that go    *)
(* over them.                                                                *)
(*                                                                           *)
(* The pool, for any number of datastores, callers and entries and any cap:  *)
(* it never holds more connections than the cap, nor two to one datastore;   *)
(* close() leaves none; and a caller keeps the connection it has leased.     *)
(* Whoever is making room or sweeping is the first in the admission queue    *)
(* (OneInside), so that at most one entry is being closed and nobody adds    *)
(* one meanwhile; and the map has exactly the entries with a connection      *)
(* behind them (MapHasConnected), so that the cap on the map is a cap on     *)
(* connections.                                                              *)
(*                                                                           *)
(* A SQLite connection, for any operations called from anywhere: what an     *)
(* operation answers is what became of its rows. A statement joins whatever  *)
(* transaction is open on the connection, so the argument is that nobody's   *)
(* statement ever meets another's transaction: the transaction whose turn it *)
(* is (sqRunning) is the only one whose marker is active and the only one    *)
(* open, an operation that is queued waits for that turn to be free, and     *)
(* what is uncommitted is exactly what that one has written.                 *)
(*                                                                           *)
(* Migrations, for any deployments of one database, any releases of each and *)
(* any schemas they ask for: the marker says what the database holds, what   *)
(* is recorded for a deployment is there, and no plan has a statement that   *)
(* fails. What a plan has left is always the end of it (EndOfPlan), and from *)
(* that and the two schemas follows how far each table has come (Reached);   *)
(* so the next statement fits, and the last one ends at the target           *)
(* (StatementFits). By hand a table is only given what our release or the    *)
(* database has (HandKept), so that a check which finds no difference in     *)
(* what the target names has found none at all.                              *)
(*****************************************************************************)
EXTENDS AdapterPool, SqliteQueue, Migration, FiniteSetTheorems, TLAPS

-----------------------------------------------------------------------------
(* The adapter pool.                                                       *)

\* Whoever is at work on an entry inside withAdmission is the first in its queue.
Inside(u) ==
    \/ u \in Callers /\ caller[u].at = "evicting"
    \/ u \in Sweepers /\ sweeper[u].at \in {"visiting", "waiting", "closing"}

\* The entry that somebody inside is closing.
AtHand(u, e) ==
    \/ u \in Callers /\ caller[u].at = "evicting" /\ caller[u].entry = e
    \/ u \in Sweepers /\ sweeper[u].at \in {"waiting", "closing"} /\ sweeper[u].entry = e

OneInside ==
    /\ \A u \in Users : Inside(u) => Turn(u)
    /\ \A e \in closing : \E u \in Users : AtHand(u, e)

\* The map has the entries with a connection, each under its own key.
MapHasConnected ==
    /\ \A k \in Datastores : entries[k] # NoEntry => Connected(entries[k]) /\ entry[entries[k]].key = k
    /\ \A e \in Entries : Connected(e) => entries[entry[e].key] = e
    /\ \A e \in Entries : entry[e].conn = "opening" => entry[e].opening
    /\ \A e \in Entries : entry[e].conn = "closing" => e \in closing

LiveWithinCap == IsFiniteSet(Live) /\ Cardinality(Live) <= Max

\* Evictions.
Evictions ==
    \A c \in Callers : caller[c].at = "evicting" =>
        /\ caller[c].entry \in closing /\ entry[caller[c].entry].conn = "closing"
        /\ entries[caller[c].key] = NoEntry

\* The sweeps of evictIdle and close: an entry they pass over was opened, or failed to open.
Sweeps ==
    /\ \A s \in Sweepers :
         /\ sweeper[s].at \in {"waiting", "closing"} =>
              sweeper[s].entry \in closing /\ entry[sweeper[s].entry] # Absent
         /\ sweeper[s].at \notin {"waiting", "closing"} => sweeper[s].entry = NoEntry
         /\ sweeper[s].at \in {"rest", "queued", "done"} => sweeper[s].todo = {}
         /\ \A e \in sweeper[s].todo : entry[e] # Absent /\ (~entry[e].opening => Connected(e))
         /\ sweeper[s].entry \notin sweeper[s].todo
    /\ sweeper[Evictor].at # "waiting" /\ sweeper[Evictor].at # "done"

\* How far close has got: what there is, it still has to visit.
Closes ==
    /\ poolState = "open" <=> sweeper[Closer].at = "rest"
    /\ poolState = "closed" <=> sweeper[Closer].at = "done"
    /\ sweeper[Closer].at \in {"visiting", "waiting", "closing"} =>
         Live \subseteq sweeper[Closer].todo \union {sweeper[Closer].entry}
    /\ poolState = "closed" => Live = {} /\ sweeper[Evictor].todo = {} /\ closing = {}

Closings == Evictions /\ Sweeps /\ Closes

\* What a caller may count on.
CallersHold ==
    \A c \in Callers :
        /\ caller[c].at \in {"admitted", "opening", "using"} =>
             /\ caller[c].entry \in Entries /\ entry[caller[c].entry] # Absent
             /\ entry[caller[c].entry].key = caller[c].key
        /\ caller[c].at = "admitted" => Connected(caller[c].entry)
        /\ poolState = "open" /\ caller[c].at \in {"opening", "using"} => caller[c].entry \notin closing
        /\ poolState = "open" /\ caller[c].at = "using" => entry[caller[c].entry].conn = "open"

Holders(e) == { c \in Callers : caller[c].at \in {"opening", "using"} /\ caller[c].entry = e }

LeasesCounted == poolState = "open" => \A e \in Entries : entry[e].leases = Cardinality(Holders(e))

PoolInv ==
    PoolTypeOK /\ OneInside /\ MapHasConnected /\ LiveWithinCap /\ Closings /\ CallersHold /\ LeasesCounted

-----------------------------------------------------------------------------
(* What can be said of the parts of any state of the invariant.            *)

LEMMA PoolAtHand ==
    ASSUME PoolTypeOK
    PROVE  /\ \A e \in Entries : entry[e] \in Entry \/ entry[e] = Absent
           /\ \A e \in Entries : entry[e] # Absent => entry[e] \in Entry
           /\ \A e \in Entries : Connected(e) => entry[e] # Absent
           /\ \A x \in Entry : /\ x # Absent /\ x.leases \in Nat /\ x.leases <= Cardinality(Callers)
                               /\ x.conn # "none" /\ x.key \in Datastores /\ x.opening \in BOOLEAN
           /\ Absent.conn = "none" /\ Absent.leases = 0 /\ ~Absent.opening
           /\ \A k \in Datastores : entries[k] # NoEntry => entries[k] \in Entries
           /\ \A c \in Callers : caller[c] = AtRest \/ caller[c] \in Caller
           /\ \A c \in Callers : caller[c].at = "rest" => caller[c] = AtRest
           /\ \A c \in Callers : caller[c].at # "rest" => caller[c] \in Caller
           /\ \A c \in Callers : caller[c].entry # NoEntry => caller[c].entry \in Entries
           /\ \A x \in Caller : x # AtRest /\ x.at # "rest" /\ x.key \in Datastores
           /\ AtRest.at = "rest" /\ AtRest.entry = NoEntry
           /\ \A s \in Sweepers : sweeper[s] \in Visit
           /\ Evictor \in Sweepers /\ Closer \in Sweepers /\ Evictor \in Users /\ Closer \in Users
           /\ Sweepers \subseteq Users /\ Callers \subseteq Users /\ Sweepers \cap Callers = {}
           /\ Evictor # Closer /\ NoEntry \notin Entries
           /\ Cardinality(Callers) \in Nat /\ Max \in Nat /\ Max > 0
  <1>1. Cardinality(Callers) \in Nat
    BY PoolAssumption, FS_CardinalityType
  <1>2. \A x \in Entry : /\ x # Absent /\ x.leases \in Nat /\ x.leases <= Cardinality(Callers)
                         /\ x.conn # "none" /\ x.key \in Datastores /\ x.opening \in BOOLEAN
    BY <1>1 DEF Entry, Absent
  <1>3. \A x \in Caller : x # AtRest /\ x.at # "rest" /\ x.key \in Datastores /\ x.entry \in Entries \union {NoEntry}
    BY DEF Caller, AtRest
  <1>4. AtRest.at = "rest" /\ AtRest.entry = NoEntry
    BY DEF AtRest
  <1>5. Absent.conn = "none" /\ Absent.leases = 0 /\ ~Absent.opening
    BY DEF Absent
  <1>6. \A e \in Entries : entry[e] \in Entry \/ entry[e] = Absent
    BY DEF PoolTypeOK
  <1>7. \A c \in Callers : caller[c] = AtRest \/ caller[c] \in Caller
    BY DEF PoolTypeOK
  <1>8. \A e \in Entries : Connected(e) => entry[e] # Absent
    BY <1>5 DEF Connected
  <1>. QED
    BY <1>1, <1>2, <1>3, <1>4, <1>5, <1>6, <1>7, <1>8, PoolAssumption DEF PoolTypeOK, Users, Sweepers

\* An entry stays one with another connection, other leases, or its opening awaited.
LEMMA ConnFields ==
    ASSUME NEW x \in Entry, NEW conn \in {"opening", "open", "closing", "closed"}
    PROVE  LET new == [x EXCEPT !.conn = conn]
           IN  /\ new \in Entry /\ new.conn = conn /\ new.key = x.key /\ new.leases = x.leases
               /\ new.opening = x.opening
  BY DEF Entry

LEMMA LeaseFields ==
    ASSUME NEW x \in Entry, NEW n \in 0 .. Cardinality(Callers)
    PROVE  LET new == [x EXCEPT !.leases = n]
           IN  /\ new \in Entry /\ new.leases = n /\ new.key = x.key /\ new.conn = x.conn
               /\ new.opening = x.opening
  BY DEF Entry

LEMMA OpeningFields ==
    ASSUME NEW x \in Entry, NEW opening \in BOOLEAN
    PROVE  LET new == [x EXCEPT !.opening = opening]
           IN  /\ new \in Entry /\ new.opening = opening /\ new.key = x.key /\ new.conn = x.conn
               /\ new.leases = x.leases
  BY DEF Entry

\* The table of entries after a change to one of them.
Objects(e, new) ==
    /\ entry' \in [Entries -> Entry \union {Absent}]
    /\ entry'[e] = new
    /\ \A f \in Entries : f # e => entry'[f] = entry[f]

LEMMA EntryChanges ==
    ASSUME PoolTypeOK, NEW e \in Entries, NEW new \in Entry, entry' = [entry EXCEPT ![e] = new]
    PROVE  Objects(e, new)
  BY DEF PoolTypeOK, Objects

\* The callers after one of them has moved.
Others(c, new) ==
    /\ caller' \in [Callers -> Caller \union {AtRest}]
    /\ caller'[c] = new
    /\ \A d \in Callers : d # c => caller'[d] = caller[d]

LEMMA CallerChanges ==
    ASSUME PoolTypeOK, NEW c \in Callers, NEW new \in Caller \union {AtRest},
           caller' = [caller EXCEPT ![c] = new]
    PROVE  Others(c, new)
  BY DEF PoolTypeOK, Others

LEMMA CallerGoesTo ==
    ASSUME PoolTypeOK, NEW c \in Callers, caller[c] # AtRest,
           NEW step \in {"queued", "evicting", "admitted", "opening", "using"}, NEW e \in Entries,
           CallerGoes(c, step, e)
    PROVE  \E new \in Caller : /\ new.at = step /\ new.entry = e /\ new.key = caller[c].key
                               /\ Others(c, new)
  <1>1. PICK x \in Caller : x = caller[c]
    BY PoolAtHand
  <1>. DEFINE new == [x EXCEPT !.at = step, !.entry = e]
  <1>2. new \in Caller /\ new.at = step /\ new.entry = e /\ new.key = x.key
    BY DEF Caller
  <1>3. caller' = [caller EXCEPT ![c] = new]
    BY <1>1 DEF CallerGoes, PoolTypeOK
  <1>. HIDE DEF new
  <1>. QED
    BY <1>1, <1>2, <1>3, CallerChanges

LEMMA CallerGivesUp ==
    ASSUME PoolTypeOK, NEW c \in Callers, GivesUp(c)
    PROVE  Others(c, AtRest)
  BY CallerChanges DEF GivesUp

-----------------------------------------------------------------------------
(* The admission queue.                                                    *)

\* There is one at work inside, at most.
LEMMA OneAtATime ==
    ASSUME OneInside, NEW u \in Users, NEW v \in Users, Inside(u), Turn(v)
    PROVE  u = v
  BY DEF OneInside, Turn

\* Others may join the queue, or whoever has the turn begin.
LEMMA QueueGrows ==
    ASSUME PoolTypeOK, OneInside,
           \/ UNCHANGED admission
           \/ \E u \in Users : admission' = Append(admission, u),
           \A u \in Users : Inside(u)' => Inside(u) \/ Turn(u)
    PROVE  admission' \in Seq(Users) /\ \A u \in Users : Inside(u)' => Turn(u)'
  <1>1. \A u \in Users : Turn(u) => Turn(u)'
    <2>1. CASE UNCHANGED admission
      BY <2>1 DEF Turn
    <2>2. ASSUME NEW v \in Users, admission' = Append(admission, v)
          PROVE  \A u \in Users : Turn(u) => Turn(u)'
      <3>1. admission # << >> => Head(Append(admission, v)) = Head(admission)
        BY DEF PoolTypeOK
      <3>2. Append(admission, v) # << >>
        BY DEF PoolTypeOK
      <3>. QED
        BY <2>2, <3>1, <3>2 DEF Turn
    <2>. QED
      BY <2>1, <2>2
  <1>. QED
    BY <1>1 DEF OneInside, PoolTypeOK

\* The first leaves it, and nobody is inside.
LEMMA QueueMoves ==
    ASSUME PoolTypeOK, OneInside, NEW h \in Users, Turn(h), Passes,
           ~Inside(h)', \A u \in Users : u # h => (Inside(u)' => Inside(u))
    PROVE  /\ admission' \in Seq(Users) /\ \A u \in Users : ~Inside(u)'
           /\ \A u \in Users : Inside(u)' => Turn(u)'
  <1>1. admission' \in Seq(Users)
    BY DEF PoolTypeOK, Turn, Passes
  <1>. QED
    BY <1>1, OneAtATime

-----------------------------------------------------------------------------
(* Leases.                                                                 *)

LEMMA HoldersFinite ==
    ASSUME NEW e
    PROVE  IsFiniteSet(Holders(e)) /\ Cardinality(Holders(e)) \in Nat
  BY PoolAssumption, FS_Subset, FS_CardinalityType DEF Holders

\* A caller that holds none yet can have one.
LEMMA RoomForLease ==
    ASSUME PoolTypeOK, LeasesCounted, poolState = "open", NEW e \in Entries, NEW c \in Callers, c \notin Holders(e)
    PROVE  entry[e].leases + 1 \in 0 .. Cardinality(Callers)
  <1>1. Holders(e) \union {c} \in SUBSET Callers
    BY DEF Holders
  <1>2. Cardinality(Holders(e) \union {c}) = Cardinality(Holders(e)) + 1
    BY HoldersFinite, FS_AddElement
  <1>3. Cardinality(Holders(e) \union {c}) <= Cardinality(Callers)
    BY <1>1, PoolAssumption, FS_Subset
  <1>. QED
    BY <1>2, <1>3, HoldersFinite, PoolAtHand DEF LeasesCounted

LEMMA LeaseTaken ==
    ASSUME LeasesCounted, NEW e \in Entries, NEW c \in Callers, UNCHANGED poolState,
           entry'[e].leases = entry[e].leases + 1,
           \A f \in Entries : f # e => entry'[f].leases = entry[f].leases,
           caller[c].at \notin {"opening", "using"},
           caller'[c].at \in {"opening", "using"} /\ caller'[c].entry = e,
           \A d \in Callers : d # c => caller'[d] = caller[d]
    PROVE  LeasesCounted'
  <1>1. Holders(e)' = Holders(e) \union {c} /\ c \notin Holders(e)
    BY DEF Holders
  <1>2. \A f \in Entries : f # e => Holders(f)' = Holders(f)
    BY DEF Holders
  <1>3. Cardinality(Holders(e) \union {c}) = Cardinality(Holders(e)) + 1
    BY <1>1, HoldersFinite, FS_AddElement
  <1>. QED
    BY <1>1, <1>2, <1>3 DEF LeasesCounted

LEMMA LeaseGiven ==
    ASSUME LeasesCounted, NEW e \in Entries, NEW c \in Holders(e), UNCHANGED poolState,
           entry'[e].leases = IF entry[e].leases = 0 THEN 0 ELSE entry[e].leases - 1,
           \A f \in Entries : f # e => entry'[f].leases = entry[f].leases,
           caller'[c].at \notin {"opening", "using"},
           \A d \in Callers : d # c => caller'[d] = caller[d]
    PROVE  LeasesCounted'
  <1>1. Holders(e)' = Holders(e) \ {c}
    BY DEF Holders
  <1>2. \A f \in Entries : f # e => Holders(f)' = Holders(f)
    BY DEF Holders
  <1>3. Cardinality(Holders(e) \ {c}) = Cardinality(Holders(e)) - 1 /\ Cardinality(Holders(e)) # 0
    BY HoldersFinite, FS_RemoveElement, FS_EmptySet
  <1>. QED
    BY <1>1, <1>2, <1>3, HoldersFinite DEF LeasesCounted

\* Where nobody takes or gives one, the count stands.
LEMMA LeasesStand ==
    ASSUME LeasesCounted, poolState' = "open" => poolState = "open",
           \A f \in Entries : entry'[f].leases = entry[f].leases,
           \A c \in Callers, f \in Entries :
               (caller'[c].at \in {"opening", "using"} /\ caller'[c].entry = f) <=>
               (caller[c].at \in {"opening", "using"} /\ caller[c].entry = f)
    PROVE  LeasesCounted'
  <1>1. \A f \in Entries : Holders(f)' = Holders(f)
    BY DEF Holders
  <1>. QED
    BY <1>1 DEF LeasesCounted

-----------------------------------------------------------------------------
(* The cap.                                                                *)

LEMMA FewerWithinCap ==
    ASSUME LiveWithinCap, Live' \subseteq Live
    PROVE  LiveWithinCap'
  <1>1. IsFiniteSet(Live') /\ Cardinality(Live') <= Cardinality(Live)
    BY FS_Subset DEF LiveWithinCap
  <1>. QED
    BY <1>1, PoolAssumption, FS_CardinalityType DEF LiveWithinCap

LEMMA OneMoreWithinCap ==
    ASSUME LiveWithinCap, Cardinality(Live) < Max, NEW e, Live' \subseteq Live \union {e}
    PROVE  LiveWithinCap'
  <1>1. IsFiniteSet(Live) /\ Cardinality(Live) \in Nat
    BY FS_CardinalityType DEF LiveWithinCap
  <1>2. IsFiniteSet(Live \union {e}) /\ Cardinality(Live \union {e}) <= Cardinality(Live) + 1
    BY <1>1, FS_AddElement
  <1>3. IsFiniteSet(Live') /\ Cardinality(Live') <= Cardinality(Live \union {e})
    BY <1>2, FS_Subset
  <1>. QED
    BY <1>1, <1>2, <1>3, PoolAssumption, FS_CardinalityType DEF LiveWithinCap

LEMMA ExchangedWithinCap ==
    ASSUME LiveWithinCap, NEW old \in Live, NEW new, Live' \subseteq (Live \ {old}) \union {new}
    PROVE  LiveWithinCap'
  <1>1. IsFiniteSet(Live \ {old}) /\ Cardinality(Live \ {old}) = Cardinality(Live) - 1
    BY FS_RemoveElement DEF LiveWithinCap
  <1>2. /\ IsFiniteSet((Live \ {old}) \union {new})
        /\ Cardinality((Live \ {old}) \union {new}) <= Cardinality(Live \ {old}) + 1
    BY SMTT(30), <1>1, FS_AddElement, FS_CardinalityType
  <1>3. IsFiniteSet(Live') /\ Cardinality(Live') <= Cardinality((Live \ {old}) \union {new})
    BY <1>2, FS_Subset
  <1>. QED
    BY <1>1, <1>2, <1>3, PoolAssumption, FS_CardinalityType DEF LiveWithinCap

-----------------------------------------------------------------------------
(* acquire and release, step by step.                                      *)

\* A caller leases an entry that is there and not being closed.
LEMMA LeaseStep ==
    ASSUME PoolInv, NEW c \in Callers, NEW e \in Entries, NEW mine \in Caller, Others(c, mine),
           poolState = "open", e \notin closing, Connected(e), mine.key = entry[e].key, mine.entry = e,
           mine.at = IF entry[e].opening THEN "opening" ELSE "using",
           caller[c].at \notin {"opening", "using", "evicting"},
           entry' = Lease(e, entry[e].leases + 1),
           UNCHANGED <<entries, closing, poolState, sweeper, admission>>
    PROVE  PoolInv'
  <1>. USE PoolAtHand DEF PoolInv
  <1>1. PICK x \in Entry : x = entry[e]
    OBVIOUS
  <1>2. PICK n \in 0 .. Cardinality(Callers) : n = x.leases + 1
    <2>1. c \notin Holders(e)
      BY DEF Holders
    <2>. QED
      BY <1>1, <2>1, RoomForLease
  <1>. DEFINE new == [x EXCEPT !.leases = n]
  <1>3. entry' = [entry EXCEPT ![e] = new]
    BY <1>1, <1>2 DEF Lease, PoolTypeOK
  <1>4. /\ new \in Entry /\ new.leases = n /\ new.key = x.key /\ new.conn = x.conn
        /\ new.opening = x.opening
    BY LeaseFields
  <1>. HIDE DEF new
  <1>5. Objects(e, new)
    BY <1>3, <1>4, EntryChanges
  <1>6. /\ \A f \in Entries : entry'[f].conn = entry[f].conn /\ entry'[f].key = entry[f].key
                              /\ entry'[f].opening = entry[f].opening /\ (entry[f] = Absent <=> entry'[f] = Absent)
        /\ \A f \in Entries : Connected(f)' = Connected(f)
    BY <1>1, <1>4, <1>5 DEF Objects, Connected
  <1>7. mine.at \in {"opening", "using"}
    OBVIOUS
  <1>8. PoolTypeOK'
    BY <1>5 DEF PoolTypeOK, Objects, Others
  <1>9. OneInside'
    <2>1. \A u \in Users : Inside(u)' => Inside(u)
      BY <1>7 DEF Inside, Others
    <2>2. \A f \in Entries, u \in Users : AtHand(u, f) => AtHand(u, f)'
      BY <1>7 DEF AtHand, Others
    <2>. QED
      BY <2>1, <2>2, QueueGrows DEF OneInside, PoolTypeOK
  <1>10. MapHasConnected'
    BY <1>6 DEF MapHasConnected
  <1>11. LiveWithinCap'
    BY FewerWithinCap DEF Live
  <1>12. Closings'
    <2>1. Evictions'
      BY <1>6, <1>7 DEF Closings, Evictions, Others, PoolTypeOK
    <2>2. Sweeps'
      BY <1>6 DEF Closings, Sweeps, PoolTypeOK, Visit
    <2>3. Closes'
      BY DEF Closings, Closes, Live
    <2>. QED
      BY <2>1, <2>2, <2>3 DEF Closings
  <1>13. CallersHold'
    <2>1. mine.at = "using" => entry'[e].conn = "open"
      BY <1>1, <1>6 DEF MapHasConnected, Connected
    <2>. QED
      BY <1>6, <1>7, <2>1 DEF CallersHold, Others
  <1>14. LeasesCounted'
    <2>1. entry'[e].leases = entry[e].leases + 1 /\ \A f \in Entries : f # e => entry'[f].leases = entry[f].leases
      BY <1>1, <1>2, <1>4, <1>5 DEF Objects
    <2>. QED
      BY <1>7, <2>1, LeaseTaken DEF Others
  <1>. QED
    BY <1>8, <1>9, <1>10, <1>11, <1>12, <1>13, <1>14

\* An acquire that finds its entry.
LEMMA AcquireStep ==
    ASSUME PoolInv, NEW c \in Callers, NEW k \in Datastores, Acquire(c, k),
           entries[k] # NoEntry, entries[k] \notin closing
    PROVE  PoolInv'
  <1>. USE PoolAtHand DEF PoolInv
  <1>1. PICK e \in Entries : e = entries[k]
    OBVIOUS
  <1>2. entry[e] \in Entry /\ entry[e].key = k /\ Connected(e)
    BY <1>1 DEF MapHasConnected
  <1>3. PICK at \in {"opening", "using"} : at = IF entry[e].opening THEN "opening" ELSE "using"
    OBVIOUS
  <1>. DEFINE mine == [key |-> k, entry |-> e, at |-> at]
  <1>4. /\ caller[c] = AtRest /\ poolState = "open" /\ entry' = Lease(e, entry[e].leases + 1)
        /\ caller' = [caller EXCEPT ![c] = mine]
        /\ UNCHANGED <<entries, closing, poolState, sweeper, admission>>
    BY <1>1, <1>3 DEF Acquire
  <1>5. mine \in Caller /\ mine.key = k /\ mine.entry = e /\ mine.at = at
    BY DEF Caller
  <1>. HIDE DEF mine
  <1>6. Others(c, mine)
    BY <1>4, <1>5, CallerChanges
  <1>. QED
    BY <1>1, <1>2, <1>3, <1>4, <1>5, <1>6, LeaseStep

\* An acquire that asks for admission.
LEMMA AsksStep ==
    ASSUME PoolInv, NEW c \in Callers, NEW k \in Datastores, Acquire(c, k),
           ~(entries[k] # NoEntry /\ entries[k] \notin closing)
    PROVE  PoolInv'
  <1>. USE PoolAtHand DEF PoolInv
  <1>. DEFINE mine == [key |-> k, entry |-> NoEntry, at |-> "queued"]
  <1>1. /\ caller[c] = AtRest /\ poolState = "open" /\ admission' = Append(admission, c)
        /\ caller' = [caller EXCEPT ![c] = mine]
        /\ UNCHANGED <<entries, closing, poolState, sweeper, entry>>
    BY DEF Acquire
  <1>2. mine \in Caller /\ mine.key = k /\ mine.entry = NoEntry /\ mine.at = "queued"
    BY DEF Caller
  <1>. HIDE DEF mine
  <1>3. Others(c, mine)
    BY <1>1, <1>2, CallerChanges
  <1>4. admission' \in Seq(Users) /\ \A u \in Users : Inside(u)' => Turn(u)'
    <2>1. \A u \in Users : Inside(u)' => Inside(u)
      BY <1>1, <1>2, <1>3 DEF Inside, Others
    <2>. QED
      BY <1>1, <2>1, QueueGrows
  <1>5. PoolTypeOK'
    BY <1>1, <1>3, <1>4 DEF PoolTypeOK, Others
  <1>6. OneInside'
    <2>1. \A f \in Entries, u \in Users : AtHand(u, f) => AtHand(u, f)'
      BY <1>1, <1>2, <1>3 DEF AtHand, Others
    <2>. QED
      BY <1>1, <1>4, <2>1 DEF OneInside, PoolTypeOK
  <1>7. MapHasConnected' /\ LiveWithinCap'
    BY <1>1, FewerWithinCap DEF MapHasConnected, Connected, Live
  <1>8. Closings'
    BY <1>1, <1>2, <1>3 DEF Closings, Evictions, Sweeps, Closes, Live, Others, Connected
  <1>9. CallersHold'
    BY <1>1, <1>2, <1>3 DEF CallersHold, Others, Connected
  <1>10. LeasesCounted'
    <2>1. \A d \in Callers, f \in Entries :
               (caller'[d].at \in {"opening", "using"} /\ caller'[d].entry = f) <=>
               (caller[d].at \in {"opening", "using"} /\ caller[d].entry = f)
      BY <1>1, <1>2, <1>3 DEF Others
    <2>. QED
      BY <1>1, <2>1, LeasesStand
  <1>. QED
    BY <1>5, <1>6, <1>7, <1>8, <1>9, <1>10

\* What a change of the callers alone, that takes and gives no lease, leaves alone.
LEMMA OnlyCallers ==
    ASSUME PoolInv, NEW c \in Callers, NEW mine \in Caller \union {AtRest}, Others(c, mine),
           UNCHANGED <<entries, entry, closing, poolState, sweeper>>,
           mine.at \notin {"evicting", "opening", "using"},
           mine.at = "admitted" => /\ mine.entry \in Entries /\ Connected(mine.entry)
                                   /\ entry[mine.entry].key = mine.key,
           poolState = "open" => caller[c].at \notin {"opening", "using"},
           caller[c].at # "evicting"
    PROVE  /\ MapHasConnected' /\ LiveWithinCap' /\ Closings' /\ CallersHold' /\ LeasesCounted'
           /\ \A u \in Users : Inside(u)' => Inside(u)
           /\ \A f \in Entries, u \in Users : AtHand(u, f) => AtHand(u, f)'
  <1>. USE PoolAtHand DEF PoolInv
  <1>1. MapHasConnected' /\ LiveWithinCap'
    BY FewerWithinCap DEF MapHasConnected, Connected, Live
  <1>2. Closings'
    <2>1. Live' = Live
      BY DEF Live
    <2>2. Evictions'
      BY DEF Closings, Evictions, Others, Connected
    <2>3. Sweeps' /\ Closes'
      BY <2>1 DEF Closings, Sweeps, Closes, Connected
    <2>. QED
      BY <2>2, <2>3 DEF Closings
  <1>3. CallersHold'
    BY DEF CallersHold, Others, Connected
  <1>4. LeasesCounted'
    <2>1. CASE poolState = "open"
      <3>1. \A d \in Callers, f \in Entries :
               (caller'[d].at \in {"opening", "using"} /\ caller'[d].entry = f) <=>
               (caller[d].at \in {"opening", "using"} /\ caller[d].entry = f)
        BY <2>1 DEF Others
      <3>. QED
        BY <3>1, LeasesStand
    <2>2. CASE poolState # "open"
      BY <2>2 DEF LeasesCounted
    <2>. QED
      BY <2>1, <2>2
  <1>5. \A u \in Users : Inside(u)' => Inside(u)
    BY DEF Inside, Others
  <1>6. \A f \in Entries, u \in Users : AtHand(u, f) => AtHand(u, f)'
    BY DEF AtHand, Others
  <1>. QED
    BY <1>1, <1>2, <1>3, <1>4, <1>5, <1>6

\* Whoever had the turn only to ask for it leaves the queue.
LEMMA TurnEnds ==
    ASSUME PoolTypeOK, OneInside, NEW c \in Callers, Turn(c), Passes, UNCHANGED closing,
           caller[c].at # "evicting", caller'[c].at # "evicting",
           \A u \in Users : Inside(u)' => Inside(u)
    PROVE  admission' \in Seq(Users) /\ OneInside'
  <1>. USE PoolAtHand
  <1>1. ~Inside(c) /\ ~Inside(c)'
    BY DEF Inside
  <1>2. /\ admission' \in Seq(Users) /\ \A u \in Users : ~Inside(u)'
        /\ \A u \in Users : Inside(u)' => Turn(u)'
    BY <1>1, QueueMoves
  <1>3. closing = {}
    <2>1. \A u \in Users : ~Inside(u)
      BY <1>1, OneAtATime
    <2>2. \A u \in Users, e \in closing : AtHand(u, e) => Inside(u)
      BY DEF AtHand, Inside
    <2>. QED
      BY <2>1, <2>2 DEF OneInside
  <1>. QED
    BY <1>2, <1>3 DEF OneInside

\* The turn comes, and the entry is there.
LEMMA FindsStep ==
    ASSUME PoolInv, NEW c \in Callers, Admit(c), entries[caller[c].key] # NoEntry
    PROVE  PoolInv'
  <1>. USE PoolAtHand DEF PoolInv
  <1>1. caller[c].at = "queued" /\ caller[c] \in Caller /\ caller[c].key \in Datastores
    BY DEF Admit
  <1>2. PICK e \in Entries : e = entries[caller[c].key] /\ Connected(e) /\ entry[e].key = caller[c].key
    BY <1>1 DEF MapHasConnected
  <1>3. /\ Turn(c) /\ Passes /\ CallerGoes(c, "admitted", e)
        /\ UNCHANGED <<entries, entry, closing, poolState, sweeper>>
    BY <1>2 DEF Admit
  <1>4. PICK mine \in Caller : mine.at = "admitted" /\ mine.entry = e /\ mine.key = caller[c].key /\ Others(c, mine)
    BY <1>1, <1>3, CallerGoesTo
  <1>5. /\ MapHasConnected' /\ LiveWithinCap' /\ Closings' /\ CallersHold' /\ LeasesCounted'
        /\ \A u \in Users : Inside(u)' => Inside(u)
    BY <1>1, <1>2, <1>3, <1>4, OnlyCallers
  <1>6. admission' \in Seq(Users) /\ OneInside'
    BY <1>1, <1>3, <1>4, <1>5, TurnEnds DEF Others
  <1>7. PoolTypeOK'
    BY <1>3, <1>4, <1>6 DEF PoolTypeOK, Others
  <1>. QED
    BY <1>5, <1>6, <1>7

LEMMA RefuseStep ==
    ASSUME PoolInv, NEW c \in Callers, Refuse(c)
    PROVE  PoolInv'
  <1>. USE PoolAtHand DEF PoolInv
  <1>1. /\ caller[c].at = "queued" /\ Turn(c) /\ Passes /\ GivesUp(c)
        /\ UNCHANGED <<entries, entry, closing, poolState, sweeper>>
    BY DEF Refuse
  <1>2. Others(c, AtRest)
    BY <1>1, CallerGivesUp
  <1>3. /\ MapHasConnected' /\ LiveWithinCap' /\ Closings' /\ CallersHold' /\ LeasesCounted'
        /\ \A u \in Users : Inside(u)' => Inside(u)
    BY <1>1, <1>2, OnlyCallers
  <1>4. admission' \in Seq(Users) /\ OneInside'
    BY <1>1, <1>2, <1>3, TurnEnds DEF Others
  <1>5. PoolTypeOK'
    BY <1>1, <1>2, <1>4 DEF PoolTypeOK, Others
  <1>. QED
    BY <1>3, <1>4, <1>5

\* evictOne chooses its victim.
LEMMA EvictStep ==
    ASSUME PoolInv, NEW c \in Callers, NEW e \in Entries, Evict(c, e)
    PROVE  PoolInv'
  <1>. USE PoolAtHand DEF PoolInv
  <1>1. /\ caller[c].at = "queued" /\ caller[c] \in Caller /\ Turn(c) /\ poolState = "open"
        /\ entries[caller[c].key] = NoEntry /\ e \in Live /\ Idle(e)
        /\ closing' = closing \union {e} /\ CallerGoes(c, "evicting", e)
        /\ UNCHANGED <<entries, poolState, admission, sweeper>>
    BY DEF Evict
  <1>2. Connected(e) /\ entry[e] # Absent /\ entry[e] \in Entry /\ entries[entry[e].key] = e
    BY <1>1 DEF Live, MapHasConnected
  <1>3. PICK x \in Entry : x = entry[e]
    BY <1>2
  <1>. DEFINE new == [x EXCEPT !.conn = "closing"]
  <1>4. entry' = [entry EXCEPT ![e] = new]
    BY <1>3 DEF Evict, PoolTypeOK
  <1>5. /\ new \in Entry /\ new.conn = "closing" /\ new.key = x.key /\ new.leases = x.leases
        /\ new.opening = x.opening
    BY ConnFields
  <1>. HIDE DEF new
  <1>6. Objects(e, new)
    BY <1>4, <1>5, EntryChanges
  <1>7. PICK mine \in Caller : mine.at = "evicting" /\ mine.entry = e /\ mine.key = caller[c].key /\ Others(c, mine)
    BY <1>1, CallerGoesTo
  <1>8. /\ \A f \in Entries : /\ entry'[f].key = entry[f].key /\ entry'[f].leases = entry[f].leases
                              /\ entry'[f].opening = entry[f].opening /\ (entry[f] = Absent <=> entry'[f] = Absent)
        /\ \A f \in Entries : Connected(f)' = Connected(f)
    BY <1>2, <1>3, <1>5, <1>6 DEF Objects, Connected
  <1>9. admission' \in Seq(Users) /\ \A u \in Users : Inside(u)' => Turn(u)'
    <2>1. \A u \in Users : Inside(u)' => Inside(u) \/ Turn(u)
      BY <1>1, <1>7 DEF Inside, Others
    <2>. QED
      BY <1>1, <2>1, QueueGrows
  <1>10. PoolTypeOK'
    BY <1>1, <1>6, <1>7 DEF PoolTypeOK, Objects, Others
  <1>11. OneInside'
    <2>1. \A f \in Entries, u \in Users : AtHand(u, f) => AtHand(u, f)'
      BY <1>1, <1>7 DEF AtHand, Others
    <2>2. AtHand(c, e)'
      BY <1>7 DEF AtHand, Others
    <2>. QED
      BY <1>1, <1>9, <2>1, <2>2 DEF OneInside, PoolTypeOK
  <1>12. MapHasConnected'
    BY <1>1, <1>2, <1>3, <1>5, <1>6, <1>8 DEF MapHasConnected, Objects
  <1>13. LiveWithinCap'
    BY <1>1, FewerWithinCap DEF Live
  <1>14. Closings'
    <2>1. Evictions'
      <3>1. ASSUME NEW d \in Callers, caller'[d].at = "evicting"
            PROVE  /\ caller'[d].entry \in closing' /\ entry'[caller'[d].entry].conn = "closing"
                   /\ entries'[caller'[d].key] = NoEntry
        <4>1. CASE d = c
          BY <1>1, <1>5, <1>6, <1>7, <4>1 DEF Others, Objects
        <4>2. CASE d # c
          <5>1. caller'[d] = caller[d]
            BY <1>7, <4>2 DEF Others
          <5>2. /\ caller[d].entry \in closing /\ entry[caller[d].entry].conn = "closing"
                /\ entries[caller[d].key] = NoEntry
            BY <3>1, <5>1 DEF Closings, Evictions
          <5>. QED
            BY <1>1, <1>5, <1>6, <5>1, <5>2 DEF Objects, PoolTypeOK
        <4>. QED
          BY <4>1, <4>2
      <3>. QED
        BY <3>1 DEF Evictions
    <2>2. Sweeps' /\ Closes'
      BY <1>1, <1>2, <1>7, <1>8 DEF Closings, Sweeps, Closes, Live, PoolTypeOK, Visit
    <2>. QED
      BY <2>1, <2>2 DEF Closings
  <1>15. CallersHold'
    <2>0. Cardinality(Holders(e)) = 0
      BY <1>1 DEF Idle, LeasesCounted
    <2>1. Holders(e) = {}
      BY <2>0, HoldersFinite, FS_EmptySet
    <2>2. \A d \in Callers : caller[d].at \in {"opening", "using"} => caller[d].entry # e
      BY <2>1 DEF Holders
    <2>. QED
      BY <1>1, <1>6, <1>7, <1>8, <2>2 DEF CallersHold, Others, Objects
  <1>16. LeasesCounted'
    <2>1. \A d \in Callers, f \in Entries :
               (caller'[d].at \in {"opening", "using"} /\ caller'[d].entry = f) <=>
               (caller[d].at \in {"opening", "using"} /\ caller[d].entry = f)
      BY <1>1, <1>7 DEF Others
    <2>. QED
      BY <1>1, <1>8, <2>1, LeasesStand
  <1>. QED
    BY <1>10, <1>11, <1>12, <1>13, <1>14, <1>15, <1>16

\* Nobody refers to an entry that is fresh, and there is no connection behind it.
LEMMA FreshIsNobodys ==
    ASSUME PoolTypeOK, NEW e \in Fresh
    PROVE  /\ e \in Entries /\ ~Connected(e) /\ e \notin closing /\ e # NoEntry
           /\ \A k \in Datastores : entries[k] # e
           /\ \A c \in Callers : caller[c].entry # e
           /\ \A s \in Sweepers : e \notin sweeper[s].todo /\ sweeper[s].entry # e
  <1>1. e \in Entries /\ e \notin Referenced /\ entry[e].conn \in {"none", "closed"}
    BY DEF Fresh
  <1>2. ~Connected(e) /\ e # NoEntry
    BY <1>1, PoolAtHand DEF Connected
  <1>3. e \notin Live /\ e \notin closing /\ e \notin { caller[c].entry : c \in Callers }
        /\ e \notin UNION { sweeper[s].todo \union {sweeper[s].entry} : s \in Sweepers }
    BY <1>1 DEF Referenced
  <1>4. \A k \in Datastores : entries[k] # e
    BY <1>2, <1>3 DEF Live
  <1>. QED
    BY <1>1, <1>2, <1>3, <1>4

\* The entry that Creates makes.
NewEntry(k) == [key |-> k, conn |-> "opening", leases |-> 0, opening |-> TRUE]

LEMMA NewEntryFields ==
    ASSUME PoolTypeOK, NEW k \in Datastores
    PROVE  /\ NewEntry(k) \in Entry /\ NewEntry(k).conn = "opening" /\ NewEntry(k).key = k
           /\ NewEntry(k).leases = 0 /\ NewEntry(k).opening
  BY PoolAtHand DEF NewEntry, Entry

\* An entry nobody holds, and that has no leases, is not counted.
LEMMA CreationCounts ==
    ASSUME PoolTypeOK, LeasesCounted, NEW e \in Entries, NEW c \in Callers, UNCHANGED poolState,
           \A d \in Callers : caller[d].entry # e,
           entry'[e].leases = 0, \A f \in Entries : f # e => entry'[f].leases = entry[f].leases,
           caller[c].at \notin {"opening", "using"}, caller'[c].at \notin {"opening", "using"},
           \A d \in Callers : d # c => caller'[d] = caller[d]
    PROVE  LeasesCounted'
  <1>1. \A f \in Entries : Holders(f)' = Holders(f)
    BY DEF Holders
  <1>2. Holders(e) = {}
    BY DEF Holders
  <1>3. Cardinality(Holders(e)) = 0
    BY <1>2, FS_EmptySet
  <1>. QED
    BY <1>1, <1>3 DEF LeasesCounted

\* The turn comes, and there is room for an entry.
LEMMA MakesStep ==
    ASSUME PoolInv, NEW c \in Callers, Admit(c), entries[caller[c].key] = NoEntry
    PROVE  PoolInv'
  <1>. USE PoolAtHand DEF PoolInv
  <1>1. caller[c].at = "queued" /\ caller[c] \in Caller /\ caller[c].key \in Datastores
    BY DEF Admit
  <1>2. PICK k \in Datastores : k = caller[c].key
    BY <1>1
  <1>3. /\ Turn(c) /\ Passes /\ poolState = "open" /\ ~Full /\ Creates(c, entries, entry)
        /\ UNCHANGED <<closing, poolState, sweeper>>
    BY DEF Admit, Lets
  <1>4. PICK e \in Fresh : e = CHOOSE f \in Fresh : TRUE
    BY <1>3 DEF Creates
  <1>. DEFINE new == NewEntry(k)
  <1>5. /\ entries' = [entries EXCEPT ![k] = e] /\ entry' = [entry EXCEPT ![e] = new]
        /\ CallerGoes(c, "admitted", e)
    BY <1>2, <1>3, <1>4 DEF Creates, NewEntry
  <1>6. /\ e \in Entries /\ ~Connected(e) /\ e \notin closing /\ e # NoEntry
        /\ \A l \in Datastores : entries[l] # e
        /\ \A d \in Callers : caller[d].entry # e
        /\ \A s \in Sweepers : e \notin sweeper[s].todo /\ sweeper[s].entry # e
    BY FreshIsNobodys
  <1>7. new \in Entry /\ new.conn = "opening" /\ new.key = k /\ new.leases = 0 /\ new.opening
    BY NewEntryFields
  <1>. HIDE DEF new
  <1>8. Objects(e, new)
    BY <1>5, <1>6, <1>7, EntryChanges
  <1>9. PICK mine \in Caller : mine.at = "admitted" /\ mine.entry = e /\ mine.key = k /\ Others(c, mine)
    BY <1>1, <1>2, <1>5, <1>6, CallerGoesTo
  <1>10. /\ entries' \in [Datastores -> Entries \union {NoEntry}] /\ entries'[k] = e
         /\ \A l \in Datastores : l # k => entries'[l] = entries[l]
    BY <1>5, <1>6 DEF PoolTypeOK
  <1>11. Connected(e)' /\ \A f \in Entries : f # e => Connected(f)' = Connected(f)
    BY <1>7, <1>8 DEF Objects, Connected
  <1>12. Live' \subseteq Live \union {e}
    BY <1>10 DEF Live
  <1>13. admission' \in Seq(Users) /\ OneInside'
    <2>1. \A u \in Users : Inside(u)' => Inside(u)
      BY <1>1, <1>3, <1>9 DEF Inside, Others
    <2>. QED
      BY <1>1, <1>3, <1>9, <2>1, TurnEnds DEF Others
  <1>14. PoolTypeOK'
    BY <1>3, <1>8, <1>9, <1>10, <1>13 DEF PoolTypeOK, Objects, Others
  <1>15. MapHasConnected'
    BY <1>2, <1>3, <1>6, <1>7, <1>8, <1>10, <1>11 DEF MapHasConnected, Objects
  <1>16. LiveWithinCap'
    <2>1. Cardinality(Live) < Max
      BY <1>3, FS_CardinalityType DEF Full, LiveWithinCap
    <2>. QED
      BY <1>12, <2>1, OneMoreWithinCap
  <1>17. Evictions'
    <2>1. \A u \in Users : ~Inside(u)
      BY <1>1, <1>3, OneAtATime DEF Inside
    <2>2. \A d \in Callers : caller'[d].at # "evicting"
      BY <1>9, <2>1 DEF Inside, Others
    <2>. QED
      BY <2>2 DEF Evictions
  <1>18. Sweeps' /\ Closes'
    <2>1. Sweeps'
      <3>1. \A f \in Entries : f # e => entry'[f] = entry[f] /\ Connected(f)' = Connected(f)
        BY <1>8, <1>11 DEF Objects
      <3>2. \A s \in Sweepers : \A f \in sweeper[s].todo : f \in Entries /\ f # e
        BY <1>6 DEF Visit
      <3>3. closing \subseteq Entries \ {e}
        BY <1>6 DEF PoolTypeOK
      <3>. QED
        BY <1>3, <3>1, <3>2, <3>3 DEF Closings, Sweeps
    <2>2. Closes'
      BY <1>3 DEF Closings, Closes
    <2>. QED
      BY <2>1, <2>2
  <1>19. CallersHold'
    BY <1>3, <1>6, <1>7, <1>8, <1>9, <1>11 DEF CallersHold, Others, Objects
  <1>20. LeasesCounted'
    BY <1>1, <1>3, <1>6, <1>7, <1>8, <1>9, CreationCounts DEF Objects, Others
  <1>. QED
    BY <1>13, <1>14, <1>15, <1>16, <1>17, <1>18, <1>19, <1>20 DEF Closings

\* The victim is closed, and deleted from the map.
LEMMA WithoutFields ==
    ASSUME PoolTypeOK, MapHasConnected, NEW e \in Entries, NEW k \in Datastores
    PROVE  /\ Without(e) \in [Datastores -> Entries \union {NoEntry}]
           /\ Without(e)[k] # e
           /\ entries[k] # e => Without(e)[k] = entries[k]
           /\ entries[k] = e => Without(e)[k] = NoEntry
  BY PoolAtHand DEF Without, PoolTypeOK

\* When an eviction ends, nobody is left inside and nothing is being closed.
LEMMA EvictionEnds ==
    ASSUME PoolInv, NEW c \in Callers, Evicted(c), NEW mine \in Caller \union {AtRest}, Others(c, mine),
           mine.at # "evicting"
    PROVE  /\ \E e \in Entries : /\ e = caller[c].entry /\ Connected(e) /\ entry[e] \in Entry /\ e \in closing
                                 /\ \A f \in Entries : entry[f].conn = "closing" => f = e
                                 /\ poolState = "open" => \A d \in Callers \ {c} :
                                      caller[d].at \in {"opening", "using"} => caller[d].entry # e
           /\ closing' = {} /\ admission' \in Seq(Users) /\ \A u \in Users : ~Inside(u)'
           /\ OneInside' /\ Evictions' /\ \A d \in Callers : caller[d].at # "admitted"
           /\ \A s \in Sweepers : sweeper[s].todo = {} /\ sweeper[s].at \notin {"visiting", "waiting", "closing"}
           /\ caller[c].at = "evicting" /\ caller[c] \in Caller /\ entries[caller[c].key] = NoEntry
           /\ UNCHANGED <<poolState, sweeper>>
  <1>. USE PoolAtHand DEF PoolInv
  <1>1. /\ caller[c].at = "evicting" /\ caller[c] \in Caller /\ Inside(c) /\ Turn(c) /\ PoolSettled
        /\ closing' = closing \ {caller[c].entry} /\ Passes /\ UNCHANGED <<poolState, sweeper>>
    BY DEF Evicted, Inside, OneInside
  <1>2. PICK e \in Entries : e = caller[c].entry /\ e \in closing /\ Connected(e) /\ entry[e] \in Entry
    BY <1>1 DEF Closings, Evictions, PoolTypeOK, Connected
  <1>3. \A u \in Users : u # c => ~Inside(u)
    BY <1>1, OneAtATime
  <1>4. /\ admission' \in Seq(Users) /\ \A u \in Users : ~Inside(u)'
        /\ \A u \in Users : Inside(u)' => Turn(u)'
    <2>1. ~Inside(c)' /\ \A u \in Users : u # c => (Inside(u)' => Inside(u))
      BY <1>1 DEF Inside, Others
    <2>. QED
      BY <1>1, <2>1, QueueMoves
  <1>5. closing' = {} /\ \A f \in Entries : entry[f].conn = "closing" => f = e
    <2>1. \A f \in closing : AtHand(c, f)
      BY <1>3 DEF OneInside, AtHand, Inside
    <2>2. \A f \in closing : f = e
      BY <1>2, <2>1 DEF AtHand
    <2>. QED
      BY <1>1, <1>2, <2>2 DEF MapHasConnected
  <1>6. OneInside' /\ Evictions'
    BY <1>4, <1>5 DEF OneInside, Evictions, Inside
  <1>7. \A s \in Sweepers : sweeper[s].todo = {} /\ sweeper[s].at \notin {"visiting", "waiting", "closing"}
    <2>1. \A s \in Sweepers : sweeper[s].at \notin {"visiting", "waiting", "closing"}
      BY <1>1, <1>3 DEF Inside
    <2>. QED
      BY <2>1 DEF Closings, Sweeps, Visit
  <1>8. ASSUME poolState = "open", NEW d \in Callers \ {c}, caller[d].at \in {"opening", "using"}
        PROVE  caller[d].entry # e
    BY <1>2, <1>8 DEF CallersHold
  <1>9. entries[caller[c].key] = NoEntry /\ \A d \in Callers : caller[d].at # "admitted"
    BY <1>1 DEF Closings, Evictions, PoolSettled
  <1>. QED
    BY <1>1, <1>2, <1>4, <1>5, <1>6, <1>7, <1>8, <1>9

\* An eviction that makes room for nothing: close() failed, or the pool is closing.
LEMMA EvictedInVainStep ==
    ASSUME PoolInv, NEW c \in Callers, Evicted(c), entries' = Without(caller[c].entry),
           entry' = [entry EXCEPT ![caller[c].entry].conn = "closed"], GivesUp(c)
    PROVE  PoolInv'
  <1>. USE PoolAtHand DEF PoolInv
  <1>1. Others(c, AtRest)
    BY CallerGivesUp
  <1>2. /\ closing' = {} /\ admission' \in Seq(Users) /\ OneInside' /\ Evictions'
        /\ \A d \in Callers : caller[d].at # "admitted"
        /\ \A s \in Sweepers : sweeper[s].todo = {} /\ sweeper[s].at \notin {"visiting", "waiting", "closing"}
        /\ caller[c].at = "evicting" /\ UNCHANGED <<poolState, sweeper>>
    BY <1>1, EvictionEnds
  <1>3. PICK e \in Entries : /\ e = caller[c].entry /\ Connected(e) /\ entry[e] \in Entry
                             /\ \A f \in Entries : entry[f].conn = "closing" => f = e
                             /\ poolState = "open" => \A d \in Callers \ {c} :
                                      caller[d].at \in {"opening", "using"} => caller[d].entry # e
    BY <1>1, EvictionEnds
  <1>4. PICK x \in Entry : x = entry[e]
    BY <1>3
  <1>. DEFINE new == [x EXCEPT !.conn = "closed"]
  <1>5. entry' = [entry EXCEPT ![e] = new]
    BY <1>3, <1>4 DEF PoolTypeOK
  <1>6. /\ new \in Entry /\ new.conn = "closed" /\ new.key = x.key /\ new.leases = x.leases
        /\ new.opening = x.opening
    BY ConnFields
  <1>. HIDE DEF new
  <1>7. Objects(e, new)
    BY <1>5, <1>6, EntryChanges
  <1>8. ~Connected(e)' /\ \A f \in Entries : f # e => Connected(f)' = Connected(f)
    BY <1>6, <1>7 DEF Objects, Connected
  <1>9. /\ entries' \in [Datastores -> Entries \union {NoEntry}]
        /\ \A k \in Datastores : entries'[k] # e /\ (entries[k] # e => entries'[k] = entries[k])
                                 /\ (entries'[k] # NoEntry => entries'[k] = entries[k])
    BY <1>3, WithoutFields DEF PoolTypeOK
  <1>10. Live' \subseteq Live
    BY <1>9 DEF Live
  <1>11. PoolTypeOK'
    BY <1>1, <1>2, <1>7, <1>9 DEF PoolTypeOK, Objects, Others
  <1>12. MapHasConnected'
    BY SMTT(30), <1>2, <1>3, <1>4, <1>6, <1>7, <1>8, <1>9 DEF MapHasConnected, Objects
  <1>13. LiveWithinCap'
    BY <1>10, FewerWithinCap
  <1>14. Sweeps' /\ Closes'
    BY <1>2, <1>10 DEF Closings, Sweeps, Closes
  <1>15. CallersHold'
    BY SMTT(30), <1>1, <1>2, <1>3, <1>4, <1>6, <1>7 DEF CallersHold, Others, Objects
  <1>16. LeasesCounted'
    <2>1. \A f \in Entries : entry'[f].leases = entry[f].leases
      BY <1>4, <1>6, <1>7 DEF Objects
    <2>2. \A d \in Callers, f \in Entries :
               (caller'[d].at \in {"opening", "using"} /\ caller'[d].entry = f) <=>
               (caller[d].at \in {"opening", "using"} /\ caller[d].entry = f)
      BY <1>1, <1>2 DEF Others
    <2>. QED
      BY <1>2, <2>1, <2>2, LeasesStand
  <1>. QED
    BY <1>2, <1>11, <1>12, <1>13, <1>14, <1>15, <1>16 DEF Closings

\* One that makes room for the entry of its caller.
LEMMA EvictedForStep ==
    ASSUME PoolInv, NEW c \in Callers, Evicted(c), poolState = "open",
           Creates(c, Without(caller[c].entry), [entry EXCEPT ![caller[c].entry].conn = "closed"])
    PROVE  PoolInv'
  <1>. USE PoolAtHand DEF PoolInv
  <1>1. PICK e \in Fresh : e = CHOOSE f \in Fresh : TRUE
    BY DEF Creates
  <1>2. /\ e \in Entries /\ ~Connected(e) /\ e \notin closing /\ e # NoEntry
        /\ \A l \in Datastores : entries[l] # e
        /\ \A d \in Callers : caller[d].entry # e
        /\ \A s \in Sweepers : e \notin sweeper[s].todo /\ sweeper[s].entry # e
    BY FreshIsNobodys
  <1>3. caller[c] \in Caller
    BY DEF Evicted
  <1>4. PICK k \in Datastores : k = caller[c].key
    BY <1>3
  <1>5. CallerGoes(c, "admitted", e)
    BY <1>1 DEF Creates
  <1>6. PICK mine \in Caller : mine.at = "admitted" /\ mine.entry = e /\ mine.key = k /\ Others(c, mine)
    BY <1>2, <1>3, <1>4, <1>5, CallerGoesTo
  <1>7. /\ closing' = {} /\ admission' \in Seq(Users) /\ OneInside' /\ Evictions'
        /\ \A d \in Callers : caller[d].at # "admitted"
        /\ \A s \in Sweepers : sweeper[s].todo = {} /\ sweeper[s].at \notin {"visiting", "waiting", "closing"}
        /\ caller[c].at = "evicting" /\ entries[k] = NoEntry /\ UNCHANGED <<poolState, sweeper>>
    BY <1>4, <1>6, EvictionEnds
  <1>8. PICK v \in Entries : /\ v = caller[c].entry /\ Connected(v) /\ entry[v] \in Entry
                             /\ \A f \in Entries : entry[f].conn = "closing" => f = v
                             /\ poolState = "open" => \A d \in Callers \ {c} :
                                      caller[d].at \in {"opening", "using"} => caller[d].entry # v
    BY <1>6, EvictionEnds
  <1>9. PICK x \in Entry : x = entry[v]
    BY <1>8
  <1>. DEFINE old == [x EXCEPT !.conn = "closed"]
              new == NewEntry(k)
  <1>10. /\ entries' = [Without(v) EXCEPT ![k] = e]
         /\ entry' = [[entry EXCEPT ![v] = old] EXCEPT ![e] = new]
    BY <1>1, <1>4, <1>8, <1>9 DEF Creates, NewEntry, PoolTypeOK
  <1>11. /\ old \in Entry /\ old.conn = "closed" /\ old.key = x.key /\ old.leases = x.leases
         /\ old.opening = x.opening
    BY ConnFields
  <1>12. new \in Entry /\ new.conn = "opening" /\ new.key = k /\ new.leases = 0 /\ new.opening
    BY NewEntryFields
  <1>. HIDE DEF old, new
  <1>13. e # v
    BY <1>2, <1>8
  <1>14. /\ entry' \in [Entries -> Entry \union {Absent}] /\ entry'[v] = old /\ entry'[e] = new
         /\ \A f \in Entries : f # v /\ f # e => entry'[f] = entry[f]
    BY <1>2, <1>10, <1>11, <1>12, <1>13 DEF PoolTypeOK
  <1>15. /\ Connected(e)' /\ ~Connected(v)'
         /\ \A f \in Entries : f # v /\ f # e => Connected(f)' = Connected(f)
    BY <1>11, <1>12, <1>14 DEF Connected
  <1>16. /\ entries' \in [Datastores -> Entries \union {NoEntry}] /\ entries'[k] = e
         /\ \A l \in Datastores : l # k =>
              /\ entries'[l] # v /\ (entries[l] # v => entries'[l] = entries[l])
              /\ entries'[l] # NoEntry => entries'[l] = entries[l]
    <2>1. /\ Without(v) \in [Datastores -> Entries \union {NoEntry}]
          /\ \A l \in Datastores : Without(v)[l] # v /\ (entries[l] # v => Without(v)[l] = entries[l])
                                   /\ (Without(v)[l] # NoEntry => Without(v)[l] = entries[l])
      BY WithoutFields
    <2>. QED
      BY <1>2, <1>10, <2>1
  <1>17. PoolTypeOK'
    BY <1>6, <1>7, <1>14, <1>16 DEF PoolTypeOK, Others
  <1>18. MapHasConnected'
    BY <1>2, <1>7, <1>8, <1>9, <1>11, <1>12, <1>13, <1>14, <1>15, <1>16 DEF MapHasConnected
  <1>19. LiveWithinCap'
    <2>1. Live' \subseteq (Live \ {v}) \union {e}
      BY <1>16, <1>13 DEF Live
    <2>2. v \in Live
      BY <1>8 DEF Live, MapHasConnected
    <2>. QED
      BY <2>1, <2>2, ExchangedWithinCap
  <1>20. Sweeps' /\ Closes'
    BY <1>7 DEF Closings, Sweeps, Closes
  <1>21. CallersHold'
    BY SMTT(30), <1>2, <1>4, <1>6, <1>7, <1>8, <1>9, <1>11, <1>12, <1>14, <1>15 DEF CallersHold, Others
  <1>22. LeasesCounted'
    <2>1. entry'[e].leases = 0 /\ \A f \in Entries : f # e => entry'[f].leases = entry[f].leases
      BY <1>9, <1>11, <1>12, <1>13, <1>14
    <2>. QED
      BY <1>2, <1>6, <1>7, <2>1, CreationCounts DEF Others
  <1>. QED
    BY <1>7, <1>17, <1>18, <1>19, <1>20, <1>21, <1>22 DEF Closings

\* Back from admission.
LEMMA AdmittedStep ==
    ASSUME PoolInv, NEW c \in Callers, Admitted(c)
    PROVE  PoolInv'
  <1>. USE PoolAtHand DEF PoolInv
  <1>1. /\ caller[c].at = "admitted" /\ caller[c] \in Caller
        /\ UNCHANGED <<entries, closing, poolState, admission, sweeper>>
    BY DEF Admitted
  <1>2. PICK e \in Entries : e = caller[c].entry /\ Connected(e) /\ entry[e].key = caller[c].key
    BY <1>1 DEF CallersHold
  <1>3. CASE e \in closing \/ poolState # "open"
    <2>1. GivesUp(c) /\ UNCHANGED entry
      BY <1>2, <1>3 DEF Admitted
    <2>2. Others(c, AtRest)
      BY <2>1, CallerGivesUp
    <2>3. /\ MapHasConnected' /\ LiveWithinCap' /\ Closings' /\ CallersHold' /\ LeasesCounted'
          /\ \A u \in Users : Inside(u)' => Inside(u)
          /\ \A f \in Entries, u \in Users : AtHand(u, f) => AtHand(u, f)'
      BY <1>1, <2>1, <2>2, OnlyCallers
    <2>4. OneInside' /\ PoolTypeOK'
      BY <1>1, <2>1, <2>2, <2>3, QueueGrows DEF OneInside, PoolTypeOK, Others
    <2>. QED
      BY <2>3, <2>4
  <1>4. CASE e \notin closing /\ poolState = "open"
    <2>1. PICK at \in {"opening", "using"} : at = IF entry[e].opening THEN "opening" ELSE "using"
      OBVIOUS
    <2>2. entry' = Lease(e, entry[e].leases + 1) /\ CallerGoes(c, at, e)
      BY <1>2, <1>4, <2>1 DEF Admitted
    <2>3. PICK mine \in Caller : mine.at = at /\ mine.entry = e /\ mine.key = caller[c].key /\ Others(c, mine)
      BY <1>1, <2>2, CallerGoesTo
    <2>. QED
      BY <1>1, <1>2, <1>4, <2>1, <2>2, <2>3, LeaseStep
  <1>. QED
    BY <1>3, <1>4

\* create() and open() succeed.
LEMMA OpensStep ==
    ASSUME PoolInv, NEW e \in Entries, entry[e].conn = "opening", entry' = [entry EXCEPT ![e].conn = "open"],
           UNCHANGED <<entries, closing, poolState, admission, caller, sweeper>>
    PROVE  PoolInv'
  <1>. USE PoolAtHand DEF PoolInv
  <1>1. Connected(e)
    BY DEF Connected
  <1>2. PICK x \in Entry : x = entry[e]
    BY <1>1
  <1>. DEFINE new == [x EXCEPT !.conn = "open"]
  <1>3. entry' = [entry EXCEPT ![e] = new]
    BY <1>2 DEF PoolTypeOK
  <1>4. /\ new \in Entry /\ new.conn = "open" /\ new.key = x.key /\ new.leases = x.leases
        /\ new.opening = x.opening
    BY ConnFields
  <1>. HIDE DEF new
  <1>5. Objects(e, new)
    BY <1>3, <1>4, EntryChanges
  <1>6. /\ \A f \in Entries : entry'[f].leases = entry[f].leases /\ entry'[f].key = entry[f].key
                              /\ entry'[f].opening = entry[f].opening /\ (entry[f] = Absent <=> entry'[f] = Absent)
                              /\ (entry'[f].conn \in {"opening", "closing"} => entry'[f].conn = entry[f].conn)
                              /\ (entry[f].conn # "opening" => entry'[f].conn = entry[f].conn)
        /\ \A f \in Entries : Connected(f)' = Connected(f)
    BY <1>1, <1>2, <1>4, <1>5 DEF Objects, Connected
  <1>7. PoolTypeOK'
    BY <1>5 DEF PoolTypeOK, Objects
  <1>8. OneInside'
    BY DEF OneInside, Inside, AtHand, Turn
  <1>9. MapHasConnected'
    BY <1>6 DEF MapHasConnected
  <1>10. LiveWithinCap'
    BY FewerWithinCap DEF Live
  <1>11. Closings'
    <2>1. Evictions'
      BY <1>6 DEF Closings, Evictions, PoolTypeOK
    <2>2. Sweeps'
      BY <1>6 DEF Closings, Sweeps, PoolTypeOK, Visit
    <2>3. Closes'
      BY DEF Closings, Closes, Live
    <2>. QED
      BY <2>1, <2>2, <2>3 DEF Closings
  <1>12. CallersHold'
    BY <1>6 DEF CallersHold
  <1>13. LeasesCounted'
    BY <1>6, LeasesStand
  <1>. QED
    BY <1>7, <1>8, <1>9, <1>10, <1>11, <1>12, <1>13

\* They fail: the entry is deleted, and those who wait for it are told when their turn to run comes.
LEMMA OpenFailsStep ==
    ASSUME PoolInv, NEW e \in Entries, entry[e].conn = "opening", entry' = [entry EXCEPT ![e].conn = "closed"],
           entries' = Without(e), PoolSettled, UNCHANGED <<closing, poolState, admission, caller, sweeper>>
    PROVE  PoolInv'
  <1>. USE PoolAtHand DEF PoolInv
  <1>1. Connected(e) /\ entry[e].opening
    BY DEF Connected, MapHasConnected
  <1>2. PICK x \in Entry : x = entry[e]
    BY <1>1
  <1>. DEFINE new == [x EXCEPT !.conn = "closed"]
  <1>3. entry' = [entry EXCEPT ![e] = new]
    BY <1>2 DEF PoolTypeOK
  <1>4. /\ new \in Entry /\ new.conn = "closed" /\ new.key = x.key /\ new.leases = x.leases
        /\ new.opening = x.opening
    BY ConnFields
  <1>. HIDE DEF new
  <1>5. Objects(e, new)
    BY <1>3, <1>4, EntryChanges
  <1>6. /\ \A f \in Entries : entry'[f].leases = entry[f].leases /\ entry'[f].key = entry[f].key
                              /\ entry'[f].opening = entry[f].opening /\ (entry[f] = Absent <=> entry'[f] = Absent)
        /\ \A f \in Entries : f # e => Connected(f)' = Connected(f) /\ entry'[f].conn = entry[f].conn
        /\ ~Connected(e)'
    BY <1>1, <1>2, <1>4, <1>5 DEF Objects, Connected
  <1>7. /\ entries' \in [Datastores -> Entries \union {NoEntry}]
        /\ \A k \in Datastores : entries'[k] # e /\ (entries[k] # e => entries'[k] = entries[k])
                                 /\ (entries'[k] # NoEntry => entries'[k] = entries[k])
    BY WithoutFields DEF PoolTypeOK
  <1>8. Live' \subseteq Live
    BY <1>7 DEF Live
  <1>9. PoolTypeOK'
    BY <1>5, <1>7 DEF PoolTypeOK, Objects
  <1>10. OneInside'
    BY DEF OneInside, Inside, AtHand, Turn
  <1>11. MapHasConnected'
    BY <1>4, <1>5, <1>6, <1>7 DEF MapHasConnected, Objects
  <1>12. LiveWithinCap'
    BY <1>8, FewerWithinCap
  <1>13. Evictions'
    <2>1. ASSUME NEW c \in Callers, caller[c].at = "evicting"
          PROVE  /\ caller[c].entry \in closing /\ entry'[caller[c].entry].conn = "closing"
                 /\ entries'[caller[c].key] = NoEntry
      <3>1. /\ caller[c].entry \in closing /\ entry[caller[c].entry].conn = "closing"
            /\ entries[caller[c].key] = NoEntry /\ caller[c].entry \in Entries /\ caller[c].key \in Datastores
        BY <2>1 DEF Closings, Evictions, PoolTypeOK
      <3>. QED
        BY <1>6, <1>7, <3>1
    <2>. QED
      BY <2>1 DEF Evictions
  <1>14. Sweeps'
    BY <1>1, <1>6 DEF Closings, Sweeps, PoolTypeOK, Visit
  <1>15. Closes'
    BY <1>8 DEF Closings, Closes
  <1>16. CallersHold'
    <2>1. \A c \in Callers : caller[c].at # "admitted"
      BY DEF PoolSettled
    <2>. QED
      BY <1>6, <2>1 DEF CallersHold
  <1>17. LeasesCounted'
    BY <1>6, LeasesStand
  <1>. QED
    BY <1>9, <1>10, <1>11, <1>12, <1>13, <1>14, <1>15, <1>16, <1>17 DEF Closings

LEMMA OpenEndsStep ==
    ASSUME PoolInv, NEW e \in Entries, OpenEnds(e)
    PROVE  PoolInv'
  BY OpensStep, OpenFailsStep DEF OpenEnds

\* A caller that is told that its entry is open, and uses it.
LEMMA UsesStep ==
    ASSUME PoolInv, NEW c \in Callers, Opened(c), entry[caller[c].entry].conn = "open", poolState = "open"
    PROVE  PoolInv'
  <1>. USE PoolAtHand DEF PoolInv
  <1>1. caller[c].at = "opening" /\ caller[c] \in Caller /\ UNCHANGED <<entries, closing, poolState, admission, sweeper>>
    BY DEF Opened
  <1>2. PICK e \in Entries : /\ e = caller[c].entry /\ entry[e].key = caller[c].key /\ Connected(e)
                             /\ entry[e].conn = "open" /\ e \notin closing
    BY <1>1 DEF CallersHold, Connected
  <1>3. PICK x \in Entry : x = entry[e]
    BY <1>2
  <1>. DEFINE new == [x EXCEPT !.opening = FALSE]
  <1>4. entry' = [entry EXCEPT ![e] = new] /\ CallerGoes(c, "using", e)
    BY <1>2, <1>3 DEF Opened, PoolTypeOK
  <1>5. /\ new \in Entry /\ new.conn = x.conn /\ new.key = x.key /\ new.leases = x.leases
        /\ ~new.opening
    BY OpeningFields
  <1>. HIDE DEF new
  <1>6. Objects(e, new)
    BY <1>4, <1>5, EntryChanges
  <1>7. PICK mine \in Caller : mine.at = "using" /\ mine.entry = e /\ mine.key = caller[c].key /\ Others(c, mine)
    BY <1>1, <1>4, CallerGoesTo
  <1>8. /\ \A f \in Entries : entry'[f].leases = entry[f].leases /\ entry'[f].key = entry[f].key
                              /\ entry'[f].conn = entry[f].conn /\ (entry[f] = Absent <=> entry'[f] = Absent)
                              /\ (entry'[f].opening # entry[f].opening => f = e)
        /\ \A f \in Entries : Connected(f)' = Connected(f)
    BY <1>2, <1>3, <1>5, <1>6 DEF Objects, Connected
  <1>9. PoolTypeOK'
    BY <1>1, <1>6, <1>7 DEF PoolTypeOK, Objects, Others
  <1>10. OneInside'
    <2>1. \A u \in Users : Inside(u)' => Inside(u)
      BY <1>1, <1>7 DEF Inside, Others
    <2>2. \A f \in Entries, u \in Users : AtHand(u, f) => AtHand(u, f)'
      BY <1>1, <1>7 DEF AtHand, Others
    <2>. QED
      BY <1>1, <2>1, <2>2, QueueGrows DEF OneInside, PoolTypeOK
  <1>11. MapHasConnected'
    BY <1>1, <1>2, <1>8 DEF MapHasConnected
  <1>12. LiveWithinCap'
    BY <1>1, FewerWithinCap DEF Live
  <1>13. Closings'
    <2>1. Evictions'
      BY <1>1, <1>7, <1>8 DEF Closings, Evictions, Others, PoolTypeOK
    <2>2. Sweeps' /\ Closes'
      BY <1>1, <1>2, <1>8 DEF Closings, Sweeps, Closes, Live, PoolTypeOK, Visit
    <2>. QED
      BY <2>1, <2>2 DEF Closings
  <1>14. CallersHold'
    BY <1>1, <1>2, <1>7, <1>8 DEF CallersHold, Others
  <1>15. LeasesCounted'
    <2>1. \A d \in Callers, f \in Entries :
               (caller'[d].at \in {"opening", "using"} /\ caller'[d].entry = f) <=>
               (caller[d].at \in {"opening", "using"} /\ caller[d].entry = f)
      BY <1>1, <1>2, <1>7 DEF Others
    <2>. QED
      BY <1>1, <1>8, <2>1, LeasesStand
  <1>. QED
    BY <1>9, <1>10, <1>11, <1>12, <1>13, <1>14, <1>15

\* A caller gives its lease back, whatever becomes of the promise of its opening.
LEMMA GivesLeaseStep ==
    ASSUME PoolInv, NEW c \in Callers, GivesUp(c), caller[c].at \in {"opening", "using"},
           NEW e \in Entries, NEW new \in Entry, entry' = [entry EXCEPT ![e] = new],
           entry[e] # Absent, new.conn = entry[e].conn, new.key = entry[e].key,
           new.opening = entry[e].opening \/ (entry[e].conn = "open" /\ ~new.opening),
           poolState = "open" =>
               /\ e = caller[c].entry
               /\ new.leases = IF entry[e].leases = 0 THEN 0 ELSE entry[e].leases - 1,
           UNCHANGED <<entries, closing, poolState, admission, sweeper>>
    PROVE  PoolInv'
  <1>. USE PoolAtHand DEF PoolInv
  <1>1. Objects(e, new) /\ Others(c, AtRest)
    BY EntryChanges, CallerGivesUp
  <1>2. /\ \A f \in Entries : entry'[f].conn = entry[f].conn /\ entry'[f].key = entry[f].key
                              /\ (entry[f] = Absent <=> entry'[f] = Absent)
                              /\ f # e => entry'[f].leases = entry[f].leases
                              /\ \/ entry'[f].opening = entry[f].opening
                                 \/ entry[f].conn = "open" /\ ~entry'[f].opening
        /\ \A f \in Entries : Connected(f)' = Connected(f)
    BY <1>1 DEF Objects, Connected
  <1>3. PoolTypeOK'
    BY <1>1 DEF PoolTypeOK, Objects, Others
  <1>4. OneInside'
    <2>1. \A u \in Users : Inside(u)' => Inside(u)
      BY <1>1 DEF Inside, Others
    <2>2. \A f \in Entries, u \in Users : AtHand(u, f) => AtHand(u, f)'
      BY <1>1 DEF AtHand, Others
    <2>. QED
      BY <2>1, <2>2, QueueGrows DEF OneInside, PoolTypeOK
  <1>5. MapHasConnected'
    BY <1>2 DEF MapHasConnected
  <1>6. LiveWithinCap'
    BY FewerWithinCap DEF Live
  <1>7. Closings'
    <2>1. Evictions'
      BY <1>1, <1>2 DEF Closings, Evictions, Others, PoolTypeOK
    <2>2. Sweeps'
      BY <1>2 DEF Closings, Sweeps, PoolTypeOK, Visit, Connected
    <2>3. Closes'
      BY DEF Closings, Closes, Live
    <2>. QED
      BY <2>1, <2>2, <2>3 DEF Closings
  <1>8. CallersHold'
    BY <1>1, <1>2 DEF CallersHold, Others
  <1>9. LeasesCounted'
    <2>1. CASE poolState = "open"
      <3>1. c \in Holders(e)
        BY <2>1 DEF Holders
      <3>. QED
        BY <1>1, <1>2, <2>1, <3>1, LeaseGiven DEF Objects, Others
    <2>2. CASE poolState # "open"
      BY <2>2 DEF LeasesCounted
    <2>. QED
      BY <2>1, <2>2
  <1>. QED
    BY <1>3, <1>4, <1>5, <1>6, <1>7, <1>8, <1>9

\* `await opening` returns or throws.
LEMMA OpenedStep ==
    ASSUME PoolInv, NEW c \in Callers, Opened(c)
    PROVE  PoolInv'
  <1>. USE PoolAtHand DEF PoolInv
  <1>1. /\ caller[c].at = "opening" /\ caller[c] \in Caller
        /\ UNCHANGED <<entries, closing, poolState, admission, sweeper>>
    BY DEF Opened
  <1>2. PICK e \in Entries : e = caller[c].entry /\ entry[e] # Absent
    BY <1>1 DEF CallersHold
  <1>3. CASE entry[e].conn = "open" /\ poolState = "open"
    BY <1>2, <1>3, UsesStep
  <1>4. CASE ~(entry[e].conn = "open" /\ poolState = "open")
    <2>1. PICK x \in Entry : x = entry[e]
      BY <1>2
    <2>2. PICK n \in 0 .. Cardinality(Callers) : n = IF x.leases = 0 THEN 0 ELSE x.leases - 1
      OBVIOUS
    <2>. DEFINE given == [x EXCEPT !.leases = n]
                told == [given EXCEPT !.opening = FALSE]
    <2>3. GivesUp(c) /\ entry' = IF entry[e].conn = "open"
                                 THEN [entry EXCEPT ![e] = told] ELSE [entry EXCEPT ![e] = given]
      BY <1>2, <1>4, <2>1, <2>2 DEF Opened, Unlease, Lease, PoolTypeOK
    <2>4. /\ given \in Entry /\ given.leases = n /\ given.key = x.key /\ given.conn = x.conn
          /\ given.opening = x.opening
      BY LeaseFields
    <2>. HIDE DEF given
    <2>5. /\ told \in Entry /\ told.leases = n /\ told.key = x.key /\ told.conn = x.conn
          /\ ~told.opening
      BY <2>4, OpeningFields
    <2>. HIDE DEF told
    <2>6. CASE entry[e].conn = "open"
      BY ZenonT(30), <1>1, <1>2, <2>1, <2>2, <2>3, <2>5, <2>6, GivesLeaseStep
    <2>7. CASE entry[e].conn # "open"
      BY ZenonT(30), <1>1, <1>2, <2>1, <2>2, <2>3, <2>4, <2>7, GivesLeaseStep
    <2>. QED
      BY <2>6, <2>7
  <1>. QED
    BY <1>3, <1>4

\* A release, by key: in an open pool the entry of the key is the one that was leased.
LEMMA ReleaseStep ==
    ASSUME PoolInv, NEW c \in Callers, Release(c)
    PROVE  PoolInv'
  <1>. USE PoolAtHand DEF PoolInv
  <1>1. /\ caller[c].at = "using" /\ caller[c] \in Caller /\ caller[c].key \in Datastores /\ GivesUp(c)
        /\ UNCHANGED <<entries, closing, poolState, admission, sweeper>>
    BY DEF Release
  <1>2. ASSUME poolState = "open"
        PROVE  entries[caller[c].key] = caller[c].entry /\ entries[caller[c].key] # NoEntry
    BY <1>1, <1>2 DEF CallersHold, MapHasConnected, Connected
  <1>3. CASE entries[caller[c].key] = NoEntry
    <2>1. Others(c, AtRest) /\ UNCHANGED entry /\ poolState # "open"
      BY <1>1, <1>2, <1>3, CallerGivesUp DEF Release
    <2>2. /\ MapHasConnected' /\ LiveWithinCap' /\ Closings' /\ CallersHold' /\ LeasesCounted'
          /\ \A u \in Users : Inside(u)' => Inside(u)
          /\ \A f \in Entries, u \in Users : AtHand(u, f) => AtHand(u, f)'
      BY <1>1, <2>1, OnlyCallers
    <2>3. OneInside' /\ PoolTypeOK'
      BY <1>1, <2>1, <2>2, QueueGrows DEF OneInside, PoolTypeOK, Others
    <2>. QED
      BY <2>2, <2>3
  <1>4. CASE entries[caller[c].key] # NoEntry
    <2>1. PICK e \in Entries : e = entries[caller[c].key] /\ Connected(e) /\ entry[e] # Absent
      BY <1>1, <1>4 DEF MapHasConnected
    <2>2. PICK x \in Entry : x = entry[e]
      BY <2>1
    <2>3. PICK n \in 0 .. Cardinality(Callers) : n = IF x.leases = 0 THEN 0 ELSE x.leases - 1
      OBVIOUS
    <2>. DEFINE new == [x EXCEPT !.leases = n]
    <2>4. entry' = [entry EXCEPT ![e] = new]
      BY <1>4, <2>1, <2>2, <2>3 DEF Release, Unlease, Lease, PoolTypeOK
    <2>5. /\ new \in Entry /\ new.leases = n /\ new.key = x.key /\ new.conn = x.conn
          /\ new.opening = x.opening
      BY LeaseFields
    <2>. HIDE DEF new
    <2>6. poolState = "open" =>
            /\ e = caller[c].entry
            /\ new.leases = IF entry[e].leases = 0 THEN 0 ELSE entry[e].leases - 1
      BY <1>2, <2>1, <2>2, <2>3, <2>5
    <2>7. new.conn = entry[e].conn /\ new.key = entry[e].key /\ new.opening = entry[e].opening
      BY <2>2, <2>5
    <2>. QED
      BY <1>1, <2>1, <2>4, <2>5, <2>6, <2>7, GivesLeaseStep
  <1>. QED
    BY <1>3, <1>4

-----------------------------------------------------------------------------
(* evictIdle and close, step by step.                                      *)

\* The two of them after one has gone on.
Sweeping(s, new) ==
    /\ sweeper' \in [Sweepers -> Visit]
    /\ sweeper'[s] = new
    /\ \A t \in Sweepers : t # s => sweeper'[t] = sweeper[t]

LEMMA SweeperChanges ==
    ASSUME PoolTypeOK, NEW s \in Sweepers, NEW new \in Visit, sweeper' = [sweeper EXCEPT ![s] = new]
    PROVE  Sweeping(s, new)
  BY DEF PoolTypeOK, Sweeping

LEMMA SweeperAt ==
    ASSUME PoolTypeOK, NEW s \in Sweepers,
           NEW at \in {"rest", "queued", "visiting", "waiting", "closing", "done"},
           sweeper' = [sweeper EXCEPT ![s].at = at]
    PROVE  \E new \in Visit : /\ new.at = at /\ new.todo = sweeper[s].todo /\ new.entry = sweeper[s].entry
                              /\ Sweeping(s, new)
  <1>1. PICK x \in Visit : x = sweeper[s]
    BY PoolAtHand
  <1>. DEFINE new == [x EXCEPT !.at = at]
  <1>2. new \in Visit /\ new.at = at /\ new.todo = x.todo /\ new.entry = x.entry
    BY DEF Visit
  <1>3. sweeper' = [sweeper EXCEPT ![s] = new]
    BY <1>1 DEF PoolTypeOK
  <1>. HIDE DEF new
  <1>. QED
    BY <1>1, <1>2, <1>3, SweeperChanges

\* evictIdle and close ask for admission; close says so to those who acquire.
LEMMA AskStep ==
    ASSUME PoolInv, NEW s \in Sweepers, sweeper[s].at = "rest",
           sweeper' = [sweeper EXCEPT ![s].at = "queued"], admission' = Append(admission, s),
           \/ s = Evictor /\ UNCHANGED poolState
           \/ s = Closer /\ poolState = "open" /\ poolState' = "closing",
           UNCHANGED <<entries, entry, closing, caller>>
    PROVE  PoolInv'
  <1>. USE PoolAtHand DEF PoolInv
  <1>1. PICK new \in Visit : /\ new.at = "queued" /\ new.todo = sweeper[s].todo /\ new.entry = sweeper[s].entry
                             /\ Sweeping(s, new)
    BY SweeperAt
  <1>2. sweeper[s].todo = {} /\ sweeper[s].entry = NoEntry
    BY DEF Closings, Sweeps
  <1>3. admission' \in Seq(Users) /\ \A u \in Users : Inside(u)' => Turn(u)'
    <2>1. \A u \in Users : Inside(u)' => Inside(u)
      BY <1>1 DEF Inside, Sweeping
    <2>. QED
      BY <2>1, QueueGrows
  <1>4. PoolTypeOK'
    BY <1>1, <1>3 DEF PoolTypeOK, Sweeping
  <1>5. OneInside'
    <2>1. \A f \in Entries, u \in Users : AtHand(u, f) => AtHand(u, f)'
      BY <1>1 DEF AtHand, Sweeping
    <2>. QED
      BY <1>3, <2>1 DEF OneInside, PoolTypeOK
  <1>6. MapHasConnected' /\ LiveWithinCap'
    BY FewerWithinCap DEF MapHasConnected, Connected, Live
  <1>7. Closings'
    <2>1. Evictions'
      BY DEF Closings, Evictions
    <2>2. Sweeps'
      BY <1>1, <1>2 DEF Closings, Sweeps, Connected, Sweeping
    <2>3. Closes'
      <3>1. Live' = Live
        BY DEF Live
      <3>. QED
        BY <1>1, <1>2, <3>1 DEF Closings, Closes, Sweeping
    <2>. QED
      BY <2>1, <2>2, <2>3 DEF Closings
  <1>8. CallersHold'
    BY DEF CallersHold, Connected
  <1>9. LeasesCounted'
    BY DEF LeasesCounted, Holders
  <1>. QED
    BY <1>4, <1>5, <1>6, <1>7, <1>8, <1>9

\* The turn of one of them comes: it will visit what there is.
LEMMA BeginStep ==
    ASSUME PoolInv, NEW s \in Sweepers, Begin(s)
    PROVE  PoolInv'
  <1>. USE PoolAtHand DEF PoolInv
  <1>1. sweeper[s].at = "queued" /\ Turn(s) /\ UNCHANGED <<entries, entry, closing, poolState, admission, caller>>
    BY DEF Begin
  <1>2. PICK x \in Visit : x = sweeper[s]
    OBVIOUS
  <1>3. PICK live \in SUBSET Entries : live = Live
    BY ZenonT(30) DEF Live
  <1>. DEFINE new == [x EXCEPT !.at = "visiting", !.todo = live]
  <1>4. new \in Visit /\ new.at = "visiting" /\ new.todo = live /\ new.entry = x.entry
    BY DEF Visit
  <1>5. sweeper' = [sweeper EXCEPT ![s] = new]
    BY <1>2, <1>3 DEF Begin, PoolTypeOK
  <1>. HIDE DEF new
  <1>6. Sweeping(s, new)
    BY <1>4, <1>5, SweeperChanges
  <1>7. sweeper[s].entry = NoEntry /\ NoEntry \notin Live /\ Live' = Live
    BY <1>1 DEF Closings, Sweeps, Live
  <1>8. \A e \in live : Connected(e) /\ entry[e] # Absent
    BY <1>3 DEF Live, MapHasConnected
  <1>9. admission' \in Seq(Users) /\ \A u \in Users : Inside(u)' => Turn(u)'
    <2>1. \A u \in Users : Inside(u)' => Inside(u) \/ Turn(u)
      BY <1>1, <1>6 DEF Inside, Sweeping
    <2>. QED
      BY <1>1, <2>1, QueueGrows
  <1>10. PoolTypeOK'
    BY <1>1, <1>6 DEF PoolTypeOK, Sweeping
  <1>11. OneInside'
    <2>1. \A f \in Entries, u \in Users : AtHand(u, f) => AtHand(u, f)'
      BY <1>1, <1>6 DEF AtHand, Sweeping
    <2>. QED
      BY <1>1, <1>9, <2>1 DEF OneInside, PoolTypeOK
  <1>12. MapHasConnected' /\ LiveWithinCap'
    BY <1>1, <1>7, FewerWithinCap DEF MapHasConnected, Connected
  <1>13. Closings'
    <2>1. Evictions'
      BY <1>1 DEF Closings, Evictions
    <2>2. Sweeps'
      BY <1>1, <1>2, <1>3, <1>4, <1>6, <1>7, <1>8 DEF Closings, Sweeps, Connected, Sweeping
    <2>3. Closes'
      BY <1>1, <1>3, <1>4, <1>6, <1>7 DEF Closings, Closes, Sweeping
    <2>. QED
      BY <2>1, <2>2, <2>3 DEF Closings
  <1>14. CallersHold'
    BY <1>1 DEF CallersHold, Connected
  <1>15. LeasesCounted'
    BY <1>1 DEF LeasesCounted, Holders
  <1>. QED
    BY <1>10, <1>11, <1>12, <1>13, <1>14, <1>15

\* evictIdle closes an entry that nobody leases.
LEMMA CloseIdleStep ==
    ASSUME PoolInv, NEW e \in Entries, NEW rest \in SUBSET Entries, CloseIdle(e, rest)
    PROVE  PoolInv'
  <1>. USE PoolAtHand DEF PoolInv
  <1>1. /\ sweeper[Evictor].at = "visiting" /\ e \in sweeper[Evictor].todo
        /\ rest \subseteq sweeper[Evictor].todo \ {e} /\ Idle(e)
        /\ closing' = closing \union {e}
        /\ UNCHANGED <<entries, poolState, admission, caller>>
    BY DEF CloseIdle
  <1>2. Connected(e) /\ entry[e] # Absent /\ entry[e] \in Entry /\ entries[entry[e].key] = e
    BY <1>1 DEF Closings, Sweeps, Idle, MapHasConnected
  <1>3. PICK x \in Entry : x = entry[e]
    BY <1>2
  <1>. DEFINE new == [x EXCEPT !.conn = "closing"]
              visit == [at |-> "closing", todo |-> rest, entry |-> e]
  <1>4. entry' = [entry EXCEPT ![e] = new] /\ sweeper' = [sweeper EXCEPT ![Evictor] = visit]
    BY <1>3 DEF CloseIdle, PoolTypeOK
  <1>5. /\ new \in Entry /\ new.conn = "closing" /\ new.key = x.key /\ new.leases = x.leases
        /\ new.opening = x.opening
    BY ConnFields
  <1>6. visit \in Visit /\ visit.at = "closing" /\ visit.todo = rest /\ visit.entry = e
    BY DEF Visit
  <1>. HIDE DEF new, visit
  <1>7. Objects(e, new) /\ Sweeping(Evictor, visit)
    BY <1>4, <1>5, <1>6, EntryChanges, SweeperChanges
  <1>8. /\ \A f \in Entries : /\ entry'[f].key = entry[f].key /\ entry'[f].leases = entry[f].leases
                              /\ entry'[f].opening = entry[f].opening /\ (entry[f] = Absent <=> entry'[f] = Absent)
        /\ \A f \in Entries : Connected(f)' = Connected(f)
    BY <1>2, <1>3, <1>5, <1>7 DEF Objects, Connected
  <1>9. admission' \in Seq(Users) /\ \A u \in Users : Inside(u)' => Turn(u)'
    <2>1. \A u \in Users : Inside(u)' => Inside(u)
      BY <1>1, <1>7 DEF Inside, Sweeping
    <2>. QED
      BY <1>1, <2>1, QueueGrows
  <1>10. PoolTypeOK'
    BY <1>1, <1>7 DEF PoolTypeOK, Objects, Sweeping
  <1>11. OneInside'
    <2>1. \A f \in Entries, u \in Users : AtHand(u, f) => AtHand(u, f)'
      BY <1>1, <1>7 DEF AtHand, Sweeping
    <2>2. AtHand(Evictor, e)'
      BY <1>6, <1>7 DEF AtHand, Sweeping
    <2>. QED
      BY <1>1, <1>9, <2>1, <2>2 DEF OneInside, PoolTypeOK
  <1>12. MapHasConnected'
    BY <1>1, <1>2, <1>3, <1>5, <1>7, <1>8 DEF MapHasConnected, Objects
  <1>13. LiveWithinCap' /\ Live' = Live
    BY <1>1, FewerWithinCap DEF Live
  <1>14. Closings'
    <2>1. Evictions'
      BY <1>1, <1>5, <1>7 DEF Closings, Evictions, Objects, PoolTypeOK
    <2>2. Sweeps'
      <3>1. \A s \in Sweepers : \A f \in sweeper[s].todo : f \in Entries
        BY DEF Visit
      <3>2. \A s \in Sweepers : sweeper[s].at \in {"waiting", "closing"} => sweeper[s].entry \in Entries
        BY DEF Closings, Sweeps, PoolTypeOK
      <3>3. \A s \in Sweepers : /\ sweeper'[s].todo \subseteq sweeper[s].todo
                                /\ s # Evictor => sweeper'[s] = sweeper[s]
        BY <1>1, <1>6, <1>7 DEF Sweeping
      <3>4. \A s \in Sweepers : \A f \in sweeper'[s].todo : entry'[f] # Absent /\ (~entry'[f].opening => Connected(f)')
        BY <1>8, <3>1, <3>3 DEF Closings, Sweeps
      <3>5. \A s \in Sweepers : sweeper'[s].at \in {"waiting", "closing"} =>
              sweeper'[s].entry \in closing' /\ entry'[sweeper'[s].entry] # Absent
        BY <1>1, <1>2, <1>6, <1>7, <1>8, <3>2 DEF Closings, Sweeps, Sweeping
      <3>. QED
        BY <1>1, <1>6, <1>7, <3>3, <3>4, <3>5 DEF Closings, Sweeps, Sweeping
    <2>3. Closes'
      BY <1>1, <1>7, <1>13 DEF Closings, Closes, Sweeping
    <2>. QED
      BY <2>1, <2>2, <2>3 DEF Closings
  <1>15. CallersHold'
    <2>1. ASSUME poolState = "open"
          PROVE  \A d \in Callers : caller[d].at \in {"opening", "using"} => caller[d].entry # e
      <3>1. Cardinality(Holders(e)) = 0
        BY <1>1, <2>1 DEF Idle, LeasesCounted
      <3>2. Holders(e) = {}
        BY <3>1, HoldersFinite, FS_EmptySet
      <3>. QED
        BY <3>2 DEF Holders
    <2>. QED
      BY <1>1, <1>7, <1>8, <2>1 DEF CallersHold, Objects
  <1>16. LeasesCounted'
    BY <1>1, <1>8, LeasesStand
  <1>. QED
    BY <1>10, <1>11, <1>12, <1>13, <1>14, <1>15, <1>16

\* While close is at work the pool is not open, and not closed either.
LEMMA AtWorkClosing ==
    ASSUME PoolInv, sweeper[Closer].at \in {"visiting", "waiting", "closing"}
    PROVE  poolState = "closing"
  BY DEF PoolInv, Closings, Closes, PoolTypeOK

\* In a pool that is closing nothing is promised to those who lease.
LEMMA ClosingPromisesLittle ==
    ASSUME PoolInv, poolState = "closing", UNCHANGED <<poolState, caller>>,
           \A f \in Entries : entry[f] # Absent => entry'[f] # Absent /\ entry'[f].key = entry[f].key,
           \/ \A f \in Entries : Connected(f) => Connected(f)'
           \/ PoolSettled
    PROVE  CallersHold' /\ LeasesCounted'
  BY PoolAtHand DEF PoolInv, CallersHold, LeasesCounted, PoolSettled

\* close takes up an entry: it waits for one that is opening.
LEMMA CloseAnyStep ==
    ASSUME PoolInv, NEW e \in Entries, CloseAny(e)
    PROVE  PoolInv'
  <1>. USE PoolAtHand DEF PoolInv
  <1>1. /\ sweeper[Closer].at = "visiting" /\ e \in sweeper[Closer].todo
        /\ closing' = closing \union {e}
        /\ UNCHANGED <<entries, poolState, admission, caller>>
    BY DEF CloseAny
  <1>2. entry[e] # Absent /\ entry[e] \in Entry /\ (~entry[e].opening => Connected(e)) /\ sweeper[Closer].entry = NoEntry
    BY <1>1 DEF Closings, Sweeps
  <1>3. PICK x \in Entry : x = entry[e]
    BY <1>2
  <1>4. PICK at \in {"waiting", "closing"} : at = IF entry[e].opening THEN "waiting" ELSE "closing"
    OBVIOUS
  <1>5. PICK conn \in {"opening", "open", "closing", "closed"} : conn = IF entry[e].opening THEN x.conn ELSE "closing"
    BY DEF Entry
  <1>6. PICK rest \in SUBSET Entries : rest = sweeper[Closer].todo \ {e}
    BY DEF Visit
  <1>. DEFINE new == [x EXCEPT !.conn = conn]
              visit == [at |-> at, todo |-> rest, entry |-> e]
  <1>7. sweeper' = [sweeper EXCEPT ![Closer] = visit]
    BY <1>4, <1>6 DEF CloseAny, PoolTypeOK
  <1>8. entry' = [entry EXCEPT ![e] = new]
    <2>1. CASE entry[e].opening
      <3>1. conn = x.conn /\ new = x
        BY <1>5, <2>1 DEF Entry
      <3>. QED
        BY <1>3, <2>1, <3>1 DEF CloseAny, PoolTypeOK
    <2>2. CASE ~entry[e].opening
      BY <1>3, <1>5, <2>2 DEF CloseAny, PoolTypeOK
    <2>. QED
      BY <2>1, <2>2
  <1>9. /\ new \in Entry /\ new.conn = conn /\ new.key = x.key /\ new.leases = x.leases
        /\ new.opening = x.opening
    BY ConnFields
  <1>10. visit \in Visit /\ visit.at = at /\ visit.todo = rest /\ visit.entry = e
    BY DEF Visit
  <1>. HIDE DEF new, visit
  <1>11. Objects(e, new) /\ Sweeping(Closer, visit)
    BY <1>7, <1>8, <1>9, <1>10, EntryChanges, SweeperChanges
  <1>12. /\ \A f \in Entries : /\ entry'[f].key = entry[f].key /\ entry'[f].leases = entry[f].leases
                               /\ entry'[f].opening = entry[f].opening /\ (entry[f] = Absent <=> entry'[f] = Absent)
                               /\ (f # e => entry'[f].conn = entry[f].conn)
         /\ \A f \in Entries : Connected(f)' = Connected(f)
    BY <1>2, <1>3, <1>5, <1>9, <1>11 DEF Objects, Connected
  <1>13. admission' \in Seq(Users) /\ \A u \in Users : Inside(u)' => Turn(u)'
    <2>1. \A u \in Users : Inside(u)' => Inside(u)
      BY <1>1, <1>11 DEF Inside, Sweeping
    <2>. QED
      BY <1>1, <2>1, QueueGrows
  <1>14. PoolTypeOK'
    BY <1>1, <1>11 DEF PoolTypeOK, Objects, Sweeping
  <1>15. OneInside'
    <2>1. \A f \in Entries, u \in Users : AtHand(u, f) => AtHand(u, f)'
      BY <1>1, <1>11 DEF AtHand, Sweeping
    <2>2. AtHand(Closer, e)'
      BY <1>10, <1>11 DEF AtHand, Sweeping
    <2>. QED
      BY <1>1, <1>13, <2>1, <2>2 DEF OneInside, PoolTypeOK
  <1>16. MapHasConnected'
    <2>1. \A f \in Entries : entry'[f].conn = "closing" => f \in closing'
      BY <1>1, <1>12 DEF MapHasConnected
    <2>2. \A f \in Entries : entry'[f].conn = "opening" => entry'[f].opening
      BY <1>3, <1>5, <1>9, <1>11, <1>12 DEF MapHasConnected, Objects
    <2>. QED
      BY <1>1, <1>12, <2>1, <2>2 DEF MapHasConnected
  <1>17. LiveWithinCap' /\ Live' = Live
    BY <1>1, FewerWithinCap DEF Live
  <1>18. Closings'
    <2>1. Evictions'
      <3>1. \A c \in Callers : caller[c].at # "evicting"
        <4>1. \A u \in Users : Inside(u) => u = Closer
          BY <1>1, OneAtATime DEF Inside, OneInside
        <4>. QED
          BY <4>1 DEF Inside
      <3>. QED
        BY <1>1, <3>1 DEF Evictions
    <2>2. Sweeps'
      <3>1. \A s \in Sweepers : \A f \in sweeper[s].todo : f \in Entries
        BY DEF Visit
      <3>2. \A s \in Sweepers : sweeper[s].at \in {"waiting", "closing"} => sweeper[s].entry \in Entries
        BY DEF Closings, Sweeps, PoolTypeOK
      <3>3. \A s \in Sweepers : /\ sweeper'[s].todo \subseteq sweeper[s].todo
                                /\ s # Closer => sweeper'[s] = sweeper[s]
        BY <1>1, <1>6, <1>10, <1>11 DEF Sweeping
      <3>4. \A s \in Sweepers : \A f \in sweeper'[s].todo : entry'[f] # Absent /\ (~entry'[f].opening => Connected(f)')
        BY <1>12, <3>1, <3>3 DEF Closings, Sweeps
      <3>5. \A s \in Sweepers : sweeper'[s].at \in {"waiting", "closing"} =>
              sweeper'[s].entry \in closing' /\ entry'[sweeper'[s].entry] # Absent
        BY <1>1, <1>2, <1>10, <1>11, <1>12, <3>2 DEF Closings, Sweeps, Sweeping
      <3>. QED
        BY <1>1, <1>6, <1>10, <1>11, <3>3, <3>4, <3>5 DEF Closings, Sweeps, Sweeping
    <2>3. Closes'
      <3>1. NoEntry \notin Live
        BY DEF Live
      <3>2. Live \subseteq rest \union {e}
        BY <1>1, <1>2, <1>6, <3>1 DEF Closings, Closes
      <3>. QED
        BY <1>1, <1>10, <1>11, <1>17, <3>2, AtWorkClosing DEF Closings, Closes, Sweeping
    <2>. QED
      BY <2>1, <2>2, <2>3 DEF Closings
  <1>19. CallersHold' /\ LeasesCounted'
    BY <1>1, <1>12, AtWorkClosing, ClosingPromisesLittle
  <1>. QED
    BY <1>14, <1>15, <1>16, <1>17, <1>18, <1>19

\* The opening that close waited for has ended.
LEMMA WaitedStep ==
    ASSUME PoolInv, Waited
    PROVE  PoolInv'
  <1>. USE PoolAtHand DEF PoolInv
  <1>1. /\ sweeper[Closer].at = "waiting" /\ sweeper' = [sweeper EXCEPT ![Closer].at = "closing"]
        /\ UNCHANGED <<entries, closing, poolState, admission, caller>>
    BY DEF Waited
  <1>2. PICK e \in Entries : e = sweeper[Closer].entry /\ e \in closing /\ entry[e] # Absent /\ entry[e].conn # "opening"
    BY <1>1 DEF Closings, Sweeps, PoolTypeOK, Waited
  <1>3. PICK x \in Entry : x = entry[e]
    BY <1>2
  <1>4. PICK conn \in {"opening", "open", "closing", "closed"} : conn = IF x.conn = "open" THEN "closing" ELSE x.conn
    BY DEF Entry
  <1>. DEFINE new == [x EXCEPT !.conn = conn]
  <1>5. entry' = [entry EXCEPT ![e] = new]
    <2>1. CASE x.conn # "open"
      <3>1. conn = x.conn /\ new = x
        BY <1>4, <2>1 DEF Entry
      <3>. QED
        BY <1>2, <1>3, <2>1, <3>1 DEF Waited, PoolTypeOK
    <2>2. CASE x.conn = "open"
      BY <1>2, <1>3, <1>4, <2>2 DEF Waited, PoolTypeOK
    <2>. QED
      BY <2>1, <2>2
  <1>6. /\ new \in Entry /\ new.conn = conn /\ new.key = x.key /\ new.leases = x.leases
        /\ new.opening = x.opening
    BY ConnFields
  <1>. HIDE DEF new
  <1>7. Objects(e, new)
    BY <1>5, <1>6, EntryChanges
  <1>8. PICK visit \in Visit : /\ visit.at = "closing" /\ visit.todo = sweeper[Closer].todo /\ visit.entry = e
                               /\ Sweeping(Closer, visit)
    BY <1>1, <1>2, SweeperAt
  <1>9. /\ \A f \in Entries : /\ entry'[f].key = entry[f].key /\ entry'[f].leases = entry[f].leases
                              /\ entry'[f].opening = entry[f].opening /\ (entry[f] = Absent <=> entry'[f] = Absent)
                              /\ (f # e => entry'[f].conn = entry[f].conn)
        /\ \A f \in Entries : Connected(f)' = Connected(f)
    BY <1>2, <1>3, <1>4, <1>6, <1>7 DEF Objects, Connected
  <1>10. admission' \in Seq(Users) /\ \A u \in Users : Inside(u)' => Turn(u)'
    <2>1. \A u \in Users : Inside(u)' => Inside(u)
      BY <1>1, <1>8 DEF Inside, Sweeping
    <2>. QED
      BY <1>1, <2>1, QueueGrows
  <1>11. PoolTypeOK'
    BY <1>1, <1>7, <1>8 DEF PoolTypeOK, Objects, Sweeping
  <1>12. OneInside'
    <2>1. \A f \in Entries, u \in Users : AtHand(u, f) => AtHand(u, f)'
      BY <1>1, <1>2, <1>8 DEF AtHand, Sweeping
    <2>. QED
      BY <1>1, <1>10, <2>1 DEF OneInside, PoolTypeOK
  <1>13. MapHasConnected'
    <2>1. \A f \in Entries : entry'[f].conn = "closing" => f \in closing'
      BY <1>1, <1>2, <1>9 DEF MapHasConnected
    <2>2. \A f \in Entries : entry'[f].conn = "opening" => entry'[f].opening
      BY <1>2, <1>3, <1>4, <1>6, <1>7, <1>9 DEF MapHasConnected, Objects
    <2>. QED
      BY <1>1, <1>9, <2>1, <2>2 DEF MapHasConnected
  <1>14. LiveWithinCap' /\ Live' = Live
    BY <1>1, FewerWithinCap DEF Live
  <1>15. Closings'
    <2>1. Evictions'
      <3>1. \A u \in Users : Inside(u) => u = Closer
        BY <1>1, OneAtATime DEF Inside, OneInside
      <3>2. \A c \in Callers : caller[c].at # "evicting"
        BY <3>1 DEF Inside
      <3>. QED
        BY <1>1, <3>2 DEF Evictions
    <2>2. Sweeps'
      <3>1. \A s \in Sweepers : \A f \in sweeper[s].todo : f \in Entries
        BY DEF Visit
      <3>2. \A s \in Sweepers : sweeper[s].at \in {"waiting", "closing"} => sweeper[s].entry \in Entries
        BY DEF Closings, Sweeps, PoolTypeOK
      <3>3. \A s \in Sweepers : /\ sweeper'[s].todo = sweeper[s].todo /\ sweeper'[s].entry = sweeper[s].entry
                                /\ (sweeper'[s].at \in {"waiting", "closing"} <=> sweeper[s].at \in {"waiting", "closing"})
                                /\ s # Closer => sweeper'[s] = sweeper[s]
        BY <1>1, <1>2, <1>8 DEF Sweeping
      <3>4. \A s \in Sweepers : \A f \in sweeper'[s].todo : entry'[f] # Absent /\ (~entry'[f].opening => Connected(f)')
        BY <1>9, <3>1, <3>3 DEF Closings, Sweeps
      <3>5. \A s \in Sweepers : sweeper'[s].at \in {"waiting", "closing"} =>
              sweeper'[s].entry \in closing' /\ entry'[sweeper'[s].entry] # Absent
        BY <1>1, <1>9, <3>2, <3>3 DEF Closings, Sweeps
      <3>. QED
        BY <1>1, <1>8, <3>3, <3>4, <3>5 DEF Closings, Sweeps, Sweeping
    <2>3. Closes'
      BY <1>1, <1>2, <1>8, <1>14, AtWorkClosing DEF Closings, Closes, Sweeping
    <2>. QED
      BY <2>1, <2>2, <2>3 DEF Closings
  <1>16. CallersHold' /\ LeasesCounted'
    BY <1>1, <1>9, AtWorkClosing, ClosingPromisesLittle
  <1>. QED
    BY <1>11, <1>12, <1>13, <1>14, <1>15, <1>16

\* A close() of evictIdle or of close ends, well or not: the entry is deleted.
LEMMA CloseEndsStep ==
    ASSUME PoolInv, NEW s \in Sweepers, CloseEnds(s)
    PROVE  PoolInv'
  <1>. USE PoolAtHand DEF PoolInv
  <1>1. /\ sweeper[s].at = "closing" /\ PoolSettled /\ UNCHANGED <<poolState, admission, caller>>
        /\ closing' = closing \ {sweeper[s].entry} /\ entries' = Without(sweeper[s].entry)
        /\ sweeper' = [sweeper EXCEPT ![s].at = "visiting", ![s].entry = NoEntry]
    BY DEF CloseEnds
  <1>2. PICK e \in Entries : e = sweeper[s].entry /\ e \in closing /\ entry[e] # Absent /\ e \notin sweeper[s].todo
    BY <1>1 DEF Closings, Sweeps, PoolTypeOK
  <1>3. PICK x \in Entry : x = entry[e]
    BY <1>2
  <1>4. PICK opening \in BOOLEAN : opening = IF s = Closer THEN FALSE ELSE x.opening
    OBVIOUS
  <1>5. PICK y \in Visit : y = sweeper[s]
    OBVIOUS
  <1>. DEFINE closed == [x EXCEPT !.conn = "closed"]
              new == [closed EXCEPT !.opening = opening]
              visit == [y EXCEPT !.at = "visiting", !.entry = NoEntry]
  <1>6. closed \in Entry /\ closed.conn = "closed" /\ closed.key = x.key /\ closed.leases = x.leases
    BY ConnFields
  <1>7. /\ entry' = [entry EXCEPT ![e] = new]
        /\ sweeper' = [sweeper EXCEPT ![s] = visit]
    BY <1>1, <1>2, <1>3, <1>4, <1>5 DEF CloseEnds, PoolTypeOK
  <1>8. visit \in Visit /\ visit.at = "visiting" /\ visit.todo = y.todo /\ visit.entry = NoEntry
    BY DEF Visit
  <1>. HIDE DEF closed, visit
  <1>9. new \in Entry /\ new.conn = "closed" /\ new.key = x.key /\ new.leases = x.leases
    BY <1>6, OpeningFields
  <1>. HIDE DEF new
  <1>10. Objects(e, new) /\ Sweeping(s, visit)
    BY <1>7, <1>8, <1>9, EntryChanges, SweeperChanges
  <1>11. /\ \A f \in Entries : /\ entry'[f].leases = entry[f].leases /\ entry'[f].key = entry[f].key
                               /\ (entry[f] = Absent <=> entry'[f] = Absent)
                               /\ (f # e => entry'[f] = entry[f] /\ Connected(f)' = Connected(f))
         /\ ~Connected(e)'
    BY <1>2, <1>3, <1>9, <1>10 DEF Objects, Connected
  <1>12. /\ entries' \in [Datastores -> Entries \union {NoEntry}]
         /\ \A k \in Datastores : entries'[k] # e /\ (entries[k] # e => entries'[k] = entries[k])
                                  /\ (entries'[k] # NoEntry => entries'[k] = entries[k])
    BY <1>1, <1>2, WithoutFields DEF PoolTypeOK
  <1>13. Live' \subseteq Live \ {e}
    BY <1>12 DEF Live
  <1>14. \A u \in Users : u # s => ~Inside(u)
    BY <1>1, OneAtATime DEF Inside, OneInside
  <1>15. closing' = {}
    <2>1. \A f \in closing : AtHand(s, f)
      BY <1>14 DEF OneInside, AtHand, Inside
    <2>. QED
      BY <1>1, <1>2, <2>1 DEF AtHand
  <1>16. PoolTypeOK'
    BY <1>1, <1>10, <1>12, <1>15 DEF PoolTypeOK, Objects, Sweeping
  <1>17. OneInside'
    <2>1. \A u \in Users : Inside(u)' => Inside(u)
      BY <1>1, <1>10 DEF Inside, Sweeping
    <2>. QED
      BY <1>1, <1>15, <2>1, QueueGrows DEF OneInside
  <1>18. MapHasConnected'
    <2>1. \A f \in Entries : entry'[f].conn = "closing" => f \in closing'
      BY <1>1, <1>2, <1>9, <1>10, <1>11 DEF MapHasConnected, Objects
    <2>2. \A f \in Entries : entry'[f].conn = "opening" => entry'[f].opening
      BY <1>9, <1>10, <1>11 DEF MapHasConnected, Objects
    <2>3. ASSUME NEW k \in Datastores, NEW f \in Entries, entries'[k] = f
          PROVE  Connected(f)' /\ entry'[f].key = k
      BY <1>11, <1>12, <2>3 DEF MapHasConnected
    <2>4. \A f \in Entries : Connected(f)' => entries'[entry'[f].key] = f
      BY <1>11, <1>12 DEF MapHasConnected
    <2>. QED
      BY <1>12, <2>1, <2>2, <2>3, <2>4 DEF MapHasConnected, Connected
  <1>19. LiveWithinCap'
    BY <1>13, FewerWithinCap
  <1>20. Closings'
    <2>1. Evictions'
      BY <1>1, <1>14 DEF Evictions, Inside
    <2>2. \A t \in Sweepers : t # s => sweeper[t].todo = {} /\ sweeper[t].at \in {"rest", "queued", "done"}
      BY <1>14 DEF Closings, Sweeps, Inside, Visit
    <2>3. Sweeps'
      <3>1. \A f \in sweeper[s].todo : f \in Entries /\ f # e
        BY <1>2 DEF Visit
      <3>2. sweeper'[s].todo = sweeper[s].todo
        BY <1>5, <1>8, <1>10 DEF Sweeping
      <3>3. \A f \in sweeper'[s].todo : f \in Entries /\ entry'[f] # Absent /\ (~entry'[f].opening => Connected(f)')
        BY <1>11, <3>1, <3>2 DEF Closings, Sweeps
      <3>. QED
        BY <1>8, <1>10, <2>2, <3>3 DEF Closings, Sweeps, Sweeping
    <2>4. Closes'
      <3>1. CASE s = Closer
        <4>1. poolState = "closing"
          BY <1>1, <3>1, AtWorkClosing
        <4>. QED
          BY <1>1, <1>2, <1>5, <1>8, <1>10, <1>13, <3>1, <4>1 DEF Closings, Closes, Sweeping
      <3>2. CASE s = Evictor
        BY <1>1, <1>2, <1>8, <1>10, <1>13, <2>2, <3>2 DEF Closings, Closes, Sweeping
      <3>. QED
        BY <3>1, <3>2 DEF Sweepers
    <2>. QED
      BY <2>1, <2>3, <2>4 DEF Closings
  <1>21. CallersHold'
    <2>1. \A c \in Callers : caller[c].at # "admitted"
      BY <1>1 DEF PoolSettled
    <2>. QED
      BY <1>1, <1>2, <1>11, <1>15, <2>1 DEF CallersHold
  <1>22. LeasesCounted'
    BY <1>1, <1>11, LeasesStand
  <1>. QED
    BY <1>16, <1>17, <1>18, <1>19, <1>20, <1>21, <1>22

\* One of them has visited all it will, and passes the turn on.
LEMMA SweeperLeaves ==
    ASSUME PoolInv, NEW s \in Sweepers, sweeper[s].at = "visiting", Passes,
           NEW visit \in Visit, visit.at \in {"rest", "done"}, Sweeping(s, visit), UNCHANGED <<closing, caller>>
    PROVE  /\ admission' \in Seq(Users) /\ OneInside' /\ closing = {}
           /\ \A u \in Users : u # s => ~Inside(u)
  <1>. USE PoolAtHand DEF PoolInv
  <1>1. Inside(s) /\ Turn(s) /\ \A u \in Users : u # s => ~Inside(u)
    BY OneAtATime DEF Inside, OneInside
  <1>2. closing = {}
    <2>1. \A f \in closing : AtHand(s, f)
      BY <1>1 DEF OneInside, AtHand, Inside
    <2>. QED
      BY <2>1 DEF AtHand
  <1>3. ~Inside(s)' /\ \A u \in Users : u # s => (Inside(u)' => Inside(u))
    BY DEF Inside, Sweeping
  <1>4. admission' \in Seq(Users) /\ \A u \in Users : Inside(u)' => Turn(u)'
    BY <1>1, <1>3, QueueMoves
  <1>. QED
    BY <1>1, <1>2, <1>4 DEF OneInside

LEMMA EndEvictIdleStep ==
    ASSUME PoolInv, EndEvictIdle
    PROVE  PoolInv'
  <1>. USE PoolAtHand DEF PoolInv
  <1>. DEFINE visit == [at |-> "rest", todo |-> {}, entry |-> NoEntry]
  <1>1. /\ sweeper[Evictor].at = "visiting" /\ sweeper' = [sweeper EXCEPT ![Evictor] = visit] /\ Passes
        /\ UNCHANGED <<entries, entry, closing, poolState, caller>>
    BY DEF EndEvictIdle
  <1>2. visit \in Visit /\ visit.at = "rest" /\ visit.todo = {} /\ visit.entry = NoEntry
    BY DEF Visit
  <1>. HIDE DEF visit
  <1>3. Sweeping(Evictor, visit)
    BY <1>1, <1>2, SweeperChanges
  <1>4. admission' \in Seq(Users) /\ OneInside'
    BY <1>1, <1>2, <1>3, SweeperLeaves
  <1>5. PoolTypeOK'
    BY <1>1, <1>3, <1>4 DEF PoolTypeOK, Sweeping
  <1>6. MapHasConnected' /\ LiveWithinCap' /\ Live' = Live
    BY <1>1, FewerWithinCap DEF MapHasConnected, Connected, Live
  <1>7. Closings'
    <2>1. Evictions'
      BY <1>1 DEF Closings, Evictions
    <2>2. Sweeps'
      BY <1>1, <1>2, <1>3 DEF Closings, Sweeps, Sweeping, Connected
    <2>3. Closes'
      BY <1>1, <1>2, <1>3, <1>6 DEF Closings, Closes, Sweeping
    <2>. QED
      BY <2>1, <2>2, <2>3 DEF Closings
  <1>8. CallersHold' /\ LeasesCounted'
    BY <1>1 DEF CallersHold, Connected, LeasesCounted, Holders
  <1>. QED
    BY <1>4, <1>5, <1>6, <1>7, <1>8

\* close has visited what there was when its turn came: by then there was nothing else.
LEMMA EndPoolCloseStep ==
    ASSUME PoolInv, EndPoolClose
    PROVE  PoolInv'
  <1>. USE PoolAtHand DEF PoolInv
  <1>1. /\ sweeper[Closer].at = "visiting" /\ sweeper[Closer].todo = {} /\ Passes
        /\ sweeper' = [sweeper EXCEPT ![Closer].at = "done"]
        /\ entries' = [k \in Datastores |-> NoEntry] /\ poolState' = "closed"
        /\ UNCHANGED <<entry, closing, caller>>
    BY DEF EndPoolClose
  <1>2. PICK visit \in Visit : /\ visit.at = "done" /\ visit.todo = sweeper[Closer].todo
                               /\ visit.entry = sweeper[Closer].entry /\ Sweeping(Closer, visit)
    BY <1>1, SweeperAt
  <1>3. sweeper[Closer].entry = NoEntry
    BY <1>1 DEF Closings, Sweeps
  <1>4. admission' \in Seq(Users) /\ OneInside' /\ closing = {} /\ ~Inside(Evictor)
    BY <1>1, <1>2, SweeperLeaves
  <1>5. \A k \in Datastores : entries[k] = NoEntry
    BY <1>1, <1>3 DEF Closings, Closes, Live
  <1>6. Live' = {}
    BY <1>1 DEF Live
  <1>7. PoolTypeOK'
    BY <1>1, <1>2, <1>4 DEF PoolTypeOK, Sweeping
  <1>8. MapHasConnected'
    BY <1>1, <1>5 DEF MapHasConnected, Connected
  <1>9. LiveWithinCap'
    BY <1>6, FewerWithinCap
  <1>10. Closings'
    <2>1. Evictions'
      BY <1>1 DEF Closings, Evictions, PoolTypeOK
    <2>2. Sweeps'
      BY <1>1, <1>2, <1>3, <1>4 DEF Closings, Sweeps, Sweeping, Connected
    <2>3. sweeper[Evictor].todo = {}
      BY <1>4 DEF Closings, Sweeps, Inside, Visit
    <2>4. Closes'
      BY <1>1, <1>2, <1>4, <1>6, <2>3 DEF Closes, Sweeping
    <2>. QED
      BY <2>1, <2>2, <2>4 DEF Closings
  <1>11. CallersHold' /\ LeasesCounted'
    BY <1>1 DEF CallersHold, Connected, LeasesCounted
  <1>. QED
    BY <1>4, <1>7, <1>8, <1>9, <1>10, <1>11

-----------------------------------------------------------------------------
(* The invariant and what follows from it.                                 *)

LEMMA PoolStarts ==
    ASSUME PoolInit
    PROVE  PoolInv
  <1>1. Absent.conn = "none" /\ Absent.leases = 0 /\ ~Absent.opening /\ AtRest.at = "rest" /\ AtRest.entry = NoEntry
    BY DEF Absent, AtRest
  <1>2. PoolTypeOK
    BY DEF PoolInit, PoolTypeOK, Visit
  <1>3. OneInside /\ MapHasConnected
    BY <1>1 DEF PoolInit, OneInside, Inside, MapHasConnected, Connected, Users, Sweepers
  <1>4. Live = {} /\ LiveWithinCap
    <2>1. Live = {}
      BY DEF PoolInit, Live
    <2>. QED
      BY <2>1, FS_EmptySet, PoolAssumption DEF LiveWithinCap
  <1>5. Closings
    BY <1>1, <1>4, PoolAssumption DEF PoolInit, Closings, Evictions, Sweeps, Closes, Sweepers
  <1>6. CallersHold
    BY <1>1 DEF PoolInit, CallersHold
  <1>7. LeasesCounted
    <2>1. \A e \in Entries : Holders(e) = {}
      BY <1>1 DEF PoolInit, Holders
    <2>. QED
      BY <1>1, <2>1, FS_EmptySet DEF PoolInit, LeasesCounted
  <1>. QED
    BY <1>2, <1>3, <1>4, <1>5, <1>6, <1>7 DEF PoolInv

LEMMA PoolStep ==
    ASSUME PoolInv, [PoolNext]_poolVars
    PROVE  PoolInv'
  <1>. USE PoolAtHand
  <1>1. ASSUME NEW c \in Callers, NEW k \in Datastores, Acquire(c, k)
        PROVE  PoolInv'
    BY <1>1, AcquireStep, AsksStep
  <1>2. ASSUME NEW c \in Callers, GoesOn(c)
        PROVE  PoolInv'
    <2>1. CASE Admit(c)
      BY <2>1, FindsStep, MakesStep
    <2>2. ASSUME NEW e \in Entries, Evict(c, e)
          PROVE  PoolInv'
      BY <2>2, EvictStep
    <2>3. CASE Refuse(c)
      BY <2>3, RefuseStep
    <2>4. CASE Evicted(c)
      BY <2>4, EvictedInVainStep, EvictedForStep DEF Evicted
    <2>5. CASE Admitted(c)
      BY <2>5, AdmittedStep
    <2>6. CASE Opened(c)
      BY <2>6, OpenedStep
    <2>7. CASE Release(c)
      BY <2>7, ReleaseStep
    <2>. QED
      BY <1>2, <2>1, <2>2, <2>3, <2>4, <2>5, <2>6, <2>7 DEF GoesOn
  <1>3. ASSUME NEW e \in Entries, OpenEnds(e)
        PROVE  PoolInv'
    BY <1>3, OpenEndsStep
  <1>4. CASE AskEvictIdle
    BY <1>4, AskStep DEF AskEvictIdle, PoolInv
  <1>5. CASE AskClose
    <2>1. sweeper[Closer].at = "rest"
      BY <1>5 DEF AskClose, PoolInv, Closings, Closes
    <2>. QED
      BY <1>5, <2>1, AskStep DEF AskClose, PoolInv
  <1>6. CASE EvictIdleStep
    <2>1. Evictor \in Sweepers
      BY DEF Sweepers
    <2>. QED
      BY <1>6, <2>1, CloseIdleStep, BeginStep, CloseEndsStep, EndEvictIdleStep DEF EvictIdleStep
  <1>7. CASE CloseStep
    <2>1. Closer \in Sweepers
      BY DEF Sweepers
    <2>. QED
      BY <1>7, <2>1, CloseAnyStep, BeginStep, WaitedStep, CloseEndsStep, EndPoolCloseStep DEF CloseStep
  <1>8. CASE UNCHANGED poolVars
    <2>. USE <1>8 DEF poolVars
    <2>1. PoolTypeOK' /\ OneInside'
      BY DEF PoolInv, PoolTypeOK, OneInside, Inside, AtHand, Turn
    <2>2. MapHasConnected' /\ LiveWithinCap'
      BY DEF PoolInv, MapHasConnected, Connected, LiveWithinCap, Live
    <2>3. Evictions' /\ Sweeps' /\ Closes'
      BY DEF PoolInv, Connected, Live, Closings, Evictions, Sweeps, Closes
    <2>4. CallersHold' /\ LeasesCounted'
      BY DEF PoolInv, Connected, CallersHold, LeasesCounted, Holders
    <2>. QED
      BY <2>1, <2>2, <2>3, <2>4 DEF PoolInv, Closings
  <1>. QED
    BY <1>1, <1>2, <1>3, <1>4, <1>5, <1>6, <1>7, <1>8 DEF PoolNext

\* The invariant holds in every reachable state of a pool of any size.
THEOREM PoolInvariance == PoolSpec => []PoolInv
  BY PoolStarts, PoolStep, PTL DEF PoolSpec

\* The pool's variables keep their types: no entry is made of an Entry that never was one.
THEOREM PoolTypeCorrect == PoolSpec => []PoolTypeOK
  BY PoolInvariance, PTL DEF PoolInv

\* No state of the invariant has more connections than the cap, or any once closed.
LEMMA InvKeepsConnections ==
    ASSUME PoolInv
    PROVE  ConnectionsKept
  <1>. USE PoolAtHand DEF PoolInv
  <1>. DEFINE connected == { e \in Entries : Connected(e) }
  <1>1. connected \subseteq Live
    BY DEF MapHasConnected, Live
  <1>2. IsFiniteSet(connected) /\ Cardinality(connected) <= Cardinality(Live)
    BY <1>1, FS_Subset DEF LiveWithinCap
  <1>3. Cardinality(connected) <= Max
    BY <1>2, FS_CardinalityType DEF LiveWithinCap
  <1>4. WithinCap
    BY <1>3 DEF WithinCap, MapHasConnected
  <1>5. CloseLeavesNothing
    BY <1>1 DEF CloseLeavesNothing, Closings, Closes
  <1>. QED
    BY <1>4, <1>5 DEF ConnectionsKept

\* Nor does one break a lease.
LEMMA InvHoldsLeases ==
    ASSUME PoolInv
    PROVE  LeasesHold
  <1>. USE PoolAtHand DEF PoolInv
  <1>1. LeaseKeepsConnection
    BY DEF LeaseKeepsConnection, CallersHold, MapHasConnected, Connected
  <1>2. LeasesAreHeld
    <2>1. Live \subseteq Entries
      BY DEF Live
    <2>. QED
      BY <2>1 DEF LeasesAreHeld, LeasesCounted, Holders
  <1>. QED
    BY <1>1, <1>2 DEF LeasesHold

\* Whatever callers, evictions, sweeps and close() do in whatever order, and whatever
\* fails to open or to close: the cap is kept, no datastore has two connections, close()
\* leaves none, and nobody's connection is closed while it is leased.
THEOREM PoolKeepsItsWord == PoolSpec => []PoolKept
  BY PoolInvariance, InvKeepsConnections, InvHoldsLeases, PTL DEF PoolKept

-----------------------------------------------------------------------------
(* A SQLite connection.                                                    *)

\* Whether the i-th row of an operation is one it has written.
Wrote(op, i) == (op.kind = "tx" /\ 1 <= i /\ i <= op.wrote) \/ (op.kind = "write" /\ i = 0)

\* What a call makes of a new operation.
Called(kind, inside, at) == [NewOp EXCEPT !.kind = kind, !.inside = inside, !.at = at]

\* Each operation that waits is in the queue once, and was called.
QueueIsOfWaiting ==
    /\ \A i \in DOMAIN sqQueue : sqOp[sqQueue[i]].at = "queued"
    /\ \A i, j \in DOMAIN sqQueue : sqQueue[i] = sqQueue[j] => i = j

\* One transaction at a time has its body under way, with its marker, its scoped adapter and
\* the connection's transaction; only a transaction that has begun writes.
TurnIsOfBody ==
    /\ \A o \in SqOps :
         /\ sqOp[o].at = "body" <=> sqRunning = o
         /\ sqOp[o].active <=> sqRunning = o
         /\ sqOp[o].at = "body" => sqOp[o].kind = "tx"
         /\ sqOp[o].at \in {"new", "queued"} => sqOp[o].wrote = 0
    /\ sqConn.inTx <=> sqRunning # NoOp

\* What is committed is of those that are done, and what is not is of the one whose turn it is.
RowsAreAnswered ==
    \A o \in SqOps : \A i \in 0 .. SqScoped :
        /\ <<o, i>> \in sqDb <=> sqOp[o].at = "done" /\ Wrote(sqOp[o], i)
        /\ <<o, i>> \in sqUncommitted <=> sqRunning = o /\ Wrote(sqOp[o], i)

SqInv == SqTypeOK /\ QueueIsOfWaiting /\ TurnIsOfBody /\ RowsAreAnswered

-----------------------------------------------------------------------------
(* Operations, the queue and rows.                                         *)

\* An operation that is called, begins or settles stays one.
LEMMA OpIsCalled ==
    ASSUME NEW kind \in {"write", "tx", "close"}, NEW inside \in SqOps \union {NoOp}, NEW at \in {"queued", "refused"}
    PROVE  /\ Called(kind, inside, at) \in Op /\ Called(kind, inside, at).kind = kind
           /\ Called(kind, inside, at).at = at
           /\ ~Called(kind, inside, at).active /\ Called(kind, inside, at).wrote = 0
  <1>1. NewOp \in Op /\ NewOp.active = FALSE /\ NewOp.wrote = 0
    BY SqliteAssumption DEF Op, NewOp
  <1>. HIDE DEF NewOp
  <1>. QED
    BY <1>1 DEF Op, Called

LEMMA OpSettled ==
    ASSUME NEW op \in Op, NEW at \in {"done", "failed"}
    PROVE  LET new == [op EXCEPT !.at = at, !.active = FALSE]
           IN  new \in Op /\ new.at = at /\ ~new.active /\ new.kind = op.kind /\ new.wrote = op.wrote
  BY DEF Op

LEMMA OpBegins ==
    ASSUME NEW op \in Op
    PROVE  LET new == [op EXCEPT !.at = "body", !.active = TRUE]
           IN  new \in Op /\ new.at = "body" /\ new.active /\ new.kind = op.kind /\ new.wrote = op.wrote
  BY DEF Op

\* It writes a row more, as many as the bound has for it.
LEMMA OpWrites ==
    ASSUME NEW op \in Op, op.wrote < SqScoped
    PROVE  LET new == [op EXCEPT !.wrote = @ + 1]
           IN  /\ new \in Op /\ new.at = op.at /\ new.active = op.active /\ new.kind = op.kind
               /\ op.wrote \in Nat /\ new.wrote = op.wrote + 1 /\ op.wrote + 1 \in 0 .. SqScoped
  <1>1. op.wrote \in 0 .. SqScoped /\ SqScoped \in Nat
    BY SqliteAssumption DEF Op
  <1>2. op.wrote + 1 \in 0 .. SqScoped
    BY <1>1
  <1>. QED
    BY <1>1, <1>2 DEF Op

\* What a step makes of one operation, it makes of that one alone.
LEMMA OneOpChanges ==
    ASSUME sqOp \in [SqOps -> Op], NEW o \in SqOps, NEW new \in Op, sqOp' = [sqOp EXCEPT ![o] = new]
    PROVE  /\ sqOp' \in [SqOps -> Op]
           /\ sqOp'[o] = new
           /\ \A p \in SqOps : p # o => sqOp'[p] = sqOp[p]
  OBVIOUS

\* An operation that settles keeps what it is and has written.
LEMMA SettledOp ==
    ASSUME sqOp \in [SqOps -> Op], NEW o \in SqOps, NEW outcome \in {"done", "failed"}, OpSettles(o, outcome)
    PROVE  /\ sqOp' \in [SqOps -> Op]
           /\ sqOp'[o].at = outcome /\ ~sqOp'[o].active
           /\ sqOp'[o].kind = sqOp[o].kind /\ sqOp'[o].wrote = sqOp[o].wrote
           /\ \A p \in SqOps : p # o => sqOp'[p] = sqOp[p]
  <1>. DEFINE new == [sqOp[o] EXCEPT !.at = outcome, !.active = FALSE]
  <1>1. sqOp[o] \in Op
    OBVIOUS
  <1>2. new \in Op /\ new.at = outcome /\ ~new.active /\ new.kind = sqOp[o].kind /\ new.wrote = sqOp[o].wrote
    BY <1>1, OpSettled
  <1>3. sqOp' = [sqOp EXCEPT ![o] = new]
    BY DEF OpSettles
  <1>. HIDE DEF new
  <1>. QED
    BY <1>2, <1>3, OneOpChanges

\* What is taken from the queue was waiting in it, and no longer is.
LEMMA NextTaken ==
    ASSUME SqTypeOK, QueueIsOfWaiting, NEW o \in SqOps, NextIs(o)
    PROVE  /\ sqOp[o].at = "queued" /\ sqRunning = NoOp
           /\ sqQueue' \in Seq(SqOps)
           /\ \A i \in DOMAIN sqQueue' : sqQueue'[i] # o /\ sqOp[sqQueue'[i]].at = "queued"
           /\ \A i, j \in DOMAIN sqQueue' : sqQueue'[i] = sqQueue'[j] => i = j
  <1>1. sqQueue \in Seq(SqOps) /\ sqQueue # <<>> /\ o = sqQueue[1] /\ sqQueue' = Tail(sqQueue)
    BY DEF NextIs, SqTypeOK
  <1>2. 1 \in DOMAIN sqQueue
    BY <1>1
  <1>3. \A i \in DOMAIN sqQueue' : sqQueue'[i] = sqQueue[i + 1] /\ i + 1 \in DOMAIN sqQueue /\ i + 1 # 1
    BY <1>1
  <1>4. sqOp[o].at = "queued" /\ sqRunning = NoOp
    BY <1>1, <1>2 DEF QueueIsOfWaiting, NextIs, TurnIsFree
  <1>5. sqQueue' \in Seq(SqOps)
    BY <1>1
  <1>6. \A i \in DOMAIN sqQueue' : sqQueue'[i] # o /\ sqOp[sqQueue'[i]].at = "queued"
    BY <1>1, <1>2, <1>3 DEF QueueIsOfWaiting
  <1>7. \A i, j \in DOMAIN sqQueue' : sqQueue'[i] = sqQueue'[j] => i = j
    <2>. SUFFICES ASSUME NEW i \in DOMAIN sqQueue', NEW j \in DOMAIN sqQueue', sqQueue'[i] = sqQueue'[j]
                  PROVE  i = j
      OBVIOUS
    <2>1. i + 1 = j + 1
      BY <1>3 DEF QueueIsOfWaiting
    <2>. QED
      BY <2>1, <1>1
  <1>. QED
    BY <1>4, <1>5, <1>6, <1>7

\* Every row there can be is the i-th of an operation.
LEMMA RowOfOp ==
    /\ \A o \in SqOps : \A i \in 0 .. SqScoped : <<o, i>> \in SqRow
    /\ \A row \in SqRow : \E o \in SqOps : \E i \in 0 .. SqScoped : row = <<o, i>>
    /\ 0 \in 0 .. SqScoped
  BY SqliteAssumption DEF SqRow

-----------------------------------------------------------------------------
(* The invariant, action by action.                                        *)

LEMMA SqCallStep ==
    ASSUME SqInv, NEW o \in SqOps, NEW kind \in {"write", "tx", "close"}, NEW inside \in SqOps \union {NoOp},
           SqCall(o, kind, inside)
    PROVE  SqInv'
  <1>. USE DEF SqInv
  <1>1. PICK at \in {"queued", "refused"} :
          /\ sqOp' = [sqOp EXCEPT ![o] = Called(kind, inside, at)]
          /\ sqQueue' = IF at = "queued" THEN Append(sqQueue, o) ELSE sqQueue
    BY DEF SqCall, Called
  <1>. DEFINE new == Called(kind, inside, at)
  <1>2. new \in Op /\ new.kind = kind /\ new.at = at /\ ~new.active /\ new.wrote = 0
    BY OpIsCalled
  <1>3. /\ sqOp' \in [SqOps -> Op] /\ sqOp'[o] = new
        /\ \A p \in SqOps : p # o => sqOp'[p] = sqOp[p]
    <2>1. sqOp' = [sqOp EXCEPT ![o] = new]
      BY <1>1
    <2>. HIDE DEF new
    <2>. QED
      BY <1>2, <2>1, OneOpChanges DEF SqTypeOK
  <1>. HIDE DEF new
  <1>4. sqOp[o].at = "new" /\ sqRunning # o
    BY DEF SqCall, NewOp, TurnIsOfBody
  <1>5. UNCHANGED <<sqRunning, sqConn, sqDb, sqUncommitted>>
    BY DEF SqCall
  <1>6. SqTypeOK'
    BY <1>1, <1>3, <1>5 DEF SqTypeOK
  <1>7. \A i \in DOMAIN sqQueue : sqQueue[i] \in SqOps /\ sqQueue[i] # o
    BY <1>4 DEF QueueIsOfWaiting, SqTypeOK
  <1>8. QueueIsOfWaiting'
    <2>1. CASE at = "queued"
      <3>1. /\ sqQueue' = Append(sqQueue, o) /\ sqQueue \in Seq(SqOps)
        BY <1>1, <2>1 DEF SqTypeOK
      <3>2. \A i \in DOMAIN sqQueue' : IF i \in DOMAIN sqQueue THEN sqQueue'[i] = sqQueue[i]
                                       ELSE i = Len(sqQueue) + 1 /\ sqQueue'[i] = o
        BY <3>1
      <3>. QED
        BY <1>2, <1>3, <1>7, <2>1, <3>2 DEF QueueIsOfWaiting
    <2>2. CASE at # "queued"
      BY <1>1, <1>3, <1>7, <2>2 DEF QueueIsOfWaiting
    <2>. QED
      BY <2>1, <2>2
  <1>9. TurnIsOfBody'
    BY <1>1, <1>2, <1>3, <1>4, <1>5 DEF TurnIsOfBody
  <1>10. RowsAreAnswered'
    BY ZenonT(30), <1>1, <1>2, <1>3, <1>4, <1>5 DEF RowsAreAnswered, Wrote
  <1>. QED
    BY <1>6, <1>8, <1>9, <1>10

\* The queue and the turn after an operation that was next has settled without a body.
LEMMA TakenSettles ==
    ASSUME SqInv, NEW o \in SqOps, NextIs(o), NEW outcome \in {"done", "failed"}, OpSettles(o, outcome),
           UNCHANGED sqRunning, sqConn'.inTx = FALSE
    PROVE  QueueIsOfWaiting' /\ TurnIsOfBody'
  <1>. USE DEF SqInv
  <1>1. /\ sqOp' \in [SqOps -> Op]
        /\ sqOp'[o].at = outcome /\ ~sqOp'[o].active
        /\ sqOp'[o].kind = sqOp[o].kind /\ sqOp'[o].wrote = sqOp[o].wrote
        /\ \A p \in SqOps : p # o => sqOp'[p] = sqOp[p]
    BY SettledOp DEF SqTypeOK
  <1>2. /\ sqOp[o].at = "queued" /\ sqRunning = NoOp
        /\ sqQueue' \in Seq(SqOps)
        /\ \A i \in DOMAIN sqQueue' : sqQueue'[i] # o /\ sqOp[sqQueue'[i]].at = "queued"
        /\ \A i, j \in DOMAIN sqQueue' : sqQueue'[i] = sqQueue'[j] => i = j
    BY NextTaken
  <1>3. QueueIsOfWaiting'
    BY <1>1, <1>2 DEF QueueIsOfWaiting
  <1>4. TurnIsOfBody'
    BY <1>1, <1>2, SqliteAssumption DEF TurnIsOfBody
  <1>. QED
    BY <1>3, <1>4

LEMMA SqStatementStep ==
    ASSUME SqInv, NEW o \in SqOps, SqStatement(o)
    PROVE  SqInv'
  <1>. USE DEF SqInv
  <1>1. NextIs(o) /\ sqOp[o].kind = "write" /\ UNCHANGED <<sqRunning, sqConn>>
    BY DEF SqStatement
  <1>2. /\ sqOp[o].at = "queued" /\ sqRunning = NoOp /\ sqQueue' \in Seq(SqOps)
    BY <1>1, NextTaken
  <1>3. sqConn.inTx = FALSE /\ sqConn' = sqConn
    BY <1>1, <1>2, SqliteAssumption DEF TurnIsOfBody, SqTypeOK
  <1>4. PICK outcome \in {"done", "failed"} :
          /\ OpSettles(o, outcome) /\ UNCHANGED sqUncommitted
          /\ sqDb' = IF outcome = "done" THEN sqDb \union {<<o, 0>>} ELSE sqDb
    BY <1>3 DEF SqStatement, Executes
  <1>5. /\ sqOp' \in [SqOps -> Op]
        /\ sqOp'[o].at = outcome /\ sqOp'[o].kind = "write"
        /\ \A p \in SqOps : p # o => sqOp'[p] = sqOp[p]
    BY <1>1, <1>4, SettledOp DEF SqTypeOK
  <1>6. SqTypeOK'
    <2>1. <<o, 0>> \in SqRow
      BY RowOfOp
    <2>. QED
      BY <1>1, <1>2, <1>3, <1>4, <1>5, <2>1 DEF SqTypeOK
  <1>7. QueueIsOfWaiting' /\ TurnIsOfBody'
    BY <1>1, <1>3, <1>4, TakenSettles
  <1>8. RowsAreAnswered'
    <2>. SUFFICES ASSUME NEW p \in SqOps, NEW i \in 0 .. SqScoped
                  PROVE  /\ <<p, i>> \in sqDb' <=> sqOp'[p].at = "done" /\ Wrote(sqOp'[p], i)
                         /\ <<p, i>> \in sqUncommitted' <=> sqRunning' = p /\ Wrote(sqOp'[p], i)
      BY DEF RowsAreAnswered
    <2>1. <<p, i>> \in sqUncommitted' <=> sqRunning' = p /\ Wrote(sqOp'[p], i)
      BY <1>1, <1>2, <1>4, SqliteAssumption DEF RowsAreAnswered
    <2>2. CASE p = o
      <3>1. <<p, i>> \notin sqDb
        BY <1>2, <2>2 DEF RowsAreAnswered
      <3>2. <<p, i>> \in sqDb' <=> outcome = "done" /\ i = 0
        BY <1>4, <2>2, <3>1
      <3>. QED
        BY <1>5, <2>1, <2>2, <3>2 DEF Wrote
    <2>3. CASE p # o
      BY <1>4, <1>5, <2>1, <2>3 DEF RowsAreAnswered
    <2>. QED
      BY <2>2, <2>3
  <1>. QED
    BY <1>6, <1>7, <1>8

LEMMA SqCloseStep ==
    ASSUME SqInv, NEW o \in SqOps, SqClose(o)
    PROVE  SqInv'
  <1>. USE DEF SqInv
  <1>1. /\ NextIs(o) /\ sqOp[o].kind = "close" /\ OpSettles(o, "done")
        /\ sqConn' = [open |-> FALSE, inTx |-> FALSE] /\ sqUncommitted' = {}
        /\ UNCHANGED <<sqRunning, sqDb>>
    BY DEF SqClose
  <1>2. /\ sqOp[o].at = "queued" /\ sqRunning = NoOp /\ sqQueue' \in Seq(SqOps)
    BY <1>1, NextTaken
  <1>3. /\ sqOp' \in [SqOps -> Op] /\ sqOp'[o].kind = "close"
        /\ \A p \in SqOps : p # o => sqOp'[p] = sqOp[p]
    BY <1>1, SettledOp DEF SqTypeOK
  <1>4. SqTypeOK'
    BY <1>1, <1>2, <1>3 DEF SqTypeOK
  <1>5. QueueIsOfWaiting' /\ TurnIsOfBody'
    BY <1>1, TakenSettles
  <1>6. RowsAreAnswered'
    BY <1>1, <1>2, <1>3, SqliteAssumption DEF RowsAreAnswered, Wrote
  <1>. QED
    BY <1>4, <1>5, <1>6

LEMMA SqBeginStep ==
    ASSUME SqInv, NEW o \in SqOps, SqBegin(o)
    PROVE  SqInv'
  <1>. USE DEF SqInv
  <1>1. NextIs(o) /\ sqOp[o].kind = "tx" /\ UNCHANGED <<sqDb, sqUncommitted>>
    BY DEF SqBegin
  <1>2. /\ sqOp[o].at = "queued" /\ sqRunning = NoOp
        /\ sqQueue' \in Seq(SqOps)
        /\ \A i \in DOMAIN sqQueue' : sqQueue'[i] # o /\ sqOp[sqQueue'[i]].at = "queued"
        /\ \A i, j \in DOMAIN sqQueue' : sqQueue'[i] = sqQueue'[j] => i = j
    BY <1>1, NextTaken
  <1>3. CASE OpSettles(o, "failed") /\ UNCHANGED <<sqRunning, sqConn>>
    <2>1. /\ sqOp' \in [SqOps -> Op] /\ sqOp'[o].at = "failed"
          /\ \A p \in SqOps : p # o => sqOp'[p] = sqOp[p]
      BY <1>3, SettledOp DEF SqTypeOK
    <2>2. SqTypeOK'
      BY <1>1, <1>2, <1>3, <2>1 DEF SqTypeOK
    <2>3. sqConn'.inTx = FALSE
      BY <1>2, <1>3, SqliteAssumption DEF TurnIsOfBody, SqTypeOK
    <2>4. QueueIsOfWaiting' /\ TurnIsOfBody'
      BY <1>1, <1>3, <2>3, TakenSettles
    <2>5. RowsAreAnswered'
      <3>. SUFFICES ASSUME NEW p \in SqOps, NEW i \in 0 .. SqScoped
                    PROVE  /\ <<p, i>> \in sqDb' <=> sqOp'[p].at = "done" /\ Wrote(sqOp'[p], i)
                           /\ <<p, i>> \in sqUncommitted' <=> sqRunning' = p /\ Wrote(sqOp'[p], i)
        BY DEF RowsAreAnswered
      <3>1. CASE p = o
        BY <1>1, <1>2, <1>3, <2>1, <3>1, SqliteAssumption DEF RowsAreAnswered
      <3>2. CASE p # o
        BY <1>1, <1>2, <1>3, <2>1, <3>2 DEF RowsAreAnswered
      <3>. QED
        BY <3>1, <3>2
    <2>. QED
      BY <2>2, <2>4, <2>5
  <1>4. CASE /\ sqConn' = [sqConn EXCEPT !.inTx = TRUE] /\ sqRunning' = o
             /\ sqOp' = [sqOp EXCEPT ![o].at = "body", ![o].active = TRUE]
    <2>. DEFINE new == [sqOp[o] EXCEPT !.at = "body", !.active = TRUE]
    <2>1. /\ new \in Op /\ new.at = "body" /\ new.active /\ new.kind = "tx" /\ new.wrote = sqOp[o].wrote
      BY <1>1, OpBegins DEF SqTypeOK
    <2>2. sqOp' = [sqOp EXCEPT ![o] = new]
      BY <1>4
    <2>. HIDE DEF new
    <2>3. /\ sqOp' \in [SqOps -> Op] /\ sqOp'[o] = new
          /\ \A p \in SqOps : p # o => sqOp'[p] = sqOp[p]
      BY <2>1, <2>2, OneOpChanges DEF SqTypeOK
    <2>4. SqTypeOK'
      BY <1>1, <1>2, <1>4, <2>3 DEF SqTypeOK
    <2>5. QueueIsOfWaiting'
      BY <1>2, <2>3 DEF QueueIsOfWaiting
    <2>6. TurnIsOfBody'
      BY <1>2, <1>4, <2>1, <2>3, SqliteAssumption DEF TurnIsOfBody, SqTypeOK
    <2>7. sqOp[o].wrote = 0 /\ sqRunning = NoOp
      BY <1>2 DEF TurnIsOfBody
    <2>8. RowsAreAnswered'
      <3>. SUFFICES ASSUME NEW p \in SqOps, NEW i \in 0 .. SqScoped
                    PROVE  /\ <<p, i>> \in sqDb' <=> sqOp'[p].at = "done" /\ Wrote(sqOp'[p], i)
                           /\ <<p, i>> \in sqUncommitted' <=> sqRunning' = p /\ Wrote(sqOp'[p], i)
        BY DEF RowsAreAnswered
      <3>1. p # o => sqRunning' # p /\ sqRunning # p
        BY <1>4, <2>7, SqliteAssumption
      <3>2. CASE p = o
        <4>1. ~Wrote(sqOp'[p], i)
          BY <2>1, <2>3, <2>7, <3>2 DEF Wrote
        <4>2. <<p, i>> \notin sqDb /\ <<p, i>> \notin sqUncommitted
          BY <1>2, <3>2, <2>7, SqliteAssumption DEF RowsAreAnswered
        <4>. QED
          BY <1>1, <2>1, <2>3, <3>2, <4>1, <4>2
      <3>3. CASE p # o
        BY <1>1, <2>3, <3>1, <3>3 DEF RowsAreAnswered
      <3>. QED
        BY <3>2, <3>3
    <2>. QED
      BY <2>4, <2>5, <2>6, <2>8
  <1>. QED
    BY <1>3, <1>4 DEF SqBegin

LEMMA SqScopedStatementStep ==
    ASSUME SqInv, NEW o \in SqOps, SqScopedStatement(o)
    PROVE  SqInv'
  <1>. USE DEF SqInv
  <1>1. /\ sqOp[o].kind = "tx" /\ sqOp[o].active /\ sqOp[o].wrote < SqScoped
        /\ UNCHANGED <<sqQueue, sqRunning, sqConn>>
    BY DEF SqScopedStatement, ScopeIsLive
  <1>. DEFINE new == [sqOp[o] EXCEPT !.wrote = @ + 1]
  <1>2. /\ new \in Op /\ new.at = sqOp[o].at /\ new.active = sqOp[o].active /\ new.kind = "tx"
        /\ sqOp[o].wrote \in Nat /\ new.wrote = sqOp[o].wrote + 1 /\ sqOp[o].wrote + 1 \in 0 .. SqScoped
    BY <1>1, OpWrites DEF SqTypeOK
  <1>3. sqOp' = [sqOp EXCEPT ![o] = new]
    BY DEF SqScopedStatement
  <1>. HIDE DEF new
  <1>4. /\ sqOp' \in [SqOps -> Op] /\ sqOp'[o] = new
        /\ \A p \in SqOps : p # o => sqOp'[p] = sqOp[p]
    BY <1>2, <1>3, OneOpChanges DEF SqTypeOK
  <1>5. sqRunning = o /\ sqOp[o].at = "body" /\ sqConn.inTx
    BY <1>1, SqliteAssumption DEF TurnIsOfBody
  <1>6. sqUncommitted' = sqUncommitted \union {<<o, sqOp[o].wrote + 1>>} /\ UNCHANGED sqDb
    BY <1>5 DEF SqScopedStatement, Executes
  <1>7. SqTypeOK'
    <2>1. <<o, sqOp[o].wrote + 1>> \in SqRow
      BY <1>2, RowOfOp
    <2>. QED
      BY <1>1, <1>4, <1>6, <2>1 DEF SqTypeOK
  <1>8. QueueIsOfWaiting'
    BY <1>1, <1>2, <1>4, <1>5 DEF QueueIsOfWaiting, SqTypeOK
  <1>9. TurnIsOfBody'
    BY <1>1, <1>2, <1>4, <1>5 DEF TurnIsOfBody
  <1>10. RowsAreAnswered'
    <2>. SUFFICES ASSUME NEW p \in SqOps, NEW i \in 0 .. SqScoped
                  PROVE  /\ <<p, i>> \in sqDb' <=> sqOp'[p].at = "done" /\ Wrote(sqOp'[p], i)
                         /\ <<p, i>> \in sqUncommitted' <=> sqRunning' = p /\ Wrote(sqOp'[p], i)
      BY DEF RowsAreAnswered
    <2>1. CASE p = o
      <3>1. <<p, i>> \notin sqDb'
        BY <1>5, <1>6, <2>1 DEF RowsAreAnswered
      <3>2. <<p, i>> \in sqUncommitted <=> 1 <= i /\ i <= sqOp[o].wrote
        BY <1>1, <1>5, <2>1 DEF RowsAreAnswered, Wrote
      <3>3. <<p, i>> \in sqUncommitted' <=> (<<p, i>> \in sqUncommitted \/ i = sqOp[o].wrote + 1)
        BY <1>6, <2>1
      <3>4. <<p, i>> \in sqUncommitted' <=> 1 <= i /\ i <= sqOp[o].wrote + 1
        BY <1>2, <3>2, <3>3
      <3>5. Wrote(new, i) <=> 1 <= i /\ i <= sqOp[o].wrote + 1
        BY <1>2 DEF Wrote
      <3>. QED
        BY <1>1, <1>2, <1>4, <1>5, <2>1, <3>1, <3>4, <3>5
    <2>2. CASE p # o
      BY <1>1, <1>4, <1>6, <2>2 DEF RowsAreAnswered
    <2>. QED
      BY <2>1, <2>2
  <1>. QED
    BY <1>7, <1>8, <1>9, <1>10

\* The turn of a transaction ends with its body, whose rows are committed or gone.
LEMMA TxEndsStep ==
    ASSUME SqInv, NEW o \in SqOps, sqOp[o].at = "body", NEW outcome \in {"done", "failed"}, TxEnds(o, outcome),
           sqDb' = IF outcome = "done" THEN sqDb \union sqUncommitted ELSE sqDb
    PROVE  SqInv'
  <1>. USE DEF SqInv
  <1>1. /\ OpSettles(o, outcome) /\ sqRunning' = NoOp /\ sqConn' = [sqConn EXCEPT !.inTx = FALSE]
        /\ sqUncommitted' = {} /\ UNCHANGED sqQueue
    BY DEF TxEnds
  <1>2. /\ sqOp' \in [SqOps -> Op]
        /\ sqOp'[o].at = outcome /\ ~sqOp'[o].active
        /\ sqOp'[o].kind = sqOp[o].kind /\ sqOp'[o].wrote = sqOp[o].wrote
        /\ \A p \in SqOps : p # o => sqOp'[p] = sqOp[p]
    BY <1>1, SettledOp DEF SqTypeOK
  <1>3. sqRunning = o
    BY DEF TurnIsOfBody
  <1>4. SqTypeOK'
    BY <1>1, <1>2 DEF SqTypeOK
  <1>5. QueueIsOfWaiting'
    BY <1>1, <1>2 DEF QueueIsOfWaiting, SqTypeOK
  <1>6. TurnIsOfBody'
    <2>1. sqConn'.inTx = FALSE
      BY <1>1 DEF SqTypeOK
    <2>2. \A p \in SqOps : p # o => sqRunning # p /\ sqRunning' # p
      BY <1>1, <1>3, SqliteAssumption
    <2>3. sqRunning' # o
      BY <1>1, SqliteAssumption
    <2>. QED
      BY <1>1, <1>2, <2>1, <2>2, <2>3 DEF TurnIsOfBody
  <1>7. RowsAreAnswered'
    <2>. SUFFICES ASSUME NEW p \in SqOps, NEW i \in 0 .. SqScoped
                  PROVE  /\ <<p, i>> \in sqDb' <=> sqOp'[p].at = "done" /\ Wrote(sqOp'[p], i)
                         /\ <<p, i>> \in sqUncommitted' <=> sqRunning' = p /\ Wrote(sqOp'[p], i)
      BY DEF RowsAreAnswered
    <2>1. <<p, i>> \notin sqUncommitted' /\ sqRunning' # p
      BY <1>1, SqliteAssumption
    <2>2. CASE p = o
      <3>1. <<p, i>> \notin sqDb
        BY <2>2 DEF RowsAreAnswered
      <3>2. <<p, i>> \in sqUncommitted <=> Wrote(sqOp[o], i)
        BY <1>3, <2>2 DEF RowsAreAnswered
      <3>3. Wrote(sqOp'[o], i) <=> Wrote(sqOp[o], i)
        BY <1>2 DEF Wrote
      <3>. QED
        BY <1>2, <2>1, <2>2, <3>1, <3>2, <3>3
    <2>3. CASE p # o
      <3>1. <<p, i>> \notin sqUncommitted
        BY <1>3, <2>3 DEF RowsAreAnswered
      <3>. QED
        BY <1>2, <2>1, <2>3, <3>1 DEF RowsAreAnswered
    <2>. QED
      BY <2>2, <2>3
  <1>. QED
    BY <1>4, <1>5, <1>6, <1>7

-----------------------------------------------------------------------------
(* The theorems.                                                           *)

LEMMA SqInitInv == SqInit => SqInv
  <1>. SUFFICES ASSUME SqInit PROVE SqInv
    OBVIOUS
  <1>1. NewOp \in Op /\ NewOp.at = "new" /\ NewOp.kind = "none" /\ ~NewOp.active /\ NewOp.wrote = 0
    BY SqliteAssumption DEF NewOp, Op
  <1>. HIDE DEF NewOp
  <1>2. /\ \A o \in SqOps : sqOp[o] = NewOp
        /\ sqOp = [o \in SqOps |-> NewOp] /\ sqQueue = <<>> /\ sqRunning = NoOp
        /\ sqConn = [open |-> TRUE, inTx |-> FALSE] /\ sqDb = {} /\ sqUncommitted = {}
    BY DEF SqInit
  <1>3. SqTypeOK
    BY <1>1, <1>2 DEF SqTypeOK
  <1>4. QueueIsOfWaiting
    BY <1>2 DEF QueueIsOfWaiting
  <1>5. TurnIsOfBody
    BY <1>1, <1>2, SqliteAssumption DEF TurnIsOfBody
  <1>6. RowsAreAnswered
    BY <1>1, <1>2, SqliteAssumption DEF RowsAreAnswered
  <1>. QED
    BY <1>3, <1>4, <1>5, <1>6 DEF SqInv

LEMMA SqNextInv == SqInv /\ [SqNext]_sqVars => SqInv'
  <1>. SUFFICES ASSUME SqInv, [SqNext]_sqVars PROVE SqInv'
    OBVIOUS
  <1>1. ASSUME NEW o \in SqOps, NEW inside \in SqOps \union {NoOp}, NEW kind \in {"write", "tx", "close"},
               SqCall(o, kind, inside)
        PROVE  SqInv'
    BY <1>1, SqCallStep
  <1>2. ASSUME NEW o \in SqOps, SqStatement(o) PROVE SqInv'
    BY <1>2, SqStatementStep
  <1>3. ASSUME NEW o \in SqOps, SqClose(o) PROVE SqInv'
    BY <1>3, SqCloseStep
  <1>4. ASSUME NEW o \in SqOps, SqBegin(o) PROVE SqInv'
    BY <1>4, SqBeginStep
  <1>5. ASSUME NEW o \in SqOps, SqScopedStatement(o) PROVE SqInv'
    BY <1>5, SqScopedStatementStep
  <1>6. ASSUME NEW o \in SqOps, SqCommit(o) PROVE SqInv'
    BY <1>6, TxEndsStep DEF SqCommit
  <1>7. ASSUME NEW o \in SqOps, SqRollback(o) PROVE SqInv'
    BY <1>7, TxEndsStep DEF SqRollback
  <1>8. CASE UNCHANGED sqVars
    BY <1>8 DEF sqVars, SqInv, SqTypeOK, QueueIsOfWaiting, TurnIsOfBody, RowsAreAnswered
  <1>. QED
    BY <1>1, <1>2, <1>3, <1>4, <1>5, <1>6, <1>7, <1>8 DEF SqNext

\* The invariant holds of every behaviour of the adapter: its types, a queue of operations that
\* wait, one body at a time, and rows that are where their operation's answer says.
THEOREM SqInvariance == SqSpec => []SqInv
  BY SqInitInv, SqNextInv, PTL DEF SqSpec

\* The operations of sqlite.ts keep their types.
THEOREM SqTypeCorrect == SqSpec => []SqTypeOK
  <1>1. SqInv => SqTypeOK
    BY DEF SqInv
  <1>. QED
    BY <1>1, SqInvariance, PTL

LEMMA RowsAreTheAnswer == SqInv => SqAllOrNothing
  <1>. SUFFICES ASSUME SqInv PROVE SqAllOrNothing
    OBVIOUS
  <1>. USE DEF SqInv
  <1>1. ASSUME NEW o \in SqOps
        PROVE  LET rows == IF sqOp[o].kind = "tx" THEN { <<o, i>> : i \in 1 .. sqOp[o].wrote }
                           ELSE IF sqOp[o].kind = "write" THEN { <<o, 0>> } ELSE {}
               IN sqDb \intersect RowsOf(o) = (IF sqOp[o].at = "done" THEN rows ELSE {})
    <2>. DEFINE rows == IF sqOp[o].kind = "tx" THEN { <<o, i>> : i \in 1 .. sqOp[o].wrote }
                        ELSE IF sqOp[o].kind = "write" THEN { <<o, 0>> } ELSE {}
    <2>1. sqOp[o].wrote \in 0 .. SqScoped /\ SqScoped \in Nat
      BY SqliteAssumption DEF SqTypeOK, Op
    <2>2. \A i \in 0 .. SqScoped : <<o, i>> \in rows <=> Wrote(sqOp[o], i)
      BY <2>1 DEF Wrote
    <2>3. \A row \in rows : \E i \in 0 .. SqScoped : row = <<o, i>>
      BY <2>1
    <2>4. \A row \in RowsOf(o) : \E i \in 0 .. SqScoped : row = <<o, i>>
      BY RowOfOp DEF RowsOf
    <2>5. \A i \in 0 .. SqScoped : <<o, i>> \in RowsOf(o)
      BY RowOfOp DEF RowsOf
    <2>. HIDE DEF rows
    <2>6. \A i \in 0 .. SqScoped : <<o, i>> \in sqDb <=> sqOp[o].at = "done" /\ <<o, i>> \in rows
      BY <2>2 DEF RowsAreAnswered
    <2>7. sqDb \intersect RowsOf(o) = (IF sqOp[o].at = "done" THEN rows ELSE {})
      BY <2>3, <2>4, <2>5, <2>6
    <2>. QED
      BY <2>7 DEF rows
  <1>2. ASSUME sqUncommitted # {}
        PROVE  sqRunning # NoOp /\ sqUncommitted \subseteq RowsOf(sqRunning)
    <2>1. \A row \in sqUncommitted : row \in SqRow /\ \E o \in SqOps : \E i \in 0 .. SqScoped :
              row = <<o, i>> /\ sqRunning = o
      BY RowOfOp DEF SqTypeOK, RowsAreAnswered
    <2>2. \A row \in sqUncommitted : row \in SqRow /\ row[1] = sqRunning /\ sqRunning \in SqOps
      BY <2>1
    <2>. QED
      BY <1>2, <2>2, SqliteAssumption DEF RowsOf
  <1>. QED
    BY <1>1, <1>2 DEF SqAllOrNothing

\* What an operation of the adapter answers is what became of its rows, for any number of
\* operations, called from anywhere and in any order.
THEOREM SqAnswersAreTrue == SqSpec => []SqAllOrNothing
  BY SqInvariance, RowsAreTheAnswer, PTL

-----------------------------------------------------------------------------
(* Migrations.                                                             *)

-----------------------------------------------------------------------------
(* What every state keeps.                                                 *)

HasColumn(shape, c) == shape # NoTable /\ c \in Present(shape)
HasIndex(shape, i) == shape # NoTable /\ shape.indexes[i] # {}

Ops == UNION { OpsOfTable(t, a, b) : t \in Tables, a \in Shape \union {NoTable}, b \in Shape \union {NoTable} }

TxRecord == [ step : {"lock", "plan", "exec", "byHand", "handLock", "confirm"}, deployment : Deployments,
              own : Schema, allow : BOOLEAN, target : Schema \union {NoSchema}, left : SUBSET Ops,
              work : UNION { [S -> Shape \union {NoTable}] : S \in SUBSET Tables } ]

MgTypes ==
    /\ MgTypeOK
    /\ mgTx \in [Migrators -> TxRecord \union {NoTx}]

\* What a transaction in one of these steps has the lock for.
Locked == {"plan", "exec", "confirm"}
LockKept == \A m \in Migrators : mgTx[m].step \in Locked => mgLock = m

\* Who has changed a table holds it.
WorkApart ==
    \A m, n \in Migrators : m # n => DOMAIN mgTx[m].work \intersect DOMAIN mgTx[n].work = {}

MarkerKept == \A t \in Tables : mgPhysical[t] = Before(mgMarker, t)

\* What is recorded for a deployment is there, and the deployments agree.
There(schema) ==
    \A t \in Tables : schema[t] # NoTable =>
        /\ mgPhysical[t] # NoTable
        /\ \A c \in Columns : HasColumn(schema[t].shape, c) => HasColumn(mgPhysical[t], c)
        /\ \A i \in Indexes : HasIndex(schema[t].shape, i) => HasIndex(mgPhysical[t], i)

RecordedKept ==
    \A d \in Deployments : mgRecorded[d] # NoSchema =>
        /\ Sound(mgRecorded[d]) /\ There(mgRecorded[d])
        /\ \A e \in Deployments : mgRecorded[e] # NoSchema => ~ Clash(mgRecorded[d], mgRecorded[e])

-----------------------------------------------------------------------------
(* How far a plan from a to b has come when these statements are left.     *)

ReachedColumn(a, b, left, t, c) ==
    IF AddsColumn(t, c, b.columns[c]) \in left THEN "absent"
    ELSE IF DropsColumn(t, c) \in left THEN a.columns[c]
    ELSE b.columns[c]

ReachedIndex(a, b, left, t, i) ==
    IF DropsIndex(t, i) \in left THEN a.indexes[i]
    ELSE IF CreatesIndex(t, i, b.indexes[i]) \in left THEN {}
    ELSE b.indexes[i]

Unindexed(shape) == [shape EXCEPT !.indexes = [i \in Indexes |-> {}]]

Reached(a, b, left, t) ==
    IF b = NoTable THEN IF DropsTable(t) \in left THEN a ELSE NoTable
    ELSE IF CreatesTable(t, Unindexed(b)) \in left THEN NoTable
    ELSE [columns |-> [c \in Columns |-> ReachedColumn(a, b, left, t, c)],
          indexes |-> [i \in Indexes |-> ReachedIndex(a, b, left, t, i)]]

\* What is left for a table is the end of its plan, with nothing to do by hand.
EndOfPlan(t, a, b, left) ==
    /\ \A o \in left : o.table = t => o \in OpsOfTable(t, a, b) /\ ~Manual(o)
    /\ \A o \in left, p \in OpsOfTable(t, a, b) : o.table = t /\ PhaseOf(o) < PhaseOf(p) => p \in left

\* What is left of the plan is the end of it, and the tables are as far as that.
PlanKept(m) ==
    LET tx == mgTx[m] IN
    /\ tx.target = Target(tx.own, tx.deployment) /\ ~ Refused(tx.own, tx.deployment)
    /\ \A t \in Tables :
        /\ EndOfPlan(t, Before(mgMarker, t), After(tx.target, t), tx.left)
        /\ View(m, t) = Reached(Before(mgMarker, t), After(tx.target, t), tx.left, t)

\* By hand a table is given only what our release needs.
HandKept(m) ==
    LET own == mgTx[m].own IN
    \A t \in DOMAIN mgTx[m].work :
        LET shape == mgTx[m].work[t] IN
        /\ shape # NoTable => mgPhysical[t] # NoTable \/ After(own, t) # NoTable
        /\ \A c \in Columns : HasColumn(shape, c) => HasColumn(mgPhysical[t], c) \/ HasColumn(After(own, t), c)
        /\ \A i \in Indexes : HasIndex(shape, i) => HasIndex(mgPhysical[t], i) \/ HasIndex(After(own, t), i)

TxKept(m) ==
    /\ mgTx[m] # NoTx => Sound(mgTx[m].own) /\ (mgTx[m].step # "exec" => mgTx[m].left = {})
    /\ mgTx[m].step \in {"none", "lock", "plan"} => DOMAIN mgTx[m].work = {}
    /\ mgTx[m].step = "exec" => PlanKept(m)
    /\ mgTx[m].step \in {"byHand", "handLock", "confirm"} => HandKept(m)

MgInv ==
    /\ MgTypes /\ ~mgBroken
    /\ LockKept /\ WorkApart /\ MarkerKept /\ RecordedKept
    /\ \A m \in Migrators : TxKept(m)
-----------------------------------------------------------------------------
(* Shapes and what a database has to hold.                                 *)

Held == Shape \union {NoTable}

LEMMA HeldIs ==
    ASSUME NEW shape \in Held, shape # NoTable
    PROVE  /\ shape \in Shape
           /\ shape.columns \in [Columns -> Nullability \union {"absent"}]
           /\ shape.indexes \in [Indexes -> SUBSET Columns]
           /\ shape = [columns |-> shape.columns, indexes |-> shape.indexes]
           /\ \A c \in Columns : HasColumn(shape, c) <=> shape.columns[c] # "absent"
           /\ \A i \in Indexes : HasIndex(shape, i) <=> shape.indexes[i] # {}
  BY DEF Held, Shape, HasColumn, HasIndex, Present

LEMMA NoTableApart ==
    /\ \A def \in Definition : def # NoTable
    /\ \A shape \in Shape : shape # NoTable
    /\ \A schema \in Schema : schema # NoSchema
  BY MigrationAssumption

LEMMA ShapeOf ==
    ASSUME NEW schema \in Schema \union {NoSchema}, NEW t \in Tables
    PROVE  /\ Before(schema, t) \in Held
           /\ schema # NoSchema => /\ After(schema, t) \in Held /\ Before(schema, t) = After(schema, t)
                                   /\ After(schema, t) = NoTable <=> schema[t] = NoTable
                                   /\ schema[t] # NoTable => After(schema, t) = schema[t].shape
  BY NoTableApart DEF Before, After, Schema, Definition, Held

LEMMA WinsIn ==
    ASSUME NEW d, NEW from \in SUBSET Deployments, from # {}
    PROVE  Wins(d, from) \in from
<1>1. \E e \in from : \A f \in from : NameRank[f] <= NameRank[e]
  BY MigrationAssumption
<1> QED
  BY <1>1 DEF Wins, LastByName

LEMMA MergedIs ==
    ASSUME NEW asked \in [Deployments -> Schema \union {NoSchema}], NEW d, NEW t \in Tables
    PROVE  LET shape == MergedShape(asked, d, t) IN
           /\ shape \in Shape
           /\ \A c \in Columns : HasColumn(shape, c) <=>
                \E e \in Deployments : asked[e] # NoSchema /\ HasColumn(After(asked[e], t), c)
           /\ \A i \in Indexes : HasIndex(shape, i) <=>
                \E e \in Deployments : asked[e] # NoSchema /\ HasIndex(After(asked[e], t), i)
           /\ \A i \in Indexes : HasIndex(shape, i) =>
                \E e \in Deployments :
                    asked[e] # NoSchema /\ asked[e][t] # NoTable /\ shape.indexes[i] = asked[e][t].shape.indexes[i]
<1> DEFINE shape == MergedShape(asked, d, t)
<1>1. \A e \in WithTable(asked, t) :
        /\ e \in Deployments /\ asked[e] # NoSchema /\ asked[e][t] # NoTable
        /\ asked[e][t].shape \in Shape /\ After(asked[e], t) = asked[e][t].shape
  BY DEF WithTable, Schema, Definition, After
<1>2. \A e \in Deployments : asked[e] # NoSchema /\ After(asked[e], t) # NoTable => e \in WithTable(asked, t)
  BY DEF WithTable, After
<1>3. ASSUME NEW c \in Columns
      PROVE  LET from == WithColumn(asked, t, c)
                 column == IF from = {} THEN "absent" ELSE asked[Wins(d, from)][t].shape.columns[c] IN
             /\ column \in Nullability \union {"absent"}
             /\ column # "absent" <=> from # {}
             /\ from # {} <=> \E e \in Deployments : asked[e] # NoSchema /\ HasColumn(After(asked[e], t), c)
  <2> DEFINE from == WithColumn(asked, t, c)
  <2>1. \A e \in from : /\ e \in WithTable(asked, t) /\ asked[e][t].shape.columns[c] \in Nullability
                        /\ asked[e][t].shape.columns[c] # "absent"
    BY <1>1, <1>3 DEF WithColumn, Shape, Present, Nullability
  <2>2. from \subseteq Deployments
    BY <1>1 DEF WithColumn
  <2>3. from # {} => Wins(d, from) \in from
    BY <2>2, WinsIn
  <2>4. from # {} <=> \E e \in Deployments : asked[e] # NoSchema /\ HasColumn(After(asked[e], t), c)
    BY <1>1, <1>2, NoTableApart DEF WithColumn, HasColumn
  <2> QED
    BY <2>1, <2>3, <2>4
<1>4. ASSUME NEW i \in Indexes
      PROVE  LET from == WithIndex(asked, t, i)
                 index == IF from = {} THEN {} ELSE asked[Wins(d, from)][t].shape.indexes[i] IN
             /\ index \in SUBSET Columns
             /\ index # {} <=> from # {}
             /\ from # {} <=> \E e \in Deployments : asked[e] # NoSchema /\ HasIndex(After(asked[e], t), i)
             /\ from # {} =>
                 \E e \in Deployments :
                    asked[e] # NoSchema /\ asked[e][t] # NoTable /\ index = asked[e][t].shape.indexes[i]
  <2> DEFINE from == WithIndex(asked, t, i)
  <2>1. \A e \in from : /\ e \in WithTable(asked, t) /\ asked[e][t].shape.indexes[i] \in SUBSET Columns
                        /\ asked[e][t].shape.indexes[i] # {}
    BY <1>1, <1>4 DEF WithIndex, Shape
  <2>2. from \subseteq Deployments
    BY <1>1 DEF WithIndex
  <2>3. from # {} => Wins(d, from) \in from
    BY <2>2, WinsIn
  <2>4. from # {} <=> \E e \in Deployments : asked[e] # NoSchema /\ HasIndex(After(asked[e], t), i)
    BY <1>1, <1>2, NoTableApart DEF WithIndex, HasIndex
  <2> QED
    BY <1>1, <2>1, <2>3, <2>4
<1>5. /\ shape.columns = [c \in Columns |->
            LET from == WithColumn(asked, t, c) IN
            IF from = {} THEN "absent" ELSE asked[Wins(d, from)][t].shape.columns[c]]
      /\ shape.indexes = [i \in Indexes |->
            LET from == WithIndex(asked, t, i) IN
            IF from = {} THEN {} ELSE asked[Wins(d, from)][t].shape.indexes[i]]
      /\ shape = [columns |-> shape.columns, indexes |-> shape.indexes]
  BY DEF MergedShape
<1> HIDE DEF shape
<1>6. shape.columns \in [Columns -> Nullability \union {"absent"}]
  BY <1>3, <1>5
<1>7. shape.indexes \in [Indexes -> SUBSET Columns]
  BY <1>4, <1>5
<1>8. shape \in Shape
  BY <1>5, <1>6, <1>7 DEF Shape
<1>9. \A c \in Columns : HasColumn(shape, c) <=>
        \E e \in Deployments : asked[e] # NoSchema /\ HasColumn(After(asked[e], t), c)
  BY <1>3, <1>5, <1>8, NoTableApart, HeldIs DEF Held
<1>10. ASSUME NEW i \in Indexes
       PROVE  /\ HasIndex(shape, i) <=>
                    \E e \in Deployments : asked[e] # NoSchema /\ HasIndex(After(asked[e], t), i)
              /\ HasIndex(shape, i) =>
                    \E e \in Deployments :
                      asked[e] # NoSchema /\ asked[e][t] # NoTable /\ shape.indexes[i] = asked[e][t].shape.indexes[i]
  BY <1>4, <1>5, <1>8, NoTableApart, HeldIs DEF Held
<1> QED
  BY <1>8, <1>9, <1>10 DEF shape


Asked(own, d) == [mgRecorded EXCEPT ![d] = own]

LEMMA SoundIs ==
    ASSUME NEW schema \in Schema
    PROVE  Sound(schema) <=>
             \A t \in Tables : After(schema, t) # NoTable => \A i \in Indexes : \A c \in Columns :
                c \in After(schema, t).indexes[i] => HasColumn(After(schema, t), c)
<1>1. \A t \in Tables : schema[t] # NoTable =>
        /\ After(schema, t) = schema[t].shape /\ After(schema, t) # NoTable
        /\ \A i \in Indexes : schema[t].shape.indexes[i] \subseteq Columns
  BY NoTableApart DEF Schema, Definition, Shape, After
<1>2. \A t \in Tables : schema[t] = NoTable => After(schema, t) = NoTable
  BY DEF After
<1> QED
  BY <1>1, <1>2 DEF Sound, HasColumn, Present

\* The target holds the tables, columns and indexes of our release and of the others'
\* recorded ones, and nothing else (targetFor).
LEMMA TargetIs ==
    ASSUME MgTypeOK, NEW own \in Schema, NEW d \in Deployments
    PROVE  LET asked == Asked(own, d) target == Target(own, d) IN
           /\ target \in Schema
           /\ \A t \in Tables : After(target, t) # NoTable <=>
                \E e \in Deployments : asked[e] # NoSchema /\ After(asked[e], t) # NoTable
           /\ \A t \in Tables, c \in Columns : HasColumn(After(target, t), c) <=>
                \E e \in Deployments : asked[e] # NoSchema /\ HasColumn(After(asked[e], t), c)
           /\ \A t \in Tables, i \in Indexes : HasIndex(After(target, t), i) <=>
                \E e \in Deployments : asked[e] # NoSchema /\ HasIndex(After(asked[e], t), i)
           /\ (\A e \in Deployments : asked[e] # NoSchema => Sound(asked[e])) => Sound(target)
<1> DEFINE asked == Asked(own, d)
           target == Target(own, d)
           Def(t) == [kind |-> asked[Wins(d, WithTable(asked, t))][t].kind, shape |-> MergedShape(asked, d, t)]
<1>1. asked \in [Deployments -> Schema \union {NoSchema}]
  BY DEF Asked, MgTypeOK
<1>2. target = [t \in Tables |-> IF WithTable(asked, t) = {} THEN NoTable ELSE Def(t)]
  BY DEF Target, Asked
<1> HIDE DEF asked, target
<1>3. ASSUME NEW t \in Tables
      PROVE  /\ WithTable(asked, t) \subseteq Deployments
             /\ WithTable(asked, t) # {} =>
                    /\ Def(t) \in Definition /\ Def(t) # NoTable
                    /\ Def(t).shape = MergedShape(asked, d, t)
             /\ WithTable(asked, t) # {} <=>
                    \E e \in Deployments : asked[e] # NoSchema /\ After(asked[e], t) # NoTable
  <2>1. \A e \in WithTable(asked, t) :
            /\ e \in Deployments /\ asked[e] # NoSchema /\ asked[e][t] \in Definition
            /\ asked[e][t].kind \in Kinds /\ After(asked[e], t) = asked[e][t].shape /\ After(asked[e], t) # NoTable
    BY <1>1, NoTableApart DEF WithTable, Schema, Definition, After
  <2>2. \A e \in Deployments : asked[e] # NoSchema /\ After(asked[e], t) # NoTable => e \in WithTable(asked, t)
    BY DEF WithTable, After
  <2>3. WithTable(asked, t) # {} => Wins(d, WithTable(asked, t)) \in WithTable(asked, t)
    BY <2>1, WinsIn
  <2>4. MergedShape(asked, d, t) \in Shape
    BY <1>1, MergedIs
  <2>5. WithTable(asked, t) # {} => Def(t) \in Definition
    BY <2>1, <2>3, <2>4 DEF Definition
  <2> QED
    BY <2>1, <2>2, <2>5, NoTableApart
<1>4. \A t \in Tables : target[t] = IF WithTable(asked, t) = {} THEN NoTable ELSE Def(t)
  BY <1>2
<1>5. target \in Schema
  BY <1>2, <1>3 DEF Schema
<1> HIDE DEF Def
<1>6. ASSUME NEW t \in Tables
      PROVE  /\ WithTable(asked, t) = {} => After(target, t) = NoTable
             /\ WithTable(asked, t) # {} => After(target, t) = MergedShape(asked, d, t) /\ After(target, t) # NoTable
  BY <1>1, <1>3, <1>4, MergedIs, NoTableApart DEF After
<1>7. ASSUME NEW t \in Tables, WithTable(asked, t) = {}
      PROVE  /\ \A c \in Columns : ~ \E e \in Deployments : asked[e] # NoSchema /\ HasColumn(After(asked[e], t), c)
             /\ \A i \in Indexes : ~ \E e \in Deployments : asked[e] # NoSchema /\ HasIndex(After(asked[e], t), i)
  BY <1>3, <1>7 DEF HasColumn, HasIndex
<1>8. \A t \in Tables, c \in Columns : HasColumn(After(target, t), c) <=>
        \E e \in Deployments : asked[e] # NoSchema /\ HasColumn(After(asked[e], t), c)
  <2> SUFFICES ASSUME NEW t \in Tables, NEW c \in Columns
               PROVE  HasColumn(After(target, t), c) <=>
                        \E e \in Deployments : asked[e] # NoSchema /\ HasColumn(After(asked[e], t), c)
    OBVIOUS
  <2>1. CASE WithTable(asked, t) = {}
    BY <1>6, <1>7, <2>1 DEF HasColumn
  <2>2. CASE WithTable(asked, t) # {}
    BY <1>1, <1>6, <2>2, MergedIs
  <2> QED
    BY <2>1, <2>2
<1>9. \A t \in Tables, i \in Indexes : HasIndex(After(target, t), i) <=>
        \E e \in Deployments : asked[e] # NoSchema /\ HasIndex(After(asked[e], t), i)
  <2> SUFFICES ASSUME NEW t \in Tables, NEW i \in Indexes
               PROVE  HasIndex(After(target, t), i) <=>
                        \E e \in Deployments : asked[e] # NoSchema /\ HasIndex(After(asked[e], t), i)
    OBVIOUS
  <2>1. CASE WithTable(asked, t) = {}
    BY <1>6, <1>7, <2>1 DEF HasIndex
  <2>2. CASE WithTable(asked, t) # {}
    BY <1>1, <1>6, <2>2, MergedIs
  <2> QED
    BY <2>1, <2>2
<1>10. ASSUME \A e \in Deployments : asked[e] # NoSchema => Sound(asked[e])
       PROVE  Sound(target)
  <2> SUFFICES ASSUME NEW t \in Tables, After(target, t) # NoTable, NEW i \in Indexes, NEW c \in Columns,
                      c \in After(target, t).indexes[i]
               PROVE  HasColumn(After(target, t), c)
    BY <1>5, SoundIs
  <2>1. After(target, t) = MergedShape(asked, d, t) /\ After(target, t) # NoTable /\ After(target, t) \in Held
    BY <1>6, <1>1, MergedIs DEF Held
  <2>2. HasIndex(After(target, t), i)
    BY <2>1 DEF HasIndex
  <2>3. PICK e \in Deployments : /\ asked[e] # NoSchema /\ asked[e][t] # NoTable
                                 /\ After(target, t).indexes[i] = asked[e][t].shape.indexes[i]
    BY <1>1, <2>1, <2>2, MergedIs
  <2>4. asked[e] \in Schema /\ Sound(asked[e])
    BY <1>1, <1>10, <2>3
  <2>5. After(asked[e], t) = asked[e][t].shape /\ After(asked[e], t) # NoTable
    BY <2>3, <2>4, ShapeOf
  <2>6. HasColumn(After(asked[e], t), c)
    BY <2>3, <2>4, <2>5, SoundIs
  <2> QED
    BY <1>8, <2>3, <2>6
<1>11. \A t \in Tables : After(target, t) # NoTable <=>
        \E e \in Deployments : asked[e] # NoSchema /\ After(asked[e], t) # NoTable
  BY <1>3, <1>6
<1> QED
  BY <1>5, <1>8, <1>9, <1>10, <1>11 DEF asked, target

-----------------------------------------------------------------------------
(* The statements of a plan.                                               *)

LEMMA OpFields ==
    ASSUME NEW t, NEW c, NEW i, NEW x
    PROVE  /\ CreatesTable(t, x).op = "create" /\ CreatesTable(t, x).table = t /\ CreatesTable(t, x).def = x
           /\ DropsTable(t).op = "drop" /\ DropsTable(t).table = t
           /\ AddsColumn(t, c, x).op = "addColumn" /\ AddsColumn(t, c, x).table = t
           /\ AddsColumn(t, c, x).column = c /\ AddsColumn(t, c, x).null = x
           /\ AltersColumn(t, c, x).op = "alterColumn" /\ AltersColumn(t, c, x).table = t
           /\ AltersColumn(t, c, x).column = c /\ AltersColumn(t, c, x).null = x
           /\ DropsColumn(t, c).op = "dropColumn" /\ DropsColumn(t, c).table = t /\ DropsColumn(t, c).column = c
           /\ CreatesIndex(t, i, x).op = "createIndex" /\ CreatesIndex(t, i, x).table = t
           /\ CreatesIndex(t, i, x).index = i /\ CreatesIndex(t, i, x).on = x
           /\ DropsIndex(t, i).op = "dropIndex" /\ DropsIndex(t, i).table = t /\ DropsIndex(t, i).index = i
  BY DEF CreatesTable, DropsTable, AddsColumn, AltersColumn, DropsColumn, CreatesIndex, DropsIndex

LEMMA PhaseIs ==
    ASSUME NEW op
    PROVE  /\ op.op = "create" => PhaseOf(op) = 1
           /\ op.op = "addColumn" => PhaseOf(op) = 1
           /\ op.op = "alterColumn" => PhaseOf(op) = 1
           /\ op.op = "dropIndex" => PhaseOf(op) = 2
           /\ op.op = "dropColumn" => PhaseOf(op) = 3
           /\ op.op = "createIndex" => PhaseOf(op) = 4
           /\ op.op = "drop" => PhaseOf(op) = 5
  BY DEF PhaseOf

\* Which statements the plan of a table has.
LEMMA OpsAre ==
    ASSUME NEW t \in Tables, NEW a \in Held, NEW b \in Held, NEW op \in OpsOfTable(t, a, b)
    PROVE  /\ op.table = t
           /\ \/ b = NoTable /\ a # NoTable /\ op = DropsTable(t)
              \/ b # NoTable /\ a = NoTable /\ op = CreatesTable(t, Unindexed(b))
              \/ /\ a # NoTable /\ b # NoTable
                 /\ \E c \in Columns : \/ /\ b.columns[c] # "absent" /\ a.columns[c] = "absent"
                                          /\ op = AddsColumn(t, c, b.columns[c])
                                       \/ /\ b.columns[c] # "absent" /\ a.columns[c] # "absent"
                                          /\ b.columns[c] # a.columns[c] /\ op = AltersColumn(t, c, b.columns[c])
                                       \/ /\ b.columns[c] = "absent" /\ a.columns[c] # "absent"
                                          /\ op = DropsColumn(t, c)
              \/ /\ a # NoTable /\ b # NoTable
                 /\ \E i \in Indexes : /\ a.indexes[i] # {} /\ a.indexes[i] # b.indexes[i]
                                       /\ op = DropsIndex(t, i)
              \/ /\ b # NoTable
                 /\ \E i \in Indexes : /\ b.indexes[i] # {} /\ (a # NoTable => a.indexes[i] # b.indexes[i])
                                       /\ op = CreatesIndex(t, i, b.indexes[i])
<1>1. CASE b = NoTable
  BY <1>1, OpFields DEF OpsOfTable
<1>2. CASE b # NoTable /\ a = NoTable
  <2>1. OpsOfTable(t, a, b) = 
          {CreatesTable(t, Unindexed(b))} \union
          { CreatesIndex(t, i, b.indexes[i]) : i \in { k \in Indexes : b.indexes[k] # {} } }
    BY <1>2, HeldIs DEF OpsOfTable, Present, Unindexed
  <2> QED
    BY <1>2, <2>1, OpFields
<1>3. CASE b # NoTable /\ a # NoTable
  <2>1. OpsOfTable(t, a, b) =
         { AddsColumn(t, c, b.columns[c]) : c \in Present(b) \ Present(a) }
         \union { AltersColumn(t, c, b.columns[c]) :
                    c \in { k \in Present(b) \intersect Present(a) : b.columns[k] # a.columns[k] } }
         \union { DropsColumn(t, c) : c \in Present(a) \ Present(b) }
         \union { DropsIndex(t, i) : i \in { k \in Indexes : a.indexes[k] \notin {{}, b.indexes[k]} } }
         \union { CreatesIndex(t, i, b.indexes[i]) :
                    i \in { k \in Indexes : b.indexes[k] \notin {{}, a.indexes[k]} } }
    BY <1>3 DEF OpsOfTable
  <2>2. \/ \E c \in Present(b) \ Present(a) : op = AddsColumn(t, c, b.columns[c])
        \/ \E c \in Present(b) \intersect Present(a) :
                b.columns[c] # a.columns[c] /\ op = AltersColumn(t, c, b.columns[c])
        \/ \E c \in Present(a) \ Present(b) : op = DropsColumn(t, c)
        \/ \E i \in Indexes : a.indexes[i] \notin {{}, b.indexes[i]} /\ op = DropsIndex(t, i)
        \/ \E i \in Indexes : b.indexes[i] \notin {{}, a.indexes[i]} /\ op = CreatesIndex(t, i, b.indexes[i])
    BY <2>1
  <2>3. op.table = t
    BY <2>2, OpFields
  <2> QED
    BY <1>3, <2>2, <2>3 DEF Present
<1> QED
  BY <1>1, <1>2, <1>3

LEMMA OpsHave ==
    ASSUME NEW t \in Tables, NEW a \in Held, NEW b \in Held
    PROVE  /\ b = NoTable /\ a # NoTable => DropsTable(t) \in OpsOfTable(t, a, b)
           /\ b # NoTable /\ a = NoTable => CreatesTable(t, Unindexed(b)) \in OpsOfTable(t, a, b)
           /\ \A c \in Columns : a # NoTable /\ b # NoTable =>
                /\ b.columns[c] # "absent" /\ a.columns[c] = "absent" =>
                        AddsColumn(t, c, b.columns[c]) \in OpsOfTable(t, a, b)
                /\ b.columns[c] # "absent" /\ a.columns[c] # "absent" /\ a.columns[c] # b.columns[c] =>
                        AltersColumn(t, c, b.columns[c]) \in OpsOfTable(t, a, b)
                /\ b.columns[c] = "absent" /\ a.columns[c] # "absent" =>
                        DropsColumn(t, c) \in OpsOfTable(t, a, b)
           /\ \A i \in Indexes : b # NoTable =>
                /\ a # NoTable /\ a.indexes[i] # {} /\ a.indexes[i] # b.indexes[i] =>
                        DropsIndex(t, i) \in OpsOfTable(t, a, b)
                /\ b.indexes[i] # {} /\ (a # NoTable => a.indexes[i] # b.indexes[i]) =>
                        CreatesIndex(t, i, b.indexes[i]) \in OpsOfTable(t, a, b)
<1>1. b = NoTable /\ a # NoTable => DropsTable(t) \in OpsOfTable(t, a, b)
  BY DEF OpsOfTable
<1>2. CASE b # NoTable /\ a = NoTable
  <2>1. OpsOfTable(t, a, b) =
          {CreatesTable(t, Unindexed(b))} \union
          { CreatesIndex(t, i, b.indexes[i]) : i \in { k \in Indexes : b.indexes[k] # {} } }
    BY <1>2, HeldIs DEF OpsOfTable, Present, Unindexed
  <2> QED
    BY <1>2, <2>1
<1>3. CASE b # NoTable /\ a # NoTable
  <2>1. OpsOfTable(t, a, b) =
         { AddsColumn(t, c, b.columns[c]) : c \in Present(b) \ Present(a) }
         \union { AltersColumn(t, c, b.columns[c]) :
                    c \in { k \in Present(b) \intersect Present(a) : b.columns[k] # a.columns[k] } }
         \union { DropsColumn(t, c) : c \in Present(a) \ Present(b) }
         \union { DropsIndex(t, i) : i \in { k \in Indexes : a.indexes[k] \notin {{}, b.indexes[k]} } }
         \union { CreatesIndex(t, i, b.indexes[i]) :
                    i \in { k \in Indexes : b.indexes[k] \notin {{}, a.indexes[k]} } }
    BY <1>3 DEF OpsOfTable
  <2> QED
    BY <1>3, <2>1 DEF Present
<1> QED
  BY <1>1, <1>2, <1>3

LEMMA OpsByName ==
    ASSUME NEW t \in Tables, NEW a \in Held, NEW b \in Held, NEW op \in OpsOfTable(t, a, b)
    PROVE  /\ op.table = t
           /\ op.op \in {"create", "drop", "addColumn", "alterColumn", "dropColumn", "createIndex", "dropIndex"}
           /\ op.op = "drop" => b = NoTable /\ a # NoTable /\ op = DropsTable(t)
           /\ op.op = "create" => b # NoTable /\ a = NoTable /\ op = CreatesTable(t, Unindexed(b))
           /\ op.op = "addColumn" =>
                /\ a # NoTable /\ b # NoTable /\ op.column \in Columns
                /\ b.columns[op.column] # "absent" /\ a.columns[op.column] = "absent"
                /\ op = AddsColumn(t, op.column, b.columns[op.column])
           /\ op.op = "alterColumn" =>
                /\ a # NoTable /\ b # NoTable /\ op.column \in Columns
                /\ b.columns[op.column] # "absent" /\ a.columns[op.column] # "absent"
                /\ b.columns[op.column] # a.columns[op.column]
                /\ op = AltersColumn(t, op.column, b.columns[op.column])
           /\ op.op = "dropColumn" =>
                /\ a # NoTable /\ b # NoTable /\ op.column \in Columns
                /\ b.columns[op.column] = "absent" /\ a.columns[op.column] # "absent"
                /\ op = DropsColumn(t, op.column)
           /\ op.op = "dropIndex" =>
                /\ a # NoTable /\ b # NoTable /\ op.index \in Indexes
                /\ a.indexes[op.index] # {} /\ a.indexes[op.index] # b.indexes[op.index]
                /\ op = DropsIndex(t, op.index)
           /\ op.op = "createIndex" =>
                /\ b # NoTable /\ op.index \in Indexes
                /\ b.indexes[op.index] # {} /\ (a # NoTable => a.indexes[op.index] # b.indexes[op.index])
                /\ op = CreatesIndex(t, op.index, b.indexes[op.index])
<1>1. op.table = t
  BY OpsAre
<1>2. CASE b = NoTable /\ a # NoTable /\ op = DropsTable(t)
  <2>1. op.op = "drop"
    BY <1>2, OpFields
  <2> QED
    BY <1>1, <1>2, <2>1
<1>3. CASE b # NoTable /\ a = NoTable /\ op = CreatesTable(t, Unindexed(b))
  <2>1. op.op = "create"
    BY <1>3, OpFields
  <2> QED
    BY <1>1, <1>3, <2>1
<1>4. ASSUME a # NoTable, b # NoTable, NEW c \in Columns, b.columns[c] # "absent", a.columns[c] = "absent",
             op = AddsColumn(t, c, b.columns[c])
      PROVE  /\ op.op = "addColumn" /\ op.column \in Columns
             /\ b.columns[op.column] # "absent" /\ a.columns[op.column] = "absent"
             /\ op = AddsColumn(t, op.column, b.columns[op.column])
  <2>1. op.op = "addColumn" /\ op.column = c
    BY <1>4, OpFields
  <2> QED
    BY <1>4, <2>1
<1>5. ASSUME a # NoTable, b # NoTable, NEW c \in Columns, b.columns[c] # "absent", a.columns[c] # "absent",
             b.columns[c] # a.columns[c], op = AltersColumn(t, c, b.columns[c])
      PROVE  /\ op.op = "alterColumn" /\ op.column \in Columns
             /\ b.columns[op.column] # "absent" /\ a.columns[op.column] # "absent"
             /\ b.columns[op.column] # a.columns[op.column]
             /\ op = AltersColumn(t, op.column, b.columns[op.column])
  <2>1. op.op = "alterColumn" /\ op.column = c
    BY <1>5, OpFields
  <2> QED
    BY <1>5, <2>1
<1>6. ASSUME a # NoTable, b # NoTable, NEW c \in Columns, b.columns[c] = "absent", a.columns[c] # "absent",
             op = DropsColumn(t, c)
      PROVE  /\ op.op = "dropColumn" /\ op.column \in Columns
             /\ b.columns[op.column] = "absent" /\ a.columns[op.column] # "absent"
             /\ op = DropsColumn(t, op.column)
  <2>1. op.op = "dropColumn" /\ op.column = c
    BY <1>6, OpFields
  <2> QED
    BY <1>6, <2>1
<1>7. ASSUME a # NoTable, b # NoTable, NEW i \in Indexes, a.indexes[i] # {}, a.indexes[i] # b.indexes[i],
             op = DropsIndex(t, i)
      PROVE  /\ op.op = "dropIndex" /\ op.index \in Indexes
             /\ a.indexes[op.index] # {} /\ a.indexes[op.index] # b.indexes[op.index]
             /\ op = DropsIndex(t, op.index)
  <2>1. op.op = "dropIndex" /\ op.index = i
    BY <1>7, OpFields
  <2> QED
    BY <1>7, <2>1
<1>8. ASSUME b # NoTable, NEW i \in Indexes, b.indexes[i] # {}, a # NoTable => a.indexes[i] # b.indexes[i],
             op = CreatesIndex(t, i, b.indexes[i])
      PROVE  /\ op.op = "createIndex" /\ op.index \in Indexes
             /\ b.indexes[op.index] # {} /\ (a # NoTable => a.indexes[op.index] # b.indexes[op.index])
             /\ op = CreatesIndex(t, op.index, b.indexes[op.index])
  <2>1. op.op = "createIndex" /\ op.index = i
    BY <1>8, OpFields
  <2> QED
    BY <1>8, <2>1
<1>9. CASE /\ a # NoTable /\ b # NoTable
           /\ \E c \in Columns : /\ b.columns[c] # "absent" /\ a.columns[c] = "absent"
                                 /\ op = AddsColumn(t, c, b.columns[c])
  BY <1>1, <1>4, <1>9
<1>10. CASE /\ a # NoTable /\ b # NoTable
            /\ \E c \in Columns : /\ b.columns[c] # "absent" /\ a.columns[c] # "absent"
                                  /\ b.columns[c] # a.columns[c] /\ op = AltersColumn(t, c, b.columns[c])
  BY <1>1, <1>5, <1>10
<1>11. CASE /\ a # NoTable /\ b # NoTable
            /\ \E c \in Columns : /\ b.columns[c] = "absent" /\ a.columns[c] # "absent"
                                  /\ op = DropsColumn(t, c)
  BY <1>1, <1>6, <1>11
<1>12. CASE /\ a # NoTable /\ b # NoTable
            /\ \E i \in Indexes : a.indexes[i] # {} /\ a.indexes[i] # b.indexes[i] /\ op = DropsIndex(t, i)
  BY <1>1, <1>7, <1>12
<1>13. CASE /\ b # NoTable
            /\ \E i \in Indexes : /\ b.indexes[i] # {} /\ (a # NoTable => a.indexes[i] # b.indexes[i])
                                  /\ op = CreatesIndex(t, i, b.indexes[i])
  BY <1>1, <1>8, <1>13
<1>14. \/ b = NoTable /\ a # NoTable /\ op = DropsTable(t)
       \/ b # NoTable /\ a = NoTable /\ op = CreatesTable(t, Unindexed(b))
       \/ /\ a # NoTable /\ b # NoTable
          /\ \E c \in Columns : /\ b.columns[c] # "absent" /\ a.columns[c] = "absent"
                                /\ op = AddsColumn(t, c, b.columns[c])
       \/ /\ a # NoTable /\ b # NoTable
          /\ \E c \in Columns : /\ b.columns[c] # "absent" /\ a.columns[c] # "absent"
                                /\ b.columns[c] # a.columns[c] /\ op = AltersColumn(t, c, b.columns[c])
       \/ /\ a # NoTable /\ b # NoTable
          /\ \E c \in Columns : /\ b.columns[c] = "absent" /\ a.columns[c] # "absent"
                                /\ op = DropsColumn(t, c)
       \/ /\ a # NoTable /\ b # NoTable
          /\ \E i \in Indexes : a.indexes[i] # {} /\ a.indexes[i] # b.indexes[i] /\ op = DropsIndex(t, i)
       \/ /\ b # NoTable
          /\ \E i \in Indexes : /\ b.indexes[i] # {} /\ (a # NoTable => a.indexes[i] # b.indexes[i])
                                /\ op = CreatesIndex(t, i, b.indexes[i])
  BY OpsAre
<1> QED
  BY <1>2, <1>3, <1>9, <1>10, <1>11, <1>12, <1>13, <1>14

\* ... and which it has, by the two shapes of the table.
LEMMA Planned ==
    ASSUME NEW t \in Tables, NEW a \in Held, NEW b \in Held
    PROVE  LET ops == OpsOfTable(t, a, b) IN
           /\ DropsTable(t) \in ops <=> b = NoTable /\ a # NoTable
           /\ b # NoTable => (CreatesTable(t, Unindexed(b)) \in ops <=> a = NoTable)
           /\ b # NoTable => \A c \in Columns :
                /\ AddsColumn(t, c, b.columns[c]) \in ops <=>
                        a # NoTable /\ b.columns[c] # "absent" /\ a.columns[c] = "absent"
                /\ DropsColumn(t, c) \in ops <=>
                        a # NoTable /\ b.columns[c] = "absent" /\ a.columns[c] # "absent"
                /\ AltersColumn(t, c, b.columns[c]) \in ops <=>
                        a # NoTable /\ b.columns[c] # "absent" /\ a.columns[c] \notin {"absent", b.columns[c]}
           /\ b # NoTable => \A i \in Indexes :
                /\ DropsIndex(t, i) \in ops <=>
                        a # NoTable /\ a.indexes[i] # {} /\ a.indexes[i] # b.indexes[i]
                /\ CreatesIndex(t, i, b.indexes[i]) \in ops <=>
                        b.indexes[i] # {} /\ (a # NoTable => a.indexes[i] # b.indexes[i])
<1> DEFINE ops == OpsOfTable(t, a, b)
<1>1. ASSUME DropsTable(t) \in ops PROVE b = NoTable /\ a # NoTable
  <2> DEFINE op == DropsTable(t)
  <2>1. op \in ops /\ op.op = "drop"
    BY <1>1, OpFields
  <2> HIDE DEF op
  <2> QED
    BY <1>1, <2>1, OpsByName
<1>2. ASSUME b # NoTable, CreatesTable(t, Unindexed(b)) \in ops PROVE a = NoTable
  <2> DEFINE op == CreatesTable(t, Unindexed(b))
  <2>1. op \in ops /\ op.op = "create"
    BY <1>2, OpFields
  <2> HIDE DEF op
  <2> QED
    BY <1>2, <2>1, OpsByName
<1>3. ASSUME b # NoTable, NEW c \in Columns, AddsColumn(t, c, b.columns[c]) \in ops
      PROVE  a # NoTable /\ b.columns[c] # "absent" /\ a.columns[c] = "absent"
  <2> DEFINE op == AddsColumn(t, c, b.columns[c])
  <2>1. op \in ops /\ op.op = "addColumn" /\ op.column = c
    BY <1>3, OpFields
  <2> HIDE DEF op
  <2> QED
    BY <1>3, <2>1, OpsByName
<1>4. ASSUME b # NoTable, NEW c \in Columns, DropsColumn(t, c) \in ops
      PROVE  a # NoTable /\ b.columns[c] = "absent" /\ a.columns[c] # "absent"
  <2> DEFINE op == DropsColumn(t, c)
  <2>1. op \in ops /\ op.op = "dropColumn" /\ op.column = c
    BY <1>4, OpFields
  <2> HIDE DEF op
  <2> QED
    BY <1>4, <2>1, OpsByName
<1>5. ASSUME b # NoTable, NEW c \in Columns, AltersColumn(t, c, b.columns[c]) \in ops
      PROVE  a # NoTable /\ b.columns[c] # "absent" /\ a.columns[c] \notin {"absent", b.columns[c]}
  <2> DEFINE op == AltersColumn(t, c, b.columns[c])
  <2>1. op \in ops /\ op.op = "alterColumn" /\ op.column = c
    BY <1>5, OpFields
  <2> HIDE DEF op
  <2> QED
    BY <1>5, <2>1, OpsByName
<1>6. ASSUME b # NoTable, NEW i \in Indexes, DropsIndex(t, i) \in ops
      PROVE  a # NoTable /\ a.indexes[i] # {} /\ a.indexes[i] # b.indexes[i]
  <2> DEFINE op == DropsIndex(t, i)
  <2>1. op \in ops /\ op.op = "dropIndex" /\ op.index = i
    BY <1>6, OpFields
  <2> HIDE DEF op
  <2> QED
    BY <1>6, <2>1, OpsByName
<1>7. ASSUME b # NoTable, NEW i \in Indexes, CreatesIndex(t, i, b.indexes[i]) \in ops
      PROVE  b.indexes[i] # {} /\ (a # NoTable => a.indexes[i] # b.indexes[i])
  <2> DEFINE op == CreatesIndex(t, i, b.indexes[i])
  <2>1. op \in ops /\ op.op = "createIndex" /\ op.index = i
    BY <1>7, OpFields
  <2> HIDE DEF op
  <2> QED
    BY <1>7, <2>1, OpsByName
<1> HIDE DEF ops
<1>8. /\ b = NoTable /\ a # NoTable => DropsTable(t) \in ops
      /\ b # NoTable /\ a = NoTable => CreatesTable(t, Unindexed(b)) \in ops
  BY OpsHave DEF ops
<1>9. ASSUME b # NoTable, NEW c \in Columns
      PROVE  /\ AddsColumn(t, c, b.columns[c]) \in ops <=>
                    a # NoTable /\ b.columns[c] # "absent" /\ a.columns[c] = "absent"
             /\ DropsColumn(t, c) \in ops <=>
                    a # NoTable /\ b.columns[c] = "absent" /\ a.columns[c] # "absent"
             /\ AltersColumn(t, c, b.columns[c]) \in ops <=>
                    a # NoTable /\ b.columns[c] # "absent" /\ a.columns[c] \notin {"absent", b.columns[c]}
  BY <1>3, <1>4, <1>5, <1>9, OpsHave DEF ops
<1>10. ASSUME b # NoTable, NEW i \in Indexes
       PROVE  /\ DropsIndex(t, i) \in ops <=>
                    a # NoTable /\ a.indexes[i] # {} /\ a.indexes[i] # b.indexes[i]
              /\ CreatesIndex(t, i, b.indexes[i]) \in ops <=>
                    b.indexes[i] # {} /\ (a # NoTable => a.indexes[i] # b.indexes[i])
  BY <1>6, <1>7, <1>10, OpsHave DEF ops
<1> QED
  BY <1>1, <1>2, <1>8, <1>9, <1>10 DEF ops

LEMMA PlannedColumn ==
    ASSUME NEW t \in Tables, NEW a \in Held, NEW b \in Held, b # NoTable, NEW c \in Columns
    PROVE  /\ AddsColumn(t, c, b.columns[c]) \in OpsOfTable(t, a, b) <=>
                a # NoTable /\ b.columns[c] # "absent" /\ a.columns[c] = "absent"
           /\ DropsColumn(t, c) \in OpsOfTable(t, a, b) <=>
                a # NoTable /\ b.columns[c] = "absent" /\ a.columns[c] # "absent"
  BY Planned

LEMMA PlannedIndex ==
    ASSUME NEW t \in Tables, NEW a \in Held, NEW b \in Held, b # NoTable, NEW i \in Indexes
    PROVE  /\ DropsIndex(t, i) \in OpsOfTable(t, a, b) <=>
                a # NoTable /\ a.indexes[i] # {} /\ a.indexes[i] # b.indexes[i]
           /\ CreatesIndex(t, i, b.indexes[i]) \in OpsOfTable(t, a, b) <=>
                b.indexes[i] # {} /\ (a # NoTable => a.indexes[i] # b.indexes[i])
  BY Planned

-----------------------------------------------------------------------------
(* A plan goes statement by statement from one shape of a table to another. *)

SoundShape(b) == b # NoTable => \A i \in Indexes : b.indexes[i] \subseteq { c \in Columns : b.columns[c] # "absent" }

IsReached(shape, a, b, left, t) ==
    /\ shape \in Shape
    /\ \A c \in Columns : shape.columns[c] = ReachedColumn(a, b, left, t, c)
    /\ \A i \in Indexes : shape.indexes[i] = ReachedIndex(a, b, left, t, i)

LEMMA ReachedIn ==
    ASSUME NEW t \in Tables, NEW a \in Held, NEW b \in Held, NEW left, EndOfPlan(t, a, b, left)
    PROVE  /\ Reached(a, b, left, t) \in Held
           /\ b = NoTable => Reached(a, b, left, t) = IF DropsTable(t) \in left THEN a ELSE NoTable
           /\ b # NoTable /\ CreatesTable(t, Unindexed(b)) \in left => Reached(a, b, left, t) = NoTable
           /\ b # NoTable /\ CreatesTable(t, Unindexed(b)) \notin left =>
                IsReached(Reached(a, b, left, t), a, b, left, t)
<1>1. CASE b = NoTable
  BY <1>1 DEF Reached, Held
<1>2. CASE b # NoTable /\ CreatesTable(t, Unindexed(b)) \in left
  BY <1>2 DEF Reached, Held
<1>3. CASE b # NoTable /\ CreatesTable(t, Unindexed(b)) \notin left
  <2> DEFINE columns == [c \in Columns |-> ReachedColumn(a, b, left, t, c)]
             indexes == [i \in Indexes |-> ReachedIndex(a, b, left, t, i)]
  <2>1. \A c \in Columns : b.columns[c] \in Nullability \union {"absent"}
    BY <1>3, HeldIs
  <2>2. \A i \in Indexes : b.indexes[i] \in SUBSET Columns
    BY <1>3, HeldIs
  <2>3. ASSUME NEW c \in Columns
        PROVE  ReachedColumn(a, b, left, t, c) \in Nullability \union {"absent"}
    <3>1. DropsColumn(t, c) \in left => DropsColumn(t, c) \in OpsOfTable(t, a, b)
      BY OpFields DEF EndOfPlan
    <3>2. DropsColumn(t, c) \in left => a # NoTable
      BY <3>1, <1>3, Planned
    <3>3. a # NoTable => a.columns[c] \in Nullability \union {"absent"}
      BY HeldIs
    <3> QED
      BY <3>2, <3>3, <2>1 DEF ReachedColumn
  <2>4. ASSUME NEW i \in Indexes
        PROVE  ReachedIndex(a, b, left, t, i) \in SUBSET Columns
    <3>1. DropsIndex(t, i) \in left => DropsIndex(t, i) \in OpsOfTable(t, a, b)
      BY OpFields DEF EndOfPlan
    <3>2. DropsIndex(t, i) \in left => a # NoTable
      BY <3>1, <1>3, Planned
    <3>3. a # NoTable => a.indexes[i] \in SUBSET Columns
      BY HeldIs
    <3> QED
      BY <3>2, <3>3, <2>2 DEF ReachedIndex
  <2>5. Reached(a, b, left, t) = [columns |-> columns, indexes |-> indexes]
    BY <1>3 DEF Reached
  <2>6. columns \in [Columns -> Nullability \union {"absent"}] /\ indexes \in [Indexes -> SUBSET Columns]
    BY <2>3, <2>4
  <2>7. /\ \A c \in Columns : columns[c] = ReachedColumn(a, b, left, t, c)
        /\ \A i \in Indexes : indexes[i] = ReachedIndex(a, b, left, t, i)
    OBVIOUS
  <2> HIDE DEF columns, indexes
  <2> QED
    BY <1>3, <2>5, <2>6, <2>7 DEF Held, Shape, IsReached
<1> QED
  BY <1>1, <1>2, <1>3

\* Two shapes of the same columns and indexes are the same.
LEMMA ShapesEqual ==
    ASSUME NEW s \in Shape, NEW r \in Shape,
           \A c \in Columns : s.columns[c] = r.columns[c],
           \A i \in Indexes : s.indexes[i] = r.indexes[i]
    PROVE  s = r
<1>1. /\ s = [columns |-> s.columns, indexes |-> s.indexes] /\ r = [columns |-> r.columns, indexes |-> r.indexes]
      /\ s.columns \in [Columns -> Nullability \union {"absent"}]
      /\ r.columns \in [Columns -> Nullability \union {"absent"}]
      /\ s.indexes \in [Indexes -> SUBSET Columns] /\ r.indexes \in [Indexes -> SUBSET Columns]
  BY DEF Shape
<1>2. s.columns = r.columns
  BY <1>1
<1>3. s.indexes = r.indexes
  BY <1>1
<1> QED
  BY <1>1, <1>2, <1>3

LEMMA ReachedOnce ==
    ASSUME NEW s, NEW r, NEW a, NEW b, NEW left, NEW t, IsReached(s, a, b, left, t), IsReached(r, a, b, left, t)
    PROVE  s = r
  BY ShapesEqual DEF IsReached

\* Before its first statement a plan is where the table is ...
LEMMA ReachedStart ==
    ASSUME NEW t \in Tables, NEW a \in Held, NEW b \in Held, NEW left, EndOfPlan(t, a, b, left),
           OpsOfTable(t, a, b) \subseteq left
    PROVE  Reached(a, b, left, t) = a
<1>0. \A o \in left : o.table = t => o \in OpsOfTable(t, a, b) /\ ~Manual(o)
  BY DEF EndOfPlan
<1>1. CASE b = NoTable
  <2>1. DropsTable(t) \in left => DropsTable(t) \in OpsOfTable(t, a, b)
    BY <1>0, OpFields
  <2>2. DropsTable(t) \in left <=> a # NoTable
    BY <1>1, <2>1, Planned
  <2> QED
    BY <1>1, <2>2, ReachedIn
<1>2. CASE b # NoTable /\ a = NoTable
  <2>1. CreatesTable(t, Unindexed(b)) \in left
    BY <1>2, Planned
  <2> QED
    BY <1>2, <2>1, ReachedIn
<1>3. CASE b # NoTable /\ a # NoTable
  <2>1. CreatesTable(t, Unindexed(b)) \notin left
    <3>1. CreatesTable(t, Unindexed(b)) \in left => CreatesTable(t, Unindexed(b)) \in OpsOfTable(t, a, b)
      BY <1>0, OpFields
    <3> QED
      BY <1>3, <3>1, Planned
  <2>2. ASSUME NEW c \in Columns
        PROVE  ReachedColumn(a, b, left, t, c) = a.columns[c]
    <3>1. AddsColumn(t, c, b.columns[c]) \in left => AddsColumn(t, c, b.columns[c]) \in OpsOfTable(t, a, b)
      BY <1>0, OpFields
    <3>2. DropsColumn(t, c) \in left => DropsColumn(t, c) \in OpsOfTable(t, a, b)
      BY <1>0, OpFields
    <3>3. AltersColumn(t, c, b.columns[c]) \notin OpsOfTable(t, a, b)
      <4> DEFINE op == AltersColumn(t, c, b.columns[c])
      <4>1. op.op = "alterColumn" /\ op.table = t
        BY OpFields
      <4> HIDE DEF op
      <4>2. op \notin OpsOfTable(t, a, b)
        BY <4>1, <1>0 DEF Manual
      <4> QED
        BY <4>2 DEF op
    <3> QED
      BY <1>3, <3>1, <3>2, <3>3, Planned DEF ReachedColumn
  <2>3. ASSUME NEW i \in Indexes
        PROVE  ReachedIndex(a, b, left, t, i) = a.indexes[i]
    <3>1. DropsIndex(t, i) \in left => DropsIndex(t, i) \in OpsOfTable(t, a, b)
      BY <1>0, OpFields
    <3>2. CreatesIndex(t, i, b.indexes[i]) \in left => CreatesIndex(t, i, b.indexes[i]) \in OpsOfTable(t, a, b)
      BY <1>0, OpFields
    <3>3. /\ DropsIndex(t, i) \in OpsOfTable(t, a, b) <=> a.indexes[i] # {} /\ a.indexes[i] # b.indexes[i]
          /\ CreatesIndex(t, i, b.indexes[i]) \in OpsOfTable(t, a, b) <=>
                b.indexes[i] # {} /\ a.indexes[i] # b.indexes[i]
      BY <1>3, Planned
    <3>4. CASE a.indexes[i] # {} /\ a.indexes[i] # b.indexes[i]
      BY <3>3, <3>4 DEF ReachedIndex
    <3>5. CASE a.indexes[i] = {} /\ a.indexes[i] # b.indexes[i]
      BY <3>1, <3>3, <3>5 DEF ReachedIndex
    <3>6. CASE a.indexes[i] = b.indexes[i]
      BY <3>1, <3>2, <3>3, <3>6 DEF ReachedIndex
    <3> QED
      BY <3>4, <3>5, <3>6
  <2>4. a \in Shape
    BY <1>3, HeldIs
  <2> QED
    <3>1. IsReached(a, a, b, left, t)
      BY <2>2, <2>3, <2>4 DEF IsReached
    <3> QED
      BY <1>3, <2>1, <3>1, ReachedIn, ReachedOnce
<1> QED
  BY <1>1, <1>2, <1>3

\* ... and after its last it is where it leads.
LEMMA ReachedEnd ==
    ASSUME NEW t \in Tables, NEW a \in Held, NEW b \in Held
    PROVE  EndOfPlan(t, a, b, {}) /\ Reached(a, b, {}, t) = b
<1>1. EndOfPlan(t, a, b, {})
  BY DEF EndOfPlan
<1>2. CASE b = NoTable
  BY <1>1, <1>2, ReachedIn
<1>3. CASE b # NoTable
  <2>1. \A c \in Columns : ReachedColumn(a, b, {}, t, c) = b.columns[c]
    BY DEF ReachedColumn
  <2>2. \A i \in Indexes : ReachedIndex(a, b, {}, t, i) = b.indexes[i]
    BY DEF ReachedIndex
  <2>3. b \in Shape
    BY <1>3, HeldIs
  <2> QED
    <3>1. IsReached(b, a, b, {}, t)
      BY <2>1, <2>2, <2>3 DEF IsReached
    <3> QED
      BY <1>1, <1>3, <3>1, ReachedIn, ReachedOnce
<1> QED
  BY <1>1, <1>2, <1>3

LEMMA FieldsDiffer ==
    ASSUME NEW t \in Tables, NEW op, NEW left
    PROVE  /\ op.op # "create" => \A x : CreatesTable(t, x) \in left \ {op} <=> CreatesTable(t, x) \in left
           /\ op.op # "drop" => (DropsTable(t) \in left \ {op} <=> DropsTable(t) \in left)
           /\ op.op # "addColumn" => \A c, x : AddsColumn(t, c, x) \in left \ {op} <=> AddsColumn(t, c, x) \in left
           /\ op.op # "dropColumn" => \A c : DropsColumn(t, c) \in left \ {op} <=> DropsColumn(t, c) \in left
           /\ op.op # "dropIndex" => \A i : DropsIndex(t, i) \in left \ {op} <=> DropsIndex(t, i) \in left
           /\ op.op # "createIndex" =>
                \A i, x : CreatesIndex(t, i, x) \in left \ {op} <=> CreatesIndex(t, i, x) \in left
           /\ \A c, x : c # op.column => (AddsColumn(t, c, x) \in left \ {op} <=> AddsColumn(t, c, x) \in left)
           /\ \A c : c # op.column => (DropsColumn(t, c) \in left \ {op} <=> DropsColumn(t, c) \in left)
           /\ \A i : i # op.index => (DropsIndex(t, i) \in left \ {op} <=> DropsIndex(t, i) \in left)
           /\ \A i, x : i # op.index => (CreatesIndex(t, i, x) \in left \ {op} <=> CreatesIndex(t, i, x) \in left)
<1>1. op.op # "create" => \A x : CreatesTable(t, x) # op
  BY OpFields
<1>2. op.op # "drop" => DropsTable(t) # op
  BY OpFields
<1>3. op.op # "addColumn" => \A c, x : AddsColumn(t, c, x) # op
  BY OpFields
<1>4. op.op # "dropColumn" => \A c : DropsColumn(t, c) # op
  BY OpFields
<1>5. op.op # "dropIndex" => \A i : DropsIndex(t, i) # op
  BY OpFields
<1>6. op.op # "createIndex" => \A i, x : CreatesIndex(t, i, x) # op
  BY OpFields
<1>7. /\ \A c, x : c # op.column => AddsColumn(t, c, x) # op
      /\ \A c : c # op.column => DropsColumn(t, c) # op
  BY OpFields
<1>8. /\ \A i, x : i # op.index => CreatesIndex(t, i, x) # op
      /\ \A i : i # op.index => DropsIndex(t, i) # op
  BY OpFields
<1> QED
  BY <1>1, <1>2, <1>3, <1>4, <1>5, <1>6, <1>7, <1>8

\* A statement of one table leaves where the plan of another one is.
LEMMA OthersUnmoved ==
    ASSUME NEW t \in Tables, NEW a \in Held, NEW b \in Held, NEW left, NEW op, op.table # t
    PROVE  /\ Reached(a, b, left \ {op}, t) = Reached(a, b, left, t)
           /\ EndOfPlan(t, a, b, left) => EndOfPlan(t, a, b, left \ {op})
<1>1. \A c, i, x : /\ CreatesTable(t, x) # op /\ DropsTable(t) # op /\ AddsColumn(t, c, x) # op
                   /\ DropsColumn(t, c) # op /\ DropsIndex(t, i) # op /\ CreatesIndex(t, i, x) # op
  BY OpFields
<1>2. \A p \in OpsOfTable(t, a, b) : p # op
  BY OpsAre
<1>3. \A c \in Columns : ReachedColumn(a, b, left \ {op}, t, c) = ReachedColumn(a, b, left, t, c)
  BY <1>1 DEF ReachedColumn
<1>4. \A i \in Indexes : ReachedIndex(a, b, left \ {op}, t, i) = ReachedIndex(a, b, left, t, i)
  BY <1>1 DEF ReachedIndex
<1>5. Reached(a, b, left \ {op}, t) = Reached(a, b, left, t)
  BY <1>1, <1>3, <1>4 DEF Reached
<1> QED
  BY <1>2, <1>5 DEF EndOfPlan

\* Taking the first of what is left leaves the end of the plan.
LEMMA EndGoesOn ==
    ASSUME NEW t \in Tables, NEW a \in Held, NEW b \in Held, NEW left, EndOfPlan(t, a, b, left),
           NEW op \in left, op.table = t, \A o \in left : o.table = t => ~(PhaseOf(o) < PhaseOf(op))
    PROVE  EndOfPlan(t, a, b, left \ {op})
  BY DEF EndOfPlan

\* No column is left to add or drop, no index to drop, before what comes after those.
LEMMA NothingBefore ==
    ASSUME NEW t \in Tables, NEW left, NEW op, op.table = t,
           \A o \in left : o.table = t => ~(PhaseOf(o) < PhaseOf(op))
    PROVE  /\ op.op = "dropColumn" => \A c, i, x :
                 AddsColumn(t, c, x) \notin left /\ DropsIndex(t, i) \notin left
           /\ op.op = "createIndex" => \A c, i, x :
                 /\ CreatesTable(t, x) \notin left /\ AddsColumn(t, c, x) \notin left
                 /\ DropsColumn(t, c) \notin left /\ DropsIndex(t, i) \notin left
<1>1. \A c, i, x : /\ PhaseOf(CreatesTable(t, x)) = 1 /\ PhaseOf(AddsColumn(t, c, x)) = 1
                   /\ PhaseOf(DropsIndex(t, i)) = 2 /\ PhaseOf(DropsColumn(t, c)) = 3
                   /\ CreatesTable(t, x).table = t /\ AddsColumn(t, c, x).table = t
                   /\ DropsIndex(t, i).table = t /\ DropsColumn(t, c).table = t
  BY OpFields, PhaseIs
<1>2. ASSUME op.op = "dropColumn"
      PROVE  \A c, i, x : AddsColumn(t, c, x) \notin left /\ DropsIndex(t, i) \notin left
  <2>1. PhaseOf(op) = 3
    BY <1>2, PhaseIs
  <2>2. 1 < 3 /\ 2 < 3
    OBVIOUS
  <2> QED
    BY <1>1, <2>1, <2>2
<1>3. ASSUME op.op = "createIndex"
      PROVE  \A c, i, x : /\ CreatesTable(t, x) \notin left /\ AddsColumn(t, c, x) \notin left
                          /\ DropsColumn(t, c) \notin left /\ DropsIndex(t, i) \notin left
  <2>1. PhaseOf(op) = 4
    BY <1>3, PhaseIs
  <2>2. 1 < 4 /\ 2 < 4 /\ 3 < 4
    OBVIOUS
  <2> QED
    BY <1>1, <2>1, <2>2
<1> QED
  BY <1>2, <1>3

\* The later statements that are planned are left while an earlier one is.
LEMMA AllAfter ==
    ASSUME NEW t \in Tables, NEW a \in Held, NEW b \in Held, NEW left, EndOfPlan(t, a, b, left),
           NEW op \in left, op.table = t
    PROVE  op.op \in {"create", "addColumn", "dropIndex", "dropColumn"} =>
             \A i \in Indexes : CreatesIndex(t, i, b.indexes[i]) \in OpsOfTable(t, a, b) =>
                CreatesIndex(t, i, b.indexes[i]) \in left
<1> SUFFICES ASSUME op.op \in {"create", "addColumn", "dropIndex", "dropColumn"}, NEW i \in Indexes,
                    CreatesIndex(t, i, b.indexes[i]) \in OpsOfTable(t, a, b)
             PROVE  CreatesIndex(t, i, b.indexes[i]) \in left
  OBVIOUS
<1>1. PhaseOf(op) \in {1, 2, 3}
  BY PhaseIs
<1>2. PhaseOf(CreatesIndex(t, i, b.indexes[i])) = 4
  BY OpFields, PhaseIs
<1> QED
  BY <1>1, <1>2 DEF EndOfPlan

\* The next statement of a plan fits the table, and brings it one statement further.
LEMMA StatementFits ==
    ASSUME NEW t \in Tables, NEW a \in Held, NEW b \in Held, SoundShape(b),
           NEW left, EndOfPlan(t, a, b, left),
           NEW op \in left, op.table = t, \A o \in left : o.table = t => ~(PhaseOf(o) < PhaseOf(op)),
           NEW rest, rest = left \ {op}
    PROVE  /\ Fits(op, Reached(a, b, left, t))
           /\ Done(op, Reached(a, b, left, t)) = Reached(a, b, rest, t)
<1> DEFINE now == Reached(a, b, left, t)
           next == Reached(a, b, rest, t)
<1>0. op \in OpsOfTable(t, a, b) /\ ~Manual(op)
  BY DEF EndOfPlan
<1>1. /\ EndOfPlan(t, a, b, rest)
      /\ \A o : o \in rest => o \in left
      /\ op \notin rest
  BY EndGoesOn
<1>2. \A c, i, x : /\ (AddsColumn(t, c, x) \in left => AddsColumn(t, c, x) \in OpsOfTable(t, a, b))
                   /\ (DropsColumn(t, c) \in left => DropsColumn(t, c) \in OpsOfTable(t, a, b))
                   /\ (DropsIndex(t, i) \in left => DropsIndex(t, i) \in OpsOfTable(t, a, b))
                   /\ (CreatesIndex(t, i, x) \in left => CreatesIndex(t, i, x) \in OpsOfTable(t, a, b))
                   /\ (CreatesTable(t, x) \in left => CreatesTable(t, x) \in OpsOfTable(t, a, b))
  BY OpFields DEF EndOfPlan
<1>3. CASE op.op = "drop"
  <2>1. b = NoTable /\ a # NoTable /\ op = DropsTable(t)
    BY <1>0, <1>3, OpsByName
  <2>2. now = a /\ next = NoTable
    BY <1>1, <2>1, ReachedIn
  <2> QED
    BY <1>3, <2>1, <2>2 DEF Fits, Done
<1>4. CASE op.op = "create"
  <2>1. b # NoTable /\ a = NoTable /\ op = CreatesTable(t, Unindexed(b)) /\ op.def = Unindexed(b)
    <3>1. b # NoTable /\ a = NoTable /\ op = CreatesTable(t, Unindexed(b))
      BY <1>0, <1>4, OpsByName
    <3> QED
      BY <3>1, OpFields
  <2>2. now = NoTable
    BY <2>1, ReachedIn
  <2>3. IsReached(next, a, b, rest, t)
    <3>1. CreatesTable(t, Unindexed(b)) \notin rest
      BY <1>1, <2>1
    <3> QED
      BY <1>1, <2>1, <3>1, ReachedIn
  <2>4. ASSUME NEW c \in Columns
        PROVE  ReachedColumn(a, b, rest, t, c) = b.columns[c]
    <3>1. AddsColumn(t, c, b.columns[c]) \notin left /\ DropsColumn(t, c) \notin left
      BY <1>2, <2>1, PlannedColumn, PlannedIndex
    <3> QED
      BY <1>1, <3>1 DEF ReachedColumn
  <2>5. ASSUME NEW i \in Indexes
        PROVE  ReachedIndex(a, b, rest, t, i) = {}
    <3>1. b.indexes[i] # {} => CreatesIndex(t, i, b.indexes[i]) \in left
      BY <1>4, <2>1, PlannedColumn, PlannedIndex, AllAfter
    <3>2. DropsIndex(t, i) \notin left
      BY <1>2, <2>1, PlannedColumn, PlannedIndex
    <3>3. CreatesIndex(t, i, b.indexes[i]) \in rest <=> CreatesIndex(t, i, b.indexes[i]) \in left
      BY <1>4, FieldsDiffer
    <3> QED
      BY <3>1, <3>2, <3>3 DEF ReachedIndex
  <2>6. /\ Unindexed(b) \in Shape /\ Unindexed(b).columns = b.columns
        /\ \A i \in Indexes : Unindexed(b).indexes[i] = {}
    BY <2>1, HeldIs DEF Unindexed, Shape
  <2>7. next = Unindexed(b)
    <3>1. IsReached(Unindexed(b), a, b, rest, t)
      BY <2>4, <2>5, <2>6 DEF IsReached
    <3> QED
      BY <2>3, <3>1, ReachedOnce
  <2> QED
    BY <1>4, <2>1, <2>2, <2>7 DEF Fits, Done
<1>5. ASSUME op.op \in {"addColumn", "dropColumn", "dropIndex", "createIndex"}
      PROVE  /\ b # NoTable /\ now # NoTable
             /\ IsReached(now, a, b, left, t) /\ IsReached(next, a, b, rest, t)
  <2>1. b # NoTable /\ (op.op # "createIndex" => a # NoTable)
    BY <1>0, <1>5, OpsByName
  <2>2. CreatesTable(t, Unindexed(b)) \notin left
    <3>1. CASE op.op = "createIndex"
      BY <3>1, NothingBefore
    <3>2. CASE op.op # "createIndex"
      <4>1. CreatesTable(t, Unindexed(b)) \notin OpsOfTable(t, a, b)
        BY <2>1, <3>2, Planned
      <4> QED
        BY <1>2, <4>1
    <3> QED
      BY <3>1, <3>2
  <2>3. CreatesTable(t, Unindexed(b)) \notin rest
    BY <1>1, <2>2
  <2>4. IsReached(now, a, b, left, t)
    BY <2>1, <2>2, ReachedIn
  <2>5. IsReached(next, a, b, rest, t)
    BY <1>1, <2>1, <2>3, ReachedIn
  <2> QED
    BY <2>1, <2>4, <2>5, NoTableApart DEF IsReached
<1> HIDE DEF now, next
<1>6. CASE op.op = "addColumn"
  <2>0. /\ b # NoTable /\ now \in Shape /\ now # NoTable /\ IsReached(next, a, b, rest, t)
        /\ \A c \in Columns : now.columns[c] = ReachedColumn(a, b, left, t, c)
        /\ \A i \in Indexes : now.indexes[i] = ReachedIndex(a, b, left, t, i)
    BY <1>5, <1>6 DEF IsReached
  <2>1. /\ a # NoTable /\ op.column \in Columns /\ b.columns[op.column] # "absent" /\ a.columns[op.column] = "absent"
        /\ op = AddsColumn(t, op.column, b.columns[op.column])
    BY <1>0, <1>6, OpsByName
  <2>2. op.null = b.columns[op.column]
    BY <2>1, OpFields
  <2>3. now.columns[op.column] = "absent"
    BY <1>6, <2>0, <2>1 DEF ReachedColumn
  <2>4. Fits(op, now)
    BY <1>6, <2>0, <2>3 DEF Fits, Present
  <2>5. ReachedColumn(a, b, rest, t, op.column) = b.columns[op.column]
    BY <1>2, <1>6, <2>0, <2>1, PlannedColumn, PlannedIndex DEF ReachedColumn
  <2>6. \A c \in Columns : c # op.column => ReachedColumn(a, b, rest, t, c) = ReachedColumn(a, b, left, t, c)
    BY FieldsDiffer DEF ReachedColumn
  <2>7. \A i \in Indexes : ReachedIndex(a, b, rest, t, i) = ReachedIndex(a, b, left, t, i)
    BY <1>6, FieldsDiffer DEF ReachedIndex
  <2>8. Done(op, now) = [now EXCEPT !.columns[op.column] = op.null]
    BY <1>6 DEF Done
  <2>9. /\ Done(op, now) \in Shape
        /\ \A c \in Columns : Done(op, now).columns[c] = IF c = op.column THEN op.null ELSE now.columns[c]
        /\ \A i \in Indexes : Done(op, now).indexes[i] = now.indexes[i]
    BY <1>6, <2>0, <2>1, <2>2, <2>8, HeldIs DEF Shape
  <2>10. Done(op, now) = next
    <3>1. IsReached(Done(op, now), a, b, rest, t)
      BY <1>6, <2>0, <2>2, <2>5, <2>6, <2>7, <2>9 DEF IsReached
    <3> QED
      BY <2>0, <3>1, ReachedOnce
  <2> QED
    BY <2>4, <2>10 DEF now, next
<1>7. CASE op.op = "dropIndex"
  <2>0. /\ b # NoTable /\ now \in Shape /\ now # NoTable /\ IsReached(next, a, b, rest, t)
        /\ \A c \in Columns : now.columns[c] = ReachedColumn(a, b, left, t, c)
        /\ \A i \in Indexes : now.indexes[i] = ReachedIndex(a, b, left, t, i)
    BY <1>5, <1>7 DEF IsReached
  <2>1. /\ a # NoTable /\ op.index \in Indexes /\ a.indexes[op.index] # {} /\ op = DropsIndex(t, op.index)
    BY <1>0, <1>7, OpsByName
  <2>2. now.indexes[op.index] = a.indexes[op.index]
    BY <1>7, <2>0, <2>1 DEF ReachedIndex
  <2>3. Fits(op, now)
    BY <1>7, <2>0, <2>1, <2>2 DEF Fits
  <2>4. ReachedIndex(a, b, rest, t, op.index) = {}
    <3>1. CreatesIndex(t, op.index, b.indexes[op.index]) \in OpsOfTable(t, a, b) =>
            CreatesIndex(t, op.index, b.indexes[op.index]) \in rest
      BY <1>7, <2>1, AllAfter, FieldsDiffer
    <3>2. DropsIndex(t, op.index) \in OpsOfTable(t, a, b) /\ DropsIndex(t, op.index) \notin rest
      BY <1>0, <2>1
    <3>3. a.indexes[op.index] # b.indexes[op.index]
      BY <1>7, <2>0, <2>1, <3>2, PlannedColumn, PlannedIndex
    <3>4. b.indexes[op.index] # {} => CreatesIndex(t, op.index, b.indexes[op.index]) \in OpsOfTable(t, a, b)
      BY <1>7, <2>0, <2>1, <3>3, PlannedColumn, PlannedIndex
    <3> QED
      BY <3>1, <3>2, <3>4 DEF ReachedIndex
  <2>5. \A i \in Indexes : i # op.index => ReachedIndex(a, b, rest, t, i) = ReachedIndex(a, b, left, t, i)
    BY FieldsDiffer DEF ReachedIndex
  <2>6. \A c \in Columns : ReachedColumn(a, b, rest, t, c) = ReachedColumn(a, b, left, t, c)
    BY <1>7, FieldsDiffer DEF ReachedColumn
  <2>7. Done(op, now) = [now EXCEPT !.indexes[op.index] = {}]
    BY <1>7 DEF Done
  <2>8. /\ Done(op, now) \in Shape
        /\ \A c \in Columns : Done(op, now).columns[c] = now.columns[c]
        /\ \A i \in Indexes : Done(op, now).indexes[i] = IF i = op.index THEN {} ELSE now.indexes[i]
    BY <1>7, <2>0, <2>1, <2>7 DEF Shape
  <2>9. Done(op, now) = next
    <3>1. IsReached(Done(op, now), a, b, rest, t)
      BY <1>7, <2>0, <2>4, <2>5, <2>6, <2>8 DEF IsReached
    <3> QED
      BY <2>0, <3>1, ReachedOnce
  <2> QED
    BY <2>3, <2>9 DEF now, next
<1>8. CASE op.op = "dropColumn"
  <2>0. /\ b # NoTable /\ now \in Shape /\ now # NoTable /\ IsReached(next, a, b, rest, t)
        /\ \A c \in Columns : now.columns[c] = ReachedColumn(a, b, left, t, c)
        /\ \A i \in Indexes : now.indexes[i] = ReachedIndex(a, b, left, t, i)
    BY <1>5, <1>8 DEF IsReached
  <2>1. /\ a # NoTable /\ op.column \in Columns /\ b.columns[op.column] = "absent" /\ a.columns[op.column] # "absent"
        /\ op = DropsColumn(t, op.column)
    BY <1>0, <1>8, OpsByName
  <2>2. \A c, i, x : AddsColumn(t, c, x) \notin left /\ DropsIndex(t, i) \notin left
    BY <1>8, NothingBefore
  <2>3. now.columns[op.column] = a.columns[op.column]
    BY <1>8, <2>0, <2>1, <2>2 DEF ReachedColumn
  <2>4. Fits(op, now)
    BY <1>8, <2>0, <2>1, <2>3 DEF Fits, Present
  <2>5. ReachedColumn(a, b, rest, t, op.column) = "absent"
    BY <2>1, <2>2 DEF ReachedColumn
  <2>6. \A c \in Columns : c # op.column => ReachedColumn(a, b, rest, t, c) = ReachedColumn(a, b, left, t, c)
    BY FieldsDiffer DEF ReachedColumn
  <2>7. \A i \in Indexes : ReachedIndex(a, b, rest, t, i) = ReachedIndex(a, b, left, t, i)
    BY <1>8, FieldsDiffer DEF ReachedIndex
  <2>8. \A i \in Indexes : op.column \notin now.indexes[i]
    <3> SUFFICES ASSUME NEW i \in Indexes PROVE op.column \notin ReachedIndex(a, b, left, t, i)
      BY <1>8, <2>0
    <3>1. b.indexes[i] \subseteq { c \in Columns : b.columns[c] # "absent" }
      BY <1>8, <2>0 DEF SoundShape
    <3>2. op.column \notin b.indexes[i]
      BY <2>1, <3>1
    <3> QED
      BY <2>2, <3>2 DEF ReachedIndex
  <2>9. Done(op, now) = [columns |-> [now.columns EXCEPT ![op.column] = "absent"],
                         indexes |-> [i \in Indexes |-> IF op.column \in now.indexes[i] THEN {} ELSE now.indexes[i]]]
    BY <1>8 DEF Done
  <2>10. /\ Done(op, now) \in Shape
         /\ \A c \in Columns : Done(op, now).columns[c] = IF c = op.column THEN "absent" ELSE now.columns[c]
         /\ \A i \in Indexes : Done(op, now).indexes[i] = now.indexes[i]
    <3>1. now.columns \in [Columns -> Nullability \union {"absent"}] /\ now.indexes \in [Indexes -> SUBSET Columns]
      BY <1>8, <2>0 DEF Shape
    <3>2. [now.columns EXCEPT ![op.column] = "absent"] \in [Columns -> Nullability \union {"absent"}]
      BY <3>1
    <3>3. [i \in Indexes |-> IF op.column \in now.indexes[i] THEN {} ELSE now.indexes[i]] \in [Indexes -> SUBSET Columns]
      BY <3>1
    <3>4. \A c \in Columns : [now.columns EXCEPT ![op.column] = "absent"][c] =
                                IF c = op.column THEN "absent" ELSE now.columns[c]
      BY <3>1
    <3> QED
      BY <2>8, <2>9, <3>2, <3>3, <3>4 DEF Shape
  <2>11. Done(op, now) = next
    <3>1. IsReached(Done(op, now), a, b, rest, t)
      BY <1>8, <2>0, <2>5, <2>6, <2>7, <2>10 DEF IsReached
    <3> QED
      BY <2>0, <3>1, ReachedOnce
  <2> QED
    BY <2>4, <2>11 DEF now, next
<1>9. CASE op.op = "createIndex"
  <2>0. /\ b # NoTable /\ now \in Shape /\ now # NoTable /\ IsReached(next, a, b, rest, t)
        /\ \A c \in Columns : now.columns[c] = ReachedColumn(a, b, left, t, c)
        /\ \A i \in Indexes : now.indexes[i] = ReachedIndex(a, b, left, t, i)
    BY <1>5, <1>9 DEF IsReached
  <2>1. /\ op.index \in Indexes /\ b.indexes[op.index] # {} /\ op = CreatesIndex(t, op.index, b.indexes[op.index])
    BY <1>0, <1>9, OpsByName
  <2>2. op.on = b.indexes[op.index]
    BY <2>1, OpFields
  <2>3. \A c, i, x : /\ CreatesTable(t, x) \notin left /\ AddsColumn(t, c, x) \notin left
                     /\ DropsColumn(t, c) \notin left /\ DropsIndex(t, i) \notin left
    BY <1>9, NothingBefore
  <2>4. now.indexes[op.index] = {}
    BY <1>9, <2>0, <2>1, <2>3 DEF ReachedIndex
  <2>5. \A c \in Columns : now.columns[c] = b.columns[c]
    BY <1>9, <2>0, <2>3 DEF ReachedColumn
  <2>6. op.on \subseteq Present(now)
    BY <1>9, <2>0, <2>1, <2>2, <2>5 DEF SoundShape, Present
  <2>7. Fits(op, now)
    BY <1>9, <2>0, <2>4, <2>6 DEF Fits
  <2>8. ReachedIndex(a, b, rest, t, op.index) = b.indexes[op.index]
    BY <2>1, <2>3 DEF ReachedIndex
  <2>9. \A i \in Indexes : i # op.index => ReachedIndex(a, b, rest, t, i) = ReachedIndex(a, b, left, t, i)
    BY FieldsDiffer DEF ReachedIndex
  <2>10. \A c \in Columns : ReachedColumn(a, b, rest, t, c) = ReachedColumn(a, b, left, t, c)
    BY <1>9, FieldsDiffer DEF ReachedColumn
  <2>11. Done(op, now) = [now EXCEPT !.indexes[op.index] = op.on]
    BY <1>9 DEF Done
  <2>12. op.on \in SUBSET Columns
    BY <2>6 DEF Present
  <2>13. /\ Done(op, now) \in Shape
         /\ \A c \in Columns : Done(op, now).columns[c] = now.columns[c]
         /\ \A i \in Indexes : Done(op, now).indexes[i] = IF i = op.index THEN op.on ELSE now.indexes[i]
    BY <1>9, <2>0, <2>1, <2>11, <2>12 DEF Shape
  <2>14. Done(op, now) = next
    <3>1. IsReached(Done(op, now), a, b, rest, t)
      BY <1>9, <2>0, <2>2, <2>8, <2>9, <2>10, <2>13 DEF IsReached
    <3> QED
      BY <2>0, <3>1, ReachedOnce
  <2> QED
    BY <2>7, <2>14 DEF now, next
<1>10. op.op \in {"create", "drop", "addColumn", "dropColumn", "createIndex", "dropIndex"}
  BY <1>0, OpsByName DEF Manual
<1> QED
  BY <1>3, <1>4, <1>6, <1>7, <1>8, <1>9, <1>10 DEF now, next

-----------------------------------------------------------------------------
(* Steps.                                                                  *)

Works == UNION { [S -> Shape \union {NoTable}] : S \in SUBSET Tables }

LEMMA WorkIs ==
    ASSUME NEW work
    PROVE  work \in Works <=> /\ DOMAIN work \subseteq Tables /\ work = [t \in DOMAIN work |-> work[t]]
                              /\ \A t \in DOMAIN work : work[t] \in Held
  BY DEF Works, Held

LEMMA TxIs ==
    ASSUME MgTypes, NEW m \in Migrators
    PROVE  /\ mgTx[m] = NoTx \/ mgTx[m] \in TxRecord
           /\ mgTx[m] # NoTx <=> mgTx[m].step # "none"
           /\ mgTx[m].work \in Works
           /\ \A t \in Tables : View(m, t) \in Held
<1>1. mgTx[m] = NoTx \/ mgTx[m] \in TxRecord
  BY DEF MgTypes
<1>2. NoTx.step = "none" /\ NoTx.work = NothingTouched /\ NothingTouched \in Works
  <2>1. NoTx.step = "none" /\ NoTx.work = NothingTouched
    BY DEF NoTx
  <2>2. DOMAIN NothingTouched = {} /\ NothingTouched = [t \in DOMAIN NothingTouched |-> NothingTouched[t]]
    BY DEF NothingTouched
  <2> QED
    BY <2>1, <2>2, WorkIs
<1>3. \A tx \in TxRecord : tx.step # "none" /\ tx.work \in Works
  BY DEF TxRecord, Works
<1>4. mgTx[m].work \in Works
  BY <1>1, <1>2, <1>3
<1>5. ASSUME NEW t \in Tables
      PROVE  View(m, t) \in Held
  BY <1>4, WorkIs DEF View, MgTypes, MgTypeOK, Physical, Held
<1> QED
  BY <1>1, <1>2, <1>3, <1>4, <1>5

\* What a transaction did not change keeps what holds of it.
LEMMA OthersKept ==
    ASSUME NEW n \in Migrators, TxKept(n), mgTx'[n] = mgTx[n], UNCHANGED <<mgPhysical, mgMarker, mgRecorded>>
    PROVE  TxKept(n)'
<1>1. \A t : View(n, t)' = View(n, t)
  BY DEF View
<1>2. \A own, d : Target(own, d)' = Target(own, d)
  BY DEF Target
<1>3. \A own, d : Refused(own, d)' = Refused(own, d)
  BY DEF Refused
<1>4. PlanKept(n) => PlanKept(n)'
  BY <1>1, <1>2, <1>3 DEF PlanKept
<1>5. HandKept(n) => HandKept(n)'
  BY DEF HandKept
<1> QED
  BY <1>4, <1>5 DEF TxKept

\* A step of a transaction that leaves the database as it is.
LEMMA MoveKeeps ==
    ASSUME MgInv, NEW m \in Migrators, NEW tx \in TxRecord \union {NoTx}, TxGoes(m, tx),
           UNCHANGED <<mgPhysical, mgMarker, mgRecorded, mgBroken>>,
           mgLock' = mgLock \/ (mgLock \in {m, NoMigrator} /\ mgLock' \in {m, NoMigrator}),
           tx.step \in Locked => mgLock' = m,
           \A n \in Migrators \ {m} : DOMAIN tx.work \intersect DOMAIN mgTx[n].work = {},
           TxKept(m)'
    PROVE  MgInv'
<1>1. mgTx \in [Migrators -> TxRecord \union {NoTx}] /\ MgTypeOK /\ ~mgBroken
  BY DEF MgInv, MgTypes
<1>2. /\ mgTx' \in [Migrators -> TxRecord \union {NoTx}] /\ mgTx'[m] = tx
      /\ \A n \in Migrators \ {m} : mgTx'[n] = mgTx[n]
  BY <1>1 DEF TxGoes
<1>3. MgTypes' /\ ~mgBroken'
  BY <1>1, <1>2 DEF MgTypes, MgTypeOK
<1>4. LockKept'
  <2> SUFFICES ASSUME NEW n \in Migrators, mgTx'[n].step \in Locked PROVE mgLock' = n
    BY DEF LockKept
  <2>1. CASE n = m
    BY <1>2, <2>1
  <2>2. CASE n # m
    <3>1. mgLock = n
      BY <1>2, <2>2 DEF MgInv, LockKept
    <3> QED
      BY <2>2, <3>1, MigrationAssumption
  <2> QED
    BY <2>1, <2>2
<1>5. WorkApart'
  <2> SUFFICES ASSUME NEW n \in Migrators, NEW o \in Migrators, n # o
               PROVE  DOMAIN mgTx'[n].work \intersect DOMAIN mgTx'[o].work = {}
    BY DEF WorkApart
  <2>1. DOMAIN mgTx[n].work \intersect DOMAIN mgTx[o].work = {}
    BY DEF MgInv, WorkApart
  <2> QED
    BY <1>2, <2>1
<1>6. MarkerKept' /\ RecordedKept'
  BY DEF MgInv, MarkerKept, RecordedKept, There
<1>7. \A n \in Migrators : TxKept(n)'
  BY <1>2, OthersKept DEF MgInv
<1> QED
  BY <1>3, <1>4, <1>5, <1>6, <1>7 DEF MgInv

LEMMA NoTxKept ==
    /\ NoTx.step = "none" /\ DOMAIN NoTx.work = {}
    /\ \A m \in Migrators : mgTx'[m] = NoTx => TxKept(m)'
<1>1. NoTx.step = "none" /\ DOMAIN NoTx.work = {}
  BY DEF NoTx, NothingTouched
<1> QED
  BY <1>1 DEF TxKept

LEMMA RollsBackKeeps ==
    ASSUME MgInv, NEW m \in Migrators, RollsBack(m), UNCHANGED <<mgPhysical, mgMarker, mgRecorded, mgBroken>>
    PROVE  MgInv'
<1>1. TxGoes(m, NoTx) /\ mgTx'[m] = NoTx
  BY DEF RollsBack, TxGoes, MgInv, MgTypes
<1>2. mgLock' = mgLock \/ (mgLock \in {m, NoMigrator} /\ mgLock' \in {m, NoMigrator})
  BY DEF RollsBack
<1>3. "none" \notin Locked
  BY DEF Locked
<1> QED
  BY <1>1, <1>2, <1>3, NoTxKept, MoveKeeps

LEMMA AbortKeeps ==
    ASSUME MgInv, NEW m \in Migrators, Abort(m)
    PROVE  MgInv'
  BY RollsBackKeeps DEF Abort

LEMMA BeginIs ==
    ASSUME NEW d \in Deployments, NEW own \in Schema, NEW allow \in BOOLEAN,
           NEW step \in {"lock", "byHand"}
    PROVE  LET tx == BeginTx(d, own, allow, step) IN
           /\ tx \in TxRecord /\ tx.step = step /\ tx.own = own /\ tx.left = {} /\ DOMAIN tx.work = {}
<1>1. NothingTouched \in Works /\ DOMAIN NothingTouched = {}
  <2>1. DOMAIN NothingTouched = {} /\ NothingTouched = [t \in DOMAIN NothingTouched |-> NothingTouched[t]]
    BY DEF NothingTouched
  <2> QED
    BY <2>1, WorkIs
<1> QED
  BY <1>1 DEF BeginTx, TxRecord, Works

LEMMA BeginKeeps ==
    ASSUME MgInv, NEW m \in Migrators, NEW d \in Deployments, NEW own \in Releases[d], NEW allow \in BOOLEAN,
           NEW step \in {"lock", "byHand"}, TxGoes(m, BeginTx(d, own, allow, step)),
           UNCHANGED <<mgPhysical, mgMarker, mgRecorded, mgLock, mgBroken>>
    PROVE  MgInv'
<1> DEFINE tx == BeginTx(d, own, allow, step)
<1>1. own \in Schema /\ Sound(own)
  BY MigrationAssumption
<1>2. tx \in TxRecord /\ tx.step = step /\ tx.own = own /\ tx.left = {} /\ DOMAIN tx.work = {}
  BY <1>1, BeginIs
<1>3. TxGoes(m, tx) /\ mgTx'[m] = tx
  BY DEF TxGoes, MgInv, MgTypes
<1> HIDE DEF tx
<1>4. tx.step \notin Locked /\ tx.step # "exec" /\ tx.step # "none"
  BY <1>2 DEF Locked
<1>5. TxKept(m)'
  BY <1>1, <1>2, <1>3, <1>4 DEF TxKept, HandKept
<1> QED
  BY <1>2, <1>3, <1>4, <1>5, MoveKeeps

LEMMA MigrateOneKeeps ==
    ASSUME MgInv, NEW m \in Migrators, NEW d \in Deployments, NEW own \in Releases[d], NEW allow \in BOOLEAN,
           MigrateOne(m, d, own, allow)
    PROVE  MgInv'
  BY BeginKeeps DEF MigrateOne

LEMMA BeginByHandKeeps ==
    ASSUME MgInv, NEW m \in Migrators, NEW d \in Deployments, NEW own \in Releases[d], BeginByHand(m, d, own)
    PROVE  MgInv'
  BY BeginKeeps DEF BeginByHand

\* Only the step of a transaction changes.
LEMMA StepIs ==
    ASSUME NEW tx \in TxRecord, NEW step \in {"plan", "confirm", "handLock"}
    PROVE  LET next == [tx EXCEPT !.step = step] IN
           /\ next \in TxRecord /\ next.step = step /\ next.own = tx.own /\ next.left = tx.left /\ next.work = tx.work
  BY DEF TxRecord

LEMMA TakeLockKeeps ==
    ASSUME MgInv, NEW m \in Migrators, TakeLock(m)
    PROVE  MgInv'
<1> DEFINE step == IF mgTx[m].step = "lock" THEN "plan" ELSE "confirm"
           tx == [mgTx[m] EXCEPT !.step = step]
<1>1. mgTx[m] \in TxRecord /\ mgTx[m] # NoTx
  BY TxIs DEF TakeLock, MgInv
<1>2. tx \in TxRecord /\ tx.step = step /\ tx.own = mgTx[m].own /\ tx.left = mgTx[m].left /\ tx.work = mgTx[m].work
  <2>1. step \in {"plan", "confirm"}
    OBVIOUS
  <2> HIDE DEF step
  <2> QED
    BY <1>1, <2>1 DEF TxRecord
<1>3. TxGoes(m, tx) /\ mgTx'[m] = tx
  BY DEF TakeLock, TxGoes, MgInv, MgTypes
<1> HIDE DEF tx
<1>4. TxKept(m)
  BY DEF MgInv
<1>5. mgTx[m].step = "lock" => step = "plan" /\ DOMAIN mgTx[m].work = {} /\ mgTx[m].left = {}
  BY <1>1, <1>4 DEF TxKept
<1>6. mgTx[m].step = "handLock" => step = "confirm" /\ HandKept(m) /\ mgTx[m].left = {}
  BY <1>1, <1>4 DEF TxKept
<1>7. Sound(mgTx[m].own) /\ mgTx[m].step \in {"lock", "handLock"}
  BY <1>1, <1>4 DEF TxKept, TakeLock
<1>8. HandKept(m) => HandKept(m)'
  BY <1>2, <1>3 DEF HandKept, TakeLock
<1>9. TxKept(m)'
  BY <1>2, <1>3, <1>5, <1>6, <1>7, <1>8 DEF TxKept
<1>10. \A n \in Migrators \ {m} : DOMAIN tx.work \intersect DOMAIN mgTx[n].work = {}
  BY <1>2 DEF MgInv, WorkApart
<1> QED
  BY <1>2, <1>3, <1>9, <1>10, MoveKeeps DEF TakeLock, LockIsFree

LEMMA AsksToConfirmKeeps ==
    ASSUME MgInv, NEW m \in Migrators, AsksToConfirm(m)
    PROVE  MgInv'
<1> DEFINE tx == [mgTx[m] EXCEPT !.step = "handLock"]
<1>1. mgTx[m] \in TxRecord /\ mgTx[m] # NoTx
  BY TxIs DEF AsksToConfirm, AtStep, MgInv
<1>2. tx \in TxRecord /\ tx.step = "handLock" /\ tx.own = mgTx[m].own /\ tx.left = mgTx[m].left /\ tx.work = mgTx[m].work
  BY <1>1, StepIs
<1>3. TxGoes(m, tx) /\ mgTx'[m] = tx
  BY DEF AsksToConfirm, TxGoes, MgInv, MgTypes
<1> HIDE DEF tx
<1>4. Sound(mgTx[m].own) /\ mgTx[m].left = {} /\ HandKept(m)
  BY <1>1 DEF MgInv, TxKept, AsksToConfirm, AtStep
<1>5. HandKept(m)'
  BY <1>2, <1>3, <1>4 DEF HandKept, AsksToConfirm
<1>6. TxKept(m)'
  BY <1>2, <1>3, <1>4, <1>5 DEF TxKept
<1>7. \A n \in Migrators \ {m} : DOMAIN tx.work \intersect DOMAIN mgTx[n].work = {}
  BY <1>2 DEF MgInv, WorkApart
<1>8. tx.step \notin Locked
  BY <1>2 DEF Locked
<1> QED
  BY <1>2, <1>3, <1>6, <1>7, <1>8, MoveKeeps DEF AsksToConfirm

-----------------------------------------------------------------------------
(* Planning, executing and committing.                                     *)

LEMMA InDifference ==
    ASSUME MgTypeOK, NEW target \in Schema, NEW o \in Difference(mgMarker, target)
    PROVE  /\ o.table \in Tables
           /\ o \in OpsOfTable(o.table, Before(mgMarker, o.table), After(target, o.table))
<1>1. PICK t \in Tables : o \in OpsOfTable(t, Before(mgMarker, t), After(target, t))
  BY DEF Difference
<1>2. Before(mgMarker, t) \in Held /\ After(target, t) \in Held
  BY ShapeOf, NoTableApart DEF MgTypeOK
<1> QED
  BY <1>1, <1>2, OpsAre

LEMMA AskedIs ==
    ASSUME MgTypeOK, RecordedKept, NEW own \in Schema, NEW d \in Deployments, Sound(own)
    PROVE  LET asked == Asked(own, d) IN
           /\ asked[d] = own /\ own # NoSchema
           /\ \A e \in Deployments : e # d => asked[e] = mgRecorded[e]
           /\ \A e \in Deployments : asked[e] # NoSchema => Sound(asked[e])
  BY NoTableApart DEF Asked, MgTypeOK, RecordedKept

\* The target can be reached from any schema by statements that fit (Sound).
LEMMA TargetSound ==
    ASSUME MgTypeOK, RecordedKept, NEW own \in Schema, NEW d \in Deployments, Sound(own), NEW t \in Tables
    PROVE  /\ Target(own, d) \in Schema
           /\ After(Target(own, d), t) \in Held /\ SoundShape(After(Target(own, d), t))
<1> DEFINE target == Target(own, d)
<1>1. target \in Schema /\ Sound(target)
  BY AskedIs, TargetIs
<1> HIDE DEF target
<1>2. target # NoSchema /\ After(target, t) \in Held
  BY <1>1, ShapeOf, NoTableApart
<1>3. After(target, t) # NoTable => \A i \in Indexes : After(target, t).indexes[i] \subseteq Columns
  BY <1>2, HeldIs
<1>4. SoundShape(After(target, t))
  BY <1>1, <1>2, <1>3, SoundIs, HeldIs DEF SoundShape
<1> QED
  BY <1>1, <1>2, <1>4 DEF target

\* The target holds nothing but what is there and what our release needs.
LEMMA TargetWithin ==
    ASSUME MgTypeOK, RecordedKept, NEW own \in Schema, NEW d \in Deployments, Sound(own), NEW t \in Tables
    PROVE  LET wanted == After(Target(own, d), t) IN
           /\ wanted # NoTable => mgPhysical[t] # NoTable \/ After(own, t) # NoTable
           /\ \A c \in Columns : HasColumn(wanted, c) => HasColumn(mgPhysical[t], c) \/ HasColumn(After(own, t), c)
           /\ \A i \in Indexes : HasIndex(wanted, i) => HasIndex(mgPhysical[t], i) \/ HasIndex(After(own, t), i)
           /\ After(own, t) # NoTable => wanted # NoTable
           /\ \A c \in Columns : HasColumn(After(own, t), c) => HasColumn(wanted, c)
           /\ \A i \in Indexes : HasIndex(After(own, t), i) => HasIndex(wanted, i)
<1> DEFINE wanted == After(Target(own, d), t)
           asked == Asked(own, d)
<1>1. /\ asked[d] = own /\ own # NoSchema
      /\ \A e \in Deployments : e # d => asked[e] = mgRecorded[e]
  BY AskedIs
<1>2. /\ wanted # NoTable <=> \E e \in Deployments : asked[e] # NoSchema /\ After(asked[e], t) # NoTable
      /\ \A c \in Columns : HasColumn(wanted, c) <=>
            \E e \in Deployments : asked[e] # NoSchema /\ HasColumn(After(asked[e], t), c)
      /\ \A i \in Indexes : HasIndex(wanted, i) <=>
            \E e \in Deployments : asked[e] # NoSchema /\ HasIndex(After(asked[e], t), i)
  BY TargetIs
<1> HIDE DEF wanted, asked
<1>3. ASSUME NEW e \in Deployments, mgRecorded[e] # NoSchema, After(mgRecorded[e], t) # NoTable
      PROVE  /\ mgPhysical[t] # NoTable
             /\ \A c \in Columns : HasColumn(After(mgRecorded[e], t), c) => HasColumn(mgPhysical[t], c)
             /\ \A i \in Indexes : HasIndex(After(mgRecorded[e], t), i) => HasIndex(mgPhysical[t], i)
  <2>1. mgRecorded[e] \in Schema /\ There(mgRecorded[e])
    BY <1>3 DEF MgTypeOK, RecordedKept
  <2>2. mgRecorded[e][t] # NoTable /\ After(mgRecorded[e], t) = mgRecorded[e][t].shape
    BY <1>3, <2>1 DEF After
  <2> QED
    BY <2>1, <2>2 DEF There
<1>4. wanted # NoTable => mgPhysical[t] # NoTable \/ After(own, t) # NoTable
  BY <1>1, <1>2, <1>3
<1>5. \A c \in Columns : HasColumn(wanted, c) => HasColumn(mgPhysical[t], c) \/ HasColumn(After(own, t), c)
  BY <1>1, <1>2, <1>3 DEF HasColumn
<1>6. \A i \in Indexes : HasIndex(wanted, i) => HasIndex(mgPhysical[t], i) \/ HasIndex(After(own, t), i)
  BY <1>1, <1>2, <1>3 DEF HasIndex
<1>7. /\ After(own, t) # NoTable => wanted # NoTable
      /\ \A c \in Columns : HasColumn(After(own, t), c) => HasColumn(wanted, c)
      /\ \A i \in Indexes : HasIndex(After(own, t), i) => HasIndex(wanted, i)
  BY <1>1, <1>2
<1> QED
  BY <1>4, <1>5, <1>6, <1>7 DEF wanted

LEMMA OpsIn ==
    ASSUME MgTypeOK, NEW target \in Schema
    PROVE  Difference(mgMarker, target) \subseteq Ops
<1>1. \A t \in Tables : Before(mgMarker, t) \in Held /\ After(target, t) \in Held
  BY ShapeOf, NoTableApart DEF MgTypeOK
<1> QED
  BY <1>1 DEF Difference, Ops, Held

\* What PlanIt and Confirm go to, and Exec stays in.
LEMMA PlanKeeps ==
    ASSUME MgInv, NEW m \in Migrators, NEW tx \in TxRecord, TxGoes(m, tx), tx.step = "exec", mgLock = m,
           Sound(tx.own), tx.target = Target(tx.own, tx.deployment), ~ Refused(tx.own, tx.deployment),
           \A t \in Tables :
             LET there == IF t \in DOMAIN tx.work THEN tx.work[t] ELSE mgPhysical[t] IN
             /\ EndOfPlan(t, Before(mgMarker, t), After(tx.target, t), tx.left)
             /\ there = Reached(Before(mgMarker, t), After(tx.target, t), tx.left, t),
           \A n \in Migrators \ {m} : DOMAIN tx.work \intersect DOMAIN mgTx[n].work = {},
           UNCHANGED <<mgPhysical, mgMarker, mgRecorded, mgLock, mgBroken>>
    PROVE  MgInv'
<1>1. mgTx'[m] = tx
  BY DEF TxGoes, MgInv, MgTypes
<1>2. Target(tx.own, tx.deployment)' = Target(tx.own, tx.deployment)
  BY <1>1 DEF Target
<1>3. Refused(tx.own, tx.deployment)' = Refused(tx.own, tx.deployment)
  BY DEF Refused
<1>4. \A t : View(m, t)' = IF t \in DOMAIN tx.work THEN tx.work[t] ELSE mgPhysical[t]
  BY <1>1 DEF View
<1>5. PlanKept(m)'
  <2>1. mgTx'[m].target = Target(tx.own, tx.deployment)' /\ ~ Refused(tx.own, tx.deployment)'
    BY <1>1, <1>2, <1>3
  <2>2. ASSUME NEW t \in Tables
        PROVE  /\ EndOfPlan(t, Before(mgMarker, t), After(tx.target, t), tx.left)
               /\ View(m, t)' = Reached(Before(mgMarker, t), After(tx.target, t), tx.left, t)
    BY <1>4
  <2> QED
    BY <1>1, <1>2, <1>3, <2>2 DEF PlanKept
<1>6. TxKept(m)'
  BY <1>1, <1>5 DEF TxKept
<1> QED
  BY <1>6, MoveKeeps

LEMMA ExecutingIs ==
    ASSUME MgInv, NEW m \in Migrators, mgTx[m].step = "exec"
    PROVE  /\ mgTx[m] \in TxRecord /\ mgTx[m] # NoTx /\ mgLock = m /\ PlanKept(m) /\ Sound(mgTx[m].own)
           /\ mgTx[m].own \in Schema /\ mgTx[m].deployment \in Deployments
           /\ mgTx[m].target = Target(mgTx[m].own, mgTx[m].deployment)
<1>1. mgTx[m] \in TxRecord /\ mgTx[m] # NoTx
  BY TxIs DEF MgInv
<1>2. mgLock = m
  BY DEF MgInv, LockKept, Locked
<1>3. PlanKept(m) /\ Sound(mgTx[m].own)
  BY <1>1 DEF MgInv, TxKept
<1> QED
  BY <1>1, <1>2, <1>3 DEF TxRecord, PlanKept

LEMMA PlanItKeeps ==
    ASSUME MgInv, NEW m \in Migrators, PlanIt(m)
    PROVE  MgInv'
<1> DEFINE old == mgTx[m]
           target == Target(old.own, old.deployment)
           ops == Difference(mgMarker, target)
           tx == [old EXCEPT !.step = "exec", !.target = target, !.left = ops]
<1>1. old \in TxRecord /\ old.step = "plan" /\ mgTx[m] # NoTx
  BY TxIs DEF PlanIt, AtStep, MgInv
<1>2. mgLock = m /\ Sound(old.own) /\ DOMAIN old.work = {}
  BY <1>1 DEF MgInv, LockKept, Locked, TxKept
<1>3. old.own \in Schema /\ old.deployment \in Deployments /\ MgTypeOK /\ RecordedKept /\ MarkerKept
  BY <1>1 DEF TxRecord, MgInv, MgTypes
<1>4. target \in Schema /\ ops \subseteq Ops
  BY <1>2, <1>3, AskedIs, TargetIs, OpsIn
<1>5. CASE RollsBack(m)
  BY <1>5, RollsBackKeeps DEF PlanIt
<1>6. CASE ~ RollsBack(m)
  <2>1. /\ ~ Refused(old.own, old.deployment) /\ \A o \in ops : ~Manual(o)
        /\ TxGoes(m, tx) /\ UNCHANGED <<mgPhysical, mgMarker, mgRecorded, mgLock, mgBroken>>
    BY <1>6 DEF PlanIt
  <2> HIDE DEF old, target, ops
  <2>2. /\ tx \in TxRecord /\ tx.step = "exec" /\ tx.own = old.own /\ tx.deployment = old.deployment
        /\ tx.left = ops /\ tx.target = target /\ tx.work = old.work
    BY <1>1, <1>4 DEF TxRecord
  <2> HIDE DEF tx
  <2>3. ASSUME NEW t \in Tables
        PROVE  /\ EndOfPlan(t, Before(mgMarker, t), After(target, t), ops)
               /\ mgPhysical[t] = Reached(Before(mgMarker, t), After(target, t), ops, t)
    <3> DEFINE a == Before(mgMarker, t)
               b == After(target, t)
    <3>1. a \in Held /\ b \in Held
      BY <1>3, <1>4, ShapeOf, NoTableApart DEF MgTypeOK
    <3>2. OpsOfTable(t, a, b) \subseteq ops
      BY DEF ops, Difference
    <3>3. \A o \in ops : o.table = t => o \in OpsOfTable(t, a, b)
      BY <1>3, <1>4, InDifference DEF ops
    <3> HIDE DEF a, b
    <3>4. EndOfPlan(t, a, b, ops)
      BY <2>1, <3>2, <3>3 DEF EndOfPlan
    <3>5. Reached(a, b, ops, t) = a
      BY <3>1, <3>2, <3>4, ReachedStart
    <3>6. mgPhysical[t] = a
      BY <1>3 DEF MarkerKept, a
    <3> QED
      BY <3>4, <3>5, <3>6 DEF a, b
  <2>4. tx.target = Target(tx.own, tx.deployment) /\ ~ Refused(tx.own, tx.deployment) /\ Sound(tx.own)
    BY <1>2, <2>1, <2>2 DEF target
  <2> QED
    BY <1>2, <2>1, <2>2, <2>3, <2>4, PlanKeeps
<1> QED
  BY <1>5, <1>6

LEMMA WorkedIs ==
    ASSUME MgTypes, NEW m \in Migrators, NEW op, op.table \in Tables, Done(op, View(m, op.table)) \in Held
    PROVE  /\ Worked(m, op) \in Works
           /\ DOMAIN Worked(m, op) = DOMAIN mgTx[m].work \union {op.table}
           /\ Worked(m, op)[op.table] = Done(op, View(m, op.table))
           /\ \A t \in DOMAIN mgTx[m].work : t # op.table => Worked(m, op)[t] = View(m, t)
<1>1. DOMAIN mgTx[m].work \subseteq Tables /\ \A t \in Tables : View(m, t) \in Held
  BY TxIs, WorkIs
<1>2. /\ DOMAIN Worked(m, op) = DOMAIN mgTx[m].work \union {op.table}
      /\ Worked(m, op)[op.table] = Done(op, View(m, op.table))
      /\ \A t \in DOMAIN mgTx[m].work : t # op.table => Worked(m, op)[t] = View(m, t)
      /\ Worked(m, op) = [t \in DOMAIN Worked(m, op) |-> Worked(m, op)[t]]
  BY DEF Worked
<1>3. \A t \in DOMAIN Worked(m, op) : Worked(m, op)[t] \in Held
  BY <1>1, <1>2
<1> QED
  BY <1>1, <1>2, <1>3, WorkIs

\* A transaction works on tables no other one has changed.
LEMMA WorkStaysApart ==
    ASSUME MgInv, NEW m \in Migrators, NEW t, Unlocked(m, t)
    PROVE  \A n \in Migrators \ {m} : (DOMAIN mgTx[m].work \union {t}) \intersect DOMAIN mgTx[n].work = {}
  BY DEF MgInv, WorkApart, Unlocked

LEMMA ExecKeeps ==
    ASSUME MgInv, NEW m \in Migrators, Exec(m)
    PROVE  MgInv'
<1> DEFINE old == mgTx[m]
<1>1. /\ old \in TxRecord /\ mgTx[m] # NoTx /\ old.step = "exec" /\ mgLock = m /\ PlanKept(m) /\ Sound(old.own)
      /\ old.own \in Schema /\ old.deployment \in Deployments
      /\ old.target = Target(old.own, old.deployment)
  BY ExecutingIs DEF Exec, AtStep
<1>2. PICK op \in old.left :
        /\ ~ \E o \in old.left : GoesBefore(o, op)
        /\ Unlocked(m, op.table)
        /\ IF Fits(op, View(m, op.table))
           THEN /\ TxGoes(m, [old EXCEPT !.left = @ \ {op}, !.work = Worked(m, op)])
                /\ UNCHANGED <<mgLock, mgBroken>>
           ELSE RollsBack(m) /\ mgBroken' = TRUE
  BY DEF Exec
<1>3. MgTypeOK /\ RecordedKept /\ MgTypes
  BY DEF MgInv, MgTypes
<1>4. op.table \in Tables
  <2>1. op \in Ops
    BY <1>1 DEF TxRecord
  <2> QED
    BY <2>1, OpsAre DEF Ops, Held
<1> DEFINE table == op.table
           target == old.target
           left == old.left
           rest == old.left \ {op}
<1>5. \A t \in Tables : /\ Before(mgMarker, t) \in Held /\ After(target, t) \in Held /\ SoundShape(After(target, t))
                        /\ EndOfPlan(t, Before(mgMarker, t), After(target, t), left)
                        /\ View(m, t) = Reached(Before(mgMarker, t), After(target, t), left, t)
  <2>1. \A t \in Tables : Before(mgMarker, t) \in Held
    BY <1>3, ShapeOf DEF MgTypeOK
  <2>2. \A t \in Tables : After(target, t) \in Held /\ SoundShape(After(target, t))
    BY <1>1, <1>3, TargetSound
  <2> QED
    BY <1>1, <2>1, <2>2 DEF PlanKept
<1>6. \A o \in left : o.table = table => ~(PhaseOf(o) < PhaseOf(op))
  BY <1>2 DEF GoesBefore
<1>7. UNCHANGED <<mgPhysical, mgMarker, mgRecorded>>
  BY DEF Exec
<1> HIDE DEF old, table, target, left, rest
<1>8. /\ Fits(op, View(m, table))
      /\ Done(op, View(m, table)) = Reached(Before(mgMarker, table), After(target, table), rest, table)
      /\ EndOfPlan(table, Before(mgMarker, table), After(target, table), rest)
  <2>1. table \in Tables /\ op \in left /\ rest = left \ {op} /\ op.table = table
    BY <1>2, <1>4 DEF table, left, rest
  <2> DEFINE a == Before(mgMarker, table)
             b == After(target, table)
  <2>2. /\ a \in Held /\ b \in Held /\ SoundShape(b) /\ EndOfPlan(table, a, b, left)
        /\ View(m, table) = Reached(a, b, left, table)
    BY <1>5, <2>1
  <2> HIDE DEF a, b
  <2>3. Fits(op, Reached(a, b, left, table)) /\ Done(op, Reached(a, b, left, table)) = Reached(a, b, rest, table)
    BY <1>6, <2>1, <2>2, StatementFits
  <2>4. EndOfPlan(table, a, b, rest)
    BY <1>6, <2>1, <2>2, EndGoesOn
  <2> QED
    BY <2>2, <2>3, <2>4 DEF a, b
<1>9. Done(op, View(m, table)) \in Held
  BY <1>4, <1>5, <1>8, ReachedIn DEF table
<1>10. ASSUME NEW t \in Tables, t # table
       PROVE  /\ EndOfPlan(t, Before(mgMarker, t), After(target, t), rest)
              /\ View(m, t) = Reached(Before(mgMarker, t), After(target, t), rest, t)
  <2> DEFINE a == Before(mgMarker, t)
             b == After(target, t)
  <2>1. a \in Held /\ b \in Held /\ EndOfPlan(t, a, b, left) /\ View(m, t) = Reached(a, b, left, t)
    BY <1>5
  <2> HIDE DEF a, b
  <2>2. Reached(a, b, left \ {op}, t) = Reached(a, b, left, t) /\ EndOfPlan(t, a, b, left \ {op})
    BY <1>10, <2>1, OthersUnmoved DEF table
  <2> QED
    BY <2>1, <2>2 DEF a, b, left, rest
<1> DEFINE work == Worked(m, op)
           tx == [old EXCEPT !.left = old.left \ {op}, !.work = work]
<1>11. /\ work \in Works /\ DOMAIN work = DOMAIN mgTx[m].work \union {table}
       /\ work[table] = Done(op, View(m, table))
       /\ \A t \in DOMAIN mgTx[m].work : t # table => work[t] = View(m, t)
  BY <1>3, <1>4, <1>9, WorkedIs DEF table
<1>12. TxGoes(m, tx) /\ UNCHANGED <<mgLock, mgBroken>>
  BY <1>2, <1>8 DEF table
<1> HIDE DEF work
<1>13. /\ tx \in TxRecord /\ tx.step = "exec" /\ tx.own = old.own /\ tx.deployment = old.deployment
       /\ tx.left = rest /\ tx.target = target /\ tx.work = work
  <2>1. rest \in SUBSET Ops /\ tx = [old EXCEPT !.left = rest, !.work = work]
    BY <1>1 DEF rest, TxRecord
  <2> HIDE DEF tx
  <2> QED
    BY <1>1, <1>11, <2>1 DEF TxRecord, Works, target
<1> HIDE DEF tx
<1>14. ASSUME NEW t \in Tables
       PROVE  LET there == IF t \in DOMAIN tx.work THEN tx.work[t] ELSE mgPhysical[t] IN
              /\ EndOfPlan(t, Before(mgMarker, t), After(tx.target, t), tx.left)
              /\ there = Reached(Before(mgMarker, t), After(tx.target, t), tx.left, t)
  <2>1. CASE t = table
    BY <1>8, <1>11, <1>13, <2>1
  <2>2. CASE t # table
    <3>1. (IF t \in DOMAIN work THEN work[t] ELSE mgPhysical[t]) = View(m, t)
      BY <1>11, <2>2 DEF View
    <3> QED
      BY <1>10, <1>13, <2>2, <3>1
  <2> QED
    BY <2>1, <2>2
<1>15. \A n \in Migrators \ {m} : DOMAIN tx.work \intersect DOMAIN mgTx[n].work = {}
  BY <1>2, <1>11, <1>13, WorkStaysApart DEF table
<1>16. tx.target = Target(tx.own, tx.deployment) /\ ~ Refused(tx.own, tx.deployment)
  BY <1>1, <1>13 DEF PlanKept, target, old
<1> QED
  BY <1>1, <1>7, <1>12, <1>13, <1>14, <1>15, <1>16, PlanKeeps

LEMMA CommitKeeps ==
    ASSUME MgInv, NEW m \in Migrators, Commit(m)
    PROVE  MgInv'
<1> DEFINE old == mgTx[m]
           d == old.deployment
           own == old.own
           target == old.target
<1>1. /\ old \in TxRecord /\ mgTx[m] # NoTx /\ old.step = "exec" /\ mgLock = m /\ PlanKept(m) /\ Sound(own)
      /\ own \in Schema /\ d \in Deployments /\ target = Target(own, d)
  BY ExecutingIs DEF Commit, AtStep
<1>2. MgTypeOK /\ MgTypes /\ RecordedKept /\ MarkerKept /\ ~mgBroken
  BY DEF MgInv, MgTypes
<1>3. /\ old.left = {} /\ mgPhysical' = [t \in Tables |-> View(m, t)] /\ mgMarker' = target
      /\ mgRecorded' = [mgRecorded EXCEPT ![d] = own]
      /\ TxGoes(m, NoTx) /\ mgLock' = NoMigrator /\ mgBroken' = mgBroken
  BY <1>1 DEF Commit, RollsBack
<1>4. target \in Schema /\ target # NoSchema
  BY <1>1, <1>2, TargetSound, AskedIs, TargetIs, NoTableApart
<1>5. ~ Refused(own, d)
  BY <1>1 DEF PlanKept
<1>6. \A t \in Tables : View(m, t) = After(target, t)
  <2> SUFFICES ASSUME NEW t \in Tables PROVE View(m, t) = After(target, t)
    OBVIOUS
  <2>1. View(m, t) = Reached(Before(mgMarker, t), After(target, t), {}, t)
    BY <1>1, <1>3 DEF PlanKept
  <2>2. Before(mgMarker, t) \in Held /\ After(target, t) \in Held
    BY <1>2, <1>4, ShapeOf DEF MgTypeOK
  <2> QED
    BY <2>1, <2>2, ReachedEnd
<1> HIDE DEF old, d, own, target
<1>7. \A t \in Tables : /\ mgPhysical'[t] = After(target, t) /\ mgPhysical'[t] = View(m, t)
                        /\ Before(target, t) = After(target, t) /\ After(target, t) \in Held
  BY <1>3, <1>4, <1>6, ShapeOf
<1>8. MarkerKept'
  <2> SUFFICES ASSUME NEW t \in Tables PROVE mgPhysical'[t] = Before(mgMarker', t)
    BY DEF MarkerKept
  <2> QED
    BY <1>3, <1>7
<1>9. /\ mgTx' \in [Migrators -> TxRecord \union {NoTx}] /\ mgTx'[m] = NoTx
      /\ \A n \in Migrators \ {m} : mgTx'[n] = mgTx[n]
  BY <1>2, <1>3 DEF TxGoes, MgTypes
<1>10. mgRecorded' \in [Deployments -> Schema \union {NoSchema}] /\ mgRecorded'[d] = own /\ own # NoSchema
       /\ \A e \in Deployments : e # d => mgRecorded'[e] = mgRecorded[e]
  BY <1>1, <1>2, <1>3, NoTableApart DEF MgTypeOK
<1>11. MgTypes' /\ ~mgBroken'
  <2>1. mgPhysical' \in [Tables -> Held]
    BY <1>3, <1>6, <1>7
  <2> QED
    BY <1>2, <1>3, <1>4, <1>9, <1>10, <2>1 DEF MgTypes, MgTypeOK, Physical, Held
<1>12. \A n \in Migrators \ {m} : mgTx[n].step \notin Locked
  BY <1>1, MigrationAssumption DEF MgInv, LockKept
<1>13. LockKept'
  <2> SUFFICES ASSUME NEW n \in Migrators, mgTx'[n].step \in Locked PROVE FALSE
    BY DEF LockKept
  <2>1. CASE n = m
    BY <1>9, <2>1, NoTxKept DEF Locked
  <2>2. CASE n # m
    BY <1>9, <1>12, <2>2
  <2> QED
    BY <2>1, <2>2
<1>14. WorkApart'
  <2> SUFFICES ASSUME NEW n \in Migrators, NEW o \in Migrators, n # o
               PROVE  DOMAIN mgTx'[n].work \intersect DOMAIN mgTx'[o].work = {}
    BY DEF WorkApart
  <2>1. DOMAIN mgTx[n].work \intersect DOMAIN mgTx[o].work = {}
    BY DEF MgInv, WorkApart
  <2> QED
    BY <1>9, <2>1, NoTxKept
<1>15. RecordedKept'
  <2> DEFINE asked == Asked(own, d)
  <2>1. mgRecorded' = asked
    BY <1>3 DEF Asked
  <2>2. \A e \in Deployments : asked[e] # NoSchema => Sound(asked[e]) /\ asked[e] \in Schema
    BY <1>1, <1>2, <1>10, <2>1, AskedIs
  <2>3. ASSUME NEW e \in Deployments, asked[e] # NoSchema, NEW t \in Tables, asked[e][t] # NoTable
        PROVE  /\ mgPhysical'[t] # NoTable
               /\ \A c \in Columns : HasColumn(asked[e][t].shape, c) => HasColumn(mgPhysical'[t], c)
               /\ \A i \in Indexes : HasIndex(asked[e][t].shape, i) => HasIndex(mgPhysical'[t], i)
    <3>1. After(asked[e], t) = asked[e][t].shape /\ After(asked[e], t) # NoTable
      BY <2>2, <2>3, ShapeOf
    <3>2. /\ After(target, t) # NoTable
          /\ \A c \in Columns : HasColumn(After(asked[e], t), c) => HasColumn(After(target, t), c)
          /\ \A i \in Indexes : HasIndex(After(asked[e], t), i) => HasIndex(After(target, t), i)
      BY <1>1, <1>2, <2>3, <3>1, TargetIs
    <3> QED
      BY <1>7, <3>1, <3>2
  <2>4. ASSUME NEW e \in Deployments, asked[e] # NoSchema, NEW f \in Deployments, asked[f] # NoSchema
        PROVE  ~ Clash(asked[e], asked[f])
    <3>1. asked[d] = own /\ \A g \in Deployments : g # d => asked[g] = mgRecorded[g]
      BY <1>10, <2>1
    <3>2. \A g \in Deployments : g # d /\ asked[g] # NoSchema => ~ Clash(asked[g], own) /\ ~ Clash(own, asked[g])
      BY <1>5, <3>1 DEF Refused, Clash
    <3>3. ~ Clash(own, own)
      BY DEF Clash
    <3>4. e # d /\ f # d => ~ Clash(asked[e], asked[f])
      BY <1>2, <2>4, <3>1 DEF RecordedKept
    <3> QED
      BY <2>4, <3>1, <3>2, <3>3, <3>4
  <2> HIDE DEF asked
  <2> QED
    BY <2>1, <2>2, <2>3, <2>4 DEF RecordedKept, There
<1>16. ASSUME NEW n \in Migrators
       PROVE  TxKept(n)'
  <2>1. CASE n = m
    BY <1>9, <2>1, NoTxKept
  <2>2. CASE n # m
    <3>1. mgTx'[n] = mgTx[n] /\ TxKept(n) /\ mgTx[n].step \notin Locked
      BY <1>9, <1>12, <2>2 DEF MgInv
    <3>2. ASSUME HandKept(n)
          PROVE  HandKept(n)'
      <4>1. \A t \in DOMAIN mgTx[n].work : mgPhysical'[t] = mgPhysical[t]
        <5> SUFFICES ASSUME NEW t \in DOMAIN mgTx[n].work PROVE mgPhysical'[t] = mgPhysical[t]
          OBVIOUS
        <5>1. t \in Tables
          BY <1>2, TxIs, WorkIs
        <5>2. t \notin DOMAIN mgTx[m].work
          BY <2>2 DEF MgInv, WorkApart
        <5> QED
          BY <1>7, <5>1, <5>2 DEF View
      <4> QED
        BY <3>1, <3>2, <4>1 DEF HandKept
    <3> QED
      BY <3>1, <3>2 DEF TxKept, Locked
  <2> QED
    BY <2>1, <2>2
<1> QED
  BY <1>8, <1>11, <1>13, <1>14, <1>15, <1>16 DEF MgInv

-----------------------------------------------------------------------------
(* Migrations by hand.                                                     *)

LEMMA ByHandIs ==
    ASSUME NEW o, o.op = "addColumn" => o = AddsColumn(o.table, o.column, o.null), NEW null
    PROVE  LET op == IF o.op = "addColumn" THEN [o EXCEPT !.null = null] ELSE o IN
           /\ o.op = "addColumn" => op = AddsColumn(o.table, o.column, null)
           /\ o.op # "addColumn" => op = o
  BY DEF AddsColumn

\* A statement gives a table only what its target has.
LEMMA DoneWithin ==
    ASSUME NEW t \in Tables, NEW a \in Held, NEW b \in Held, NEW o \in OpsOfTable(t, a, b), NEW null \in Nullability,
           NEW op, op = IF o.op = "addColumn" THEN AddsColumn(t, o.column, null) ELSE o,
           NEW shape \in Held, Fits(op, shape)
    PROVE  /\ op.table = t /\ Done(op, shape) \in Held
           /\ Done(op, shape) # NoTable => shape # NoTable \/ b # NoTable
           /\ \A c \in Columns : HasColumn(Done(op, shape), c) => HasColumn(shape, c) \/ HasColumn(b, c)
           /\ \A i \in Indexes : HasIndex(Done(op, shape), i) => HasIndex(shape, i) \/ HasIndex(b, i)
<1> DEFINE done == Done(op, shape)
<1>0. op.table = t /\ op.op = o.op /\ o \in OpsOfTable(t, a, b)
  <2>1. o.table = t
    BY OpsAre
  <2>2. AddsColumn(t, o.column, null).op = "addColumn" /\ AddsColumn(t, o.column, null).table = t
    BY OpFields
  <2> QED
    BY <2>1, <2>2
<1>1. shape # NoTable =>
        /\ shape \in Shape /\ shape.columns \in [Columns -> Nullability \union {"absent"}]
        /\ shape.indexes \in [Indexes -> SUBSET Columns]
        /\ shape = [columns |-> shape.columns, indexes |-> shape.indexes]
        /\ \A c \in Columns : HasColumn(shape, c) <=> shape.columns[c] # "absent"
        /\ \A i \in Indexes : HasIndex(shape, i) <=> shape.indexes[i] # {}
  BY HeldIs
<1>2. CASE o.op = "create"
  <2>1. b # NoTable /\ op = CreatesTable(t, Unindexed(b))
    BY <1>2, OpsByName
  <2>2. done = Unindexed(b)
    BY <1>0, <1>2, <2>1, OpFields DEF Done
  <2>3. /\ Unindexed(b) \in Shape /\ Unindexed(b).columns = b.columns /\ b \in Shape
        /\ \A i \in Indexes : Unindexed(b).indexes[i] = {}
    BY <2>1, HeldIs DEF Unindexed, Shape
  <2> QED
    BY <1>0, <2>1, <2>2, <2>3 DEF HasColumn, HasIndex, Present, Held
<1>3. CASE o.op = "drop"
  <2>1. done = NoTable
    BY <1>0, <1>3 DEF Done
  <2> QED
    BY <1>0, <2>1 DEF HasColumn, HasIndex, Held
<1>4. CASE o.op \in {"addColumn", "alterColumn"}
  <2>1. /\ b # NoTable /\ o.column \in Columns /\ b.columns[o.column] # "absent"
        /\ o = AddsColumn(t, o.column, b.columns[o.column]) \/ o = AltersColumn(t, o.column, b.columns[o.column])
    BY <1>4, OpsByName
  <2>2. op.column = o.column /\ op.null \in Nullability \union {"absent"}
    <3>1. b.columns[o.column] \in Nullability \union {"absent"}
      BY <2>1, HeldIs
    <3>2. o.op = "addColumn" => op.column = o.column /\ op.null = null
      BY OpFields
    <3>3. o.op = "alterColumn" => op = o /\ o = AltersColumn(t, o.column, b.columns[o.column])
      BY OpsByName
    <3>4. o.op = "alterColumn" => o.null = b.columns[o.column]
      BY <3>3, OpFields
    <3> QED
      BY <1>4, <3>1, <3>2, <3>3, <3>4
  <2>3. shape # NoTable
    BY <1>0, <1>4 DEF Fits
  <2>4. done = [shape EXCEPT !.columns[op.column] = op.null]
    BY <1>0, <1>4 DEF Done
  <2>5. /\ done \in Shape
        /\ \A c \in Columns : c # o.column => done.columns[c] = shape.columns[c]
        /\ \A i \in Indexes : done.indexes[i] = shape.indexes[i]
    BY <1>1, <2>1, <2>2, <2>3, <2>4 DEF Shape
  <2>6. HasColumn(b, o.column)
    BY <2>1, HeldIs
  <2> HIDE DEF done
  <2> QED
    BY <1>0, <1>1, <2>3, <2>5, <2>6 DEF done, HasColumn, HasIndex, Present, Held
<1>5. CASE o.op = "dropColumn"
  <2>1. o.column \in Columns /\ op = o
    BY <1>5, OpsByName
  <2>2. shape # NoTable
    BY <1>0, <1>5 DEF Fits
  <2>3. done = [columns |-> [shape.columns EXCEPT ![op.column] = "absent"],
                indexes |-> [i \in Indexes |-> IF op.column \in shape.indexes[i] THEN {} ELSE shape.indexes[i]]]
    BY <1>0, <1>5 DEF Done
  <2>4. /\ [shape.columns EXCEPT ![op.column] = "absent"] \in [Columns -> Nullability \union {"absent"}]
        /\ \A c \in Columns : [shape.columns EXCEPT ![op.column] = "absent"][c] # "absent" => shape.columns[c] # "absent"
    BY <1>1, <2>1, <2>2
  <2>5. [i \in Indexes |-> IF op.column \in shape.indexes[i] THEN {} ELSE shape.indexes[i]] \in [Indexes -> SUBSET Columns]
    BY <1>1, <2>2
  <2>6. /\ done \in Shape
        /\ \A c \in Columns : done.columns[c] # "absent" => shape.columns[c] # "absent"
        /\ \A i \in Indexes : done.indexes[i] # {} => shape.indexes[i] # {}
    BY <2>3, <2>4, <2>5 DEF Shape
  <2> HIDE DEF done
  <2> QED
    BY <1>0, <1>1, <2>2, <2>6 DEF done, HasColumn, HasIndex, Present, Held
<1>6. CASE o.op = "dropIndex"
  <2>1. o.index \in Indexes /\ op = o
    BY <1>6, OpsByName
  <2>2. shape # NoTable
    BY <1>0, <1>6 DEF Fits
  <2>3. done = [shape EXCEPT !.indexes[op.index] = {}]
    BY <1>0, <1>6 DEF Done
  <2>4. /\ done \in Shape
        /\ \A c \in Columns : done.columns[c] = shape.columns[c]
        /\ \A i \in Indexes : done.indexes[i] # {} => shape.indexes[i] # {}
    BY <1>1, <2>1, <2>2, <2>3 DEF Shape
  <2> HIDE DEF done
  <2> QED
    BY <1>0, <1>1, <2>2, <2>4 DEF done, HasColumn, HasIndex, Present, Held
<1>7. CASE o.op = "createIndex"
  <2>1. /\ b # NoTable /\ o.index \in Indexes /\ b.indexes[o.index] # {} /\ op = o
        /\ o = CreatesIndex(t, o.index, b.indexes[o.index])
    BY <1>7, OpsByName
  <2>2. op.on = b.indexes[o.index] /\ op.on \in SUBSET Columns
    BY <2>1, OpFields, HeldIs
  <2>3. shape # NoTable
    BY <1>0, <1>7 DEF Fits
  <2>4. done = [shape EXCEPT !.indexes[op.index] = op.on]
    BY <1>0, <1>7 DEF Done
  <2>5. /\ done \in Shape
        /\ \A c \in Columns : done.columns[c] = shape.columns[c]
        /\ \A i \in Indexes : i # o.index => done.indexes[i] = shape.indexes[i]
    BY <1>1, <2>1, <2>2, <2>3, <2>4 DEF Shape
  <2>6. HasIndex(b, o.index)
    BY <2>1, HeldIs
  <2> HIDE DEF done
  <2> QED
    BY <1>0, <1>1, <2>3, <2>5, <2>6 DEF done, HasColumn, HasIndex, Present, Held
<1>8. o.op \in {"create", "drop", "addColumn", "alterColumn", "dropColumn", "createIndex", "dropIndex"}
  BY OpsByName
<1> QED
  BY <1>2, <1>3, <1>4, <1>5, <1>6, <1>7, <1>8

LEMMA HandStepIs ==
    ASSUME MgInv, NEW m \in Migrators, mgTx[m].step \in {"byHand", "confirm"}
    PROVE  /\ mgTx[m] \in TxRecord /\ mgTx[m].own \in Schema /\ mgTx[m].deployment \in Deployments
           /\ Sound(mgTx[m].own) /\ mgTx[m].left = {} /\ HandKept(m)
<1>1. mgTx[m] \in TxRecord /\ mgTx[m] # NoTx
  BY TxIs DEF MgInv
<1>2. TxKept(m)
  BY DEF MgInv
<1> QED
  BY <1>1, <1>2 DEF TxRecord, TxKept

LEMMA ByHandKeeps ==
    ASSUME MgInv, NEW m \in Migrators, ByHand(m)
    PROVE  MgInv'
<1> DEFINE old == mgTx[m]
           own == old.own
           target == Target(own, old.deployment)
<1>1. /\ old \in TxRecord /\ own \in Schema /\ old.deployment \in Deployments /\ Sound(own)
      /\ old.left = {} /\ HandKept(m) /\ old.step = "byHand"
  BY HandStepIs DEF ByHand, AtStep
<1>2. MgTypeOK /\ MgTypes /\ RecordedKept
  BY DEF MgInv, MgTypes
<1>3. PICK o \in Difference(mgMarker, target), null \in Nullability :
        LET op == IF o.op = "addColumn" THEN [o EXCEPT !.null = null] ELSE o IN
        /\ Unlocked(m, op.table) /\ Fits(op, View(m, op.table))
        /\ TxGoes(m, [mgTx[m] EXCEPT !.work = Worked(m, op)])
  BY DEF ByHand
<1> DEFINE t == o.table
           op == IF o.op = "addColumn" THEN [o EXCEPT !.null = null] ELSE o
           a == Before(mgMarker, t)
           b == After(target, t)
<1>4. target \in Schema
  BY <1>1, <1>2, AskedIs, TargetIs
<1>5. t \in Tables /\ o \in OpsOfTable(t, a, b)
  BY <1>2, <1>4, InDifference
<1>6. a \in Held /\ b \in Held
  BY <1>2, <1>4, <1>5, ShapeOf, NoTableApart DEF MgTypeOK
<1>7. op = IF o.op = "addColumn" THEN AddsColumn(t, o.column, null) ELSE o
  <2>1. o.op = "addColumn" => o = AddsColumn(t, o.column, b.columns[o.column])
    BY <1>5, <1>6, OpsByName
  <2> HIDE DEF t, b
  <2> QED
    BY <2>1 DEF AddsColumn
<1>8. Unlocked(m, op.table) /\ Fits(op, View(m, op.table)) /\ TxGoes(m, [mgTx[m] EXCEPT !.work = Worked(m, op)])
  BY <1>3
<1>9. UNCHANGED <<mgPhysical, mgMarker, mgRecorded, mgLock, mgBroken>>
  BY DEF ByHand
<1>10. View(m, t) \in Held
  BY <1>2, <1>5, TxIs
<1>11. op.table = t
  BY <1>5, <1>7, OpsAre, OpFields
<1>12. /\ b # NoTable => mgPhysical[t] # NoTable \/ After(own, t) # NoTable
       /\ \A c \in Columns : HasColumn(b, c) => HasColumn(mgPhysical[t], c) \/ HasColumn(After(own, t), c)
       /\ \A i \in Indexes : HasIndex(b, i) => HasIndex(mgPhysical[t], i) \/ HasIndex(After(own, t), i)
  BY <1>1, <1>2, <1>5, TargetWithin
<1> HIDE DEF op, a, b, t, target
<1> DEFINE shape == View(m, t)
           done == Done(op, shape)
<1>13. /\ done \in Held
       /\ done # NoTable => shape # NoTable \/ b # NoTable
       /\ \A c \in Columns : HasColumn(done, c) => HasColumn(shape, c) \/ HasColumn(b, c)
       /\ \A i \in Indexes : HasIndex(done, i) => HasIndex(shape, i) \/ HasIndex(b, i)
  BY <1>5, <1>6, <1>7, <1>8, <1>10, <1>11, DoneWithin
<1>14. /\ shape # NoTable => mgPhysical[t] # NoTable \/ After(own, t) # NoTable
       /\ \A c \in Columns : HasColumn(shape, c) => HasColumn(mgPhysical[t], c) \/ HasColumn(After(own, t), c)
       /\ \A i \in Indexes : HasIndex(shape, i) => HasIndex(mgPhysical[t], i) \/ HasIndex(After(own, t), i)
  BY <1>1 DEF View, HandKept
<1> DEFINE work == Worked(m, op)
           tx == [old EXCEPT !.work = work]
<1>15. /\ work \in Works /\ DOMAIN work = DOMAIN mgTx[m].work \union {t} /\ work[t] = done
       /\ \A u \in DOMAIN mgTx[m].work : u # t => work[u] = View(m, u)
  BY <1>2, <1>5, <1>11, <1>13, WorkedIs
<1> HIDE DEF work, done, shape
<1>16. /\ tx \in TxRecord /\ tx.step = "byHand" /\ tx.own = own /\ tx.left = {} /\ tx.work = work
  BY <1>1, <1>15 DEF TxRecord, Works
<1>17. TxGoes(m, tx) /\ mgTx'[m] = tx
  BY <1>2, <1>8 DEF TxGoes, MgTypes, work
<1> HIDE DEF tx, old, own
<1>18. ASSUME NEW u \in DOMAIN work
       PROVE  /\ work[u] # NoTable => mgPhysical[u] # NoTable \/ After(own, u) # NoTable
              /\ \A c \in Columns : HasColumn(work[u], c) =>
                    HasColumn(mgPhysical[u], c) \/ HasColumn(After(own, u), c)
              /\ \A i \in Indexes : HasIndex(work[u], i) => HasIndex(mgPhysical[u], i) \/ HasIndex(After(own, u), i)
  <2>1. CASE u = t
    BY <1>12, <1>13, <1>14, <1>15, <2>1
  <2>2. CASE u # t
    <3>1. u \in DOMAIN mgTx[m].work /\ work[u] = mgTx[m].work[u]
      BY <1>15, <2>2 DEF View
    <3> QED
      BY <1>1, <3>1 DEF HandKept, own, old
  <2> QED
    BY <2>1, <2>2
<1>19. HandKept(m)'
  BY <1>9, <1>16, <1>17, <1>18 DEF HandKept
<1>20. TxKept(m)'
  BY <1>1, <1>16, <1>17, <1>19 DEF TxKept
<1>21. \A n \in Migrators \ {m} : DOMAIN tx.work \intersect DOMAIN mgTx[n].work = {}
  BY <1>8, <1>11, <1>15, <1>16, WorkStaysApart
<1>22. tx.step \notin Locked
  BY <1>16 DEF Locked
<1> QED
  BY <1>9, <1>16, <1>17, <1>20, <1>21, <1>22, MoveKeeps

\* What the check of a migration by hand finds no issue with is the target.
LEMMA NoIssueIsTarget ==
    ASSUME MgInv, NEW m \in Migrators, HandKept(m), NEW own \in Schema, own = mgTx[m].own, Sound(own),
           NEW d \in Deployments, ~ Issues(m, mgMarker, Target(own, d)), NEW t \in Tables
    PROVE  View(m, t) = After(Target(own, d), t)
<1> DEFINE target == Target(own, d)
           was == Before(mgMarker, t)
           wanted == After(target, t)
           there == View(m, t)
<1>1. MgTypeOK /\ MgTypes /\ RecordedKept
  BY DEF MgInv, MgTypes
<1>2. was = mgPhysical[t]
  BY DEF MgInv, MarkerKept
<1>3. wanted \in Held /\ there \in Held /\ was \in Held
  BY <1>1, TargetSound, TxIs, ShapeOf DEF MgTypeOK
<1>4. ~ \/ wanted = NoTable /\ was # NoTable /\ there # NoTable
        \/ wanted # NoTable /\ there = NoTable
        \/ /\ wanted # NoTable /\ there # NoTable
           /\ \/ \E c \in Present(wanted) : there.columns[c] # wanted.columns[c]
              \/ was # NoTable /\ \E c \in Present(was) \ Present(wanted) : c \in Present(there)
              \/ \E i \in Indexes : wanted.indexes[i] # {} /\ there.indexes[i] # wanted.indexes[i]
              \/ was # NoTable /\ \E i \in Indexes :
                     was.indexes[i] # {} /\ wanted.indexes[i] = {} /\ there.indexes[i] # {}
  BY DEF Issues
<1>5. /\ there # NoTable => was # NoTable \/ wanted # NoTable
      /\ \A c \in Columns : HasColumn(there, c) => HasColumn(was, c) \/ HasColumn(wanted, c)
      /\ \A i \in Indexes : HasIndex(there, i) => HasIndex(was, i) \/ HasIndex(wanted, i)
  <2>1. /\ there # NoTable => mgPhysical[t] # NoTable \/ After(own, t) # NoTable
        /\ \A c \in Columns : HasColumn(there, c) => HasColumn(mgPhysical[t], c) \/ HasColumn(After(own, t), c)
        /\ \A i \in Indexes : HasIndex(there, i) => HasIndex(mgPhysical[t], i) \/ HasIndex(After(own, t), i)
    BY DEF View, HandKept
  <2>2. /\ After(own, t) # NoTable => wanted # NoTable
        /\ \A c \in Columns : HasColumn(After(own, t), c) => HasColumn(wanted, c)
        /\ \A i \in Indexes : HasIndex(After(own, t), i) => HasIndex(wanted, i)
    BY <1>1, TargetWithin
  <2> HIDE DEF there, wanted
  <2> QED
    BY <1>2, <2>1, <2>2
<1> HIDE DEF target, was, wanted, there
<1>6. CASE wanted = NoTable
  BY <1>4, <1>5, <1>6 DEF there, wanted, target
<1>7. CASE wanted # NoTable
  <2>1. there # NoTable /\ there \in Shape /\ wanted \in Shape
    BY <1>3, <1>4, <1>7, HeldIs
  <2>2. \A c \in Columns : there.columns[c] = wanted.columns[c]
    <3> SUFFICES ASSUME NEW c \in Columns PROVE there.columns[c] = wanted.columns[c]
      OBVIOUS
    <3>1. CASE wanted.columns[c] # "absent"
      BY <1>4, <1>7, <2>1, <3>1 DEF Present
    <3>2. CASE wanted.columns[c] = "absent" /\ there.columns[c] # "absent"
      <4>1. HasColumn(there, c) /\ ~ HasColumn(wanted, c)
        BY <2>1, <3>2 DEF HasColumn, Present
      <4>2. was # NoTable /\ c \in Present(was)
        BY <1>5, <4>1 DEF HasColumn
      <4> QED
        BY <1>4, <1>7, <2>1, <3>2, <4>2 DEF Present
    <3> QED
      BY <3>1, <3>2
  <2>3. \A i \in Indexes : there.indexes[i] = wanted.indexes[i]
    <3> SUFFICES ASSUME NEW i \in Indexes PROVE there.indexes[i] = wanted.indexes[i]
      OBVIOUS
    <3>1. CASE wanted.indexes[i] # {}
      BY <1>4, <1>7, <2>1, <3>1
    <3>2. CASE wanted.indexes[i] = {} /\ there.indexes[i] # {}
      <4>1. HasIndex(was, i)
        BY <1>5, <2>1, <3>2 DEF HasIndex
      <4> QED
        BY <1>4, <1>7, <2>1, <3>2, <4>1 DEF HasIndex
    <3> QED
      BY <3>1, <3>2
  <2> QED
    BY <2>1, <2>2, <2>3, ShapesEqual DEF there, wanted, target
<1> QED
  BY <1>6, <1>7

LEMMA ConfirmKeeps ==
    ASSUME MgInv, NEW m \in Migrators, Confirm(m)
    PROVE  MgInv'
<1> DEFINE old == mgTx[m]
           own == old.own
           target == Target(own, old.deployment)
           tx == [old EXCEPT !.step = "exec", !.target = target]
<1>1. /\ old \in TxRecord /\ own \in Schema /\ old.deployment \in Deployments /\ Sound(own)
      /\ old.left = {} /\ HandKept(m) /\ old.step = "confirm"
  BY HandStepIs DEF Confirm, AtStep
<1>2. MgTypeOK /\ MgTypes /\ RecordedKept /\ mgLock = m
  BY <1>1 DEF MgInv, MgTypes, LockKept, Locked
<1>3. target \in Schema
  BY <1>1, <1>2, AskedIs, TargetIs
<1>4. CASE RollsBack(m)
  BY <1>4, RollsBackKeeps DEF Confirm
<1>5. CASE ~ RollsBack(m)
  <2>1. /\ ~ Refused(own, old.deployment) /\ ~ Issues(m, mgMarker, target)
        /\ TxGoes(m, tx) /\ UNCHANGED <<mgPhysical, mgMarker, mgRecorded, mgLock, mgBroken>>
    BY <1>5 DEF Confirm
  <2>2. \A t \in Tables : View(m, t) = After(target, t)
    BY <1>1, <2>1, NoIssueIsTarget
  <2>3. \A t \in Tables : Before(mgMarker, t) \in Held /\ After(target, t) \in Held
    BY <1>2, <1>3, ShapeOf, NoTableApart DEF MgTypeOK
  <2> HIDE DEF old, own, target
  <2>4. /\ tx \in TxRecord /\ tx.step = "exec" /\ tx.own = own /\ tx.deployment = old.deployment
        /\ tx.left = {} /\ tx.target = target /\ tx.work = old.work
    BY <1>1, <1>3 DEF TxRecord, own
  <2> HIDE DEF tx
  <2>5. ASSUME NEW t \in Tables
        PROVE  LET there == IF t \in DOMAIN tx.work THEN tx.work[t] ELSE mgPhysical[t] IN
               /\ EndOfPlan(t, Before(mgMarker, t), After(tx.target, t), tx.left)
               /\ there = Reached(Before(mgMarker, t), After(tx.target, t), tx.left, t)
    <3>1. (IF t \in DOMAIN tx.work THEN tx.work[t] ELSE mgPhysical[t]) = View(m, t)
      BY <2>4 DEF View, old
    <3> QED
      BY <2>2, <2>3, <2>4, <3>1, ReachedEnd
  <2>6. \A n \in Migrators \ {m} : DOMAIN tx.work \intersect DOMAIN mgTx[n].work = {}
    BY <2>4 DEF MgInv, WorkApart, old
  <2>7. tx.target = Target(tx.own, tx.deployment)
    BY <2>4 DEF target
  <2> QED
    BY <1>1, <1>2, <2>1, <2>4, <2>5, <2>6, <2>7, PlanKeeps
<1> QED
  BY <1>4, <1>5

LEMMA MgStart ==
    ASSUME MgInit
    PROVE  MgInv
<1>1. mgTx = [m \in Migrators |-> NoTx] /\ \A m \in Migrators : mgTx[m] = NoTx
  BY DEF MgInit
<1>2. MgTypes /\ ~mgBroken
  BY <1>1 DEF MgInit, MgTypes, MgTypeOK, Physical
<1>3. LockKept /\ WorkApart /\ \A m \in Migrators : TxKept(m)
  BY <1>1, NoTxKept DEF LockKept, Locked, WorkApart, TxKept
<1>4. MarkerKept /\ RecordedKept
  BY DEF MgInit, MarkerKept, RecordedKept, Before
<1> QED
  BY <1>2, <1>3, <1>4 DEF MgInv

LEMMA MgUnchanged ==
    ASSUME MgInv, UNCHANGED mgVars
    PROVE  MgInv'
<1>1. \A m \in Migrators : TxKept(m)'
  BY OthersKept DEF MgInv, mgVars
<1>2. MgTypes' /\ ~mgBroken' /\ LockKept' /\ WorkApart' /\ MarkerKept' /\ RecordedKept'
  BY DEF MgInv, mgVars, MgTypes, MgTypeOK, LockKept, WorkApart, MarkerKept, RecordedKept, There
<1> QED
  BY <1>1, <1>2 DEF MgInv

\* Whatever the deployments, the releases and the schemas they ask for, every step of every
\* transaction keeps the invariant of the migrations (migrateOne, confirmManualMigration).
THEOREM MgInvariance == MgSpec => []MgInv
<1>1. MgInv /\ [MgNext]_mgVars => MgInv'
  <2> SUFFICES ASSUME MgInv, MgNext PROVE MgInv'
    BY MgUnchanged
  <2>1. PICK m \in Migrators :
          \/ \E d \in Deployments : \E own \in Releases[d] :
               (\E allow \in BOOLEAN : MigrateOne(m, d, own, allow)) \/ BeginByHand(m, d, own)
          \/ TakeLock(m) \/ PlanIt(m) \/ Exec(m) \/ Commit(m) \/ Abort(m)
          \/ ByHand(m) \/ AsksToConfirm(m) \/ Confirm(m)
    BY DEF MgNext
  <2>2. CASE \E d \in Deployments : \E own \in Releases[d] : \E allow \in BOOLEAN : MigrateOne(m, d, own, allow)
    BY <2>2, MigrateOneKeeps
  <2>3. CASE \E d \in Deployments : \E own \in Releases[d] : BeginByHand(m, d, own)
    BY <2>3, BeginByHandKeeps
  <2> QED
    BY <2>1, <2>2, <2>3, TakeLockKeeps, PlanItKeeps, ExecKeeps, CommitKeeps, AbortKeeps, ByHandKeeps,
       AsksToConfirmKeeps, ConfirmKeeps
<1> QED
  BY <1>1, MgStart, PTL DEF MgSpec

\* The tables, the marker and what is recorded for the deployments have their types.
THEOREM MgTypeCorrect == MgSpec => []MgTypeOK
<1>1. MgInv => MgTypeOK
  BY DEF MgInv, MgTypes
<1> QED
  BY <1>1, MgInvariance, PTL

\* Whatever replicas, releases and operators migrate at once and wherever they fail, the marker
\* says what the database holds, what is recorded for a deployment is there, the recorded
\* deployments agree, and no plan has a statement that fails (data/fleet.ts, data/migrate.ts).
THEOREM MigrationsWhole == MgSpec => []MigrationsAreWhole
<1>1. MgInv => MigrationsAreWhole
  <2> SUFFICES ASSUME MgInv PROVE MigrationsAreWhole
    OBVIOUS
  <2>1. ASSUME NEW d \in Deployments, mgRecorded[d] # NoSchema, NEW t \in Tables, mgRecorded[d][t] # NoTable
        PROVE  mgPhysical[t] # NoTable /\ Present(mgRecorded[d][t].shape) \subseteq Present(mgPhysical[t])
    <3>1. There(mgRecorded[d])
      BY <2>1 DEF MgInv, RecordedKept
    <3>2. mgRecorded[d][t].shape # NoTable
      BY <2>1, NoTableApart DEF MgInv, MgTypes, MgTypeOK, Schema, Definition
    <3> QED
      BY <2>1, <3>1, <3>2 DEF There, HasColumn, Present
  <2> QED
    BY <2>1 DEF MigrationsAreWhole, MgInv, MarkerKept, RecordedKept
<1> QED
  BY <1>1, MgInvariance, PTL
=============================================================================
