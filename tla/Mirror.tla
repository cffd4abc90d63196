-------------------------------- MODULE Mirror --------------------------------
(***************************************************************************)
(* createMirror of packages/ketjs-view/src/mirror.ts, for one key with one *)
(* reading: the answers of a server are kept, patched before a write and   *)
(* rolled back when it fails, and forgotten when the scope changes.        *)
(* Whatever runs between two awaits is one step, with the reading's        *)
(* binding effect where a signal it follows was set.                       *)
(*                                                                         *)
(* A value is known by the writes it shows: those the server had applied   *)
(* when it answered, and those an optimistic patch added.  Parsing,        *)
(* sharing, statuses, error values and the clock behind staleMs are left   *)
(* out: an answer grows stale, and an unobserved entry is collected, at    *)
(* any time.  A load asks with the credentials the page had when it began. *)
(***************************************************************************)
EXTENDS Naturals, FiniteSets

CONSTANTS
    Scopes,         \* who the page acts for
    NoScope,        \* activeScope before the first call
    Writes,         \* bound: the runs of the writers
    LoadSlots,      \* bound: the loads under way, aborted ones included
    MaxCalls,       \* bound: the calls the application makes
    NoEntry, NoData, NoLoad, NoUndo

ASSUME MirrorAssumption ==
    /\ NoScope \notin Scopes /\ LoadSlots \in Nat /\ MaxCalls \in Nat
    /\ NoLoad \notin 1 .. LoadSlots

VARIABLES
    miPage,         \* the application: its identity, its reading, how its writes share writers
    miMirror,       \* what createMirror closes over
    miServer,       \* the writes the server has applied, for each scope
    miCalls         \* the calls made

miVars == <<miPage, miMirror, miServer, miCalls>>

\* given: the application seeded or restored the value, or restored what it patched.
Value == [scope : Scopes, seen : SUBSET Writes, ghosts : SUBSET Writes, given : BOOLEAN]
Answer(scope, seen) == [scope |-> scope, seen |-> seen, ghosts |-> {}, given |-> FALSE]
Given(scope, seen) == [Answer(scope, seen) EXCEPT !.given = TRUE]
Shown(d) == d.seen \union d.ghosts

\* owed: it was invalidated while it was observed, and no load has answered since.
Entry ==
    [data : Value \union {NoData}, stale : BOOLEAN, revision : Nat, loadable : BOOLEAN,
     inflight : 1 .. LoadSlots \union {NoLoad}, restored : Value \union {NoData}, owed : BOOLEAN]
NewEntry ==
    [data |-> NoData, stale |-> FALSE, revision |-> 0, loadable |-> FALSE,
     inflight |-> NoLoad, restored |-> NoData, owed |-> FALSE]

\* more: loadMore's page, with the pages and the revision it extends; asked is when it began.
Load ==
    [at : {"free", "asked", "served"}, aborted : BOOLEAN, more : BOOLEAN, asked : Nat,
     scope : Scopes \union {NoScope}, value : Value \union {NoData}, revision : Nat]
FreeLoad ==
    [at |-> "free", aborted |-> FALSE, more |-> FALSE, asked |-> 0,
     scope |-> NoScope, value |-> NoData, revision |-> 0]

Undo == [data : Value \union {NoData}, before : Nat, revision : Nat]
WriteRecord ==
    [at : {"new", "queued", "sent", "applied", "done", "failed", "aborted", "rejected"},
     scope : Scopes \union {NoScope}, epoch : Nat, sentAs : Scopes \union {NoScope},
     aborted : BOOLEAN, undo : Undo \union {NoUndo}, behind : SUBSET Writes]
NewWrite ==
    [at |-> "new", scope |-> NoScope, epoch |-> 0, sentAs |-> NoScope,
     aborted |-> FALSE, undo |-> NoUndo, behind |-> {}]

ASSUME MirrorNulls == NoEntry \notin Entry /\ NoData \notin Value /\ NoUndo \notin Undo

Running == {"sent", "applied"}
Pending == Running \union {"queued"}

MiInit ==
    /\ \E s \in Scopes, sharing \in {"queue", "exclusive", "apart"} :
         miPage = [identity |-> s, reading |-> "none", sharing |-> sharing, closed |-> {}]
    /\ miMirror = [scope |-> NoScope, epoch |-> 0, revisions |-> 0, attached |-> FALSE,
                   disposed |-> FALSE, entry |-> NoEntry,
                   loads |-> [i \in 1 .. LoadSlots |-> FreeLoad],
                   writes |-> [w \in Writes |-> NewWrite]]
    /\ miServer = [s \in Scopes |-> {}]
    /\ miCalls = 0

-----------------------------------------------------------------------------
(* The functions of createMirror, as what they make of its state c.        *)

Observed == miPage.reading = "bound"

Abandoned(c) ==
    IF c.entry = NoEntry \/ c.entry.inflight = NoLoad THEN c
    ELSE [c EXCEPT !.loads[c.entry.inflight].aborted = TRUE, !.entry.inflight = NoLoad]

\* forget, and the entry leaves the map: a rollback finds nothing to restore any more.
Dropped(c) ==
    [Abandoned(c) EXCEPT !.entry = NoEntry,
                         !.writes = [w \in Writes |-> [c.writes[w] EXCEPT !.undo = NoUndo]]]

\* writeControllers holds the writes that are being executed.
WritesAborted(c) ==
    [c EXCEPT !.writes = [w \in Writes |->
        IF c.writes[w].at \in Running THEN [c.writes[w] EXCEPT !.aborted = TRUE] ELSE c.writes[w]]]

\* enterScope
Entered(c, s) ==
    IF c.scope \in {NoScope, s} THEN [c EXCEPT !.scope = s]
    ELSE [WritesAborted(Dropped(c)) EXCEPT !.scope = s, !.epoch = @ + 1]

EntryFor(c, s) ==
    LET d == Entered(c, s) IN IF d.entry = NoEntry THEN [d EXCEPT !.entry = NewEntry] ELSE d

Committed(c, value) ==
    [c EXCEPT !.revisions = @ + 1, !.entry.revision = c.revisions + 1,
              !.entry.data = value, !.entry.stale = FALSE]

FreeSlots(c) == { i \in 1 .. LoadSlots : c.loads[i].at = "free" }
Room == FreeSlots(miMirror) # {}

Started(c, load) ==
    LET d == Abandoned(c)
        i == CHOOSE k \in FreeSlots(c) : TRUE
    IN [d EXCEPT !.loads[i] = [load EXCEPT !.at = "asked", !.asked = c.revisions, !.scope = c.scope],
                 !.entry.inflight = i]

\* loadEntry
Loading(c, force) ==
    IF c.disposed \/ ~c.entry.loadable \/ (c.entry.inflight # NoLoad /\ ~force) THEN c
    ELSE Started(c, FreeLoad)

NeedsLoad(e) == e.inflight = NoLoad /\ e.loadable /\ (e.data = NoData \/ e.stale)

\* configureRead, with applyRestored.
Configured(c) ==
    LET d == [c EXCEPT !.entry.loadable = TRUE, !.entry.restored = NoData]
    IN IF c.entry.restored = NoData THEN d ELSE Committed(d, c.entry.restored)

\* The binding effect of the reading, on a page that has become p.
Followed(c, p) ==
    IF p.reading = "none" \/ c.disposed THEN c
    ELSE IF p.reading = "idle" THEN Entered(c, p.identity)
    ELSE LET d == EntryFor(c, p.identity)
             bound == Configured(d)
         IN IF bound.attached /\ NeedsLoad(bound.entry) THEN Loading(bound, FALSE) ELSE bound

Invalidated(c) ==
    IF c.disposed THEN c
    ELSE LET d == Entered(c, miPage.identity) IN
         IF d.entry = NoEntry THEN d
         ELSE LET e == [d EXCEPT !.entry.stale = TRUE]
              IN IF Observed /\ d.attached THEN Loading([e EXCEPT !.entry.owed = TRUE], TRUE) ELSE e

\* A load in flight would land on top of the optimistic value.
MakesWay(c) == Abandoned(c)

\* What update(current) makes of the value.
WithPatch(value, scope, w) ==
    IF value = NoData THEN [Answer(scope, {}) EXCEPT !.ghosts = {w}]
    ELSE [value EXCEPT !.ghosts = @ \union {w}]

\* patchFor's update
Patched(c, w) ==
    IF c.entry = NoEntry THEN c
    ELSE LET d == MakesWay(c) IN
         [d EXCEPT !.revisions = @ + 1, !.entry.revision = c.revisions + 1, !.entry.stale = TRUE,
                   !.entry.data = WithPatch(c.entry.data, c.scope, w),
                   !.writes[w].undo = [data |-> c.entry.data, before |-> c.entry.revision,
                                       revision |-> c.revisions + 1]]

\* What the write patched is still what the entry holds.
OwnPatch(c, undo, w) == undo # NoUndo /\ c.entry.revision = undo.revision

RolledBack(c, w) ==
    LET undo == c.writes[w].undo IN
    IF OwnPatch(c, undo, w)
    THEN [c EXCEPT !.entry.data = undo.data, !.entry.revision = undo.before]
    ELSE c

ReloadPatched(c, w) ==
    IF c.writes[w].undo # NoUndo /\ Observed /\ c.attached THEN Loading(c, TRUE) ELSE c

Ended(c, w, outcome) == [c EXCEPT !.writes[w].at = outcome]

-----------------------------------------------------------------------------
(* The page: what a call does to the mirror, and to the page itself.       *)

\* The signals the reading follows are set, and its effect runs.
Becomes(p, c) ==
    /\ miPage' = [p EXCEPT !.reading = IF c.disposed /\ @ = "bound" THEN "idle" ELSE @]
    /\ miMirror' = Followed(c, p)
    /\ UNCHANGED miServer

MiCall == miCalls < MaxCalls /\ miCalls' = miCalls + 1

MiDoes(c) == MiCall /\ miMirror' = c /\ UNCHANGED <<miPage, miServer>>

\* What cannot go on for ever without the other calls is not counted.
Uncounted(c) == UNCHANGED <<miPage, miServer, miCalls>> /\ miMirror' = c

SetScope(s) ==
    /\ MiCall /\ Room
    /\ Becomes([miPage EXCEPT !.identity = s], miMirror)

\* read(), its key set to null and back, and dispose() of the reading.
SetReading(r) ==
    /\ Room
    /\ IF r = "bound" THEN UNCHANGED miCalls ELSE MiCall
    /\ miPage.reading # r /\ ~miMirror.disposed
    /\ Becomes([miPage EXCEPT !.reading = r], miMirror)

Attach ==
    /\ Room /\ UNCHANGED miCalls
    /\ ~miMirror.disposed /\ ~miMirror.attached
    /\ Becomes(miPage, [miMirror EXCEPT !.attached = TRUE])

\* The lifetime ends: loads in flight are aborted.
Detach ==
    /\ MiCall
    /\ miMirror.attached
    /\ Becomes(miPage, [(IF miMirror.entry = NoEntry THEN miMirror
                         ELSE [Abandoned(miMirror) EXCEPT !.entry.owed = FALSE])
                            EXCEPT !.attached = FALSE])

MirrorDispose ==
    /\ MiCall
    /\ ~miMirror.disposed
    /\ Becomes(miPage, [WritesAborted(Dropped(miMirror)) EXCEPT !.disposed = TRUE, !.attached = FALSE])

Refetch == Room /\ Observed /\ MiDoes(Loading(miMirror, TRUE))

\* The interval of pollMs, focus and reconnect.
MiPoll == Room /\ Observed /\ miMirror.attached /\ MiDoes(Loading(miMirror, FALSE))

RefetchObserved ==
    /\ Room /\ Observed /\ miMirror.attached /\ NeedsLoad(miMirror.entry)
    /\ MiDoes(Loading(miMirror, FALSE))

Invalidate == Room /\ MiDoes(Invalidated(miMirror))

Prefetch ==
    /\ Room /\ ~miMirror.disposed
    /\ LET c == Configured(EntryFor(miMirror, miPage.identity))
       IN MiDoes(IF NeedsLoad(c.entry) THEN Loading(c, FALSE) ELSE c)

\* peek and snapshot
Peek == Uncounted(Entered(miMirror, miPage.identity))

\* An answer the application holds, now or from earlier.
Seed(seen) ==
    /\ ~miMirror.disposed
    /\ LET c == EntryFor(miMirror, miPage.identity)
       IN MiDoes(Committed([c EXCEPT !.entry.restored = NoData], Given(miPage.identity, seen)))

\* Mutant: a snapshot of another scope is adopted.
AdoptsAny(s) == TRUE

Adopts(s) == s = miPage.identity

\* The snapshot of a server render; a read that is bound parses it at once.
Restore(s, seen) ==
    /\ ~miMirror.disposed /\ Adopts(s)
    /\ LET c == EntryFor(miMirror, miPage.identity)
           d == [c EXCEPT !.entry.restored = Given(s, seen)]
       IN MiDoes(IF c.entry.data # NoData \/ c.entry.inflight # NoLoad THEN c
                ELSE IF c.entry.loadable THEN Configured(d) ELSE d)

GrowsStale ==
    /\ miMirror.entry # NoEntry
    /\ MiDoes([miMirror EXCEPT !.entry.stale = TRUE])

\* The gc timer of an entry nobody observes.
Collect ==
    /\ miMirror.attached /\ ~Observed /\ miMirror.entry # NoEntry
    /\ MiDoes(Dropped(miMirror))

\* loadMore, once no load is in flight.
LoadMore ==
    /\ Room /\ Observed /\ ~miMirror.disposed
    /\ miMirror.entry.inflight = NoLoad /\ miMirror.entry.data # NoData
    /\ MiDoes(Started(miMirror, [FreeLoad EXCEPT !.more = TRUE, !.value = miMirror.entry.data,
                                                !.revision = miMirror.entry.revision]))

DisposeWriter(w) ==
    LET mates == IF miPage.sharing = "apart" THEN {w} ELSE Writes IN
    /\ MiCall
    /\ mates \intersect miPage.closed = {}
    /\ miPage' = [miPage EXCEPT !.closed = @ \union mates]
    /\ miMirror' = [miMirror EXCEPT !.writes = [v \in Writes |->
           IF v \in mates THEN WritesAborted(miMirror).writes[v] ELSE @[v]]]
    /\ UNCHANGED miServer

-----------------------------------------------------------------------------
(* Loads                                                                   *)

MiSteps(c) == miMirror' = c /\ UNCHANGED miPage

LoadServed(i) ==
    LET load == miMirror.loads[i] IN
    /\ load.at = "asked"
    /\ MiSteps([miMirror EXCEPT !.loads[i] =
                 [load EXCEPT !.at = "served",
                              !.value = IF load.more THEN load.value
                                        ELSE Answer(load.scope, miServer[load.scope])]])
    /\ UNCHANGED <<miServer, miCalls>>

\* The answer was lost or did not parse, and the policy asks again.
LoadRetries(i) ==
    /\ miMirror.loads[i].at = "served" /\ ~miMirror.loads[i].aborted
    /\ MiSteps([miMirror EXCEPT !.loads[i].at = "asked"])
    /\ UNCHANGED <<miServer, miCalls>>

Lands(c, load) == ~load.aborted

Extends(c, load) == load.revision = c.entry.revision

LoadLands(i) ==
    LET load == miMirror.loads[i]
        c == [miMirror EXCEPT !.loads[i] = FreeLoad]
        d == IF c.entry # NoEntry /\ c.entry.inflight = i THEN [c EXCEPT !.entry.inflight = NoLoad] ELSE c
    IN
    /\ load.at = "served"
    /\ MiSteps(IF ~Lands(c, load) THEN c
             ELSE IF ~load.more THEN [Committed(d, load.value) EXCEPT !.entry.owed = FALSE]
             ELSE IF ~Extends(c, load) THEN d
             ELSE [d EXCEPT !.revisions = @ + 1, !.entry.revision = c.revisions + 1,
                            !.entry.data = load.value])
    /\ UNCHANGED <<miServer, miCalls>>

\* A load that is not asked again leaves what there was.
LoadFails(i) ==
    LET load == miMirror.loads[i]
        c == [miMirror EXCEPT !.loads[i] = FreeLoad]
    IN
    /\ load.at # "free"
    /\ MiSteps(IF load.aborted THEN c
             ELSE [c EXCEPT !.entry.inflight = NoLoad,
                            !.entry.owed = load.more /\ c.entry.owed])
    /\ UNCHANGED <<miServer, miCalls>>

-----------------------------------------------------------------------------
(* Writes                                                                  *)

SameScope(c, w) == c.scope = c.writes[w].scope /\ c.epoch = c.writes[w].epoch

Shut(c, w) == c.disposed \/ w \in miPage.closed

\* execute up to the first await: the patch, and the request; or the patch throws.
Executes(c, w) ==
    LET d == IF Shut(c, w) THEN c ELSE Entered(c, miPage.identity) IN
    IF Shut(c, w) \/ ~SameScope(d, w) THEN MiSteps(Ended(d, w, "aborted"))
    ELSE \/ MiSteps([Patched(d, w) EXCEPT !.writes[w].at = "sent", !.writes[w].sentAs = miPage.identity])
         \/ MiSteps(Ended(RolledBack(Patched(d, w), w), w, "failed"))

Run(w) ==
    LET c == Entered(miMirror, miPage.identity)
        pending == { v \in Writes : c.writes[v].at \in Pending }
        d == [c EXCEPT !.writes[w].scope = miPage.identity, !.writes[w].epoch = c.epoch]
    IN
    /\ miMirror.writes[w].at = "new" /\ MiCall
    /\ IF Shut(miMirror, w) THEN MiSteps(Ended(miMirror, w, "aborted"))
       ELSE IF miPage.sharing = "queue"
            THEN MiSteps([d EXCEPT !.writes[w].at = "queued", !.writes[w].behind = pending])
            ELSE IF miPage.sharing = "exclusive" /\ pending # {} THEN MiSteps(Ended(c, w, "rejected"))
                 ELSE Executes(d, w)
    /\ UNCHANGED miServer

Execute(w) ==
    /\ miMirror.writes[w].at = "queued"
    /\ \A v \in miMirror.writes[w].behind : miMirror.writes[v].at \notin Pending
    /\ Executes(miMirror, w)
    /\ UNCHANGED <<miServer, miCalls>>

ServerApplies(w) ==
    LET write == miMirror.writes[w] IN
    /\ write.at = "sent"
    /\ miServer' = [miServer EXCEPT ![write.sentAs] = @ \union {w}]
    /\ MiSteps([miMirror EXCEPT !.writes[w].at = "applied"])
    /\ UNCHANGED miCalls

Abandons(c, w) == c.writes[w].aborted \/ ~SameScope(c, w)

WriteAnswers(w) ==
    LET c == Entered(miMirror, miPage.identity) IN
    /\ miMirror.writes[w].at = "applied" /\ Room
    /\ IF Abandons(c, w) THEN MiSteps(Ended(ReloadPatched(c, w), w, "aborted"))
       ELSE \/ MiSteps(Ended(c, w, "done"))
            \/ MiSteps(Ended(Invalidated(c), w, "done"))
    /\ UNCHANGED <<miServer, miCalls>>

\* The request fails, whether or not the server has applied it.
WriteFails(w) ==
    LET c == Entered(miMirror, miPage.identity) IN
    /\ miMirror.writes[w].at \in Running /\ Room
    /\ IF Abandons(c, w) THEN MiSteps(Ended(ReloadPatched(c, w), w, "aborted"))
       ELSE \/ MiSteps([c EXCEPT !.writes[w].at = "sent"])
            \/ MiSteps(Ended(RolledBack(c, w), w, "failed"))
    /\ UNCHANGED <<miServer, miCalls>>

MiNext ==
    \/ \E s \in Scopes : SetScope(s) \/ \E seen \in {{}, miServer[s]} : Restore(s, seen)
    \/ \E r \in {"none", "idle", "bound"} : SetReading(r)
    \/ \E seen \in {{}, miServer[miPage.identity]} : Seed(seen)
    \/ Attach \/ Detach \/ MirrorDispose \/ Refetch \/ MiPoll \/ RefetchObserved
    \/ Invalidate \/ Prefetch \/ Peek \/ GrowsStale \/ Collect \/ LoadMore
    \/ \E i \in 1 .. LoadSlots : LoadServed(i) \/ LoadRetries(i) \/ LoadLands(i) \/ LoadFails(i)
    \/ \E w \in Writes : Run(w) \/ Execute(w) \/ ServerApplies(w) \/ WriteAnswers(w) \/ WriteFails(w)
                         \/ DisposeWriter(w)

MiSpec == MiInit /\ [][MiNext]_miVars

-----------------------------------------------------------------------------
MiTypeOK ==
    /\ miPage \in [identity : Scopes, reading : {"none", "idle", "bound"},
                   sharing : {"queue", "exclusive", "apart"}, closed : SUBSET Writes]
    /\ miMirror.scope \in Scopes \union {NoScope} /\ miMirror.epoch \in Nat
    /\ miMirror.revisions \in Nat /\ miMirror.attached \in BOOLEAN /\ miMirror.disposed \in BOOLEAN
    /\ miMirror.entry = NoEntry \/ miMirror.entry \in Entry
    /\ miMirror.loads \in [1 .. LoadSlots -> Load]
    /\ \A w \in Writes : miMirror.writes[w] \in WriteRecord
    /\ miServer \in [Scopes -> SUBSET Writes]

\* A page never holds under one scope what belongs to another, nor shows it to a reading, and no
\* write reaches the server for a scope other than the one it was run in, whatever is in flight,
\* queued or seeded when the account changes and changes back.
MirrorScope ==
    /\ miMirror.entry # NoEntry =>
         \A d \in {miMirror.entry.data, miMirror.entry.restored} \ {NoData} :
            /\ d.scope = miMirror.scope
            /\ Observed => d.scope = miPage.identity
    /\ \A s \in Scopes : \A w \in miServer[s] : miMirror.writes[w].scope = s

Data == IF miMirror.entry = NoEntry THEN NoData ELSE miMirror.entry.data
Older(d, e) == d # NoData /\ e # NoData /\ ~(d.seen \subseteq e.seen)

\* The load i has just replaced the value.
Landed(i) ==
    /\ miMirror.loads[i].at = "served" /\ miMirror'.loads[i].at = "free"
    /\ miMirror.revisions # miMirror'.revisions

\* An answer never lands on a patch made after it was asked for, nor on a newer answer, nor a
\* page on newer pages; and a write that fails never takes the entry back behind an answer.
MirrorKeepsNewer ==
    [][/\ \A i \in 1 .. LoadSlots : Landed(i) =>
            /\ \A w \in Writes : LET undo == miMirror.writes[w].undo
                                 IN undo # NoUndo => undo.revision <= miMirror.loads[i].asked
            /\ ~Older(Data, Data') \/ (Data.given /\ ~miMirror.loads[i].more)
       /\ \A w \in Writes :
            miMirror.writes[w].at # "failed" /\ miMirror'.writes[w].at = "failed" => ~Older(Data, Data')]_miVars

\* view-mirror.md says of invalidate: "Mark matching entries stale; observed ones reload while
\* attached".  An observed entry that was invalidated has a load under way until one has ended,
\* but for a write that has patched it and is still to end.
InvalidatedIsReloaded ==
    miMirror.entry # NoEntry /\ Observed /\ miMirror.entry.owed =>
        \/ miMirror.entry.inflight # NoLoad
        \/ \E w \in Writes : miMirror.writes[w].at \in Running /\ miMirror.writes[w].undo # NoUndo
=============================================================================
