------------------------------- MODULE Tenants -------------------------------
(***************************************************************************)
(* createTenants of packages/ketjs/src/server/tenants.ts over a pool that  *)
(* keeps its word (AdapterPool): whoever has a lease has an open adapter,  *)
(* and one without leases may be closed at any time and opened again as    *)
(* another.  What is remembered of an adapter (that it was prepared, its   *)
(* session manager) and of a key (the facade of its sessions) must fit the *)
(* adapter a call has got.  Calls are requests, operations of a session    *)
(* facade, which lease for themselves, and listeners.                      *)
(***************************************************************************)
EXTENDS Naturals, FiniteSets

CONSTANTS
    TenantKeys,     \* the tenants
    Adapters,       \* bound: the adapters that are opened, in one life of the process
    TenantCalls,    \* bound: the calls there can be at a time
    Policies,       \* what sessionFacadePolicy reads off a manager
    NoAdapter, NoTenant, NoPolicy

ASSUME TenantsAssumption ==
    /\ NoAdapter \notin Adapters /\ NoTenant \notin TenantKeys /\ NoPolicy \notin Policies
    /\ IsFiniteSet(TenantCalls)

VARIABLES
    tnPool,         \* the adapter of each key, and its leases
    tnAdapter,      \* the adapters there were
    tnFacade,       \* sessionFacades
    tnCall          \* the calls

tnVars == <<tnPool, tnAdapter, tnFacade, tnCall>>

PoolEntry == [adapter : Adapters \union {NoAdapter}, leases : Nat]
NoPoolEntry == [adapter |-> NoAdapter, leases |-> 0]

\* prepared and manager: the promises of the two WeakMaps; ready: o.prepare has succeeded.
Promise == {"none", "pending", "kept"}
Adapter == [state : {"new", "open", "closed"}, key : TenantKeys \union {NoTenant}, prepared : Promise,
            ready : BOOLEAN, manager : Promise, policy : Policies \union {NoPolicy}]
NewAdapter == [state |-> "new", key |-> NoTenant, prepared |-> "none", ready |-> FALSE,
               manager |-> "none", policy |-> NoPolicy]

\* by: the adapter a facade was made by, while it is made.
Facade == [promise : Promise, by : Adapters \union {NoAdapter}, policy : Policies \union {NoPolicy}]
NoFacade == [promise |-> "none", by |-> NoAdapter, policy |-> NoPolicy]

\* uses: what the body of a call works with.
TenantCall ==
    [kind : {"none", "request", "session", "listen"}, key : TenantKeys \union {NoTenant},
     at : {"out", "prepare", "manager", "facade", "uses"}, adapter : Adapters \union {NoAdapter}]
NoTenantCall == [kind |-> "none", key |-> NoTenant, at |-> "out", adapter |-> NoAdapter]

TnInit ==
    /\ tnPool = [k \in TenantKeys |-> NoPoolEntry]
    /\ tnAdapter = [a \in Adapters |-> NewAdapter]
    /\ tnFacade = [k \in TenantKeys |-> NoFacade]
    /\ tnCall = [c \in TenantCalls |-> NoTenantCall]

-----------------------------------------------------------------------------
Goes(c, at) == tnCall' = [tnCall EXCEPT ![c].at = at]
Has(c) == tnCall[c].adapter

\* pool.acquire, which opens an adapter, one as good as another, where there is none.
TnAcquire(c, kind, k) ==
    /\ tnCall[c] = NoTenantCall
    /\ kind = "session" => tnFacade[k].promise = "kept"
    /\ LET fresh == { a \in Adapters : tnAdapter[a].state = "new" }
           pooled == tnPool[k] IN
       \E a \in IF pooled.adapter # NoAdapter THEN {pooled.adapter}
               ELSE IF fresh = {} THEN {} ELSE { CHOOSE a \in fresh : TRUE } :
         /\ tnPool' = [tnPool EXCEPT ![k] = [adapter |-> a, leases |-> pooled.leases + 1]]
         /\ tnAdapter' = [tnAdapter EXCEPT ![a].state = "open", ![a].key = k]
         /\ tnCall' = [tnCall EXCEPT ![c] = [kind |-> kind, key |-> k, at |-> "prepare", adapter |-> a]]
    /\ UNCHANGED tnFacade

\* pool.release, by key, at the end of a call however it ends.
TnReleases(c) ==
    /\ tnPool' = [tnPool EXCEPT ![tnCall[c].key].leases = @ - 1]
    /\ tnCall' = [tnCall EXCEPT ![c] = NoTenantCall]

\* The pool closes what nobody has leased.
TnEvict(k) ==
    /\ tnPool[k].adapter # NoAdapter /\ tnPool[k].leases = 0
    /\ tnAdapter' = [tnAdapter EXCEPT ![tnPool[k].adapter].state = "closed"]
    /\ tnPool' = [tnPool EXCEPT ![k] = NoPoolEntry]
    /\ UNCHANGED <<tnFacade, tnCall>>

-----------------------------------------------------------------------------
(* prepare                                                                 *)

\* Mutant: preparation belongs to the key.
PreparedKey(a) ==
    \E b \in Adapters : tnAdapter[b].key = tnAdapter[a].key /\ tnAdapter[b].prepared = "kept"

Prepared(a) == tnAdapter[a].prepared = "kept"

\* Where a call goes once its adapter is prepared.
AfterPrepare(c) ==
    CASE tnCall[c].kind = "request" -> "facade"
      [] tnCall[c].kind = "session" -> "manager"
      [] OTHER -> "uses"

\* The first call begins the preparation, the others await it.
TnPrepare(c) ==
    /\ tnCall[c].at = "prepare"
    /\ \/ Prepared(Has(c)) /\ Goes(c, AfterPrepare(c)) /\ UNCHANGED tnAdapter
       \/ /\ ~Prepared(Has(c)) /\ tnAdapter[Has(c)].prepared = "none"
          /\ tnAdapter' = [tnAdapter EXCEPT ![Has(c)].prepared = "pending"]
          /\ UNCHANGED tnCall
    /\ UNCHANGED <<tnPool, tnFacade>>

\* o.prepare succeeds, or fails: then it is forgotten, and every call that awaits it throws.
TnPrepares(a) ==
    /\ tnAdapter[a].prepared = "pending"
    /\ tnAdapter' = [tnAdapter EXCEPT ![a].prepared = "kept", ![a].ready = TRUE]
    /\ UNCHANGED <<tnPool, tnFacade, tnCall>>

Throwing(those) ==
    /\ tnPool' = [k \in TenantKeys |->
                    [tnPool[k] EXCEPT !.leases = @ - Cardinality({ c \in those : tnCall[c].key = k })]]
    /\ tnCall' = [c \in TenantCalls |-> IF c \in those THEN NoTenantCall ELSE tnCall[c]]

TnPrepareFails(a) ==
    /\ tnAdapter[a].prepared = "pending"
    /\ tnAdapter' = [tnAdapter EXCEPT ![a].prepared = "none"]
    /\ Throwing({ c \in TenantCalls : tnCall[c].adapter = a /\ tnCall[c].at = "prepare" })
    /\ UNCHANGED tnFacade

-----------------------------------------------------------------------------
(* sessionsFor and managerFor                                              *)

\* o.sessions is asked for the manager of an adapter, once.
AsksManager(a) ==
    IF tnAdapter[a].manager = "none" THEN [tnAdapter EXCEPT ![a].manager = "pending"] ELSE tnAdapter

\* A request awaits the facade of its key, or has it made from the manager of its adapter.
TnFacade(c) ==
    LET k == tnCall[c].key IN
    /\ tnCall[c].at = "facade"
    /\ \/ tnFacade[k].promise = "kept" /\ Goes(c, "uses") /\ UNCHANGED <<tnAdapter, tnFacade>>
       \/ /\ tnFacade[k].promise = "none"
          /\ tnFacade' = [tnFacade EXCEPT ![k] = [NoFacade EXCEPT !.promise = "pending", !.by = Has(c)]]
          /\ tnAdapter' = AsksManager(Has(c))
          /\ UNCHANGED tnCall
    /\ UNCHANGED tnPool

\* The manager is made, with a policy that may have changed since the last one's.
TnManager(a, policy) ==
    /\ tnAdapter[a].manager = "pending"
    /\ tnAdapter' = [tnAdapter EXCEPT ![a].manager = "kept", ![a].policy = policy]
    /\ UNCHANGED <<tnPool, tnFacade, tnCall>>

\* The facade that waits for the manager of a is made: it keeps the policy and no adapter.
TnFacadeMade(k) ==
    /\ tnFacade[k].promise = "pending" /\ tnAdapter[tnFacade[k].by].manager = "kept"
    /\ tnFacade' = [tnFacade EXCEPT ![k] = [promise |-> "kept", by |-> NoAdapter,
                                            policy |-> tnAdapter[tnFacade[k].by].policy]]
    /\ UNCHANGED <<tnPool, tnAdapter, tnCall>>

\* o.sessions throws: manager and facade are forgotten, and who awaits them throws.
TnManagerFails(a) ==
    LET keys == { k \in TenantKeys : tnFacade[k].by = a }
        failed == { c \in TenantCalls : \/ tnCall[c].at = "manager" /\ Has(c) = a
                                        \/ tnCall[c].at = "facade" /\ tnCall[c].key \in keys } IN
    /\ tnAdapter[a].manager = "pending"
    /\ tnAdapter' = [tnAdapter EXCEPT ![a].manager = "none"]
    /\ tnFacade' = [k \in TenantKeys |-> IF k \in keys THEN NoFacade ELSE tnFacade[k]]
    /\ Throwing(failed)

PolicyStands(k, a) == tnAdapter[a].policy = tnFacade[k].policy

\* An operation of the facade gets the manager of the adapter it has leased; E_SESSION_POLICY_DRIFT
\* if that one has another policy.
TnSession(c) ==
    LET a == Has(c) IN
    /\ tnCall[c].at = "manager"
    /\ IF tnAdapter[a].manager = "kept"
       THEN /\ IF PolicyStands(tnCall[c].key, a) THEN Goes(c, "uses") /\ UNCHANGED tnPool ELSE TnReleases(c)
            /\ UNCHANGED tnAdapter
       ELSE /\ tnAdapter[a].manager = "none"
            /\ tnAdapter' = AsksManager(a)
            /\ UNCHANGED <<tnPool, tnCall>>
    /\ UNCHANGED tnFacade

\* The body returns or throws; a listener is stopped.
TnEnds(c) ==
    /\ tnCall[c].at = "uses"
    /\ TnReleases(c)
    /\ UNCHANGED <<tnAdapter, tnFacade>>

TnNext ==
    \/ \E c \in TenantCalls : \/ \E kind \in {"request", "session", "listen"}, k \in TenantKeys : TnAcquire(c, kind, k)
                              \/ TnPrepare(c) \/ TnFacade(c) \/ TnSession(c) \/ TnEnds(c)
    \/ \E a \in Adapters : \/ TnPrepares(a) \/ TnPrepareFails(a) \/ TnManagerFails(a)
                           \/ \E policy \in Policies : TnManager(a, policy)
    \/ \E k \in TenantKeys : TnEvict(k) \/ TnFacadeMade(k)

TnSpec == TnInit /\ [][TnNext]_tnVars

-----------------------------------------------------------------------------
TnTypeOK ==
    /\ tnPool \in [TenantKeys -> PoolEntry]
    /\ tnAdapter \in [Adapters -> Adapter]
    /\ tnFacade \in [TenantKeys -> Facade]
    /\ tnCall \in [TenantCalls -> TenantCall]

\* However adapters are evicted and opened again, and preparations and managers fail and are tried again,
\* a call works on an adapter of its own tenant that is open and was prepared, and a session
\* operation on that adapter's manager, under the policy its facade announced.
TenantGetsItsOwn ==
    \A c \in TenantCalls : tnCall[c].at = "uses" =>
        LET a == Has(c) IN
        /\ tnAdapter[a].state = "open" /\ tnAdapter[a].key = tnCall[c].key
        /\ tnAdapter[a].ready
        /\ tnCall[c].kind = "session" =>
             tnAdapter[a].manager = "kept" /\ tnAdapter[a].policy = tnFacade[tnCall[c].key].policy

\* Every lease is given back once: a key has as many as there are calls under way.
LeasesAreCalls ==
    \A k \in TenantKeys : tnPool[k].leases = Cardinality({ c \in TenantCalls : tnCall[c].key = k })

\* What the tenants of a deployment may rely on: both of the above.
TenantsKept == TenantGetsItsOwn /\ LeasesAreCalls
=============================================================================
