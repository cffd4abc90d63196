--------------------------- MODULE IsolationProofs ---------------------------
(*****************************************************************************)
(* Whose data a request reaches: its tenant, and in the tenant its company.  *)
(*                                                                           *)
(* The tenants, for any number of tenants, adapters, calls and policies: a   *)
(* call works on an adapter of its own tenant that is open and was prepared, *)
(* and a session operation under the policy its facade announced. A call     *)
(* holds what the pool has for its key (CallsHold), and the pool closes      *)
(* nothing while its leases count a call (LeasesAreCalls): so what a call    *)
(* has seen of its adapter stands until it ends (CallsFit), for              *)
(* preparations, managers and facades that were kept are never taken back.   *)
(*                                                                           *)
(* The context of a call, for any models, rows, functions, companies and     *)
(* requests: the scope of a request holds wherever its work goes, and the    *)
(* account a call gives of itself is true. A row never leaves its company    *)
(* and, once deleted, is gone for good (Follows): whoever uses its id again  *)
(* inserts another row. So what one call has checked of a row the steps of   *)
(* others leave true: the row a reference was checked against is still of    *)
(* that company, or gone; one that a call has written stays one that it may  *)
(* write. What a call sees is the tables and over them the rows              *)
(* its transaction has changed, which are nobody else's (Apart), and a       *)
(* commit leaves others what they saw of theirs. The report, the changes and *)
(* the notices of a call are kept apart by transaction (AccountKept), so     *)
(* that a rollback takes back exactly its own.                               *)
(*****************************************************************************)
EXTENDS Tenants, Context, FiniteSetTheorems, TLAPS

-----------------------------------------------------------------------------
(* The tenants.                                                            *)

\* A call under way has the adapter that the pool has for its key.
CallsHold ==
    \A c \in TenantCalls : tnCall[c] # NoTenantCall =>
        /\ tnCall[c].kind # "none" /\ tnCall[c].key \in TenantKeys /\ tnCall[c].adapter \in Adapters
        /\ tnPool[tnCall[c].key].adapter = tnCall[c].adapter

\* The pool has open adapters, each under its own key.
PoolOwns ==
    \A k \in TenantKeys : tnPool[k].adapter # NoAdapter =>
        tnAdapter[tnPool[k].adapter].state = "open" /\ tnAdapter[tnPool[k].adapter].key = k

\* What a call has been told, at each point, of its adapter and of the facade of its key.
CallsFit ==
    \A c \in TenantCalls :
        /\ tnCall[c].at \in {"manager", "facade", "uses"} => tnAdapter[tnCall[c].adapter].ready
        /\ tnCall[c].at = "manager" => tnCall[c].kind = "session"
        /\ tnCall[c].at = "facade" => tnCall[c].kind = "request"
        /\ tnCall[c].kind = "session" => tnFacade[tnCall[c].key].promise = "kept"
        /\ tnCall[c].kind = "session" /\ tnCall[c].at = "uses" =>
             /\ tnAdapter[tnCall[c].adapter].manager = "kept"
             /\ tnAdapter[tnCall[c].adapter].policy = tnFacade[tnCall[c].key].policy

\* A kept promise of a preparation is of one that succeeded; a facade waits for a manager
\* only while it is made.
PromisesStand ==
    /\ \A a \in Adapters : tnAdapter[a].prepared = "kept" => tnAdapter[a].ready
    /\ \A k \in TenantKeys : IF tnFacade[k].promise = "pending"
                              THEN tnFacade[k].by \in Adapters ELSE tnFacade[k].by = NoAdapter

TnInv == TnTypeOK /\ CallsHold /\ PoolOwns /\ CallsFit /\ PromisesStand /\ LeasesAreCalls

CallsOf(k) == { c \in TenantCalls : tnCall[c].key = k }

-----------------------------------------------------------------------------
(* What can be said of the parts of any state of the invariant.            *)

LEMMA TenantsAtHand ==
    ASSUME TnTypeOK
    PROVE  /\ \A a \in Adapters : tnAdapter[a] \in Adapter
           /\ \A k \in TenantKeys : tnPool[k] \in PoolEntry /\ tnFacade[k] \in Facade
           /\ \A k \in TenantKeys : tnPool[k].leases \in Nat /\ tnPool[k].adapter \in Adapters \union {NoAdapter}
           /\ \A c \in TenantCalls : tnCall[c] \in TenantCall
           /\ NoTenantCall \in TenantCall /\ NoTenantCall.at = "out" /\ NoTenantCall.kind = "none"
           /\ NoTenantCall.key = NoTenant /\ NoTenant \notin TenantKeys /\ NoAdapter \notin Adapters
           /\ NoPoolEntry \in PoolEntry /\ NoPoolEntry.adapter = NoAdapter /\ NoPoolEntry.leases = 0
           /\ NoFacade \in Facade /\ NoFacade.promise = "none" /\ NoFacade.by = NoAdapter
  <1>1. NoTenantCall \in TenantCall /\ NoTenantCall.at = "out" /\ NoTenantCall.kind = "none" /\ NoTenantCall.key = NoTenant
    BY DEF NoTenantCall, TenantCall
  <1>2. NoPoolEntry \in PoolEntry /\ NoPoolEntry.adapter = NoAdapter /\ NoPoolEntry.leases = 0
    BY DEF NoPoolEntry, PoolEntry
  <1>3. NoFacade \in Facade /\ NoFacade.promise = "none" /\ NoFacade.by = NoAdapter
    BY DEF NoFacade, Facade, Promise
  <1>4. \A x \in PoolEntry : x.leases \in Nat /\ x.adapter \in Adapters \union {NoAdapter}
    BY DEF PoolEntry
  <1>. QED
    BY <1>1, <1>2, <1>3, <1>4, TenantsAssumption DEF TnTypeOK

\* One call, one adapter, the entry of one key, and the facade of one key change.
LEMMA CallChanges ==
    ASSUME TnTypeOK, NEW c \in TenantCalls, NEW new \in TenantCall, tnCall' = [tnCall EXCEPT ![c] = new]
    PROVE  /\ tnCall' \in [TenantCalls -> TenantCall] /\ tnCall'[c] = new
           /\ \A d \in TenantCalls : d # c => tnCall'[d] = tnCall[d]
  BY DEF TnTypeOK

LEMMA AdapterChanges ==
    ASSUME TnTypeOK, NEW a \in Adapters, NEW new \in Adapter, tnAdapter' = [tnAdapter EXCEPT ![a] = new]
    PROVE  /\ tnAdapter' \in [Adapters -> Adapter] /\ tnAdapter'[a] = new
           /\ \A b \in Adapters : b # a => tnAdapter'[b] = tnAdapter[b]
  BY DEF TnTypeOK

LEMMA PoolChanges ==
    ASSUME TnTypeOK, NEW k \in TenantKeys, NEW new \in PoolEntry, tnPool' = [tnPool EXCEPT ![k] = new]
    PROVE  /\ tnPool' \in [TenantKeys -> PoolEntry] /\ tnPool'[k] = new
           /\ \A l \in TenantKeys : l # k => tnPool'[l] = tnPool[l]
  BY DEF TnTypeOK

LEMMA FacadeChanges ==
    ASSUME TnTypeOK, NEW k \in TenantKeys, NEW new \in Facade, tnFacade' = [tnFacade EXCEPT ![k] = new]
    PROVE  /\ tnFacade' \in [TenantKeys -> Facade] /\ tnFacade'[k] = new
           /\ \A l \in TenantKeys : l # k => tnFacade'[l] = tnFacade[l]
  BY DEF TnTypeOK

-----------------------------------------------------------------------------
(* The calls and their leases.                                             *)

LEMMA CallsOfFinite ==
    ASSUME NEW k
    PROVE  IsFiniteSet(CallsOf(k)) /\ Cardinality(CallsOf(k)) \in Nat
  BY TenantsAssumption, FS_Subset, FS_CardinalityType DEF CallsOf

\* A call goes on.
LEMMA CallGoes ==
    ASSUME TnTypeOK, CallsHold, LeasesAreCalls, NEW c \in TenantCalls, UNCHANGED tnPool,
           NEW at \in {"prepare", "manager", "facade", "uses"}, tnCall[c] # NoTenantCall, Goes(c, at)
    PROVE  /\ tnCall' \in [TenantCalls -> TenantCall] /\ CallsHold' /\ LeasesAreCalls'
           /\ tnCall'[c].at = at /\ tnCall'[c].kind = tnCall[c].kind
           /\ tnCall'[c].key = tnCall[c].key /\ tnCall'[c].adapter = tnCall[c].adapter
           /\ \A d \in TenantCalls : d # c => tnCall'[d] = tnCall[d]
  <1>. USE TenantsAtHand
  <1>1. PICK x \in TenantCall : x = tnCall[c]
    OBVIOUS
  <1>. DEFINE new == [x EXCEPT !.at = at]
  <1>2. new \in TenantCall /\ new.at = at /\ new.kind = x.kind /\ new.key = x.key /\ new.adapter = x.adapter
    BY DEF TenantCall
  <1>3. tnCall' = [tnCall EXCEPT ![c] = new]
    BY <1>1 DEF Goes, TnTypeOK
  <1>. HIDE DEF new
  <1>4. /\ tnCall' \in [TenantCalls -> TenantCall] /\ tnCall'[c] = new
        /\ \A d \in TenantCalls : d # c => tnCall'[d] = tnCall[d]
    BY <1>2, <1>3, CallChanges
  <1>5. CallsHold'
    BY <1>1, <1>2, <1>4 DEF CallsHold
  <1>6. LeasesAreCalls'
    <2>1. \A k \in TenantKeys : { d \in TenantCalls : tnCall[d].key = k }' = { d \in TenantCalls : tnCall[d].key = k }
      BY <1>1, <1>2, <1>4
    <2>. QED
      BY <2>1 DEF LeasesAreCalls
  <1>. QED
    BY <1>1, <1>2, <1>4, <1>5, <1>6

\* Some calls end, each giving back its lease.
EndedCall(those) ==
    /\ tnCall' \in [TenantCalls -> TenantCall]
    /\ \A c \in TenantCalls : tnCall'[c] = IF c \in those THEN NoTenantCall ELSE tnCall[c]
    /\ \A k \in TenantKeys : /\ tnPool'[k].adapter = tnPool[k].adapter
                             /\ tnPool'[k].leases = tnPool[k].leases - Cardinality({ c \in those : tnCall[c].key = k })

LEMMA LeasesGivenBack ==
    ASSUME TnTypeOK, LeasesAreCalls, NEW those \in SUBSET TenantCalls, NEW k \in TenantKeys
    PROVE  /\ tnPool[k].leases - Cardinality({ c \in those : tnCall[c].key = k }) \in Nat
           /\ \A after : after = CallsOf(k) \ those =>
                tnPool[k].leases - Cardinality({ c \in those : tnCall[c].key = k }) = Cardinality(after)
  <1>1. CallsOf(k) \intersect those = { c \in those : tnCall[c].key = k }
    BY DEF CallsOf
  <1>2. tnPool[k].leases = Cardinality(CallsOf(k))
    BY DEF LeasesAreCalls, CallsOf
  <1>3. /\ IsFiniteSet(CallsOf(k) \ those)
        /\ Cardinality(CallsOf(k) \ those) = Cardinality(CallsOf(k)) - Cardinality(CallsOf(k) \intersect those)
    BY CallsOfFinite, FS_Difference
  <1>4. Cardinality(CallsOf(k) \ those) \in Nat
    BY <1>3, FS_CardinalityType
  <1>. QED
    BY <1>1, <1>2, <1>3, <1>4

LEMMA CallsEnd ==
    ASSUME TnTypeOK, CallsHold, LeasesAreCalls, NEW those \in SUBSET TenantCalls, EndedCall(those)
    PROVE  CallsHold' /\ LeasesAreCalls'
  <1>. USE TenantsAtHand
  <1>1. CallsHold'
    BY ZenonT(30) DEF CallsHold, EndedCall
  <1>2. \A k \in TenantKeys : CallsOf(k)' = CallsOf(k) \ those
    BY DEF EndedCall, CallsOf
  <1>3. \A k \in TenantKeys : tnPool'[k].leases = Cardinality(CallsOf(k)')
    BY <1>2, LeasesGivenBack DEF EndedCall
  <1>. QED
    BY <1>1, <1>3 DEF LeasesAreCalls, CallsOf

\* The calls that await a promise that is broken all throw.
LEMMA ThrowingEnds ==
    ASSUME TnTypeOK, LeasesAreCalls, NEW those \in SUBSET TenantCalls, Throwing(those)
    PROVE  EndedCall(those) /\ tnPool' \in [TenantKeys -> PoolEntry]
  <1>. USE TenantsAtHand
  <1>1. /\ tnCall' \in [TenantCalls -> TenantCall]
        /\ \A c \in TenantCalls : tnCall'[c] = IF c \in those THEN NoTenantCall ELSE tnCall[c]
    BY DEF Throwing
  <1>2. ASSUME NEW k \in TenantKeys
        PROVE  /\ tnPool'[k] \in PoolEntry /\ tnPool'[k].adapter = tnPool[k].adapter
               /\ tnPool'[k].leases = tnPool[k].leases - Cardinality({ c \in those : tnCall[c].key = k })
    <2>1. PICK x \in PoolEntry : x = tnPool[k]
      OBVIOUS
    <2>2. PICK n \in Nat : n = tnPool[k].leases - Cardinality({ c \in those : tnCall[c].key = k })
      BY LeasesGivenBack
    <2>3. tnPool'[k] = [x EXCEPT !.leases = n]
      BY <2>1, <2>2 DEF Throwing
    <2>4. [x EXCEPT !.leases = n] \in PoolEntry /\ [x EXCEPT !.leases = n].adapter = x.adapter
          /\ [x EXCEPT !.leases = n].leases = n
      BY DEF PoolEntry
    <2>. QED
      BY <2>1, <2>2, <2>3, <2>4
  <1>3. tnPool' = [k \in TenantKeys |-> tnPool'[k]]
    BY DEF Throwing
  <1>. QED
    BY <1>1, <1>2, <1>3 DEF EndedCall

\* A call returns or throws.
LEMMA ReleaseEnds ==
    ASSUME TnTypeOK, LeasesAreCalls, CallsHold, NEW c \in TenantCalls, tnCall[c] # NoTenantCall, TnReleases(c)
    PROVE  EndedCall({c}) /\ tnPool' \in [TenantKeys -> PoolEntry]
  <1>. USE TenantsAtHand
  <1>1. PICK k \in TenantKeys : k = tnCall[c].key
    BY DEF CallsHold
  <1>2. { d \in {c} : tnCall[d].key = k } = {c} /\ \A l \in TenantKeys : l # k => { d \in {c} : tnCall[d].key = l } = {}
    BY <1>1
  <1>3. \A those : (those = {c} => Cardinality(those) = 1) /\ (those = {} => Cardinality(those) = 0)
    BY FS_Singleton, FS_EmptySet
  <1>. DEFINE given(l) == { d \in {c} : tnCall[d].key = l }
  <1>4. Cardinality(given(k)) = 1 /\ \A l \in TenantKeys : l # k => Cardinality(given(l)) = 0
    BY <1>2, <1>3
  <1>5. {c} \in SUBSET TenantCalls
    OBVIOUS
  <1>6. tnPool[k].leases - Cardinality(given(k)) \in Nat
    BY <1>5, LeasesGivenBack
  <1>7. PICK n \in Nat : n = tnPool[k].leases - 1
    BY <1>4, <1>6
  <1>8. PICK x \in PoolEntry : x = tnPool[k]
    OBVIOUS
  <1>. DEFINE new == [x EXCEPT !.leases = n]
  <1>9. new \in PoolEntry /\ new.leases = n /\ new.adapter = x.adapter
    BY DEF PoolEntry
  <1>10. tnPool' = [tnPool EXCEPT ![k] = new]
    BY <1>1, <1>7, <1>8 DEF TnReleases, TnTypeOK
  <1>. HIDE DEF new
  <1>11. /\ tnPool' \in [TenantKeys -> PoolEntry] /\ tnPool'[k] = new
        /\ \A l \in TenantKeys : l # k => tnPool'[l] = tnPool[l]
    BY <1>9, <1>10, PoolChanges
  <1>12. /\ tnCall' \in [TenantCalls -> TenantCall] /\ tnCall'[c] = NoTenantCall
        /\ \A d \in TenantCalls : d # c => tnCall'[d] = tnCall[d]
    BY CallChanges DEF TnReleases
  <1>. HIDE DEF given
  <1>13. \A l \in TenantKeys : tnPool'[l].leases = tnPool[l].leases - Cardinality(given(l))
    BY <1>4, <1>7, <1>9, <1>11
  <1>. QED
    BY <1>8, <1>9, <1>11, <1>12, <1>13 DEF EndedCall, given

-----------------------------------------------------------------------------
(* Step by step.                                                           *)

\* A call leases the adapter of its key, which is opened if there is none.
LEMMA TnAcquireStep ==
    ASSUME TnInv, NEW c \in TenantCalls, NEW kind \in {"request", "session", "listen"}, NEW k \in TenantKeys,
           TnAcquire(c, kind, k)
    PROVE  TnInv'
  <1>. USE TenantsAtHand DEF TnInv
  <1>1. PICK n \in Nat : n = tnPool[k].leases
    OBVIOUS
  <1>2. PICK a \in Adapters :
           /\ \/ a = tnPool[k].adapter
              \/ tnPool[k].adapter = NoAdapter /\ tnAdapter[a].state = "new"
           /\ tnPool' = [tnPool EXCEPT ![k] = [adapter |-> a, leases |-> n + 1]]
           /\ tnAdapter' = [tnAdapter EXCEPT ![a].state = "open", ![a].key = k]
           /\ tnCall' = [tnCall EXCEPT ![c] = [kind |-> kind, key |-> k, at |-> "prepare", adapter |-> a]]
    <2>. DEFINE fresh == { a \in Adapters : tnAdapter[a].state = "new" }
                leases(a) == /\ tnPool' = [tnPool EXCEPT ![k] = [adapter |-> a, leases |-> tnPool[k].leases + 1]]
                             /\ tnAdapter' = [tnAdapter EXCEPT ![a].state = "open", ![a].key = k]
                             /\ tnCall' = [tnCall EXCEPT ![c] =
                                            [kind |-> kind, key |-> k, at |-> "prepare", adapter |-> a]]
    <2>1. \E a \in IF tnPool[k].adapter # NoAdapter THEN {tnPool[k].adapter}
                   ELSE IF fresh = {} THEN {} ELSE { CHOOSE a \in fresh : TRUE } : leases(a)
      BY Zenon DEF TnAcquire
    <2>. HIDE DEF leases
    <2>2. CASE tnPool[k].adapter # NoAdapter
      BY <1>1, <2>1, <2>2 DEF leases
    <2>3. CASE tnPool[k].adapter = NoAdapter
      <3>1. fresh # {} /\ leases(CHOOSE a \in fresh : TRUE)
        BY <2>1, <2>3
      <3>. DEFINE a == CHOOSE b \in fresh : TRUE
      <3>2. a \in fresh
        BY <3>1
      <3>. QED
        BY <1>1, <2>3, <3>1, <3>2 DEF leases
    <2>. QED
      BY <2>2, <2>3
  <1>3. tnCall[c] = NoTenantCall /\ (kind = "session" => tnFacade[k].promise = "kept") /\ UNCHANGED tnFacade
    BY DEF TnAcquire
  <1>4. PICK x \in Adapter : x = tnAdapter[a]
    OBVIOUS
  <1>. DEFINE pooled == [adapter |-> a, leases |-> n + 1]
              new == [x EXCEPT !.state = "open", !.key = k]
              mine == [kind |-> kind, key |-> k, at |-> "prepare", adapter |-> a]
  <1>5. tnAdapter' = [tnAdapter EXCEPT ![a] = new]
    BY <1>2, <1>4 DEF TnTypeOK
  <1>6. /\ new \in Adapter /\ new.state = "open" /\ new.key = k /\ new.prepared = x.prepared
        /\ new.ready = x.ready /\ new.manager = x.manager /\ new.policy = x.policy
    BY DEF Adapter
  <1>7. pooled \in PoolEntry /\ pooled.adapter = a /\ pooled.leases = n + 1
    BY DEF PoolEntry
  <1>8. mine \in TenantCall /\ mine.kind = kind /\ mine.key = k /\ mine.at = "prepare" /\ mine.adapter = a
    BY DEF TenantCall
  <1>. HIDE DEF pooled, new, mine
  <1>9. /\ tnPool' \in [TenantKeys -> PoolEntry] /\ tnPool'[k] = pooled
        /\ \A l \in TenantKeys : l # k => tnPool'[l] = tnPool[l]
    BY <1>2, <1>7, PoolChanges DEF pooled
  <1>10. /\ tnAdapter' \in [Adapters -> Adapter] /\ tnAdapter'[a] = new
         /\ \A b \in Adapters : b # a => tnAdapter'[b] = tnAdapter[b]
    BY <1>5, <1>6, AdapterChanges
  <1>11. /\ tnCall' \in [TenantCalls -> TenantCall] /\ tnCall'[c] = mine
         /\ \A d \in TenantCalls : d # c => tnCall'[d] = tnCall[d]
    BY <1>2, <1>8, CallChanges DEF mine
  <1>12. \A b \in Adapters : /\ tnAdapter'[b].prepared = tnAdapter[b].prepared /\ tnAdapter'[b].ready = tnAdapter[b].ready
                             /\ tnAdapter'[b].manager = tnAdapter[b].manager /\ tnAdapter'[b].policy = tnAdapter[b].policy
    BY <1>4, <1>6, <1>10
  <1>13. TnTypeOK'
    BY <1>3, <1>9, <1>10, <1>11 DEF TnTypeOK
  <1>14. CallsHold'
    BY <1>2, <1>7, <1>8, <1>9, <1>11 DEF CallsHold
  <1>15. PoolOwns'
    BY <1>2, <1>6, <1>7, <1>9, <1>10 DEF PoolOwns
  <1>16. CallsFit'
    <2>1. \A d \in TenantCalls : tnCall[d].at # "out" \/ tnCall[d].kind # "none" => tnCall[d].adapter \in Adapters
      BY DEF CallsHold
    <2>. QED
      BY <1>3, <1>8, <1>11, <1>12, <2>1 DEF CallsFit
  <1>17. PromisesStand'
    BY <1>3, <1>12 DEF PromisesStand
  <1>18. LeasesAreCalls'
    <2>1. CallsOf(k)' = CallsOf(k) \union {c} /\ c \notin CallsOf(k) /\ \A l \in TenantKeys : l # k => CallsOf(l)' = CallsOf(l)
      BY <1>3, <1>8, <1>11 DEF CallsOf
    <2>2. Cardinality(CallsOf(k) \union {c}) = Cardinality(CallsOf(k)) + 1
      BY <2>1, CallsOfFinite, FS_AddElement
    <2>3. \A l \in TenantKeys : tnPool'[l].leases = Cardinality(CallsOf(l)')
      BY <1>1, <1>7, <1>9, <2>1, <2>2 DEF LeasesAreCalls, CallsOf
    <2>. QED
      BY <2>3 DEF LeasesAreCalls, CallsOf
  <1>. QED
    BY <1>13, <1>14, <1>15, <1>16, <1>17, <1>18

\* The pool closes what nobody has leased: no call works on it.
LEMMA TnEvictStep ==
    ASSUME TnInv, NEW k \in TenantKeys, TnEvict(k)
    PROVE  TnInv'
  <1>. USE TenantsAtHand DEF TnInv
  <1>1. PICK a \in Adapters : a = tnPool[k].adapter
    BY DEF TnEvict
  <1>2. PICK x \in Adapter : x = tnAdapter[a]
    OBVIOUS
  <1>. DEFINE new == [x EXCEPT !.state = "closed", !.key = x.key]
  <1>3. /\ tnPool[k].leases = 0 /\ UNCHANGED <<tnFacade, tnCall>> /\ tnPool' = [tnPool EXCEPT ![k] = NoPoolEntry]
        /\ tnAdapter' = [tnAdapter EXCEPT ![a] = new]
    BY <1>1, <1>2 DEF TnEvict, TnTypeOK, Adapter
  <1>4. /\ new \in Adapter /\ new.prepared = x.prepared /\ new.key = x.key
        /\ new.ready = x.ready /\ new.manager = x.manager /\ new.policy = x.policy
    BY DEF Adapter
  <1>. HIDE DEF new
  <1>5. /\ tnPool' \in [TenantKeys -> PoolEntry] /\ tnPool'[k] = NoPoolEntry
        /\ \A l \in TenantKeys : l # k => tnPool'[l] = tnPool[l]
    BY <1>3, PoolChanges
  <1>6. /\ tnAdapter' \in [Adapters -> Adapter] /\ tnAdapter'[a] = new
        /\ \A b \in Adapters : b # a => tnAdapter'[b] = tnAdapter[b]
    BY <1>3, <1>4, AdapterChanges
  <1>7. \A b \in Adapters : /\ tnAdapter'[b].prepared = tnAdapter[b].prepared /\ tnAdapter'[b].ready = tnAdapter[b].ready
                            /\ tnAdapter'[b].manager = tnAdapter[b].manager /\ tnAdapter'[b].policy = tnAdapter[b].policy
    BY <1>2, <1>4, <1>6
  <1>8. \A c \in TenantCalls : tnCall[c].key # k
    <2>1. Cardinality(CallsOf(k)) = 0
      BY <1>3 DEF LeasesAreCalls, CallsOf
    <2>2. CallsOf(k) = {}
      BY <2>1, CallsOfFinite, FS_EmptySet
    <2>. QED
      BY <2>2 DEF CallsOf
  <1>9. TnTypeOK'
    BY <1>3, <1>5, <1>6 DEF TnTypeOK
  <1>10. CallsHold'
    BY <1>3, <1>5, <1>8 DEF CallsHold
  <1>11. PoolOwns'
    BY <1>1, <1>5, <1>6 DEF PoolOwns
  <1>12. CallsFit'
    <2>1. \A d \in TenantCalls : tnCall[d].at # "out" \/ tnCall[d].kind # "none" => tnCall[d].adapter \in Adapters
      BY DEF CallsHold
    <2>. QED
      BY <1>3, <1>7, <2>1 DEF CallsFit
  <1>13. PromisesStand'
    BY <1>3, <1>7 DEF PromisesStand
  <1>14. LeasesAreCalls'
    BY <1>3, <1>5 DEF LeasesAreCalls
  <1>. QED
    BY <1>9, <1>10, <1>11, <1>12, <1>13, <1>14

\* An adapter under way from one promise to the next stays the one its calls hold.
LEMMA OnlyAdapter ==
    ASSUME TnInv, NEW a \in Adapters, NEW new \in Adapter, tnAdapter' = [tnAdapter EXCEPT ![a] = new],
           new.state = tnAdapter[a].state, new.key = tnAdapter[a].key,
           new.prepared = "kept" => new.ready, tnAdapter[a].ready => new.ready,
           tnAdapter[a].manager = "kept" => new.manager = "kept" /\ new.policy = tnAdapter[a].policy
    PROVE  /\ tnAdapter' \in [Adapters -> Adapter] /\ (UNCHANGED <<tnPool, tnCall>> => CallsHold' /\ LeasesAreCalls')
           /\ (\A k \in TenantKeys : tnPool'[k].adapter = tnPool[k].adapter) => PoolOwns'
           /\ \A b \in Adapters : tnAdapter'[b].prepared = "kept" => tnAdapter'[b].ready
           /\ \A b \in Adapters : tnAdapter[b].ready => tnAdapter'[b].ready
           /\ \A b \in Adapters : tnAdapter[b].manager = "kept" =>
                tnAdapter'[b].manager = "kept" /\ tnAdapter'[b].policy = tnAdapter[b].policy
  <1>. USE TenantsAtHand DEF TnInv
  <1>1. /\ tnAdapter' \in [Adapters -> Adapter] /\ tnAdapter'[a] = new
        /\ \A b \in Adapters : b # a => tnAdapter'[b] = tnAdapter[b]
    BY AdapterChanges
  <1>2. UNCHANGED <<tnPool, tnCall>> => CallsHold' /\ LeasesAreCalls'
    BY DEF CallsHold, LeasesAreCalls
  <1>3. (\A k \in TenantKeys : tnPool'[k].adapter = tnPool[k].adapter) => PoolOwns'
    BY <1>1 DEF PoolOwns
  <1>4. \A b \in Adapters : tnAdapter'[b].prepared = "kept" => tnAdapter'[b].ready
    BY <1>1 DEF PromisesStand
  <1>. QED
    BY <1>1, <1>2, <1>3, <1>4

\* What calls were told stands, with such a change, for those that stay where they are.
LEMMA FitStands ==
    ASSUME TnInv,
           \A b \in Adapters : tnAdapter[b].ready => tnAdapter'[b].ready,
           \A b \in Adapters : tnAdapter[b].manager = "kept" =>
               tnAdapter'[b].manager = "kept" /\ tnAdapter'[b].policy = tnAdapter[b].policy,
           \A k \in TenantKeys : tnFacade[k].promise = "kept" => tnFacade'[k] = tnFacade[k],
           \A c \in TenantCalls : tnCall'[c] = tnCall[c] \/ tnCall'[c] = NoTenantCall
    PROVE  CallsFit'
  <1>. USE TenantsAtHand DEF TnInv
  <1>1. \A d \in TenantCalls : tnCall[d].at # "out" \/ tnCall[d].kind # "none" =>
            tnCall[d].adapter \in Adapters /\ tnCall[d].key \in TenantKeys
    BY DEF CallsHold
  <1>. QED
    BY <1>1 DEF CallsFit

\* The calls that are out, and those under way.
LEMMA UnderWay ==
    ASSUME TnInv, NEW c \in TenantCalls, tnCall[c].at # "out" \/ tnCall[c].kind # "none"
    PROVE  /\ tnCall[c] # NoTenantCall /\ tnCall[c].kind \in {"request", "session", "listen"}
           /\ tnCall[c].key \in TenantKeys /\ tnCall[c].adapter \in Adapters
  <1>1. tnCall[c] # NoTenantCall /\ tnCall[c] \in TenantCall
    BY TenantsAtHand DEF TnInv
  <1>. QED
    BY <1>1 DEF TnInv, CallsHold, TenantCall

\* The adapter of a call is prepared, or its preparation begins.
LEMMA TnPrepareStep ==
    ASSUME TnInv, NEW c \in TenantCalls, TnPrepare(c)
    PROVE  TnInv'
  <1>. USE TenantsAtHand DEF TnInv
  <1>1. tnCall[c].at = "prepare" /\ UNCHANGED <<tnPool, tnFacade>>
    BY DEF TnPrepare
  <1>2. /\ tnCall[c] # NoTenantCall /\ tnCall[c].kind \in {"request", "session", "listen"}
        /\ tnCall[c].key \in TenantKeys
    BY <1>1, UnderWay
  <1>3. PICK a \in Adapters : a = tnCall[c].adapter
    BY <1>1, UnderWay
  <1>4. CASE tnAdapter[a].prepared = "kept" /\ Goes(c, AfterPrepare(c)) /\ UNCHANGED tnAdapter
    <2>1. PICK at \in {"facade", "manager", "uses"} :
            /\ at = AfterPrepare(c)
            /\ (at = "facade" => tnCall[c].kind = "request")
            /\ (at = "manager" => tnCall[c].kind = "session")
            /\ (at = "uses" => tnCall[c].kind = "listen")
      <3>1. CASE tnCall[c].kind = "request"
        BY <3>1 DEF AfterPrepare
      <3>2. CASE tnCall[c].kind = "session"
        BY <3>2 DEF AfterPrepare
      <3>3. CASE tnCall[c].kind = "listen"
        BY <3>3 DEF AfterPrepare
      <3>. QED
        BY <1>2, <3>1, <3>2, <3>3
    <2>2. /\ tnCall' \in [TenantCalls -> TenantCall] /\ CallsHold' /\ LeasesAreCalls'
          /\ tnCall'[c].at = at /\ tnCall'[c].kind = tnCall[c].kind
          /\ tnCall'[c].key = tnCall[c].key /\ tnCall'[c].adapter = tnCall[c].adapter
          /\ \A d \in TenantCalls : d # c => tnCall'[d] = tnCall[d]
      BY <1>1, <1>2, <1>4, <2>1, CallGoes
    <2>3. tnAdapter[a].ready
      BY <1>4 DEF PromisesStand
    <2>4. CallsFit'
      BY <1>1, <1>3, <1>4, <2>1, <2>2, <2>3 DEF CallsFit
    <2>5. TnTypeOK' /\ PoolOwns' /\ PromisesStand'
      BY <1>1, <1>4, <2>2 DEF TnTypeOK, PoolOwns, PromisesStand
    <2>. QED
      BY <2>2, <2>4, <2>5
  <1>5. CASE UNCHANGED tnCall /\ tnAdapter' = [tnAdapter EXCEPT ![a].prepared = "pending"]
    <2>1. PICK x \in Adapter : x = tnAdapter[a]
      OBVIOUS
    <2>. DEFINE new == [x EXCEPT !.prepared = "pending"]
    <2>2. tnAdapter' = [tnAdapter EXCEPT ![a] = new] /\ UNCHANGED <<tnPool, tnCall>>
      BY <1>1, <1>5, <2>1 DEF TnTypeOK
    <2>3. /\ new \in Adapter /\ new.state = x.state /\ new.key = x.key /\ new.prepared # "kept"
          /\ new.ready = x.ready /\ new.manager = x.manager /\ new.policy = x.policy
      BY DEF Adapter, Promise
    <2>. HIDE DEF new
    <2>4. /\ tnAdapter' \in [Adapters -> Adapter] /\ CallsHold' /\ LeasesAreCalls' /\ PoolOwns'
          /\ \A b \in Adapters : tnAdapter'[b].prepared = "kept" => tnAdapter'[b].ready
          /\ \A b \in Adapters : tnAdapter[b].ready => tnAdapter'[b].ready
          /\ \A b \in Adapters : tnAdapter[b].manager = "kept" =>
                tnAdapter'[b].manager = "kept" /\ tnAdapter'[b].policy = tnAdapter[b].policy
      BY <2>1, <2>2, <2>3, OnlyAdapter
    <2>5. CallsFit'
      BY <1>1, <1>5, <2>4, FitStands
    <2>6. TnTypeOK' /\ PromisesStand'
      BY <1>1, <1>5, <2>4 DEF TnTypeOK, PromisesStand
    <2>. QED
      BY <2>4, <2>5, <2>6
  <1>. QED
    BY <1>3, <1>4, <1>5 DEF TnPrepare, Prepared, Has

\* o.prepare succeeds.
LEMMA TnPreparesStep ==
    ASSUME TnInv, NEW a \in Adapters, TnPrepares(a)
    PROVE  TnInv'
  <1>. USE TenantsAtHand DEF TnInv
  <1>1. PICK x \in Adapter : x = tnAdapter[a]
    OBVIOUS
  <1>. DEFINE new == [x EXCEPT !.prepared = "kept", !.ready = TRUE]
  <1>2. tnAdapter' = [tnAdapter EXCEPT ![a] = new] /\ UNCHANGED <<tnPool, tnFacade, tnCall>>
    BY <1>1 DEF TnPrepares, TnTypeOK
  <1>3. /\ new \in Adapter /\ new.state = x.state /\ new.key = x.key
        /\ new.ready /\ new.manager = x.manager /\ new.policy = x.policy
    BY DEF Adapter, Promise
  <1>. HIDE DEF new
  <1>4. /\ tnAdapter' \in [Adapters -> Adapter] /\ CallsHold' /\ LeasesAreCalls' /\ PoolOwns'
        /\ \A b \in Adapters : tnAdapter'[b].prepared = "kept" => tnAdapter'[b].ready
        /\ \A b \in Adapters : tnAdapter[b].ready => tnAdapter'[b].ready
        /\ \A b \in Adapters : tnAdapter[b].manager = "kept" =>
              tnAdapter'[b].manager = "kept" /\ tnAdapter'[b].policy = tnAdapter[b].policy
    BY <1>1, <1>2, <1>3, OnlyAdapter
  <1>5. CallsFit'
    BY <1>2, <1>4, FitStands
  <1>6. TnTypeOK' /\ PromisesStand'
    BY <1>2, <1>4 DEF TnTypeOK, PromisesStand
  <1>. QED
    BY <1>4, <1>5, <1>6

\* It fails, and those who await it end.
LEMMA TnPrepareFailsStep ==
    ASSUME TnInv, NEW a \in Adapters, TnPrepareFails(a)
    PROVE  TnInv'
  <1>. USE TenantsAtHand DEF TnInv
  <1>1. PICK x \in Adapter : x = tnAdapter[a]
    OBVIOUS
  <1>. DEFINE new == [x EXCEPT !.prepared = "none"]
              those == { c \in TenantCalls : tnCall[c].adapter = a /\ tnCall[c].at = "prepare" }
  <1>2. tnAdapter' = [tnAdapter EXCEPT ![a] = new] /\ Throwing(those) /\ UNCHANGED tnFacade
    BY <1>1 DEF TnPrepareFails, TnTypeOK
  <1>3. /\ new \in Adapter /\ new.state = x.state /\ new.key = x.key /\ new.prepared # "kept"
        /\ new.ready = x.ready /\ new.manager = x.manager /\ new.policy = x.policy
    BY DEF Adapter, Promise
  <1>4. those \in SUBSET TenantCalls
    OBVIOUS
  <1>. HIDE DEF new, those
  <1>5. EndedCall(those) /\ tnPool' \in [TenantKeys -> PoolEntry]
    BY <1>2, <1>4, ThrowingEnds
  <1>6. CallsHold' /\ LeasesAreCalls'
    BY <1>4, <1>5, CallsEnd
  <1>7. /\ tnAdapter' \in [Adapters -> Adapter] /\ PoolOwns'
        /\ \A b \in Adapters : tnAdapter'[b].prepared = "kept" => tnAdapter'[b].ready
        /\ \A b \in Adapters : tnAdapter[b].ready => tnAdapter'[b].ready
        /\ \A b \in Adapters : tnAdapter[b].manager = "kept" =>
              tnAdapter'[b].manager = "kept" /\ tnAdapter'[b].policy = tnAdapter[b].policy
    BY <1>1, <1>2, <1>3, <1>5, OnlyAdapter DEF EndedCall
  <1>8. CallsFit'
    BY <1>2, <1>5, <1>7, FitStands DEF EndedCall
  <1>9. TnTypeOK' /\ PromisesStand'
    BY <1>2, <1>5, <1>7 DEF TnTypeOK, PromisesStand, EndedCall
  <1>. QED
    BY <1>6, <1>7, <1>8, <1>9

\* The manager of an adapter is asked for, unless it was before.
LEMMA AskingManager ==
    ASSUME TnTypeOK, NEW a \in Adapters, tnAdapter' = AsksManager(a)
    PROVE  \E new \in Adapter :
               /\ tnAdapter' = [tnAdapter EXCEPT ![a] = new]
               /\ new.state = tnAdapter[a].state /\ new.key = tnAdapter[a].key
               /\ new.prepared = tnAdapter[a].prepared /\ new.ready = tnAdapter[a].ready
               /\ tnAdapter[a].manager = "kept" => new.manager = "kept" /\ new.policy = tnAdapter[a].policy
  <1>. USE TenantsAtHand
  <1>1. PICK x \in Adapter : x = tnAdapter[a]
    OBVIOUS
  <1>2. CASE x.manager = "none"
    <2>. DEFINE new == [x EXCEPT !.manager = "pending"]
    <2>1. tnAdapter' = [tnAdapter EXCEPT ![a] = new]
      BY <1>1, <1>2 DEF AsksManager, TnTypeOK
    <2>2. /\ new \in Adapter /\ new.state = x.state /\ new.key = x.key
          /\ new.prepared = x.prepared /\ new.ready = x.ready
      BY DEF Adapter, Promise
    <2>. HIDE DEF new
    <2>. QED
      BY <1>1, <1>2, <2>1, <2>2
  <1>3. CASE x.manager # "none"
    <2>1. tnAdapter' = [tnAdapter EXCEPT ![a] = x]
      BY <1>1, <1>3 DEF AsksManager, TnTypeOK
    <2>. QED
      BY <1>1, <2>1
  <1>. QED
    BY <1>2, <1>3

\* A request goes on with the facade of its key, or has it made.
LEMMA TnFacadeStep ==
    ASSUME TnInv, NEW c \in TenantCalls, TnFacade(c)
    PROVE  TnInv'
  <1>. USE TenantsAtHand DEF TnInv
  <1>1. tnCall[c].at = "facade" /\ UNCHANGED tnPool
    BY DEF TnFacade
  <1>2. tnCall[c] # NoTenantCall /\ tnCall[c].kind = "request"
    BY <1>1, UnderWay DEF CallsFit
  <1>3. PICK k \in TenantKeys : k = tnCall[c].key
    BY <1>1, UnderWay
  <1>4. PICK a \in Adapters : a = tnCall[c].adapter
    BY <1>1, UnderWay
  <1>5. CASE Goes(c, "uses") /\ UNCHANGED <<tnAdapter, tnFacade>>
    <2>1. /\ tnCall' \in [TenantCalls -> TenantCall] /\ CallsHold' /\ LeasesAreCalls'
          /\ tnCall'[c].at = "uses" /\ tnCall'[c].kind = tnCall[c].kind
          /\ tnCall'[c].key = tnCall[c].key /\ tnCall'[c].adapter = tnCall[c].adapter
          /\ \A d \in TenantCalls : d # c => tnCall'[d] = tnCall[d]
      BY <1>1, <1>2, <1>5, CallGoes
    <2>2. CallsFit'
      BY <1>1, <1>2, <1>5, <2>1 DEF CallsFit
    <2>3. TnTypeOK' /\ PoolOwns' /\ PromisesStand'
      BY <1>1, <1>5, <2>1 DEF TnTypeOK, PoolOwns, PromisesStand
    <2>. QED
      BY <2>1, <2>2, <2>3
  <1>6. CASE /\ tnFacade[k].promise = "none"
             /\ tnFacade' = [tnFacade EXCEPT ![k] = [NoFacade EXCEPT !.promise = "pending", !.by = a]]
             /\ tnAdapter' = AsksManager(a) /\ UNCHANGED tnCall
    <2>. DEFINE facade == [NoFacade EXCEPT !.promise = "pending", !.by = a]
    <2>1. facade \in Facade /\ facade.promise = "pending" /\ facade.by = a
      BY DEF Facade, Promise, NoFacade
    <2>2. tnFacade' = [tnFacade EXCEPT ![k] = facade]
      BY <1>6
    <2>. HIDE DEF facade
    <2>3. /\ tnFacade' \in [TenantKeys -> Facade] /\ tnFacade'[k] = facade
          /\ \A l \in TenantKeys : l # k => tnFacade'[l] = tnFacade[l]
      BY <2>1, <2>2, FacadeChanges
    <2>4. PICK new \in Adapter :
               /\ tnAdapter' = [tnAdapter EXCEPT ![a] = new]
               /\ new.state = tnAdapter[a].state /\ new.key = tnAdapter[a].key
               /\ new.prepared = tnAdapter[a].prepared /\ new.ready = tnAdapter[a].ready
               /\ tnAdapter[a].manager = "kept" => new.manager = "kept" /\ new.policy = tnAdapter[a].policy
      BY <1>6, AskingManager
    <2>5. new.prepared = "kept" => new.ready
      BY <2>4 DEF PromisesStand
    <2>6. /\ tnAdapter' \in [Adapters -> Adapter] /\ CallsHold' /\ LeasesAreCalls' /\ PoolOwns'
          /\ \A b \in Adapters : tnAdapter'[b].prepared = "kept" => tnAdapter'[b].ready
          /\ \A b \in Adapters : tnAdapter[b].ready => tnAdapter'[b].ready
          /\ \A b \in Adapters : tnAdapter[b].manager = "kept" =>
                tnAdapter'[b].manager = "kept" /\ tnAdapter'[b].policy = tnAdapter[b].policy
      BY <1>1, <1>6, <2>4, <2>5, OnlyAdapter
    <2>7. CallsFit'
      BY <1>6, <2>3, <2>6, FitStands
    <2>8. TnTypeOK' /\ PromisesStand'
      BY <1>1, <1>6, <2>1, <2>3, <2>6 DEF TnTypeOK, PromisesStand
    <2>. QED
      BY <2>6, <2>7, <2>8
  <1>. QED
    BY <1>3, <1>4, <1>5, <1>6 DEF TnFacade, Has

\* The manager of an adapter is made.
LEMMA TnManagerStep ==
    ASSUME TnInv, NEW a \in Adapters, NEW policy \in Policies, TnManager(a, policy)
    PROVE  TnInv'
  <1>. USE TenantsAtHand DEF TnInv
  <1>1. PICK x \in Adapter : x = tnAdapter[a]
    OBVIOUS
  <1>. DEFINE new == [x EXCEPT !.manager = "kept", !.policy = policy]
  <1>2. /\ tnAdapter' = [tnAdapter EXCEPT ![a] = new] /\ UNCHANGED <<tnPool, tnFacade, tnCall>>
        /\ tnAdapter[a].manager = "pending"
    BY <1>1 DEF TnManager, TnTypeOK
  <1>3. /\ new \in Adapter /\ new.state = x.state /\ new.key = x.key
        /\ new.prepared = x.prepared /\ new.ready = x.ready
    BY DEF Adapter, Promise
  <1>. HIDE DEF new
  <1>4. new.prepared = "kept" => new.ready
    BY <1>1, <1>3 DEF PromisesStand
  <1>5. /\ tnAdapter' \in [Adapters -> Adapter] /\ CallsHold' /\ LeasesAreCalls' /\ PoolOwns'
        /\ \A b \in Adapters : tnAdapter'[b].prepared = "kept" => tnAdapter'[b].ready
        /\ \A b \in Adapters : tnAdapter[b].ready => tnAdapter'[b].ready
        /\ \A b \in Adapters : tnAdapter[b].manager = "kept" =>
              tnAdapter'[b].manager = "kept" /\ tnAdapter'[b].policy = tnAdapter[b].policy
    BY <1>1, <1>2, <1>3, <1>4, OnlyAdapter
  <1>6. CallsFit'
    BY <1>2, <1>5, FitStands
  <1>7. TnTypeOK' /\ PromisesStand'
    BY <1>2, <1>5 DEF TnTypeOK, PromisesStand
  <1>. QED
    BY <1>5, <1>6, <1>7

\* The facade that waited for it is made.
LEMMA TnFacadeMadeStep ==
    ASSUME TnInv, NEW k \in TenantKeys, TnFacadeMade(k)
    PROVE  TnInv'
  <1>. USE TenantsAtHand DEF TnInv
  <1>1. /\ tnFacade[k].promise = "pending" /\ tnAdapter[tnFacade[k].by].manager = "kept"
        /\ UNCHANGED <<tnPool, tnAdapter, tnCall>>
    BY DEF TnFacadeMade
  <1>2. PICK policy \in Policies \union {NoPolicy} : policy = tnAdapter[tnFacade[k].by].policy
    BY <1>1 DEF PromisesStand, Adapter
  <1>. DEFINE facade == [promise |-> "kept", by |-> NoAdapter, policy |-> policy]
  <1>3. tnFacade' = [tnFacade EXCEPT ![k] = facade]
    BY <1>2 DEF TnFacadeMade
  <1>4. facade \in Facade /\ facade.promise = "kept" /\ facade.by = NoAdapter
    BY DEF Facade, Promise
  <1>. HIDE DEF facade
  <1>5. /\ tnFacade' \in [TenantKeys -> Facade] /\ tnFacade'[k] = facade
        /\ \A l \in TenantKeys : l # k => tnFacade'[l] = tnFacade[l]
    BY <1>3, <1>4, FacadeChanges
  <1>6. CallsHold' /\ LeasesAreCalls' /\ PoolOwns'
    BY <1>1 DEF CallsHold, LeasesAreCalls, PoolOwns
  <1>7. CallsFit'
    BY <1>1, <1>5, FitStands
  <1>8. TnTypeOK' /\ PromisesStand'
    BY <1>1, <1>4, <1>5 DEF TnTypeOK, PromisesStand
  <1>. QED
    BY <1>6, <1>7, <1>8

\* The manager cannot be made: who awaits it, or a facade made from it, ends.
LEMMA TnManagerFailsStep ==
    ASSUME TnInv, NEW a \in Adapters, TnManagerFails(a)
    PROVE  TnInv'
  <1>. USE TenantsAtHand DEF TnInv
  <1>1. PICK x \in Adapter : x = tnAdapter[a]
    OBVIOUS
  <1>. DEFINE new == [x EXCEPT !.manager = "none"]
              keys == { k \in TenantKeys : tnFacade[k].by = a }
              failed == { c \in TenantCalls : \/ tnCall[c].at = "manager" /\ Has(c) = a
                                              \/ tnCall[c].at = "facade" /\ tnCall[c].key \in keys }
  <1>2. /\ tnAdapter' = [tnAdapter EXCEPT ![a] = new] /\ tnAdapter[a].manager = "pending" /\ Throwing(failed)
        /\ tnFacade' = [k \in TenantKeys |-> IF k \in keys THEN NoFacade ELSE tnFacade[k]]
    BY <1>1 DEF TnManagerFails, TnTypeOK
  <1>3. /\ new \in Adapter /\ new.state = x.state /\ new.key = x.key
        /\ new.prepared = x.prepared /\ new.ready = x.ready
    BY DEF Adapter, Promise
  <1>4. failed \in SUBSET TenantCalls
    OBVIOUS
  <1>5. /\ tnFacade' \in [TenantKeys -> Facade]
        /\ \A k \in TenantKeys : (tnFacade'[k] = NoFacade /\ tnFacade[k].by = a) \/ tnFacade'[k] = tnFacade[k]
    BY <1>2
  <1>. HIDE DEF new, failed, keys
  <1>6. EndedCall(failed) /\ tnPool' \in [TenantKeys -> PoolEntry]
    BY <1>2, <1>4, ThrowingEnds
  <1>7. CallsHold' /\ LeasesAreCalls'
    BY <1>4, <1>6, CallsEnd
  <1>8. new.prepared = "kept" => new.ready
    BY <1>1, <1>3 DEF PromisesStand
  <1>9. /\ tnAdapter' \in [Adapters -> Adapter] /\ PoolOwns'
        /\ \A b \in Adapters : tnAdapter'[b].prepared = "kept" => tnAdapter'[b].ready
        /\ \A b \in Adapters : tnAdapter[b].ready => tnAdapter'[b].ready
        /\ \A b \in Adapters : tnAdapter[b].manager = "kept" =>
              tnAdapter'[b].manager = "kept" /\ tnAdapter'[b].policy = tnAdapter[b].policy
    BY <1>1, <1>2, <1>3, <1>6, <1>8, OnlyAdapter DEF EndedCall
  <1>10. \A k \in TenantKeys : tnFacade[k].promise = "kept" => tnFacade'[k] = tnFacade[k]
    BY <1>5 DEF PromisesStand
  <1>11. CallsFit'
    BY <1>6, <1>9, <1>10, FitStands DEF EndedCall
  <1>12. TnTypeOK' /\ PromisesStand'
    BY <1>5, <1>6, <1>9 DEF TnTypeOK, PromisesStand, EndedCall
  <1>. QED
    BY <1>7, <1>9, <1>11, <1>12

\* An operation of a session facade has the manager of its adapter, under the policy announced.
LEMMA TnSessionStep ==
    ASSUME TnInv, NEW c \in TenantCalls, TnSession(c)
    PROVE  TnInv'
  <1>. USE TenantsAtHand DEF TnInv
  <1>1. tnCall[c].at = "manager" /\ UNCHANGED tnFacade
    BY DEF TnSession
  <1>2. tnCall[c] # NoTenantCall /\ tnCall[c].kind = "session"
    BY <1>1, UnderWay DEF CallsFit
  <1>3. PICK k \in TenantKeys : k = tnCall[c].key
    BY <1>1, UnderWay
  <1>4. PICK a \in Adapters : a = tnCall[c].adapter
    BY <1>1, UnderWay
  <1>5. CASE tnAdapter[a].manager = "kept" /\ PolicyStands(k, a) /\ Goes(c, "uses") /\ UNCHANGED <<tnPool, tnAdapter>>
    <2>1. /\ tnCall' \in [TenantCalls -> TenantCall] /\ CallsHold' /\ LeasesAreCalls'
          /\ tnCall'[c].at = "uses" /\ tnCall'[c].kind = tnCall[c].kind
          /\ tnCall'[c].key = tnCall[c].key /\ tnCall'[c].adapter = tnCall[c].adapter
          /\ \A d \in TenantCalls : d # c => tnCall'[d] = tnCall[d]
      BY <1>2, <1>5, CallGoes
    <2>2. CallsFit'
      BY <1>1, <1>2, <1>3, <1>4, <1>5, <2>1 DEF CallsFit, PolicyStands
    <2>3. TnTypeOK' /\ PoolOwns' /\ PromisesStand'
      BY <1>1, <1>5, <2>1 DEF TnTypeOK, PoolOwns, PromisesStand
    <2>. QED
      BY <2>1, <2>2, <2>3
  <1>6. CASE TnReleases(c) /\ UNCHANGED tnAdapter
    <2>1. EndedCall({c}) /\ tnPool' \in [TenantKeys -> PoolEntry]
      BY <1>2, <1>6, ReleaseEnds
    <2>2. CallsHold' /\ LeasesAreCalls'
      BY <2>1, CallsEnd
    <2>3. CallsFit'
      BY <1>1, <1>6, <2>1, FitStands DEF EndedCall
    <2>4. TnTypeOK'
      BY <1>1, <1>6, <2>1 DEF TnTypeOK, EndedCall
    <2>5. PoolOwns'
      BY <1>6, <2>1 DEF PoolOwns, EndedCall
    <2>6. PromisesStand'
      BY <1>1, <1>6 DEF PromisesStand
    <2>. QED
      BY <2>2, <2>3, <2>4, <2>5, <2>6
  <1>7. CASE tnAdapter' = AsksManager(a) /\ UNCHANGED <<tnPool, tnCall>>
    <2>1. PICK new \in Adapter :
               /\ tnAdapter' = [tnAdapter EXCEPT ![a] = new]
               /\ new.state = tnAdapter[a].state /\ new.key = tnAdapter[a].key
               /\ new.prepared = tnAdapter[a].prepared /\ new.ready = tnAdapter[a].ready
               /\ tnAdapter[a].manager = "kept" => new.manager = "kept" /\ new.policy = tnAdapter[a].policy
      BY <1>7, AskingManager
    <2>2. new.prepared = "kept" => new.ready
      BY <2>1 DEF PromisesStand
    <2>3. /\ tnAdapter' \in [Adapters -> Adapter] /\ CallsHold' /\ LeasesAreCalls' /\ PoolOwns'
          /\ \A b \in Adapters : tnAdapter'[b].prepared = "kept" => tnAdapter'[b].ready
          /\ \A b \in Adapters : tnAdapter[b].ready => tnAdapter'[b].ready
          /\ \A b \in Adapters : tnAdapter[b].manager = "kept" =>
                tnAdapter'[b].manager = "kept" /\ tnAdapter'[b].policy = tnAdapter[b].policy
      BY ZenonT(30), <1>7, <2>1, <2>2, OnlyAdapter
    <2>4. CallsFit'
      BY <1>1, <1>7, <2>3, FitStands
    <2>5. TnTypeOK' /\ PromisesStand'
      BY <1>1, <1>7, <2>3 DEF TnTypeOK, PromisesStand
    <2>. QED
      BY <2>3, <2>4, <2>5
  <1>. QED
    BY <1>3, <1>4, <1>5, <1>6, <1>7 DEF TnSession, Has

LEMMA TnEndsStep ==
    ASSUME TnInv, NEW c \in TenantCalls, TnEnds(c)
    PROVE  TnInv'
  <1>. USE TenantsAtHand DEF TnInv
  <1>1. tnCall[c] # NoTenantCall /\ TnReleases(c) /\ UNCHANGED <<tnAdapter, tnFacade>>
    BY DEF TnEnds
  <1>2. EndedCall({c}) /\ tnPool' \in [TenantKeys -> PoolEntry]
    BY <1>1, ReleaseEnds
  <1>3. CallsHold' /\ LeasesAreCalls'
    BY <1>2, CallsEnd
  <1>4. CallsFit'
    BY <1>1, <1>2, FitStands DEF EndedCall
  <1>5. TnTypeOK'
    BY <1>1, <1>2 DEF TnTypeOK, EndedCall
  <1>6. PoolOwns'
    BY <1>1, <1>2 DEF PoolOwns, EndedCall
  <1>7. PromisesStand'
    BY <1>1 DEF PromisesStand
  <1>. QED
    BY <1>3, <1>4, <1>5, <1>6, <1>7

-----------------------------------------------------------------------------
(* The invariant and what follows from it.                                 *)

LEMMA TnStarts ==
    ASSUME TnInit
    PROVE  TnInv
  <1>1. NewAdapter \in Adapter /\ NewAdapter.prepared = "none"
    BY DEF NewAdapter, Adapter, Promise
  <1>2. TnTypeOK
    BY <1>1, TenantsAssumption DEF TnInit, TnTypeOK, NoPoolEntry, PoolEntry, NoFacade, Facade, Promise, NoTenantCall, TenantCall
  <1>. USE <1>2, TenantsAtHand
  <1>3. CallsHold /\ PoolOwns /\ CallsFit
    BY DEF TnInit, CallsHold, PoolOwns, CallsFit
  <1>4. PromisesStand
    BY <1>1 DEF TnInit, PromisesStand
  <1>5. LeasesAreCalls
    <2>1. \A k \in TenantKeys : CallsOf(k) = {}
      BY DEF TnInit, CallsOf
    <2>2. \A k \in TenantKeys : Cardinality(CallsOf(k)) = 0
      BY <2>1, FS_EmptySet
    <2>. QED
      BY <2>2 DEF TnInit, LeasesAreCalls, CallsOf
  <1>. QED
    BY <1>3, <1>4, <1>5 DEF TnInv

LEMMA TnStep ==
    ASSUME TnInv, [TnNext]_tnVars
    PROVE  TnInv'
  <1>1. CASE TnNext
    BY <1>1, TnAcquireStep, TnPrepareStep, TnFacadeStep, TnSessionStep, TnEndsStep, TnPreparesStep, TnPrepareFailsStep,
       TnManagerFailsStep, TnManagerStep, TnEvictStep, TnFacadeMadeStep DEF TnNext
  <1>2. CASE UNCHANGED tnVars
    BY <1>2 DEF tnVars, TnInv, TnTypeOK, CallsHold, PoolOwns, CallsFit, PromisesStand, LeasesAreCalls
  <1>. QED
    BY <1>1, <1>2

\* The invariant holds in every reachable state, whatever the number of tenants and calls.
THEOREM TnInvariance == TnSpec => []TnInv
  BY TnStarts, TnStep, PTL DEF TnSpec

\* The variables keep their types: no key is left with fewer than no leases.
THEOREM TnTypeCorrect == TnSpec => []TnTypeOK
  BY TnInvariance, PTL DEF TnInv

\* Whatever is evicted and opened again, and whichever preparations and managers fail: each call
\* works on an open, prepared adapter of its own tenant, a session operation under the policy its
\* facade announced, and every lease is given back once.
THEOREM TenantsGetTheirOwn == TnSpec => []TenantsKept
  <1>1. TnInv => TenantsKept
    <2>. SUFFICES ASSUME TnInv PROVE TenantsKept
      OBVIOUS
    <2>1. ASSUME NEW c \in TenantCalls, tnCall[c].at = "uses"
          PROVE  LET a == Has(c) IN
                 /\ tnAdapter[a].state = "open" /\ tnAdapter[a].key = tnCall[c].key
                 /\ tnAdapter[a].ready
                 /\ tnCall[c].kind = "session" =>
                      tnAdapter[a].manager = "kept" /\ tnAdapter[a].policy = tnFacade[tnCall[c].key].policy
      <3>1. /\ tnCall[c] # NoTenantCall /\ tnCall[c].key \in TenantKeys /\ tnCall[c].adapter \in Adapters
            /\ NoAdapter \notin Adapters
        BY <2>1, UnderWay, TenantsAssumption
      <3>. QED
        BY <2>1, <3>1 DEF TnInv, CallsHold, PoolOwns, CallsFit, Has
    <2>. QED
      BY <2>1 DEF TnInv, TenantsKept, TenantGetsItsOwn
  <1>. QED
    BY <1>1, TnInvariance, PTL

-----------------------------------------------------------------------------
(* The context of a call.                                                  *)

Cell(id) == RowOf(id) \union {NoOne, Erased}

CxJob == [fn : DOMAIN Fns, scope : Scope, limit : SUBSET Companies]

CxEntry == [op : {"insert", "update", "delete", "enqueue"}, on : Ids \union DOMAIN ModelDefs \union DOMAIN Fns, tx : Nat]

\* The statement a call is about to send.
Statement ==
    {Between}
    \union [op : {"insert"}, id : Names, row : CxRow]
    \union [op : {"update"}, id : Names, ref : Ids \union {NoOne}, blind : BOOLEAN]

TxRecord ==
    [open : BOOLEAN, rows : UNION {[D -> CxRow \union {Erased}] : D \in SUBSET Ids}, jobs : SUBSET CxJob,
     notices : SUBSET Ids, done : SUBSET CxEntry, writes : SUBSET CxEntry, was : SUBSET Ids]

CallRecord ==
    [fn : DOMAIN Fns, scope : Scope, dry : BOOLEAN, limit : SUBSET Companies, status : {"running", "ended"},
     at : Statement, ops : Nat, writes : SUBSET CxEntry, done : SUBSET CxEntry, heard : SUBSET Ids,
     wrote : SUBSET Ids, touched : SUBSET Companies, due : SUBSET Ids, txs : Nat \ {0}, rolled : SUBSET Nat,
     tx : TxRecord]

-----------------------------------------------------------------------------
(* A row never leaves its company, nor does it come back.                  *)

Follows(new, old) ==
    /\ old # NoOne => new # NoOne
    /\ old = Erased => new = Erased
    /\ Present(old) /\ Present(new) => new.company = old.company /\ new.branch = old.branch
Follow(new, old) == \A id \in Ids : Follows(new[id], old[id])

\* What the connection of a call shows.
View(call, rows) == [id \in Ids |-> IF id \in DOMAIN call.tx.rows THEN call.tx.rows[id] ELSE rows[id]]

\* A reference from a row of that model and company to one of its company.
RefersTo(view, m, ref, company) ==
    ~Shared(m) /\ ref # NoOne =>
        /\ view[ref] # NoOne
        /\ Present(view[ref]) /\ ~Shared(ModelOf[ref]) => view[ref].company = company

\* A row that a call has written, or is about to, refers inside unless nobody had the id.
RowRefers(row, cross, view) == row.blind \/ cross \/ RefersTo(view, row.model, row.ref, row.company)

-----------------------------------------------------------------------------
(* What a running call keeps: its scope, its rows, its account.            *)

ScopeKept(call) ==
    /\ Coherent(call.scope)
    /\ Authority(Fns[call.fn], call.scope) \subseteq call.limit
    /\ call.touched \subseteq Authority(Fns[call.fn], call.scope)

\* A job does no more than whoever enqueued it might.
JobKept(job) == Authority(Fns[job.fn], job.scope) \subseteq job.limit

\* The rows a transaction has changed are its own, of the rows there were.
TxKept(call, c, rows) ==
    /\ ~call.tx.open => call.tx = NoTx
    /\ \A job \in call.tx.jobs : JobKept(job)
    /\ \A id \in DOMAIN call.tx.rows :
        LET row == call.tx.rows[id] IN
        /\ row \in RowOf(id) \union {Erased}
        /\ Follows(row, rows[id])
        /\ Present(row) => row.by = c /\ RowRefers(row, Fns[call.fn].cross, View(call, rows))

\* The call may write and read what is there of what it wrote, at its connection and, when it
\* rolls back, in the tables.
Legible(call, id, row) ==
    /\ row # NoOne
    /\ Present(row) => Updates(Fns[call.fn], call.scope, row) /\ InScope(Fns[call.fn], call.scope, row)
WroteKept(call, rows) ==
    /\ \A id \in call.wrote : Legible(call, id, View(call, rows)[id])
    /\ \A id \in call.tx.was : Legible(call, id, rows[id])

\* The statement it is about to send was checked, and the rows it goes by are still there.
AtKept(call, c, rows) ==
    /\ call.at.op = "insert" =>
        /\ call.at.row \in RowOf(call.at.id) /\ call.at.row.by = c
        /\ InScope(Fns[call.fn], call.scope, call.at.row)
        /\ ~Shared(call.at.row.model) => call.at.row.company = call.scope.company
        /\ RowRefers(call.at.row, Fns[call.fn].cross, View(call, rows))
    /\ call.at.op = "update" =>
        \/ call.at.blind \/ Fns[call.fn].cross
        \/ RefersTo(View(call, rows), ModelOf[call.at.id], call.at.ref, call.scope.company)

On(entries) == {e.on : e \in entries}
NamesOf(ids) == {NameOf[id] : id \in ids}

\* The report, the changes and the notices of a call, of its transactions that went through and of
\* the one under way.
AccountKept(call) ==
    /\ call.done \subseteq call.writes /\ call.tx.done \subseteq call.tx.writes
    /\ call.heard \union call.due \union NamesOf(call.tx.was) \subseteq On(call.done)
    /\ NamesOf(call.wrote) \union call.tx.notices \subseteq On(call.done \union call.tx.done)
    /\ \A w \in call.writes : w.tx < call.txs /\ w.tx \notin call.rolled
    /\ \A w \in call.tx.writes : w.tx = call.txs
    /\ \A n \in call.rolled : n \in 1 .. call.txs - 1
    /\ call.at.op \in {"insert", "update"} =>
        Change(call, call.at.op, call.at.id) \in IF call.tx.open THEN call.tx.writes ELSE call.writes

\* A rehearsal has done nothing.
DryKept(call) ==
    call.dry =>
        /\ call.at = Between
        /\ call.done = {} /\ call.heard = {} /\ call.due = {} /\ call.wrote = {}
        /\ call.tx.rows = NoRows /\ call.tx.done = {} /\ call.tx.notices = {} /\ call.tx.jobs = {}

CallKept(call, c, rows) ==
    /\ call \in CallRecord
    /\ call.status = "ended" => call = Ended(call.fn)
    /\ call.status = "running" =>
        /\ ScopeKept(call)
        /\ TxKept(call, c, rows)
        /\ WroteKept(call, rows)
        /\ AtKept(call, c, rows)
        /\ AccountKept(call)
        /\ DryKept(call)

-----------------------------------------------------------------------------
(* The tables, the queue and the calls together.                           *)

TableKept(rows, calls) ==
    /\ rows \in [Ids -> CxRow \union {NoOne, Erased}]
    /\ \A id \in Ids :
        /\ rows[id] \in Cell(id)
        /\ Present(rows[id]) /\ rows[id].ref # NoOne =>
            /\ rows[id].by \in DOMAIN calls
            /\ RowRefers(rows[id], Fns[calls[rows[id].by].fn].cross, rows)

\* No row is in two transactions.
Apart(calls) ==
    \A c, d \in DOMAIN calls : c # d => DOMAIN calls[c].tx.rows \intersect DOMAIN calls[d].tx.rows = {}

CxKept(rows, calls, jobs) ==
    /\ calls \in Seq(CallRecord)
    /\ TableKept(rows, calls)
    /\ jobs \subseteq CxJob /\ \A job \in jobs : JobKept(job)
    /\ \A c \in DOMAIN calls : CallKept(calls[c], c, rows)
    /\ Apart(calls)

CxInv == CxKept(cxRows, cxCalls, cxJobs)

-----------------------------------------------------------------------------
(* Records and views.                                                      *)

Table == [Ids -> CxRow \union {NoOne, Erased}]

LEMMA CellIs ==
    ASSUME NEW id \in Ids, NEW row \in Cell(id)
    PROVE  /\ row \in CxRow \union {NoOne, Erased}
           /\ Present(row) => row \in RowOf(id) /\ row \in CxRow /\ row.model = ModelOf[id]
           /\ Present(row) /\ ~Shared(ModelOf[id]) => row.company \in Companies
  BY ContextAssumption DEF Cell, RowOf, Present, Shared, ScopeKind

\* The rows that have an id in turn are of one model, and each can stand for all.
LEMMA BearersAre ==
    ASSUME NEW id \in Ids, NEW t \in Bearers(id)
    PROVE  /\ t \in Ids /\ NameOf[t] = NameOf[id] /\ ModelOf[t] = ModelOf[id]
           /\ Bearers(t) = Bearers(id) /\ RowOf(t) = RowOf(id) /\ id \in Bearers(id)
  <1>1. t \in Ids /\ NameOf[t] = NameOf[id]
    BY DEF Bearers
  <1>2. ModelOf[t] = ModelOf[id]
    BY <1>1, ContextAssumption
  <1>. QED
    BY <1>1, <1>2 DEF Bearers, RowOf

LEMMA NamesAre ==
    ASSUME NEW id \in Names
    PROVE  id \in Ids /\ NameOf[id] = id
  BY ContextAssumption DEF Names

LEMMA NoNames == NamesOf({}) = {}
  BY DEF NamesOf

LEMMA NamesJoin == \A A, B : NamesOf(A \union B) = NamesOf(A) \union NamesOf(B)
  BY DEF NamesOf

\* A row that is not locked is in no other transaction.
LEMMA UnlockedIs ==
    ASSUME NEW c, NEW id \in Ids, Unlocked(c, id)
    PROVE  /\ \A d \in Numbered \ {c} : id \notin DOMAIN cxCalls[d].tx.rows
           /\ \A t \in Bearers(id) : Unlocked(c, t)
  <1>1. id \in Bearers(id)
    BY DEF Bearers
  <1>. QED
    BY <1>1, BearersAre DEF Unlocked

LEMMA RowIsPresent ==
    ASSUME NEW row \in CxRow
    PROVE  Present(row)
  BY ContextAssumption DEF Present

LEMMA NoRowsIs == DOMAIN NoRows = {} /\ NoRows \in [{} -> CxRow \union {Erased}]
  BY DEF NoRows

LEMMA TxIs ==
    /\ NoTx \in TxRecord
    /\ \A W \in SUBSET Ids : BeginTx(W) \in TxRecord
  <1>1. NoRows \in UNION {[D -> CxRow \union {Erased}] : D \in SUBSET Ids}
    BY NoRowsIs
  <1>2. NoTx \in TxRecord
    BY <1>1 DEF NoTx, TxRecord
  <1>. QED
    BY <1>2 DEF BeginTx, TxRecord

LEMMA BeginTxIs ==
    ASSUME NEW W \in SUBSET Ids
    PROVE  /\ BeginTx(W).open = TRUE /\ BeginTx(W).rows = NoRows /\ BeginTx(W).jobs = {}
           /\ BeginTx(W).notices = {} /\ BeginTx(W).done = {} /\ BeginTx(W).writes = {} /\ BeginTx(W).was = W
  BY DEF BeginTx, NoTx

LEMMA NoTxIs ==
    /\ NoTx.open = FALSE /\ NoTx.rows = NoRows /\ NoTx.jobs = {} /\ NoTx.notices = {} /\ NoTx.done = {}
    /\ NoTx.writes = {} /\ NoTx.was = {}
  BY DEF NoTx

\* What a transaction has changed is a table of some of the rows.
LEMMA TxRowsAre ==
    ASSUME NEW call \in CallRecord
    PROVE  /\ call.tx \in TxRecord
           /\ DOMAIN call.tx.rows \subseteq Ids
           /\ call.tx.rows \in [DOMAIN call.tx.rows -> CxRow \union {Erased}]
  <1>1. call.tx \in TxRecord
    BY DEF CallRecord
  <1>2. call.tx.rows \in UNION {[D -> CxRow \union {Erased}] : D \in SUBSET Ids}
    BY <1>1 DEF TxRecord
  <1>. QED
    BY <1>1, <1>2

-----------------------------------------------------------------------------
(* Rows that follow others.                                                *)

LEMMA FollowsItself == \A row : Follows(row, row)
  BY DEF Follows

LEMMA FollowsOn ==
    ASSUME NEW a, NEW b, NEW c, Follows(a, b), Follows(b, c)
    PROVE  Follows(a, c)
  BY ContextAssumption DEF Follows, Present

LEMMA LegibleFollows ==
    ASSUME NEW call, NEW id \in Ids, NEW old \in Cell(id), NEW new \in Cell(id), Follows(new, old),
           Legible(call, id, old)
    PROVE  Legible(call, id, new)
  <1>1. new # NoOne
    BY DEF Legible, Follows
  <1>2. ASSUME Present(new)
        PROVE  Updates(Fns[call.fn], call.scope, new) /\ InScope(Fns[call.fn], call.scope, new)
    <2>1. Present(old)
      BY <1>2 DEF Follows, Present, Legible
    <2>2. old.model = ModelOf[id] /\ new.model = ModelOf[id] /\ new.company = old.company /\ new.branch = old.branch
      BY <1>2, <2>1, CellIs DEF Follows
    <2>3. Updates(Fns[call.fn], call.scope, old) /\ InScope(Fns[call.fn], call.scope, old)
      BY <2>1 DEF Legible
    <2>. QED
      BY <2>2, <2>3 DEF InScope, Updates
  <1>. QED
    BY <1>1, <1>2 DEF Legible

LEMMA RefersFollows ==
    ASSUME NEW view, NEW view2, Follow(view2, view), NEW m, NEW ref \in Ids \union {NoOne}, NEW company,
           RefersTo(view, m, ref, company)
    PROVE  RefersTo(view2, m, ref, company)
  <1>. SUFFICES ASSUME ~Shared(m), ref # NoOne
                PROVE  /\ view2[ref] # NoOne
                       /\ Present(view2[ref]) /\ ~Shared(ModelOf[ref]) => view2[ref].company = company
    BY DEF RefersTo
  <1>1. Follows(view2[ref], view[ref]) /\ view[ref] # NoOne
    BY DEF Follow, RefersTo
  <1>2. Present(view2[ref]) => Present(view[ref])
    BY <1>1 DEF Follows, Present
  <1>. QED
    BY <1>1, <1>2 DEF Follows, RefersTo

LEMMA RowRefersFollows ==
    ASSUME NEW view, NEW view2, Follow(view2, view), NEW row \in CxRow, NEW cross, RowRefers(row, cross, view)
    PROVE  RowRefers(row, cross, view2)
  BY RefersFollows DEF RowRefers, CxRow

LEMMA ViewIs ==
    ASSUME NEW call, NEW rows, NEW id \in Ids
    PROVE  View(call, rows)[id] = IF id \in DOMAIN call.tx.rows THEN call.tx.rows[id] ELSE rows[id]
  BY DEF View

\* Under the rows of a step that leaves alone what a transaction has changed, its view follows.
LEMMA ViewFollows ==
    ASSUME NEW call, NEW rows, NEW rows2, Follow(rows2, rows),
           \A id \in DOMAIN call.tx.rows : rows2[id] = rows[id]
    PROVE  Follow(View(call, rows2), View(call, rows))
  <1>. SUFFICES ASSUME NEW id \in Ids PROVE Follows(View(call, rows2)[id], View(call, rows)[id])
    BY DEF Follow
  <1>1. CASE id \in DOMAIN call.tx.rows
    BY <1>1, ViewIs, FollowsItself
  <1>2. CASE id \notin DOMAIN call.tx.rows
    BY <1>2, ViewIs DEF Follow
  <1>. QED
    BY <1>1, <1>2

LEMMA ViewCells ==
    ASSUME NEW call, NEW c, NEW rows, TxKept(call, c, rows), \A id \in Ids : rows[id] \in Cell(id),
           NEW id \in Ids
    PROVE  View(call, rows)[id] \in Cell(id) /\ Follows(View(call, rows)[id], rows[id])
  <1>1. CASE id \in DOMAIN call.tx.rows
    BY <1>1, ViewIs DEF TxKept, Cell
  <1>2. CASE id \notin DOMAIN call.tx.rows
    BY <1>2, ViewIs, FollowsItself
  <1>. QED
    BY <1>1, <1>2

-----------------------------------------------------------------------------
(* What a step of one call leaves to the others.                           *)

LEMMA EndedKept ==
    ASSUME NEW call \in CallRecord, call = Ended(call.fn), NEW c, NEW rows
    PROVE  CallKept(call, c, rows)
  <1>1. call.status = "ended"
    <2>1. Ended(call.fn).status = "ended"
      BY DEF Ended, Call
    <2>. QED
      BY <2>1
  <1>. QED
    BY <1>1 DEF CallKept

LEMMA OthersKept ==
    ASSUME NEW call, NEW c, NEW rows, NEW rows2, CallKept(call, c, rows), Follow(rows2, rows),
           \A id \in Ids : rows[id] \in Cell(id) /\ rows2[id] \in Cell(id),
           \A id \in DOMAIN call.tx.rows : rows2[id] = rows[id]
    PROVE  CallKept(call, c, rows2)
  <1>. SUFFICES ASSUME call.status = "running"
                PROVE  TxKept(call, c, rows2) /\ WroteKept(call, rows2) /\ AtKept(call, c, rows2)
    BY DEF CallKept
  <1>. DEFINE view == View(call, rows)  view2 == View(call, rows2)
  <1>1. TxKept(call, c, rows) /\ WroteKept(call, rows) /\ AtKept(call, c, rows) /\ call \in CallRecord
    BY DEF CallKept
  <1>2. Follow(view2, view)
    BY ViewFollows
  <1>3. DOMAIN call.tx.rows \subseteq Ids
    BY <1>1, TxRowsAre
  <1>4. \A m, company : \A ref \in Ids \union {NoOne} :
            RefersTo(view, m, ref, company) => RefersTo(view2, m, ref, company)
    BY <1>2, RefersFollows
  <1>5. \A cross : \A row \in CxRow : RowRefers(row, cross, view) => RowRefers(row, cross, view2)
    BY <1>2, RowRefersFollows
  <1>. HIDE DEF view, view2
  <1>6. TxKept(call, c, rows2)
    <2>1. \A id \in DOMAIN call.tx.rows :
            LET row == call.tx.rows[id] IN
            /\ row \in RowOf(id) \union {Erased}
            /\ Follows(row, rows[id])
            /\ Present(row) => row.by = c /\ RowRefers(row, Fns[call.fn].cross, view)
      BY <1>1 DEF TxKept, view
    <2>2. \A id \in DOMAIN call.tx.rows : Present(call.tx.rows[id]) => call.tx.rows[id] \in CxRow
      BY <2>1 DEF RowOf, Present
    <2>3. \A id \in DOMAIN call.tx.rows :
            LET row == call.tx.rows[id] IN
            /\ row \in RowOf(id) \union {Erased}
            /\ Follows(row, rows2[id])
            /\ Present(row) => row.by = c /\ RowRefers(row, Fns[call.fn].cross, view2)
      BY <2>1, <2>2, <1>5
    <2>. QED
      BY <2>3, <1>1 DEF TxKept, view2
  <1>7. WroteKept(call, rows2)
    <2>1. \A id \in call.wrote : id \in Ids
      BY <1>1 DEF CallRecord
    <2>2. \A id \in call.tx.was : id \in Ids
      BY <1>1, TxRowsAre DEF TxRecord
    <2>3. ASSUME NEW id \in call.wrote PROVE Legible(call, id, view2[id])
      <3>1. id \in Ids /\ Legible(call, id, view[id])
        BY <1>1, <2>1 DEF WroteKept, view
      <3>2. view[id] \in Cell(id) /\ Follows(view2[id], view[id])
        BY <1>1, <1>2, <3>1, ViewCells DEF view, Follow
      <3>3. view2[id] \in Cell(id)
        BY <1>6, <3>1, ViewCells DEF view2
      <3>. QED
        BY <3>1, <3>2, <3>3, LegibleFollows
    <2>4. ASSUME NEW id \in call.tx.was PROVE Legible(call, id, rows2[id])
      <3>1. id \in Ids /\ Legible(call, id, rows[id])
        BY <1>1, <2>2 DEF WroteKept
      <3>. QED
        BY <3>1, LegibleFollows DEF Follow
    <2>. QED
      BY <2>3, <2>4 DEF WroteKept, view2
  <1>8. AtKept(call, c, rows2)
    <2>1. call.at \in Statement
      BY <1>1 DEF CallRecord
    <2>2. call.at.op = "insert" => call.at.row \in CxRow
      BY <1>1 DEF AtKept, RowOf
    <2>3. call.at.op = "update" => call.at.ref \in Ids \union {NoOne}
      BY <2>1 DEF Statement, Between
    <2>. QED
      BY <1>1, <1>4, <1>5, <2>2, <2>3 DEF AtKept, view, view2
  <1>. QED
    BY <1>6, <1>7, <1>8

\* The rows of the tables go on referring inside when they stay, or follow, or are what a call
\* has just written.
LEMMA TableGoesOn ==
    ASSUME NEW rows \in Table, NEW rows2 \in Table, NEW calls, NEW calls2,
           TableKept(rows, calls), Follow(rows2, rows),
           \A id \in Ids : rows2[id] \in Cell(id),
           \A d \in DOMAIN calls : d \in DOMAIN calls2 /\ calls2[d].fn = calls[d].fn,
           \A id \in Ids : Present(rows2[id]) /\ rows2[id].ref # NoOne =>
                \/ rows2[id] = rows[id]
                \/ /\ rows2[id].by \in DOMAIN calls2
                   /\ RowRefers(rows2[id], Fns[calls2[rows2[id].by].fn].cross, rows2)
    PROVE  TableKept(rows2, calls2)
  <1>. SUFFICES ASSUME NEW id \in Ids, Present(rows2[id]), rows2[id].ref # NoOne, rows2[id] = rows[id]
                PROVE  /\ rows2[id].by \in DOMAIN calls2
                       /\ RowRefers(rows2[id], Fns[calls2[rows2[id].by].fn].cross, rows2)
    BY DEF TableKept, Table
  <1>1. /\ rows[id].by \in DOMAIN calls
        /\ RowRefers(rows[id], Fns[calls[rows[id].by].fn].cross, rows)
    BY DEF TableKept
  <1>2. rows[id] \in CxRow
    BY DEF Table, Present
  <1>. QED
    BY <1>1, <1>2, RowRefersFollows

-----------------------------------------------------------------------------
(* A step of one call keeps the invariant if it keeps what it touches.     *)

LEMMA CallsAre ==
    ASSUME NEW calls \in Seq(CallRecord), NEW c \in DOMAIN calls, NEW new \in CallRecord
    PROVE  /\ [calls EXCEPT ![c] = new] \in Seq(CallRecord)
           /\ DOMAIN [calls EXCEPT ![c] = new] = DOMAIN calls
           /\ [calls EXCEPT ![c] = new][c] = new
           /\ \A d \in DOMAIN calls : d # c => [calls EXCEPT ![c] = new][d] = calls[d]
  OBVIOUS

\* new is what the call c becomes, with the tables and the queue there are then.
StepOf(c, new, rows, jobs, rows2, jobs2, calls) ==
    /\ new \in CallRecord /\ new.fn = calls[c].fn
    /\ rows2 \in Table /\ Follow(rows2, rows)
    /\ \A id \in Ids : rows2[id] \in Cell(id)
    /\ \A d \in DOMAIN calls : d # c =>
        /\ \A id \in DOMAIN calls[d].tx.rows : rows2[id] = rows[id]
        /\ DOMAIN new.tx.rows \intersect DOMAIN calls[d].tx.rows = {}
    /\ \A id \in Ids : Present(rows2[id]) /\ rows2[id].ref # NoOne =>
        \/ rows2[id] = rows[id]
        \/ rows2[id].by = c /\ RowRefers(rows2[id], Fns[new.fn].cross, rows2)
    /\ jobs2 \subseteq CxJob
    /\ \A job \in jobs2 : job \in jobs \/ JobKept(job)

LEMMA StepKept ==
    ASSUME NEW calls, NEW rows, NEW jobs, CxKept(rows, calls, jobs),
           NEW c \in DOMAIN calls, NEW new, NEW rows2, NEW jobs2,
           StepOf(c, new, rows, jobs, rows2, jobs2, calls), CallKept(new, c, rows2)
    PROVE  CxKept(rows2, [calls EXCEPT ![c] = new], jobs2)
  <1>. DEFINE calls2 == [calls EXCEPT ![c] = new]
  <1>1. calls \in Seq(CallRecord) /\ new \in CallRecord
    BY DEF CxKept, StepOf
  <1>2. /\ calls2 \in Seq(CallRecord)
        /\ DOMAIN calls2 = DOMAIN calls
        /\ calls2[c] = new
        /\ \A d \in DOMAIN calls : d # c => calls2[d] = calls[d]
    BY <1>1, CallsAre
  <1>. HIDE DEF calls2
  <1>3. rows \in Table /\ rows2 \in Table /\ TableKept(rows, calls)
    BY DEF CxKept, StepOf, TableKept, Table
  <1>4. \A id \in Ids : rows[id] \in Cell(id) /\ rows2[id] \in Cell(id)
    BY DEF CxKept, StepOf, TableKept
  <1>5. \A d \in DOMAIN calls : d \in DOMAIN calls2 /\ calls2[d].fn = calls[d].fn
    BY <1>2 DEF StepOf
  <1>6. TableKept(rows2, calls2)
    <2>1. \A id \in Ids : Present(rows2[id]) /\ rows2[id].ref # NoOne =>
                \/ rows2[id] = rows[id]
                \/ /\ rows2[id].by \in DOMAIN calls2
                   /\ RowRefers(rows2[id], Fns[calls2[rows2[id].by].fn].cross, rows2)
      BY <1>2 DEF StepOf
    <2>2. Follow(rows2, rows)
      BY DEF StepOf
    <2>. QED
      BY <1>3, <1>4, <1>5, <2>1, <2>2, TableGoesOn
  <1>7. ASSUME NEW d \in DOMAIN calls2 PROVE CallKept(calls2[d], d, rows2)
    <2>1. CASE d = c
      BY <2>1, <1>2
    <2>2. CASE d # c
      <3>1. CallKept(calls[d], d, rows) /\ \A id \in DOMAIN calls[d].tx.rows : rows2[id] = rows[id]
        BY <2>2, <1>2 DEF CxKept, StepOf
      <3>2. Follow(rows2, rows)
        BY DEF StepOf
      <3>3. CallKept(calls[d], d, rows2)
        BY <1>4, <3>1, <3>2, OthersKept
      <3>. QED
        BY <2>2, <3>3, <1>2
    <2>. QED
      BY <2>1, <2>2
  <1>8. Apart(calls2)
    BY <1>2 DEF Apart, CxKept, StepOf
  <1>9. jobs2 \subseteq CxJob /\ \A job \in jobs2 : JobKept(job)
    BY DEF CxKept, StepOf
  <1>. QED
    BY <1>2, <1>6, <1>7, <1>8, <1>9 DEF CxKept, calls2

\* The same, of a step that touches neither the tables nor the queue.
LEMMA CallStepKept ==
    ASSUME NEW calls, NEW rows, NEW jobs, CxKept(rows, calls, jobs),
           NEW c \in DOMAIN calls, NEW new, CallKept(new, c, rows),
           new \in CallRecord, new.fn = calls[c].fn, DOMAIN new.tx.rows \subseteq DOMAIN calls[c].tx.rows
    PROVE  CxKept(rows, [calls EXCEPT ![c] = new], jobs)
  <1>1. rows \in Table /\ \A id \in Ids : rows[id] \in Cell(id)
    BY DEF CxKept, TableKept, Table
  <1>2. Follow(rows, rows)
    BY FollowsItself DEF Follow
  <1>3. \A d \in DOMAIN calls : d # c => DOMAIN new.tx.rows \intersect DOMAIN calls[d].tx.rows = {}
    BY DEF CxKept, Apart
  <1>4. jobs \subseteq CxJob
    BY DEF CxKept
  <1>5. StepOf(c, new, rows, jobs, rows, jobs, calls)
    BY <1>1, <1>2, <1>3, <1>4 DEF StepOf
  <1>. QED
    BY <1>5, StepKept

-----------------------------------------------------------------------------
(* What a handler knows, and steps that change little of its call.         *)

LEMMA CallIs ==
    ASSUME CxInv, NEW c \in Numbered
    PROVE  /\ cxCalls \in Seq(CallRecord) /\ cxCalls[c] \in CallRecord /\ c \in Nat
           /\ CallKept(cxCalls[c], c, cxRows)
           /\ cxCalls[c].fn \in DOMAIN Fns /\ cxCalls[c].scope \in Scope
           /\ \A id \in Ids : cxRows[id] \in Cell(id)
           /\ cxRows \in Table
  <1>1. cxCalls \in Seq(CallRecord) /\ c \in DOMAIN cxCalls
    BY DEF CxInv, CxKept, Numbered
  <1>2. cxCalls[c] \in CallRecord /\ c \in Nat
    BY <1>1
  <1>3. cxCalls[c].fn \in DOMAIN Fns /\ cxCalls[c].scope \in Scope
    BY <1>2 DEF CallRecord
  <1>. QED
    BY <1>1, <1>2, <1>3 DEF CxInv, CxKept, TableKept, Table

LEMMA SeenIs ==
    ASSUME NEW c, NEW id \in Ids
    PROVE  SeenAs(c, id) = View(cxCalls[c], cxRows)[id]
  BY ViewIs DEF SeenAs

\* What an operation may see or write at its scope is of a company it is entitled to.
LEMMA InScopeIsEntitled ==
    ASSUME NEW fn \in DOMAIN Fns, NEW s, NEW id \in Ids, NEW row \in RowOf(id), InScope(Fns[fn], s, row),
           ~Shared(row.model)
    PROVE  row.company \in Authority(Fns[fn], s)
  BY ContextAssumption DEF InScope, Authority, RowOf, Shared, ScopeKind

LEMMA AuthorityIs ==
    ASSUME NEW fn \in DOMAIN Fns, NEW s \in Scope
    PROVE  Authority(Fns[fn], s) \subseteq Companies /\ Readable(s) \subseteq Authority(Fns[fn], s)
  <1>1. Readable(s) \subseteq Companies
    BY DEF Readable, Scope
  <1>. QED
    BY <1>1 DEF Authority

SameButWrote(a, b) ==
    /\ a.fn = b.fn /\ a.scope = b.scope /\ a.dry = b.dry /\ a.limit = b.limit /\ a.status = b.status
    /\ a.at = b.at /\ a.writes = b.writes /\ a.done = b.done /\ a.heard = b.heard /\ a.due = b.due
    /\ a.txs = b.txs /\ a.rolled = b.rolled /\ a.tx = b.tx

LEMMA SameKept ==
    ASSUME NEW call, NEW c, NEW rows, CallKept(call, c, rows), call.status = "running",
           NEW new \in CallRecord, SameButWrote(new, call), new.wrote = call.wrote,
           new.touched \subseteq Authority(Fns[call.fn], call.scope)
    PROVE  CallKept(new, c, rows)
  <1>1. ScopeKept(new)
    BY DEF CallKept, ScopeKept, SameButWrote
  <1>2. View(new, rows) = View(call, rows)
    BY DEF View, SameButWrote
  <1>3. TxKept(new, c, rows)
    BY <1>2 DEF CallKept, TxKept, SameButWrote
  <1>4. WroteKept(new, rows)
    BY <1>2 DEF CallKept, WroteKept, SameButWrote, Legible
  <1>5. AtKept(new, c, rows)
    BY <1>2 DEF CallKept, AtKept, SameButWrote
  <1>6. AccountKept(new)
    BY DEF CallKept, AccountKept, SameButWrote, Change
  <1>7. DryKept(new)
    BY DEF CallKept, DryKept, SameButWrote
  <1>. QED
    BY <1>1, <1>3, <1>4, <1>5, <1>6, <1>7 DEF CallKept, SameButWrote

\* A statement that is over leaves the handler between two operations.
LEMMA AtEnds ==
    ASSUME NEW call, NEW c, NEW rows, CallKept(call, c, rows), call.status = "running"
    PROVE  LET new == [call EXCEPT !.at = Between] IN
           /\ new \in CallRecord /\ CallKept(new, c, rows)
           /\ new.at = Between /\ new.fn = call.fn /\ new.scope = call.scope /\ new.status = "running"
           /\ new.tx = call.tx /\ new.dry = call.dry /\ new.wrote = call.wrote /\ new.touched = call.touched
           /\ new.writes = call.writes /\ new.txs = call.txs
  <1>. DEFINE new == [call EXCEPT !.at = Between]
  <1>1. call \in CallRecord
    BY DEF CallKept
  <1>2. /\ new \in CallRecord
        /\ new.fn = call.fn /\ new.scope = call.scope /\ new.dry = call.dry /\ new.limit = call.limit
        /\ new.status = call.status /\ new.at = Between /\ new.writes = call.writes
        /\ new.done = call.done /\ new.heard = call.heard /\ new.due = call.due /\ new.txs = call.txs
        /\ new.rolled = call.rolled /\ new.tx = call.tx /\ new.wrote = call.wrote /\ new.touched = call.touched
    BY <1>1 DEF CallRecord, Statement
  <1>. HIDE DEF new
  <1>3. ScopeKept(new)
    BY <1>2 DEF CallKept, ScopeKept
  <1>4. View(new, rows) = View(call, rows)
    BY <1>2 DEF View
  <1>5. TxKept(new, c, rows)
    BY <1>2, <1>4 DEF CallKept, TxKept
  <1>6. WroteKept(new, rows)
    BY <1>2, <1>4 DEF CallKept, WroteKept, Legible
  <1>7. new.at.op = "none"
    BY <1>2 DEF Between
  <1>8. AtKept(new, c, rows)
    BY <1>7 DEF AtKept
  <1>9. AccountKept(new)
    BY <1>2, <1>7 DEF CallKept, AccountKept
  <1>10. DryKept(new)
    BY <1>2 DEF CallKept, DryKept
  <1>11. CallKept(new, c, rows)
    BY <1>2, <1>3, <1>5, <1>6, <1>8, <1>9, <1>10 DEF CallKept
  <1>. QED
    BY <1>2, <1>11 DEF new

LEMMA ChangeIs ==
    ASSUME NEW call \in CallRecord, NEW op \in {"insert", "update", "delete", "enqueue"},
           NEW on \in Ids \union DOMAIN ModelDefs \union DOMAIN Fns
    PROVE  /\ Change(call, op, on) \in CxEntry
           /\ Change(call, op, on).tx = IF call.tx.open THEN call.txs ELSE 0
           /\ Change(call, op, on).on = on
  BY DEF CallRecord, Change, CxEntry

\* The report a write goes to.
Report(call) == IF call.tx.open THEN call.tx.writes ELSE call.writes

LEMMA OneMoreIs ==
    ASSUME NEW call \in CallRecord
    PROVE  /\ OneMore(call) \in CallRecord /\ SameButWrote(OneMore(call), call)
           /\ OneMore(call).wrote = call.wrote /\ OneMore(call).touched = call.touched
           /\ OneMore(call).ops = call.ops + 1
  <1>1. OneMore(call) \in CallRecord
    BY DEF OneMore, CallRecord
  <1>. QED
    BY <1>1 DEF OneMore, SameButWrote, CallRecord

LEMMA NotedIs ==
    ASSUME NEW call \in CallRecord, NEW w \in CxEntry
    PROVE  LET new == OneMore(Recorded(call, w)) IN
           /\ new \in CallRecord
           /\ new.fn = call.fn /\ new.scope = call.scope /\ new.dry = call.dry /\ new.limit = call.limit
           /\ new.status = call.status /\ new.at = call.at
           /\ new.done = call.done /\ new.heard = call.heard /\ new.due = call.due /\ new.txs = call.txs
           /\ new.rolled = call.rolled /\ new.wrote = call.wrote /\ new.touched = call.touched
           /\ new.tx \in TxRecord /\ new.tx.open = call.tx.open /\ new.tx.rows = call.tx.rows
           /\ new.tx.jobs = call.tx.jobs /\ new.tx.notices = call.tx.notices /\ new.tx.done = call.tx.done
           /\ new.tx.was = call.tx.was
           /\ new.writes = call.writes \union (IF call.tx.open THEN {} ELSE {w})
           /\ new.tx.writes = call.tx.writes \union (IF call.tx.open THEN {w} ELSE {})
           /\ ~call.tx.open => new.tx = call.tx
  <1>. DEFINE new == OneMore(Recorded(call, w))
  <1>1. call.tx \in TxRecord
    BY DEF CallRecord
  <1>2. CASE call.tx.open
    <2>1. new = [[call EXCEPT !.tx.writes = @ \union {w}] EXCEPT !.ops = @ + 1]
      BY <1>2 DEF Recorded, OneMore
    <2>2. [call.tx EXCEPT !.writes = @ \union {w}] \in TxRecord
      BY <1>1 DEF TxRecord
    <2>3. new.tx = [call.tx EXCEPT !.writes = @ \union {w}]
      BY <2>1 DEF CallRecord
    <2>4. /\ new.tx.open = call.tx.open /\ new.tx.rows = call.tx.rows
          /\ new.tx.jobs = call.tx.jobs /\ new.tx.notices = call.tx.notices /\ new.tx.done = call.tx.done
          /\ new.tx.was = call.tx.was /\ new.tx.writes = call.tx.writes \union {w}
      BY <1>1, <2>3 DEF TxRecord
    <2>5. new \in CallRecord
      <3>1. [call EXCEPT !.tx.writes = @ \union {w}] \in CallRecord
        BY <2>2 DEF CallRecord
      <3>. QED
        BY <2>1, <3>1, OneMoreIs DEF OneMore
    <2>6. /\ new.fn = call.fn /\ new.scope = call.scope /\ new.dry = call.dry /\ new.limit = call.limit
          /\ new.status = call.status /\ new.at = call.at /\ new.writes = call.writes
          /\ new.done = call.done /\ new.heard = call.heard /\ new.due = call.due /\ new.txs = call.txs
          /\ new.rolled = call.rolled /\ new.wrote = call.wrote /\ new.touched = call.touched
      BY <2>1 DEF CallRecord
    <2>. HIDE DEF new
    <2>. QED
      BY <1>2, <2>2, <2>3, <2>4, <2>5, <2>6 DEF new
  <1>3. CASE ~call.tx.open
    <2>1. new = [[call EXCEPT !.writes = @ \union {w}] EXCEPT !.ops = @ + 1]
      BY <1>3 DEF Recorded, OneMore
    <2>2. new \in CallRecord
      <3>1. [call EXCEPT !.writes = @ \union {w}] \in CallRecord
        BY DEF CallRecord
      <3>. QED
        BY <2>1, <3>1, OneMoreIs DEF OneMore
    <2>3. /\ new.fn = call.fn /\ new.scope = call.scope /\ new.dry = call.dry /\ new.limit = call.limit
          /\ new.status = call.status /\ new.at = call.at /\ new.writes = call.writes \union {w}
          /\ new.done = call.done /\ new.heard = call.heard /\ new.due = call.due /\ new.txs = call.txs
          /\ new.rolled = call.rolled /\ new.wrote = call.wrote /\ new.touched = call.touched
          /\ new.tx = call.tx
      BY <2>1 DEF CallRecord
    <2>. HIDE DEF new
    <2>. QED
      BY <1>1, <1>3, <2>2, <2>3 DEF new
  <1>. QED
    BY <1>2, <1>3

LEMMA NotedKept ==
    ASSUME NEW call, NEW c, NEW rows, CallKept(call, c, rows), call.status = "running", call.at = Between,
           NEW op \in {"insert", "update", "delete", "enqueue"},
           NEW on \in Ids \union DOMAIN ModelDefs \union DOMAIN Fns
    PROVE  LET new == OneMore(Recorded(call, Change(call, op, on))) IN
           CallKept(new, c, rows) /\ Change(call, op, on) \in Report(new)
  <1>. DEFINE w == Change(call, op, on)  new == OneMore(Recorded(call, w))
  <1>1. call \in CallRecord
    BY DEF CallKept
  <1>2. w \in CxEntry /\ w.tx = IF call.tx.open THEN call.txs ELSE 0
    BY <1>1, ChangeIs
  <1>. HIDE DEF w
  <1>3. /\ new \in CallRecord
        /\ new.fn = call.fn /\ new.scope = call.scope /\ new.dry = call.dry /\ new.limit = call.limit
        /\ new.status = call.status /\ new.at = call.at
        /\ new.done = call.done /\ new.heard = call.heard /\ new.due = call.due /\ new.txs = call.txs
        /\ new.rolled = call.rolled /\ new.wrote = call.wrote /\ new.touched = call.touched
        /\ new.tx \in TxRecord /\ new.tx.open = call.tx.open /\ new.tx.rows = call.tx.rows
        /\ new.tx.jobs = call.tx.jobs /\ new.tx.notices = call.tx.notices /\ new.tx.done = call.tx.done
        /\ new.tx.was = call.tx.was
        /\ new.writes = call.writes \union (IF call.tx.open THEN {} ELSE {w})
        /\ new.tx.writes = call.tx.writes \union (IF call.tx.open THEN {w} ELSE {})
        /\ ~call.tx.open => new.tx = call.tx
    BY <1>1, <1>2, NotedIs
  <1>. HIDE DEF new
  <1>4. ScopeKept(new)
    BY <1>3 DEF CallKept, ScopeKept
  <1>5. View(new, rows) = View(call, rows)
    BY <1>3 DEF View
  <1>6. TxKept(new, c, rows)
    BY <1>3, <1>5 DEF CallKept, TxKept
  <1>7. WroteKept(new, rows)
    BY <1>3, <1>5 DEF CallKept, WroteKept, Legible
  <1>8. new.at.op = "none"
    BY <1>3 DEF Between
  <1>9. AtKept(new, c, rows)
    BY <1>8 DEF AtKept
  <1>10. call.txs \in Nat \ {0} /\ call.rolled \subseteq Nat /\ call.tx.open \in BOOLEAN
    BY <1>1, TxRowsAre DEF CallRecord, TxRecord
  <1>11. AccountKept(new)
    <2>1. AccountKept(call)
      BY DEF CallKept
    <2>2. w.tx = 0 \/ (call.tx.open /\ w.tx = call.txs)
      BY <1>2
    <2>3. \A n \in call.rolled : n # 0 /\ n # call.txs
      BY <2>1, <1>10 DEF AccountKept
    <2>4. \A x \in new.writes : x.tx < new.txs /\ x.tx \notin new.rolled
      BY <2>1, <2>3, <1>2, <1>3, <1>10 DEF AccountKept
    <2>5. \A x \in new.tx.writes : x.tx = new.txs
      BY <2>1, <1>2, <1>3 DEF AccountKept
    <2>6. new.done \subseteq new.writes /\ new.tx.done \subseteq new.tx.writes
      BY <2>1, <1>3 DEF AccountKept
    <2>7. /\ new.heard \union new.due \union NamesOf(new.tx.was) \subseteq On(new.done)
          /\ NamesOf(new.wrote) \union new.tx.notices \subseteq On(new.done \union new.tx.done)
          /\ \A n \in new.rolled : n \in 1 .. new.txs - 1
      BY <2>1, <1>3 DEF AccountKept
    <2>. QED
      BY <2>4, <2>5, <2>6, <2>7, <1>8 DEF AccountKept
  <1>12. DryKept(new)
    BY <1>3 DEF CallKept, DryKept
  <1>13. CallKept(new, c, rows)
    BY <1>3, <1>4, <1>6, <1>7, <1>9, <1>11, <1>12 DEF CallKept
  <1>14. w \in Report(new)
    BY <1>3, <1>10 DEF Report
  <1>. QED
    BY <1>13, <1>14 DEF new, w

\* A handler that has checked a statement is about to send it.
LEMMA AtStarts ==
    ASSUME NEW call, NEW c, NEW rows, CallKept(call, c, rows), call.status = "running", ~call.dry,
           NEW at \in Statement, AtKept([call EXCEPT !.at = at], c, rows), at.op \in {"insert", "update"},
           Change(call, at.op, at.id) \in Report(call)
    PROVE  CallKept([call EXCEPT !.at = at], c, rows)
  <1>. DEFINE new == [call EXCEPT !.at = at]
  <1>1. call \in CallRecord
    BY DEF CallKept
  <1>2. /\ new \in CallRecord
        /\ new.fn = call.fn /\ new.scope = call.scope /\ new.dry = call.dry /\ new.limit = call.limit
        /\ new.status = call.status /\ new.at = at /\ new.writes = call.writes
        /\ new.done = call.done /\ new.heard = call.heard /\ new.due = call.due /\ new.txs = call.txs
        /\ new.rolled = call.rolled /\ new.tx = call.tx /\ new.wrote = call.wrote /\ new.touched = call.touched
    BY <1>1 DEF CallRecord
  <1>3. AtKept(new, c, rows)
    OBVIOUS
  <1>. HIDE DEF new
  <1>4. ScopeKept(new)
    BY <1>2 DEF CallKept, ScopeKept
  <1>5. View(new, rows) = View(call, rows)
    BY <1>2 DEF View
  <1>6. TxKept(new, c, rows)
    BY <1>2, <1>5 DEF CallKept, TxKept
  <1>7. WroteKept(new, rows)
    BY <1>2, <1>5 DEF CallKept, WroteKept, Legible
  <1>8. AccountKept(new)
    <2>1. AccountKept(call)
      BY DEF CallKept
    <2>2. Change(new, at.op, at.id) = Change(call, at.op, at.id)
      BY <1>2 DEF Change
    <2>. QED
      BY <1>2, <2>1, <2>2 DEF AccountKept, Report
  <1>9. DryKept(new)
    BY <1>2 DEF DryKept
  <1>10. CallKept(new, c, rows)
    BY <1>2, <1>3, <1>4, <1>6, <1>7, <1>8, <1>9 DEF CallKept
  <1>. QED
    BY <1>10 DEF new

\* The handler of c has done something that touches neither the tables nor the queue.
LEMMA CallMoves ==
    ASSUME CxInv, NEW c \in Numbered, NEW new \in CallRecord, CallKept(new, c, cxRows),
           new.fn = cxCalls[c].fn, DOMAIN new.tx.rows \subseteq DOMAIN cxCalls[c].tx.rows,
           cxCalls' = [cxCalls EXCEPT ![c] = new], UNCHANGED <<cxRows, cxJobs>>
    PROVE  CxInv'
  <1>1. CxKept(cxRows, [cxCalls EXCEPT ![c] = new], cxJobs)
    BY CallStepKept DEF CxInv, Numbered
  <1>2. CxKept(cxRows', cxCalls', cxJobs')
    BY <1>1
  <1>. QED
    BY <1>2 DEF CxInv

LEMMA CxReadKept ==
    ASSUME CxInv, NEW c \in Numbered, NEW m \in DOMAIN ModelDefs, CxRead(c, m)
    PROVE  CxInv'
  <1>. DEFINE call == cxCalls[c]  op == FnOf(c)  s == CallScope(c)
              seen == {id \in Ids : Present(SeenAs(c, id)) /\ ModelOf[id] = m /\ InScope(op, s, SeenAs(c, id))}
              named == UNION {Bearers(ref) : ref \in {SeenAs(c, id).ref : id \in seen} \intersect Ids}
              preloaded == {id \in named : Present(SeenAs(c, id)) /\ InScope(op, s, SeenAs(c, id))}
  <1>1. call \in CallRecord /\ CallKept(call, c, cxRows) /\ call.fn \in DOMAIN Fns /\ call.scope \in Scope
    BY CallIs
  <1>2. call.status = "running"
    BY DEF CxRead, Acts, Running
  <1>3. PICK preload \in SUBSET preloaded :
            cxCalls' = [cxCalls EXCEPT ![c] = OneMore(Touches(call, {SeenAs(c, id) : id \in seen \union preload}))]
    BY DEF CxRead
  <1>. DEFINE those == {SeenAs(c, id) : id \in seen \union preload}
              read == Touches(call, those)
              companies == {r.company : r \in {row \in those : ~Shared(row.model)}}
  <1>4. companies \subseteq Authority(op, s)
    <2>. SUFFICES ASSUME NEW id \in Ids, Present(SeenAs(c, id)), InScope(op, s, SeenAs(c, id)),
                         ~Shared(SeenAs(c, id).model)
                  PROVE  SeenAs(c, id).company \in Authority(op, s)
      BY DEF Bearers
    <2>1. SeenAs(c, id) \in Cell(id)
      BY <1>1, <1>2, CallIs, SeenIs, ViewCells DEF CallKept
    <2>2. SeenAs(c, id) \in RowOf(id)
      BY <2>1 DEF Cell, Present
    <2>. QED
      BY <1>1, <2>2, InScopeIsEntitled DEF FnOf
  <1>5. read = [call EXCEPT !.touched = @ \union companies]
    BY DEF Touches
  <1>6. ScopeKept(call) /\ Authority(op, s) \subseteq Companies
    BY <1>1, <1>2, AuthorityIs DEF CallKept, FnOf, CallScope
  <1>. HIDE DEF companies, those
  <1>7. /\ read \in CallRecord /\ SameButWrote(read, call) /\ read.wrote = call.wrote
        /\ read.touched = call.touched \union companies
    <2>1. companies \subseteq Companies
      BY <1>4, <1>6
    <2>2. read \in CallRecord
      BY <1>1, <1>5, <2>1 DEF CallRecord
    <2>. QED
      BY <1>1, <1>5, <2>2 DEF CallRecord, SameButWrote
  <1>. DEFINE new == OneMore(read)
  <1>. HIDE DEF read
  <1>8. new \in CallRecord /\ SameButWrote(new, call) /\ new.wrote = call.wrote /\ new.touched = call.touched \union companies
    BY <1>7, OneMoreIs DEF SameButWrote
  <1>. HIDE DEF new, call
  <1>9. new.touched \subseteq Authority(Fns[call.fn], call.scope)
    BY <1>4, <1>6, <1>8 DEF ScopeKept, FnOf, CallScope, call
  <1>10. CallKept(new, c, cxRows)
    BY <1>1, <1>2, <1>8, <1>9, SameKept
  <1>11. cxCalls' = [cxCalls EXCEPT ![c] = new]
    BY <1>3 DEF new, read, call, those
  <1>12. UNCHANGED <<cxRows, cxJobs>>
    BY DEF CxRead
  <1>13. new.fn = cxCalls[c].fn /\ new.tx = cxCalls[c].tx
    BY <1>8 DEF SameButWrote, call
  <1>. QED
    BY <1>8, <1>10, <1>11, <1>12, <1>13, CallMoves

-----------------------------------------------------------------------------
(* Statements that were checked.                                           *)

\* A stamped row is in sight of whoever stamped it.
LEMMA StampedIs ==
    ASSUME NEW fn \in DOMAIN Fns, NEW s \in Scope, Coherent(s), NEW id \in Ids, CanStamp(s, ModelOf[id]),
           NEW ref \in Ids \union {NoOne}, NEW blind \in BOOLEAN, NEW by \in Nat
    PROVE  LET row == Stamped(s, ModelOf[id], ref, blind, by) IN
           /\ row \in RowOf(id) /\ row.by = by /\ row.ref = ref /\ row.blind = blind /\ row.model = ModelOf[id]
           /\ InScope(Fns[fn], s, row)
           /\ ~Shared(row.model) => row.company = s.company
  <1>. DEFINE m == ModelOf[id]  row == Stamped(s, m, ref, blind, by)
  <1>1. /\ row.by = by /\ row.ref = ref /\ row.blind = blind /\ row.model = m
        /\ row.company = (IF Shared(m) THEN NoOne ELSE s.company)
        /\ row.branch = (IF ScopeKind(m) = "company+branch" THEN s.branch ELSE NoOne)
    BY DEF Stamped
  <1>2. m \in DOMAIN ModelDefs
    BY ContextAssumption
  <1>3. /\ s.company \in Companies \union {NoOne} /\ s.branch \in Branches \union {NoOne}
        /\ s.companies \in (SUBSET Companies) \union {NoOne}
    BY DEF Scope
  <1>4. row \in CxRow
    BY <1>2, <1>3 DEF Stamped, CxRow
  <1>5. ~Shared(m) => s.company \in Companies
    BY <1>3 DEF CanStamp
  <1>6. row \in RowOf(id)
    BY <1>1, <1>4, <1>5 DEF RowOf, Shared, ScopeKind
  <1>7. s.company # NoOne => s.company \in Readable(s)
    BY DEF Readable, Coherent
  <1>8. InScope(Fns[fn], s, row)
    BY <1>1, <1>7 DEF InScope, CanStamp
  <1>. HIDE DEF row
  <1>9. ~Shared(row.model) => row.company = s.company
    BY <1>1
  <1>. QED
    BY <1>1, <1>6, <1>8, <1>9 DEF row

\* A reference that was let through, and its row there, refers inside.
LEMMA RefersInsideIs ==
    ASSUME NEW c, NEW m, NEW ref \in Ids \union {NoOne}, RefersInside(c, m, ref)
    PROVE  Blind(c, ref) \/ FnOf(c).cross \/ RefersTo(View(cxCalls[c], cxRows), m, ref, CallScope(c).company)
  <1>. SUFFICES ASSUME ~Blind(c, ref), ~FnOf(c).cross, ~Shared(m), ref # NoOne
                PROVE  LET view == View(cxCalls[c], cxRows) IN
                       /\ view[ref] # NoOne
                       /\ Present(view[ref]) /\ ~Shared(ModelOf[ref]) => view[ref].company = CallScope(c).company
    BY DEF RefersTo
  <1>1. ref \in Ids /\ SeenAs(c, ref) = View(cxCalls[c], cxRows)[ref]
    BY SeenIs
  <1>2. Found(c, ref) /\ Present(SeenAs(c, ref))
    BY DEF Blind, Found
  <1>. QED
    BY <1>1, <1>2 DEF RefersInside, Present

LEMMA CxInsertKept ==
    ASSUME CxInv, NEW c \in Numbered, NEW id \in Names, NEW ref \in Refs(id), CxInsert(c, id, ref)
    PROVE  CxInv'
  <1>. DEFINE call == cxCalls[c]  m == ModelOf[id]
              row == Stamped(CallScope(c), m, ref, Blind(c, ref), c)
              w == Change(call, "insert", id)
              noted == OneMore(Recorded(call, w))
              at == [op |-> "insert", id |-> id, row |-> row]
  <1>1. call \in CallRecord /\ CallKept(call, c, cxRows) /\ call.fn \in DOMAIN Fns /\ call.scope \in Scope /\ c \in Nat
    BY CallIs
  <1>2. call.status = "running" /\ call.at = Between
    BY DEF CxInsert, Acts, Running
  <1>3. ref \in Ids \union {NoOne} /\ Blind(c, ref) \in BOOLEAN /\ id \in Ids
    BY NamesAre DEF Refs, Blind
  <1>4. CallKept(noted, c, cxRows) /\ w \in Report(noted)
    BY <1>1, <1>2, <1>3, NotedKept
  <1>5. w \in CxEntry
    BY <1>1, <1>3, ChangeIs
  <1>6. /\ noted \in CallRecord /\ noted.fn = call.fn /\ noted.scope = call.scope /\ noted.status = "running"
        /\ noted.tx.rows = call.tx.rows /\ noted.dry = call.dry /\ noted.tx.open = call.tx.open
        /\ noted.txs = call.txs
    BY <1>1, <1>2, <1>5, NotedIs
  <1>7. UNCHANGED <<cxRows, cxJobs>>
    BY DEF CxInsert
  <1>8. CASE Dry(c)
    <2>1. cxCalls' = [cxCalls EXCEPT ![c] = noted]
      BY <1>8 DEF CxInsert
    <2>. HIDE DEF noted
    <2>. QED
      BY <1>4, <1>6, <1>7, <2>1, CallMoves
  <1>9. CASE ~Dry(c)
    <2>. DEFINE new == [noted EXCEPT !.at = at]
    <2>1. cxCalls' = [cxCalls EXCEPT ![c] = new]
      BY <1>9 DEF CxInsert
    <2>2. /\ row \in RowOf(id) /\ row.by = c /\ row.ref = ref /\ row.blind = Blind(c, ref) /\ row.model = m
          /\ InScope(Fns[call.fn], call.scope, row)
          /\ ~Shared(row.model) => row.company = call.scope.company
      <3>1. CanStamp(call.scope, m) /\ Coherent(call.scope)
        BY <1>1, <1>2 DEF CxInsert, CallScope, CallKept, ScopeKept
      <3>. QED
        BY <1>1, <1>3, <3>1, StampedIs DEF CallScope
    <2>3. row \in CxRow
      BY <2>2 DEF RowOf
    <2>4. at \in Statement /\ at.op = "insert" /\ at.id = id /\ at.row = row
      BY <2>3 DEF Statement
    <2>. HIDE DEF row, noted, w
    <2>5. new \in CallRecord /\ new.at = at /\ new.fn = call.fn /\ new.scope = call.scope /\ new.tx = noted.tx
      BY <1>6, <2>4 DEF CallRecord
    <2>6. View(new, cxRows) = View(call, cxRows)
      BY <1>6, <2>5 DEF View
    <2>7. RowRefers(row, Fns[call.fn].cross, View(call, cxRows))
      <3>1. Blind(c, ref) \/ FnOf(c).cross \/ RefersTo(View(call, cxRows), m, ref, call.scope.company)
        BY <1>3, RefersInsideIs DEF CxInsert, CallScope
      <3>2. Shared(m) => RefersTo(View(call, cxRows), m, ref, row.company)
        BY DEF RefersTo
      <3>. QED
        BY <2>2, <3>1, <3>2 DEF RowRefers, FnOf
    <2>. HIDE DEF at
    <2>8. AtKept(new, c, cxRows)
      BY <2>2, <2>4, <2>5, <2>6, <2>7 DEF AtKept
    <2>9. w = Change(noted, "insert", id)
      BY <1>6 DEF w, Change
    <2>10. CallKept(new, c, cxRows)
      BY <1>4, <1>6, <1>9, <2>4, <2>8, <2>9, AtStarts DEF Dry
    <2>11. new.tx.rows = call.tx.rows
      BY <1>6, <2>5
    <2>. HIDE DEF new
    <2>. QED
      BY <1>7, <2>1, <2>5, <2>10, <2>11, CallMoves
  <1>. QED
    BY <1>8, <1>9

LEMMA CxUpdateKept ==
    ASSUME CxInv, NEW c \in Numbered, NEW id \in Names, NEW ref \in Refs(id), CxUpdate(c, id, ref)
    PROVE  CxInv'
  <1>. DEFINE call == cxCalls[c]  m == ModelOf[id]
              w == Change(call, "update", id)
              noted == OneMore(Recorded(call, w))
              at == [op |-> "update", id |-> id, ref |-> ref, blind |-> Blind(c, ref)]
  <1>1. call \in CallRecord /\ CallKept(call, c, cxRows) /\ call.fn \in DOMAIN Fns /\ call.scope \in Scope /\ c \in Nat
    BY CallIs
  <1>2. call.status = "running" /\ call.at = Between
    BY DEF CxUpdate, Acts, Running
  <1>3. ref \in Ids \union {NoOne} /\ Blind(c, ref) \in BOOLEAN /\ id \in Ids
    BY NamesAre DEF Refs, Blind
  <1>4. CallKept(noted, c, cxRows) /\ w \in Report(noted)
    BY <1>1, <1>2, <1>3, NotedKept
  <1>5. w \in CxEntry
    BY <1>1, <1>3, ChangeIs
  <1>6. /\ noted \in CallRecord /\ noted.fn = call.fn /\ noted.scope = call.scope /\ noted.status = "running"
        /\ noted.tx.rows = call.tx.rows /\ noted.dry = call.dry /\ noted.tx.open = call.tx.open
        /\ noted.txs = call.txs
    BY <1>1, <1>2, <1>5, NotedIs
  <1>7. UNCHANGED <<cxRows, cxJobs>>
    BY DEF CxUpdate
  <1>8. CASE Dry(c)
    <2>1. cxCalls' = [cxCalls EXCEPT ![c] = noted]
      BY <1>8 DEF CxUpdate
    <2>. HIDE DEF noted
    <2>. QED
      BY <1>4, <1>6, <1>7, <2>1, CallMoves
  <1>9. CASE ~Dry(c)
    <2>. DEFINE new == [noted EXCEPT !.at = at]
    <2>1. cxCalls' = [cxCalls EXCEPT ![c] = new]
      BY <1>9 DEF CxUpdate
    <2>4. at \in Statement /\ at.op = "update" /\ at.id = id /\ at.ref = ref /\ at.blind = Blind(c, ref)
      BY <1>3 DEF Statement
    <2>. HIDE DEF noted, w
    <2>5. new \in CallRecord /\ new.at = at /\ new.fn = call.fn /\ new.scope = call.scope /\ new.tx = noted.tx
      BY <1>6, <2>4 DEF CallRecord
    <2>6. View(new, cxRows) = View(call, cxRows)
      BY <1>6, <2>5 DEF View
    <2>7. Blind(c, ref) \/ FnOf(c).cross \/ RefersTo(View(call, cxRows), m, ref, call.scope.company)
      BY <1>3, RefersInsideIs DEF CxUpdate, CallScope
    <2>. HIDE DEF at
    <2>8. AtKept(new, c, cxRows)
      BY <2>4, <2>5, <2>6, <2>7 DEF AtKept, FnOf
    <2>9. w = Change(noted, "update", id)
      BY <1>6 DEF w, Change
    <2>10. CallKept(new, c, cxRows)
      BY <1>4, <1>6, <1>9, <2>4, <2>8, <2>9, AtStarts DEF Dry
    <2>11. new.tx.rows = call.tx.rows
      BY <1>6, <2>5
    <2>. HIDE DEF new
    <2>. QED
      BY <1>7, <2>1, <2>5, <2>10, <2>11, CallMoves
  <1>. QED
    BY <1>8, <1>9

-----------------------------------------------------------------------------
(* A statement reaches the rows.                                           *)

\* What the statement does to the rows the call c sees: k is its call without what was written, of
\* which rows are the new ones.
Puttable(k, c, rows, W, changes) ==
    /\ CallKept(k, c, cxRows) /\ k.status = "running" /\ ~k.dry /\ k.at = Between
    /\ k.fn = cxCalls[c].fn /\ k.tx.rows = cxCalls[c].tx.rows
    /\ DOMAIN rows \subseteq Ids /\ rows \in [DOMAIN rows -> CxRow \union {Erased}]
    /\ \A id \in DOMAIN rows :
        /\ rows[id] \in RowOf(id) \union {Erased}
        /\ Unlocked(c, id)
        /\ Follows(rows[id], View(k, cxRows)[id])
        /\ Present(rows[id]) => rows[id].by = c /\ RowRefers(rows[id], Fns[k.fn].cross, View(k, cxRows))
    /\ W \subseteq DOMAIN rows /\ \A id \in W : Legible(k, id, rows[id])
    /\ changes \subseteq Report(k) /\ changes \subseteq CxEntry /\ NamesOf(W) \subseteq On(changes)

LEMMA PutsInTx ==
    ASSUME CxInv, NEW c \in Numbered, NEW k, NEW rows, NEW W, NEW changes, Puttable(k, c, rows, W, changes),
           NEW call \in CallRecord, SameButWrote(call, k), call.wrote = k.wrote \union W,
           call.touched \subseteq Authority(Fns[k.fn], k.scope),
           call.tx.open, Puts(c, call, rows, changes), cxJobs' = cxJobs
    PROVE  CxInv'
  <1>. DEFINE over == Over(rows, call.tx.rows)
              tx == [[call.tx EXCEPT !.rows = over] EXCEPT !.done = call.tx.done \union changes]
              new == [call EXCEPT !.tx = tx]
  <1>1. cxCalls' = [cxCalls EXCEPT ![c] = new] /\ cxRows' = cxRows
    <2>1. [call EXCEPT !.tx.rows = over, !.tx.done = @ \union changes] = new
      BY TxRowsAre DEF CallRecord, TxRecord
    <2>. QED
      BY <2>1 DEF Puts
  <1>2. k \in CallRecord /\ \A id \in Ids : cxRows[id] \in Cell(id)
    BY CallIs DEF Puttable, CallKept
  <1>3. /\ k.tx = call.tx /\ k.tx \in TxRecord /\ DOMAIN k.tx.rows \subseteq Ids
        /\ k.tx.rows \in [DOMAIN k.tx.rows -> CxRow \union {Erased}]
    BY <1>2, TxRowsAre DEF SameButWrote
  <1>4. /\ over \in [DOMAIN rows \union DOMAIN k.tx.rows -> CxRow \union {Erased}]
        /\ \A id \in DOMAIN rows : over[id] = rows[id]
        /\ \A id \in DOMAIN k.tx.rows \ DOMAIN rows : over[id] = k.tx.rows[id]
        /\ DOMAIN over = DOMAIN rows \union DOMAIN k.tx.rows
    <2>. DEFINE V == CxRow \union {Erased}
    <2>. HIDE DEF V
    <2>0. call.tx.rows = k.tx.rows /\ rows \in [DOMAIN rows -> V] /\ k.tx.rows \in [DOMAIN k.tx.rows -> V]
      BY <1>3 DEF Puttable, V
    <2>1. /\ Over(rows, k.tx.rows) \in [DOMAIN rows \union DOMAIN k.tx.rows -> V]
          /\ \A id \in DOMAIN rows : Over(rows, k.tx.rows)[id] = rows[id]
          /\ \A id \in DOMAIN k.tx.rows \ DOMAIN rows : Over(rows, k.tx.rows)[id] = k.tx.rows[id]
      BY <2>0 DEF Over
    <2>2. over = Over(rows, k.tx.rows)
      BY <2>0
    <2>. QED
      BY <2>1, <2>2 DEF V
  <1>. HIDE DEF over
  <1>5. /\ tx \in TxRecord /\ tx.rows = over /\ tx.done = k.tx.done \union changes /\ tx.open = TRUE
        /\ tx.jobs = k.tx.jobs /\ tx.notices = k.tx.notices /\ tx.writes = k.tx.writes /\ tx.was = k.tx.was
    <2>1. over \in UNION {[D -> CxRow \union {Erased}] : D \in SUBSET Ids}
      BY <1>3, <1>4 DEF Puttable
    <2>2. changes \subseteq CxEntry
      BY DEF Puttable
    <2>. QED
      BY <1>3, <2>1, <2>2 DEF TxRecord
  <1>. HIDE DEF tx
  <1>6. /\ new \in CallRecord
        /\ new.fn = k.fn /\ new.scope = k.scope /\ new.dry = k.dry /\ new.limit = k.limit
        /\ new.status = k.status /\ new.at = k.at /\ new.writes = k.writes
        /\ new.done = k.done /\ new.heard = k.heard /\ new.due = k.due /\ new.txs = k.txs
        /\ new.rolled = k.rolled /\ new.tx = tx /\ new.wrote = k.wrote \union W /\ new.touched = call.touched
    BY <1>5 DEF CallRecord, SameButWrote
  <1>. HIDE DEF new
  <1>. DEFINE view == View(k, cxRows)  view2 == View(new, cxRows)
  <1>7. \A id \in Ids : view2[id] = IF id \in DOMAIN rows THEN rows[id] ELSE view[id]
    BY <1>4, <1>5, <1>6 DEF View
  <1>8. Follow(view2, view)
    BY <1>7, FollowsItself DEF Follow, Puttable
  <1>9. TxKept(k, c, cxRows)
    BY DEF Puttable, CallKept
  <1>10. \A id \in Ids : view[id] \in Cell(id) /\ Follows(view[id], cxRows[id])
    BY <1>2, <1>9, ViewCells
  <1>. HIDE DEF view, view2
  <1>11. \A cross : \A row \in CxRow : RowRefers(row, cross, view) => RowRefers(row, cross, view2)
    BY <1>8, RowRefersFollows
  <1>12. ScopeKept(new)
    BY <1>6 DEF Puttable, CallKept, ScopeKept
  <1>13. TxKept(new, c, cxRows)
    <2>1. \A job \in new.tx.jobs : JobKept(job)
      BY <1>5, <1>6, <1>9 DEF TxKept
    <2>2. ASSUME NEW id \in DOMAIN rows
          PROVE  LET row == over[id] IN
                 /\ row \in RowOf(id) \union {Erased}
                 /\ Follows(row, cxRows[id])
                 /\ Present(row) => row.by = c /\ RowRefers(row, Fns[k.fn].cross, view2)
      <3>1. id \in Ids /\ over[id] = rows[id] /\ rows[id] \in RowOf(id) \union {Erased}
        BY <1>4 DEF Puttable
      <3>2. Follows(rows[id], view[id])
        BY DEF Puttable, view
      <3>3. Present(rows[id]) => rows[id] \in CxRow /\ rows[id].by = c /\ RowRefers(rows[id], Fns[k.fn].cross, view)
        BY <3>1 DEF Puttable, view, RowOf, Present
      <3>. QED
        BY <3>1, <3>2, <3>3, <1>10, <1>11, FollowsOn
    <2>3. ASSUME NEW id \in DOMAIN k.tx.rows \ DOMAIN rows
          PROVE  LET row == over[id] IN
                 /\ row \in RowOf(id) \union {Erased}
                 /\ Follows(row, cxRows[id])
                 /\ Present(row) => row.by = c /\ RowRefers(row, Fns[k.fn].cross, view2)
      <3>1. over[id] = k.tx.rows[id]
        BY <1>4
      <3>2. LET row == k.tx.rows[id] IN
            /\ row \in RowOf(id) \union {Erased}
            /\ Follows(row, cxRows[id])
            /\ Present(row) => row.by = c /\ RowRefers(row, Fns[k.fn].cross, view)
        BY <1>9 DEF TxKept, view
      <3>3. Present(k.tx.rows[id]) => k.tx.rows[id] \in CxRow
        BY <3>2 DEF RowOf, Present
      <3>. QED
        BY <3>1, <3>2, <3>3, <1>11
    <2>4. \A id \in DOMAIN over :
                 LET row == over[id] IN
                 /\ row \in RowOf(id) \union {Erased}
                 /\ Follows(row, cxRows[id])
                 /\ Present(row) => row.by = c /\ RowRefers(row, Fns[k.fn].cross, view2)
      BY <1>4, <2>2, <2>3
    <2>. QED
      BY <1>5, <1>6, <2>1, <2>4 DEF TxKept, view2
  <1>14. WroteKept(new, cxRows)
    <2>1. WroteKept(k, cxRows) /\ k.wrote \subseteq Ids /\ k.tx.was \subseteq Ids
      BY <1>2, <1>3 DEF Puttable, CallKept, CallRecord, TxRecord
    <2>2. \A id, row : Legible(new, id, row) <=> Legible(k, id, row)
      BY <1>6 DEF Legible
    <2>3. ASSUME NEW id \in W PROVE Legible(new, id, view2[id])
      BY <1>7, <2>2 DEF Puttable
    <2>4. ASSUME NEW id \in k.wrote PROVE Legible(new, id, view2[id])
      <3>1. id \in Ids /\ Legible(k, id, view[id])
        BY <2>1 DEF WroteKept, view
      <3>2. view2[id] \in Cell(id)
        BY <1>2, <1>13, <3>1, ViewCells DEF view2
      <3>3. Legible(k, id, view2[id])
        BY <1>8, <1>10, <3>1, <3>2, LegibleFollows DEF Follow
      <3>. QED
        BY <2>2, <3>3
    <2>5. \A id \in new.tx.was : Legible(new, id, cxRows[id])
      BY <1>5, <1>6, <2>1, <2>2 DEF WroteKept
    <2>. QED
      BY <1>6, <2>3, <2>4, <2>5 DEF WroteKept, view2
  <1>15. new.at.op = "none"
    BY <1>6 DEF Puttable, Between
  <1>16. AtKept(new, c, cxRows)
    BY <1>15 DEF AtKept
  <1>17. AccountKept(new)
    <2>1. AccountKept(k) /\ changes \subseteq k.tx.writes /\ NamesOf(W) \subseteq On(changes)
      BY <1>3 DEF Puttable, CallKept, Report
    <2>2. On(new.done \union new.tx.done) = On(k.done \union k.tx.done) \union On(changes)
      BY <1>5, <1>6 DEF On
    <2>3. NamesOf(new.wrote) = NamesOf(k.wrote) \union NamesOf(W)
      BY NamesJoin, <1>6
    <2>4. NamesOf(k.wrote) \union k.tx.notices \subseteq On(k.done \union k.tx.done)
      BY <2>1 DEF AccountKept
    <2>5. new.tx.notices = k.tx.notices
      BY <1>5, <1>6
    <2>6. NamesOf(new.wrote) \union new.tx.notices \subseteq On(new.done \union new.tx.done)
      BY <2>1, <2>2, <2>3, <2>4, <2>5
    <2>7. new.done \subseteq new.writes /\ new.tx.done \subseteq new.tx.writes
      BY <1>5, <1>6, <2>1 DEF AccountKept
    <2>. QED
      BY <1>5, <1>6, <1>15, <2>1, <2>6, <2>7 DEF AccountKept
  <1>18. ~new.dry
    BY <1>6 DEF Puttable
  <1>19. CallKept(new, c, cxRows)
    BY <1>6, <1>12, <1>13, <1>14, <1>16, <1>17, <1>18 DEF CallKept, DryKept, Puttable
  <1>20. c \in DOMAIN cxCalls /\ CxKept(cxRows, cxCalls, cxJobs)
    BY DEF Numbered, CxInv
  <1>21. StepOf(c, new, cxRows, cxJobs, cxRows, cxJobs, cxCalls)
    <2>1. \A d \in DOMAIN cxCalls : d # c => DOMAIN k.tx.rows \intersect DOMAIN cxCalls[d].tx.rows = {}
      BY <1>20 DEF CxKept, Apart, Puttable
    <2>2. \A d \in DOMAIN cxCalls : d # c => DOMAIN rows \intersect DOMAIN cxCalls[d].tx.rows = {}
      BY UnlockedIs DEF Puttable, Numbered
    <2>3. \A d \in DOMAIN cxCalls : d # c => DOMAIN new.tx.rows \intersect DOMAIN cxCalls[d].tx.rows = {}
      BY <1>4, <1>5, <1>6, <2>1, <2>2
    <2>4. cxRows \in Table /\ cxJobs \subseteq CxJob
      BY <1>20 DEF CxKept, TableKept, Table
    <2>5. Follow(cxRows, cxRows)
      BY FollowsItself DEF Follow
    <2>6. new \in CallRecord /\ new.fn = cxCalls[c].fn
      BY <1>6 DEF Puttable
    <2>. QED
      BY <1>2, <2>3, <2>4, <2>5, <2>6 DEF StepOf
  <1>22. CxKept(cxRows, [cxCalls EXCEPT ![c] = new], cxJobs)
    BY <1>19, <1>20, <1>21, StepKept
  <1>23. CxKept(cxRows', cxCalls', cxJobs')
    BY <1>1, <1>22
  <1>. QED
    BY <1>23 DEF CxInv

LEMMA PutsAtOnce ==
    ASSUME CxInv, NEW c \in Numbered, NEW k, NEW rows, NEW W, NEW changes, Puttable(k, c, rows, W, changes),
           NEW call \in CallRecord, SameButWrote(call, k), call.wrote = k.wrote \union W,
           call.touched \subseteq Authority(Fns[k.fn], k.scope),
           ~call.tx.open, Puts(c, call, rows, changes), cxJobs' = cxJobs
    PROVE  CxInv'
  <1>. DEFINE new == [call EXCEPT !.done = @ \union changes]
              over == Over(rows, cxRows)
  <1>1. cxCalls' = [cxCalls EXCEPT ![c] = new] /\ cxRows' = over
    BY DEF Puts
  <1>2. k \in CallRecord /\ (\A id \in Ids : cxRows[id] \in Cell(id)) /\ cxRows \in Table
    BY CallIs DEF Puttable, CallKept
  <1>3. TxKept(k, c, cxRows) /\ k.tx = NoTx /\ DOMAIN k.tx.rows = {}
    <2>1. TxKept(k, c, cxRows)
      BY DEF Puttable, CallKept
    <2>2. k.tx = NoTx
      BY <2>1 DEF TxKept, SameButWrote
    <2>. QED
      BY <2>1, <2>2, NoTxIs, NoRowsIs
  <1>4. /\ new \in CallRecord
        /\ new.fn = k.fn /\ new.scope = k.scope /\ new.dry = k.dry /\ new.limit = k.limit
        /\ new.status = k.status /\ new.at = k.at /\ new.writes = k.writes
        /\ new.done = k.done \union changes /\ new.heard = k.heard /\ new.due = k.due /\ new.txs = k.txs
        /\ new.rolled = k.rolled /\ new.tx = k.tx /\ new.wrote = k.wrote \union W /\ new.touched = call.touched
    <2>1. changes \subseteq CxEntry
      BY DEF Puttable
    <2>. QED
      BY <2>1 DEF CallRecord, SameButWrote
  <1>. HIDE DEF new
  <1>5. /\ over \in Table
        /\ \A id \in Ids : over[id] = IF id \in DOMAIN rows THEN rows[id] ELSE cxRows[id]
    BY <1>2 DEF Over, Table, Puttable
  <1>. HIDE DEF over
  <1>6. \A id \in Ids : View(k, cxRows)[id] = cxRows[id] /\ View(new, over)[id] = over[id]
    BY <1>3, <1>4 DEF View
  <1>7. \A id \in Ids : Follows(over[id], cxRows[id]) /\ over[id] \in Cell(id)
    BY <1>2, <1>5, <1>6, FollowsItself DEF Puttable, Cell
  <1>8. \A cross : \A row \in CxRow : RowRefers(row, cross, View(k, cxRows)) => RowRefers(row, cross, over)
    <2>1. Follow(over, View(k, cxRows))
      BY <1>6, <1>7 DEF Follow
    <2>. QED
      BY <2>1, RowRefersFollows
  <1>9. ScopeKept(new)
    BY <1>4 DEF Puttable, CallKept, ScopeKept
  <1>10. TxKept(new, c, over)
    BY <1>3, <1>4, NoTxIs DEF TxKept
  <1>11. WroteKept(new, over)
    <2>1. WroteKept(k, cxRows) /\ k.wrote \subseteq Ids
      BY <1>2 DEF Puttable, CallKept, CallRecord
    <2>2. \A id, row : Legible(new, id, row) <=> Legible(k, id, row)
      BY <1>4 DEF Legible
    <2>3. W \subseteq Ids /\ \A id \in W : Legible(new, id, View(new, over)[id])
      BY <1>5, <1>6, <2>2 DEF Puttable
    <2>4. ASSUME NEW id \in k.wrote PROVE Legible(new, id, View(new, over)[id])
      <3>1. id \in Ids /\ Legible(k, id, cxRows[id])
        BY <1>6, <2>1 DEF WroteKept
      <3>2. Legible(k, id, over[id])
        BY <1>2, <1>7, <3>1, LegibleFollows
      <3>. QED
        BY <1>6, <2>2, <3>1, <3>2
    <2>5. new.tx.was = {}
      BY <1>3, <1>4, NoTxIs
    <2>. QED
      BY <1>4, <2>3, <2>4, <2>5 DEF WroteKept
  <1>12. new.at.op = "none"
    BY <1>4 DEF Puttable, Between
  <1>13. AtKept(new, c, over)
    BY <1>12 DEF AtKept
  <1>14. AccountKept(new)
    <2>1. AccountKept(k) /\ changes \subseteq k.writes /\ NamesOf(W) \subseteq On(changes)
      BY <1>3, NoTxIs DEF Puttable, CallKept, Report
    <2>2. /\ On(new.done) = On(k.done) \union On(changes)
          /\ On(new.done \union new.tx.done) = On(k.done \union k.tx.done) \union On(changes)
      BY <1>4 DEF On
    <2>3. NamesOf(new.wrote) \union new.tx.notices \subseteq On(new.done \union new.tx.done)
      BY <1>4, <2>1, <2>2 DEF AccountKept, NamesOf
    <2>4. new.done \subseteq new.writes /\ new.tx.done \subseteq new.tx.writes
      BY <1>4, <2>1 DEF AccountKept
    <2>5. new.heard \union new.due \union NamesOf(new.tx.was) \subseteq On(new.done)
      BY <1>4, <2>1, <2>2 DEF AccountKept
    <2>. QED
      BY <1>4, <1>12, <2>1, <2>3, <2>4, <2>5 DEF AccountKept
  <1>15. ~new.dry
    BY <1>4 DEF Puttable
  <1>16. CallKept(new, c, over)
    BY <1>4, <1>9, <1>10, <1>11, <1>13, <1>14, <1>15 DEF CallKept, DryKept, Puttable
  <1>17. c \in DOMAIN cxCalls /\ CxKept(cxRows, cxCalls, cxJobs)
    BY DEF Numbered, CxInv
  <1>18. StepOf(c, new, cxRows, cxJobs, over, cxJobs, cxCalls)
    <2>1. \A d \in DOMAIN cxCalls : d # c => \A id \in DOMAIN cxCalls[d].tx.rows : id \notin DOMAIN rows
      BY UnlockedIs DEF Puttable, Numbered
    <2>2. \A d \in DOMAIN cxCalls : DOMAIN cxCalls[d].tx.rows \subseteq Ids
      BY CallIs, TxRowsAre DEF Numbered
    <2>3. \A d \in DOMAIN cxCalls : d # c =>
            /\ \A id \in DOMAIN cxCalls[d].tx.rows : over[id] = cxRows[id]
            /\ DOMAIN new.tx.rows \intersect DOMAIN cxCalls[d].tx.rows = {}
      BY <1>3, <1>4, <1>5, <2>1, <2>2
    <2>4. \A id \in Ids : Present(over[id]) /\ over[id].ref # NoOne =>
            \/ over[id] = cxRows[id]
            \/ over[id].by = c /\ RowRefers(over[id], Fns[new.fn].cross, over)
      <3>. SUFFICES ASSUME NEW id \in DOMAIN rows, id \in Ids, Present(rows[id])
                    PROVE  rows[id].by = c /\ RowRefers(rows[id], Fns[new.fn].cross, over)
        BY <1>5
      <3>1. rows[id] \in CxRow /\ rows[id].by = c /\ RowRefers(rows[id], Fns[k.fn].cross, View(k, cxRows))
        BY DEF Puttable, RowOf, Present
      <3>. QED
        BY <1>4, <1>8, <3>1
    <2>5. cxJobs \subseteq CxJob
      BY <1>17 DEF CxKept
    <2>6. new \in CallRecord /\ new.fn = cxCalls[c].fn
      BY <1>4 DEF Puttable
    <2>7. Follow(over, cxRows)
      BY <1>7 DEF Follow
    <2>. QED
      BY <1>5, <1>7, <2>3, <2>4, <2>5, <2>6, <2>7 DEF StepOf
  <1>19. CxKept(over, [cxCalls EXCEPT ![c] = new], cxJobs)
    BY <1>16, <1>17, <1>18, StepKept
  <1>20. CxKept(cxRows', cxCalls', cxJobs')
    BY <1>1, <1>19
  <1>. QED
    BY <1>20 DEF CxInv

LEMMA PutsKept ==
    ASSUME CxInv, NEW c \in Numbered, NEW k, NEW rows, NEW W, NEW changes, Puttable(k, c, rows, W, changes),
           NEW call \in CallRecord, SameButWrote(call, k), call.wrote = k.wrote \union W,
           call.touched \subseteq Authority(Fns[k.fn], k.scope),
           Puts(c, call, rows, changes), cxJobs' = cxJobs
    PROVE  CxInv'
  <1>1. CASE call.tx.open
    BY <1>1, PutsInTx
  <1>2. CASE ~call.tx.open
    BY <1>2, PutsAtOnce
  <1>. QED
    BY <1>1, <1>2

LEMMA StatementIs ==
    ASSUME NEW at \in Statement
    PROVE  /\ at.op = "insert" => at.id \in Names /\ at.row \in CxRow
           /\ at.op = "update" => at.id \in Names /\ at.ref \in Ids \union {NoOne} /\ at.blind \in BOOLEAN
  BY DEF Statement, Between

LEMMA TouchesIs ==
    ASSUME NEW call \in CallRecord, NEW rows, call.touched \subseteq Authority(Fns[call.fn], call.scope),
           \A row \in rows : ~Shared(row.model) => row.company \in Authority(Fns[call.fn], call.scope)
    PROVE  LET new == Touches(call, rows) IN
           /\ new \in CallRecord /\ SameButWrote(new, call) /\ new.wrote = call.wrote
           /\ new.touched \subseteq Authority(Fns[call.fn], call.scope)
  <1>. DEFINE companies == {r.company : r \in {row \in rows : ~Shared(row.model)}}
              new == [call EXCEPT !.touched = call.touched \union companies]
  <1>1. Touches(call, rows) = new
    BY DEF Touches
  <1>2. companies \subseteq Authority(Fns[call.fn], call.scope)
    OBVIOUS
  <1>3. call.fn \in DOMAIN Fns /\ call.scope \in Scope
    BY DEF CallRecord
  <1>4. Authority(Fns[call.fn], call.scope) \subseteq Companies
    BY <1>3, AuthorityIs
  <1>. HIDE DEF companies
  <1>5. new \in CallRecord /\ new.touched = call.touched \union companies /\ new.wrote = call.wrote
    BY <1>2, <1>4 DEF CallRecord
  <1>6. SameButWrote(new, call)
    BY DEF SameButWrote, CallRecord
  <1>. HIDE DEF new
  <1>7. new.touched \subseteq Authority(Fns[call.fn], call.scope)
    BY <1>2, <1>5
  <1>. QED
    BY <1>1, <1>5, <1>6, <1>7

\* A row the call sees is of the tables, or its own.
LEMMA SeenCells ==
    ASSUME CxInv, NEW c \in Numbered, cxCalls[c].status = "running", NEW id \in Ids
    PROVE  SeenAs(c, id) \in Cell(id)
  BY CallIs, SeenIs, ViewCells DEF CallKept

LEMMA CxInsertsKept ==
    ASSUME CxInv, NEW c \in Numbered, CxInserts(c)
    PROVE  CxInv'
  <1>. DEFINE call == cxCalls[c]  at == call.at
              k == [call EXCEPT !.at = Between]
              w == Change(k, "insert", at.id)
  <1>1. call \in CallRecord /\ CallKept(call, c, cxRows) /\ call.fn \in DOMAIN Fns /\ call.scope \in Scope
    BY CallIs
  <1>2. call.status = "running" /\ at.op = "insert" /\ cxJobs' = cxJobs /\ Unlocked(c, at.id)
    BY DEF CxInserts, Running
  <1>3. at.id \in Ids /\ NameOf[at.id] = at.id /\ at.row \in CxRow
    BY <1>1, <1>2, StatementIs, NamesAre DEF CallRecord
  <1>4. /\ k \in CallRecord /\ CallKept(k, c, cxRows)
        /\ k.at = Between /\ k.fn = call.fn /\ k.scope = call.scope /\ k.status = "running"
        /\ k.tx = call.tx /\ k.dry = call.dry /\ k.wrote = call.wrote /\ k.touched = call.touched
        /\ k.writes = call.writes /\ k.txs = call.txs
    BY <1>1, <1>2, AtEnds
  <1>5. \/ cxCalls' = [cxCalls EXCEPT ![c] = k] /\ UNCHANGED cxRows
        \/ \E id \in {t \in Bearers(at.id) : SeenAs(c, t) = NoOne} :
              Puts(c, Touches([k EXCEPT !.wrote = @ \union {id}], {at.row}), Single(id, at.row), {w})
    BY DEF CxInserts
  <1>. HIDE DEF k
  <1>6. CASE cxCalls' = [cxCalls EXCEPT ![c] = k] /\ UNCHANGED cxRows
    BY <1>2, <1>4, <1>6, CallMoves
  <1>7. ASSUME NEW id \in Bearers(at.id), SeenAs(c, id) = NoOne,
               Puts(c, Touches([k EXCEPT !.wrote = @ \union {id}], {at.row}), Single(id, at.row), {w})
        PROVE  CxInv'
    <2>. DEFINE mid == [k EXCEPT !.wrote = k.wrote \union {id}]
                new == Touches(mid, {at.row})
                rows == Single(id, at.row)
    <2>1. id \in Ids /\ NameOf[id] = at.id /\ RowOf(id) = RowOf(at.id) /\ Unlocked(c, id)
      BY <1>2, <1>3, BearersAre, UnlockedIs
    <2>2. /\ at.row \in RowOf(id) /\ at.row.by = c
          /\ InScope(Fns[call.fn], call.scope, at.row)
          /\ ~Shared(at.row.model) => at.row.company = call.scope.company
          /\ RowRefers(at.row, Fns[call.fn].cross, View(call, cxRows))
      BY <1>1, <1>2, <2>1 DEF CallKept, AtKept
    <2>3. call.touched \subseteq Authority(Fns[call.fn], call.scope)
      BY <1>1, <1>2 DEF CallKept, ScopeKept
    <2>4. ~Shared(at.row.model) => at.row.company \in Authority(Fns[call.fn], call.scope)
      BY <1>1, <2>1, <2>2, InScopeIsEntitled
    <2>5. /\ mid \in CallRecord /\ SameButWrote(mid, k) /\ mid.wrote = k.wrote \union {id}
          /\ mid.touched = call.touched /\ mid.fn = call.fn /\ mid.scope = call.scope
      BY <1>4, <2>1 DEF CallRecord, SameButWrote
    <2>. HIDE DEF mid
    <2>6. /\ new \in CallRecord /\ SameButWrote(new, mid) /\ new.wrote = mid.wrote
          /\ new.touched \subseteq Authority(Fns[k.fn], k.scope)
      BY <1>4, <2>3, <2>4, <2>5, TouchesIs
    <2>7. SameButWrote(new, k) /\ new.wrote = k.wrote \union {id}
      BY <2>5, <2>6 DEF SameButWrote
    <2>8. View(k, cxRows) = View(call, cxRows) /\ View(k, cxRows)[id] = NoOne
      BY <1>4, <1>7, <2>1, SeenIs DEF View
    <2>9. rows \in [{id} -> CxRow] /\ DOMAIN rows = {id} /\ rows[id] = at.row
      BY <1>3 DEF Single
    <2>10. ~call.dry
      BY <1>1, <1>2 DEF CallKept, DryKept, Between
    <2>11. Change(call, "insert", at.id) = w
      BY <1>4 DEF Change
    <2>12. w \in CxEntry /\ w.on = at.id
      BY <1>3, <1>4, ChangeIs
    <2>13. w \in Report(k)
      BY <1>1, <1>2, <1>4, <2>11 DEF Report, CallKept, AccountKept
    <2>14. Follows(at.row, View(k, cxRows)[id])
      BY <1>3, <2>8, RowIsPresent, ContextAssumption DEF Follows, Present
    <2>15. Legible(k, id, at.row)
      <3>1. Updates(Fns[k.fn], k.scope, at.row)
        BY <1>4, <2>2 DEF Updates, InScope
      <3>. QED
        BY <1>3, <1>4, <2>2, <3>1, RowIsPresent DEF Legible, Present
    <2>. HIDE DEF rows, w
    <2>16. NamesOf({id}) \subseteq On({w})
      BY <2>1, <2>12 DEF On, NamesOf
    <2>17. rows \in [DOMAIN rows -> CxRow \union {Erased}]
      BY <2>9
    <2>18. Puttable(k, c, rows, {id}, {w})
      BY <1>4, <2>1, <2>2, <2>8, <2>9, <2>10, <2>12, <2>13, <2>14, <2>15, <2>16, <2>17 DEF Puttable
    <2>19. Puts(c, new, rows, {w})
      BY <1>7 DEF rows, mid
    <2>. HIDE DEF new
    <2>. QED
      BY <1>2, <2>6, <2>7, <2>18, <2>19, PutsKept
  <1>. QED
    BY <1>5, <1>6, <1>7

\* A row of a company of the request, or of its reach.
LEMMA UpdatesIs ==
    ASSUME NEW fn \in DOMAIN Fns, NEW s \in Scope, Coherent(s), NEW id \in Ids, NEW row \in RowOf(id),
           Updates(Fns[fn], s, row)
    PROVE  /\ InScope(Fns[fn], s, row)
           /\ ~Shared(row.model) /\ ~Fns[fn].cross => row.company = s.company
  <1>1. ~Shared(row.model) => row.company \in Companies
    BY DEF RowOf, Shared, ScopeKind
  <1>2. NoOne \notin Companies
    BY ContextAssumption
  <1>3. s.company # NoOne => s.company \in Readable(s)
    BY DEF Readable, Coherent
  <1>. QED
    BY <1>1, <1>2, <1>3 DEF Updates, InScope

LEMMA CxUpdatesKept ==
    ASSUME CxInv, NEW c \in Numbered, NEW holds \in BOOLEAN, CxUpdates(c, holds)
    PROVE  CxInv'
  <1>. DEFINE call == cxCalls[c]  at == call.at
              k == [call EXCEPT !.at = Between]
              w == Change(k, "update", at.id)
              patched(row) == [row EXCEPT !.ref = at.ref, !.blind = at.blind, !.by = c]
  <1>1. call \in CallRecord /\ CallKept(call, c, cxRows) /\ call.fn \in DOMAIN Fns /\ call.scope \in Scope /\ c \in Nat
    BY CallIs
  <1>2. call.status = "running" /\ at.op = "update" /\ cxJobs' = cxJobs /\ Unlocked(c, at.id)
    BY DEF CxUpdates, Running
  <1>3. at.id \in Ids /\ NameOf[at.id] = at.id /\ at.ref \in Ids \union {NoOne} /\ at.blind \in BOOLEAN
    BY <1>1, <1>2, StatementIs, NamesAre DEF CallRecord
  <1>4. /\ k \in CallRecord /\ CallKept(k, c, cxRows)
        /\ k.at = Between /\ k.fn = call.fn /\ k.scope = call.scope /\ k.status = "running"
        /\ k.tx = call.tx /\ k.dry = call.dry /\ k.wrote = call.wrote /\ k.touched = call.touched
        /\ k.writes = call.writes /\ k.txs = call.txs
    BY <1>1, <1>2, AtEnds
  <1>5. \/ cxCalls' = [cxCalls EXCEPT ![c] = k] /\ UNCHANGED cxRows
        \/ \E id \in Bearers(at.id) :
              /\ Present(SeenAs(c, id)) /\ Updates(FnOf(c), CallScope(c), SeenAs(c, id))
              /\ Puts(c, Touches([k EXCEPT !.wrote = @ \union {id}], {SeenAs(c, id)}),
                      Single(id, patched(SeenAs(c, id))), {w})
    BY DEF CxUpdates
  <1>. HIDE DEF k
  <1>6. CASE cxCalls' = [cxCalls EXCEPT ![c] = k] /\ UNCHANGED cxRows
    BY <1>2, <1>4, <1>6, CallMoves
  <1>7. ASSUME NEW id \in Bearers(at.id),
               Present(SeenAs(c, id)), Updates(FnOf(c), CallScope(c), SeenAs(c, id)),
               Puts(c, Touches([k EXCEPT !.wrote = @ \union {id}], {SeenAs(c, id)}),
                    Single(id, patched(SeenAs(c, id))), {w})
        PROVE  CxInv'
    <2>. DEFINE old == SeenAs(c, id)
                row == patched(old)
                mid == [k EXCEPT !.wrote = k.wrote \union {id}]
                new == Touches(mid, {old})
    <2>. DEFINE rows == Single(id, row)
    <2>0. /\ id \in Ids /\ NameOf[id] = at.id /\ ModelOf[id] = ModelOf[at.id] /\ Unlocked(c, id)
          /\ RowOf(id) = RowOf(at.id)
      BY <1>2, <1>3, BearersAre, UnlockedIs
    <2>1. old \in RowOf(id) /\ old \in CxRow /\ old.model = ModelOf[id]
      BY <1>2, <1>7, <2>0, SeenCells, CellIs
    <2>2. Coherent(call.scope) /\ call.touched \subseteq Authority(Fns[call.fn], call.scope)
      BY <1>1, <1>2 DEF CallKept, ScopeKept
    <2>3. /\ InScope(Fns[call.fn], call.scope, old)
          /\ ~Shared(old.model) /\ ~Fns[call.fn].cross => old.company = call.scope.company
      BY <1>1, <1>7, <2>0, <2>1, <2>2, UpdatesIs DEF FnOf, CallScope
    <2>4. /\ row \in CxRow /\ row.model = old.model /\ row.company = old.company /\ row.branch = old.branch
          /\ row.ref = at.ref /\ row.blind = at.blind /\ row.by = c
      <3>. HIDE DEF old, at
      <3>. QED
        BY <1>1, <1>3, <2>1 DEF CxRow
    <2>. HIDE DEF row
    <2>5. /\ row \in RowOf(id) /\ InScope(Fns[call.fn], call.scope, row)
          /\ Updates(Fns[call.fn], call.scope, row)
      BY <1>7, <2>1, <2>3, <2>4 DEF RowOf, InScope, Updates, FnOf, CallScope
    <2>6. ~Shared(old.model) => old.company \in Authority(Fns[call.fn], call.scope)
      BY <1>1, <2>0, <2>1, <2>3, InScopeIsEntitled
    <2>7. /\ mid \in CallRecord /\ SameButWrote(mid, k) /\ mid.wrote = k.wrote \union {id}
          /\ mid.touched = call.touched /\ mid.fn = call.fn /\ mid.scope = call.scope
      BY <1>4, <2>0 DEF CallRecord, SameButWrote
    <2>. HIDE DEF mid
    <2>8. /\ new \in CallRecord /\ SameButWrote(new, mid) /\ new.wrote = mid.wrote
          /\ new.touched \subseteq Authority(Fns[k.fn], k.scope)
      BY <1>4, <2>2, <2>6, <2>7, TouchesIs
    <2>9. SameButWrote(new, k) /\ new.wrote = k.wrote \union {id}
      BY <2>7, <2>8 DEF SameButWrote
    <2>10. View(k, cxRows) = View(call, cxRows)
      BY <1>4 DEF View
    <2>11. View(k, cxRows)[id] = old
      BY <2>0, <2>10, SeenIs
    <2>12. rows \in [{id} -> CxRow] /\ DOMAIN rows = {id} /\ rows[id] = row
      BY <2>4 DEF Single
    <2>13. ~call.dry
      BY <1>1, <1>2 DEF CallKept, DryKept, Between
    <2>14. Change(call, "update", at.id) = w
      BY <1>4 DEF Change
    <2>15. w \in CxEntry /\ w.on = at.id
      BY <1>3, <1>4, ChangeIs
    <2>16. w \in Report(k)
      BY <1>1, <1>2, <1>4, <2>14 DEF Report, CallKept, AccountKept
    <2>17. Follows(row, View(k, cxRows)[id])
      BY <2>1, <2>4, <2>11, RowIsPresent DEF Follows, Present
    <2>18. Legible(k, id, row)
      BY <1>4, <2>4, <2>5, RowIsPresent DEF Legible, Present
    <2>19. RowRefers(row, Fns[call.fn].cross, View(call, cxRows))
      <3>1. \/ at.blind \/ Fns[call.fn].cross
            \/ RefersTo(View(call, cxRows), ModelOf[at.id], at.ref, call.scope.company)
        BY <1>1, <1>2 DEF CallKept, AtKept
      <3>2. Shared(ModelOf[at.id]) => RefersTo(View(call, cxRows), ModelOf[at.id], at.ref, row.company)
        BY DEF RefersTo
      <3>. HIDE DEF at, old
      <3>. QED
        BY <2>0, <2>1, <2>3, <2>4, <3>1, <3>2 DEF RowRefers
    <2>. HIDE DEF rows, w
    <2>20. NamesOf({id}) \subseteq On({w})
      BY <2>0, <2>15 DEF On, NamesOf
    <2>21. rows \in [DOMAIN rows -> CxRow \union {Erased}]
      BY <2>12
    <2>22. Puttable(k, c, rows, {id}, {w})
      BY <1>4, <2>0, <2>4, <2>5, <2>10, <2>12, <2>13, <2>15, <2>16, <2>17, <2>18, <2>19, <2>20, <2>21
         DEF Puttable
    <2>23. Puts(c, new, rows, {w})
      BY <1>7 DEF rows, row, mid
    <2>. HIDE DEF new
    <2>. QED
      BY <1>2, <2>8, <2>9, <2>22, <2>23, PutsKept
  <1>. QED
    BY <1>5, <1>6, <1>7

LEMMA CxDeleteKept ==
    ASSUME CxInv, NEW c \in Numbered, NEW ids \in (SUBSET Ids) \ {{}}, CxDelete(c, ids)
    PROVE  CxInv'
  <1>. DEFINE call == cxCalls[c]  m == ModelOf[CHOOSE id \in ids : TRUE]
              w == Change(call, "delete", m)
              noted == OneMore(Recorded(call, w))
              gone == {id \in ids : Present(SeenAs(c, id)) /\ InScope(FnOf(c), CallScope(c), SeenAs(c, id))}
              seen == {SeenAs(c, id) : id \in gone}
              rows == [id \in gone |-> Erased]
              changes == {Change(noted, "delete", m) : id \in gone}
              new == Touches(noted, seen)
  <1>1. call \in CallRecord /\ CallKept(call, c, cxRows) /\ call.fn \in DOMAIN Fns /\ call.scope \in Scope
    BY CallIs
  <1>2. call.status = "running" /\ call.at = Between /\ cxJobs' = cxJobs
    BY DEF CxDelete, Acts, Running
  <1>3. m \in DOMAIN ModelDefs
    <2>1. (CHOOSE id \in ids : TRUE) \in Ids
      OBVIOUS
    <2>. QED
      BY <2>1, ContextAssumption
  <1>4. CallKept(noted, c, cxRows) /\ w \in Report(noted)
    BY <1>1, <1>2, <1>3, NotedKept
  <1>5. w \in CxEntry /\ w.on = m
    BY <1>1, <1>3, ChangeIs
  <1>6. /\ noted \in CallRecord /\ noted.fn = call.fn /\ noted.scope = call.scope /\ noted.status = "running"
        /\ noted.tx.rows = call.tx.rows /\ noted.dry = call.dry /\ noted.tx.open = call.tx.open
        /\ noted.txs = call.txs /\ noted.at = Between /\ noted.touched = call.touched
    BY <1>1, <1>2, <1>5, NotedIs
  <1>7. Change(noted, "delete", m) = w
    BY <1>6 DEF Change
  <1>8. IF Dry(c) THEN cxCalls' = [cxCalls EXCEPT ![c] = noted] /\ UNCHANGED cxRows
        ELSE (\A id \in gone : Unlocked(c, id)) /\ Puts(c, new, rows, changes)
    BY DEF CxDelete
  <1>. HIDE DEF noted
  <1>9. CASE Dry(c)
    BY <1>2, <1>4, <1>6, <1>8, <1>9, CallMoves
  <1>10. CASE ~Dry(c)
    <2>1. call.touched \subseteq Authority(Fns[call.fn], call.scope)
      BY <1>1, <1>2 DEF CallKept, ScopeKept
    <2>2. ASSUME NEW row \in seen, ~Shared(row.model) PROVE row.company \in Authority(Fns[call.fn], call.scope)
      <3>1. PICK id \in gone : row = SeenAs(c, id)
        OBVIOUS
      <3>2. id \in Ids /\ Present(row) /\ InScope(Fns[call.fn], call.scope, row)
        BY <3>1 DEF FnOf, CallScope
      <3>3. row \in RowOf(id)
        BY <1>2, <3>1, <3>2, SeenCells, CellIs
      <3>. QED
        BY <1>1, <2>2, <3>2, <3>3, InScopeIsEntitled
    <2>. HIDE DEF seen
    <2>3. /\ new \in CallRecord /\ SameButWrote(new, noted) /\ new.wrote = noted.wrote
          /\ new.touched \subseteq Authority(Fns[noted.fn], noted.scope)
      BY <1>6, <2>1, <2>2, TouchesIs
    <2>4. ~noted.dry /\ gone \subseteq Ids /\ \A id \in gone : Unlocked(c, id)
      BY <1>6, <1>8, <1>10 DEF Dry
    <2>. HIDE DEF gone
    <2>5. DOMAIN rows = gone /\ rows \in [gone -> CxRow \union {Erased}] /\ \A id \in gone : rows[id] = Erased
      OBVIOUS
    <2>6. \A old : Follows(Erased, old)
      BY ContextAssumption DEF Follows, Present
    <2>7. ~Present(Erased)
      BY DEF Present
    <2>8. changes \subseteq Report(noted) /\ changes \subseteq CxEntry
      BY <1>4, <1>5, <1>7
    <2>. HIDE DEF rows, changes
    <2>9. Puttable(noted, c, rows, {}, changes)
      BY NoNames, <1>4, <1>6, <2>4, <2>5, <2>6, <2>7, <2>8 DEF Puttable
    <2>10. Puts(c, new, rows, changes)
      BY <1>8, <1>10
    <2>. HIDE DEF new
    <2>11. new.wrote = noted.wrote \union {}
      BY <2>3
    <2>. QED
      BY <1>2, <2>3, <2>9, <2>10, <2>11, PutsKept
  <1>. QED
    BY <1>9, <1>10

-----------------------------------------------------------------------------
(* Jobs, transactions and notices.                                         *)

\* A call that goes on with the rows it had: what is left to say is what it tells.
SameFrame(a, b) ==
    /\ a.fn = b.fn /\ a.scope = b.scope /\ a.dry = b.dry /\ a.limit = b.limit /\ a.status = b.status
    /\ a.at = b.at /\ a.touched = b.touched /\ a.wrote = b.wrote /\ a.tx.rows = b.tx.rows

LEMMA FrameKept ==
    ASSUME NEW call, NEW c, NEW rows, CallKept(call, c, rows), call.status = "running",
           NEW new \in CallRecord, SameFrame(new, call),
           ~new.tx.open => new.tx = NoTx,
           \A job \in new.tx.jobs : JobKept(job),
           \A id \in new.tx.was : Legible(call, id, rows[id]),
           AccountKept(new), DryKept(new)
    PROVE  CallKept(new, c, rows)
  <1>1. View(new, rows) = View(call, rows)
    BY DEF View, SameFrame
  <1>2. ScopeKept(new)
    BY DEF CallKept, ScopeKept, SameFrame
  <1>. DEFINE view == View(call, rows)
  <1>. HIDE DEF view
  <1>3. TxKept(new, c, rows)
    <2>1. \A id \in DOMAIN call.tx.rows :
            LET row == call.tx.rows[id] IN
            /\ row \in RowOf(id) \union {Erased}
            /\ Follows(row, rows[id])
            /\ Present(row) => row.by = c /\ RowRefers(row, Fns[call.fn].cross, view)
      BY DEF CallKept, TxKept, view
    <2>2. new.tx.rows = call.tx.rows /\ new.fn = call.fn /\ View(new, rows) = view
      BY <1>1 DEF SameFrame, view
    <2>. QED
      BY <2>1, <2>2 DEF TxKept
  <1>4. WroteKept(new, rows)
    <2>1. \A id, row : Legible(new, id, row) <=> Legible(call, id, row)
      BY DEF Legible, SameFrame
    <2>2. \A id \in call.wrote : Legible(call, id, View(call, rows)[id])
      BY DEF CallKept, WroteKept
    <2>3. new.wrote = call.wrote
      BY DEF SameFrame
    <2>. QED
      BY <1>1, <2>1, <2>2, <2>3 DEF WroteKept
  <1>5. AtKept(new, c, rows)
    BY <1>1 DEF CallKept, AtKept, SameFrame
  <1>. QED
    BY <1>2, <1>3, <1>4, <1>5 DEF CallKept, SameFrame

LEMMA OneCompanyIs ==
    ASSUME NEW s \in Scope, NEW company \in Companies
    PROVE  OneCompany(s, company) \in Scope /\ Readable(OneCompany(s, company)) = {company}
  <1>1. /\ OneCompany(s, company) \in Scope /\ OneCompany(s, company).companies = {company}
        /\ OneCompany(s, company).company = company
    BY DEF OneCompany, Scope
  <1>. QED
    BY <1>1, ContextAssumption DEF Readable

\* A job does no more than its caller might.
LEMMA JobIs ==
    ASSUME NEW caller \in DOMAIN Fns, NEW fn \in DOMAIN Fns, NEW s \in Scope, NEW named \in Companies \union {NoOne},
           named # NoOne => Fns[caller].cross
    PROVE  LET job == JobOf(Fns[caller], s, fn, named) IN job \in CxJob /\ JobKept(job)
  <1>. DEFINE scope == IF named = NoOne THEN s ELSE OneCompany(s, named)
              limit == IF Fns[fn].cross THEN Companies ELSE Authority(Fns[caller], s)
              job == JobOf(Fns[caller], s, fn, named)
  <1>1. scope \in Scope
    BY OneCompanyIs
  <1>2. limit \subseteq Companies
    BY AuthorityIs
  <1>3. job = [fn |-> fn, scope |-> scope, limit |-> limit]
    BY DEF JobOf
  <1>4. Readable(scope) \subseteq Companies
    BY <1>1, AuthorityIs
  <1>5. ~Fns[fn].cross => Readable(scope) \subseteq limit
    BY <1>4, AuthorityIs DEF Authority
  <1>. HIDE DEF scope, limit, job
  <1>6. job \in CxJob /\ job.fn = fn /\ job.scope = scope /\ job.limit = limit
    BY <1>1, <1>2, <1>3 DEF CxJob
  <1>7. Fns[fn].cross => limit = Companies
    BY DEF limit
  <1>8. JobKept(job)
    BY <1>5, <1>6, <1>7 DEF JobKept, Authority
  <1>. QED
    BY <1>6, <1>8 DEF job

LEMMA CxEnqueueKept ==
    ASSUME CxInv, NEW c \in Numbered, NEW fn \in FnOf(c).enqueues, NEW named \in Companies \union {NoOne},
           CxEnqueue(c, fn, named)
    PROVE  CxInv'
  <1>. DEFINE call == cxCalls[c]
              job == JobOf(FnOf(c), CallScope(c), fn, named)
              w == Change(call, "enqueue", fn)
              noted == OneMore(Recorded(call, w))
              tx == [[noted.tx EXCEPT !.jobs = noted.tx.jobs \union {job}] EXCEPT !.done = noted.tx.done \union {w}]
              held == [noted EXCEPT !.tx = tx]
              sent == [noted EXCEPT !.done = noted.done \union {w}]
  <1>1. call \in CallRecord /\ CallKept(call, c, cxRows) /\ call.fn \in DOMAIN Fns /\ call.scope \in Scope
    BY CallIs
  <1>2. call.status = "running" /\ call.at = Between /\ cxRows' = cxRows
    BY DEF CxEnqueue, Acts, Running
  <1>3. fn \in DOMAIN Fns
    BY <1>1, ContextAssumption DEF FnOf
  <1>4. job \in CxJob /\ JobKept(job)
    <2>1. named # NoOne => Fns[call.fn].cross
      BY DEF CxEnqueue, FnOf
    <2>. QED
      BY <1>1, <1>3, <2>1, JobIs DEF FnOf, CallScope
  <1>5. CallKept(noted, c, cxRows) /\ w \in Report(noted)
    BY <1>1, <1>2, <1>3, NotedKept
  <1>6. w \in CxEntry
    BY <1>1, <1>3, ChangeIs
  <1>7. /\ noted \in CallRecord /\ noted.fn = call.fn /\ noted.scope = call.scope /\ noted.status = "running"
        /\ noted.tx.rows = call.tx.rows /\ noted.dry = call.dry /\ noted.tx.open = call.tx.open
        /\ noted.at = Between /\ noted.tx \in TxRecord
    BY <1>1, <1>2, <1>6, NotedIs
  <1>. HIDE DEF job, w, noted
  <1>8. /\ AccountKept(noted) /\ TxKept(noted, c, cxRows) /\ WroteKept(noted, cxRows)
    BY <1>5, <1>7 DEF CallKept
  <1>9. CASE Dry(c)
    <2>1. cxCalls' = [cxCalls EXCEPT ![c] = noted] /\ UNCHANGED <<cxRows, cxJobs>>
      BY <1>2, <1>9 DEF CxEnqueue, noted, w
    <2>. QED
      BY <1>5, <1>7, <2>1, CallMoves
  <1>10. CASE ~Dry(c) /\ InTx(c)
    <2>1. cxCalls' = [cxCalls EXCEPT ![c] = held] /\ UNCHANGED <<cxRows, cxJobs>>
      <3>1. [noted EXCEPT !.tx.jobs = @ \union {job}, !.tx.done = @ \union {w}] = held
        BY <1>7 DEF CallRecord, TxRecord
      <3>. QED
        BY <1>2, <1>10, <3>1 DEF CxEnqueue, noted, w, job
    <2>2. /\ tx \in TxRecord /\ tx.open = noted.tx.open /\ tx.rows = noted.tx.rows /\ tx.notices = noted.tx.notices
          /\ tx.writes = noted.tx.writes /\ tx.was = noted.tx.was
          /\ tx.jobs = noted.tx.jobs \union {job} /\ tx.done = noted.tx.done \union {w}
      BY <1>4, <1>6, <1>7 DEF TxRecord
    <2>. HIDE DEF tx
    <2>3. /\ held \in CallRecord /\ held.tx = tx /\ SameFrame(held, noted)
          /\ held.writes = noted.writes /\ held.done = noted.done /\ held.heard = noted.heard
          /\ held.due = noted.due /\ held.txs = noted.txs /\ held.rolled = noted.rolled
      BY <1>7, <2>2 DEF CallRecord, SameFrame
    <2>. HIDE DEF held
    <2>4. held.tx.open /\ ~held.dry /\ \A j \in held.tx.jobs : JobKept(j)
      BY <1>4, <1>7, <1>8, <1>10, <2>2, <2>3 DEF Dry, InTx, TxKept, SameFrame
    <2>5. held.at.op = "none" /\ held.wrote = noted.wrote
      BY <1>7, <2>3 DEF SameFrame, Between
    <2>6. On(noted.done \union noted.tx.done) \subseteq On(held.done \union held.tx.done)
      BY <2>2, <2>3 DEF On
    <2>7. AccountKept(held)
      <3>1. w \in noted.tx.writes
        BY <1>5, <1>7, <1>10 DEF Report, InTx
      <3>2. held.tx.done \subseteq held.tx.writes
        BY <1>8, <2>2, <2>3, <3>1 DEF AccountKept
      <3>3. NamesOf(held.wrote) \union held.tx.notices \subseteq On(held.done \union held.tx.done)
        BY <1>8, <2>2, <2>3, <2>5, <2>6 DEF AccountKept
      <3>. QED
        BY <1>8, <2>2, <2>3, <2>5, <3>2, <3>3 DEF AccountKept
    <2>8. \A id \in held.tx.was : Legible(noted, id, cxRows[id])
      BY <1>8, <2>2, <2>3 DEF WroteKept
    <2>9. CallKept(held, c, cxRows)
      BY <1>5, <1>7, <2>3, <2>4, <2>7, <2>8, FrameKept DEF DryKept
    <2>10. held.fn = call.fn /\ held.tx.rows = call.tx.rows
      BY <1>7, <2>3 DEF SameFrame
    <2>. QED
      BY <2>1, <2>3, <2>9, <2>10, CallMoves
  <1>11. CASE ~Dry(c) /\ ~InTx(c)
    <2>1. cxCalls' = [cxCalls EXCEPT ![c] = sent] /\ cxJobs' = cxJobs \union {job}
      BY <1>11 DEF CxEnqueue, noted, w, job
    <2>2. /\ sent \in CallRecord /\ sent.tx = noted.tx /\ SameFrame(sent, noted)
          /\ sent.writes = noted.writes /\ sent.done = noted.done \union {w} /\ sent.heard = noted.heard
          /\ sent.due = noted.due /\ sent.txs = noted.txs /\ sent.rolled = noted.rolled
      BY <1>6, <1>7 DEF CallRecord, SameFrame
    <2>. HIDE DEF sent
    <2>3. sent.at.op = "none" /\ sent.wrote = noted.wrote /\ ~sent.dry
      BY <1>7, <1>11, <2>2 DEF SameFrame, Between, Dry
    <2>4. /\ On(noted.done) \subseteq On(sent.done)
          /\ On(noted.done \union noted.tx.done) \subseteq On(sent.done \union sent.tx.done)
      BY <2>2 DEF On
    <2>5. AccountKept(sent)
      <3>1. w \in noted.writes
        BY <1>5, <1>7, <1>11 DEF Report, InTx
      <3>2. sent.done \subseteq sent.writes
        BY <1>8, <2>2, <3>1 DEF AccountKept
      <3>3. NamesOf(sent.wrote) \union sent.tx.notices \subseteq On(sent.done \union sent.tx.done)
        BY <1>8, <2>2, <2>3, <2>4 DEF AccountKept
      <3>4. sent.heard \union sent.due \union NamesOf(sent.tx.was) \subseteq On(sent.done)
        BY <1>8, <2>2, <2>4 DEF AccountKept
      <3>. QED
        BY <1>8, <2>2, <2>3, <3>2, <3>3, <3>4 DEF AccountKept
    <2>6. /\ \A id \in sent.tx.was : Legible(noted, id, cxRows[id])
          /\ \A j \in sent.tx.jobs : JobKept(j)
          /\ ~sent.tx.open => sent.tx = NoTx
      BY <1>8, <2>2 DEF WroteKept, TxKept
    <2>7. CallKept(sent, c, cxRows)
      BY <1>5, <1>7, <2>2, <2>3, <2>5, <2>6, FrameKept DEF DryKept
    <2>8. sent.fn = call.fn /\ sent.tx.rows = call.tx.rows
      BY <1>7, <2>2 DEF SameFrame
    <2>9. CxKept(cxRows, [cxCalls EXCEPT ![c] = sent], cxJobs)
      BY <2>2, <2>7, <2>8, CallStepKept DEF CxInv, Numbered
    <2>10. CxKept(cxRows, [cxCalls EXCEPT ![c] = sent], cxJobs \union {job})
      BY <1>4, <2>9 DEF CxKept
    <2>11. CxKept(cxRows', cxCalls', cxJobs')
      BY <1>2, <2>1, <2>10
    <2>. QED
      BY <2>11 DEF CxInv
  <1>. QED
    BY <1>9, <1>10, <1>11

LEMMA CxTxBeginKept ==
    ASSUME CxInv, NEW c \in Numbered, CxTxBegin(c)
    PROVE  CxInv'
  <1>. DEFINE call == cxCalls[c]  tx == BeginTx(call.wrote)
              new == [call EXCEPT !.tx = tx]
  <1>1. call \in CallRecord /\ CallKept(call, c, cxRows) /\ call.wrote \subseteq Ids
    BY CallIs DEF CallRecord
  <1>2. /\ call.status = "running" /\ call.at = Between /\ ~call.tx.open
        /\ cxCalls' = [cxCalls EXCEPT ![c] = new] /\ UNCHANGED <<cxRows, cxJobs>>
    BY DEF CxTxBegin, Acts, Running, InTx
  <1>3. call.tx = NoTx /\ AccountKept(call) /\ WroteKept(call, cxRows) /\ DryKept(call)
    BY <1>1, <1>2 DEF CallKept, TxKept
  <1>4. /\ tx \in TxRecord /\ tx.open = TRUE /\ tx.rows = NoRows /\ tx.jobs = {}
        /\ tx.notices = {} /\ tx.done = {} /\ tx.writes = {} /\ tx.was = call.wrote
    BY <1>1, TxIs, BeginTxIs
  <1>. HIDE DEF tx
  <1>5. /\ new \in CallRecord /\ new.tx = tx /\ SameFrame(new, call)
        /\ new.writes = call.writes /\ new.done = call.done /\ new.heard = call.heard
        /\ new.due = call.due /\ new.txs = call.txs /\ new.rolled = call.rolled
    BY <1>1, <1>3, <1>4, NoTxIs DEF CallRecord, SameFrame
  <1>. HIDE DEF new
  <1>6. new.at.op = "none" /\ new.wrote = call.wrote
    BY <1>2, <1>5 DEF SameFrame, Between
  <1>7. NamesOf(call.wrote) \subseteq On(call.done)
    <2>1. call.done \union call.tx.done = call.done
      BY <1>3, NoTxIs
    <2>. QED
      BY <1>3, <2>1 DEF AccountKept
  <1>8. AccountKept(new)
    <2>1. new.done \union new.tx.done = call.done
      BY <1>4, <1>5
    <2>2. NamesOf(new.wrote) \union new.tx.notices \subseteq On(new.done \union new.tx.done)
      BY <1>4, <1>5, <1>6, <1>7, <2>1
    <2>3. new.heard \union new.due \union NamesOf(new.tx.was) \subseteq On(new.done)
      BY <1>3, <1>4, <1>5, <1>7 DEF AccountKept
    <2>. QED
      BY <1>3, <1>4, <1>5, <1>6, <2>2, <2>3 DEF AccountKept
  <1>9. DryKept(new)
    BY <1>3, <1>4, <1>5 DEF DryKept, SameFrame
  <1>10. \A id \in Ids : View(call, cxRows)[id] = cxRows[id]
    BY <1>3, NoTxIs, NoRowsIs DEF View
  <1>11. \A id \in new.tx.was : Legible(call, id, cxRows[id])
    BY <1>1, <1>3, <1>4, <1>5, <1>10 DEF WroteKept
  <1>12. CallKept(new, c, cxRows)
    BY <1>1, <1>2, <1>4, <1>5, <1>8, <1>9, <1>11, FrameKept
  <1>13. new.fn = call.fn /\ new.tx.rows = call.tx.rows
    BY <1>5 DEF SameFrame
  <1>. QED
    BY <1>2, <1>5, <1>12, <1>13, CallMoves

LEMMA CxDeliverKept ==
    ASSUME CxInv, NEW c \in Numbered, CxDeliver(c)
    PROVE  CxInv'
  <1>. DEFINE call == cxCalls[c]
              new == [[call EXCEPT !.heard = call.heard \union call.due] EXCEPT !.due = {}]
  <1>1. call \in CallRecord /\ CallKept(call, c, cxRows)
    BY CallIs
  <1>2. call.status = "running" /\ UNCHANGED <<cxRows, cxJobs>> /\ cxCalls' = [cxCalls EXCEPT ![c] = new]
    BY DEF CxDeliver, Running
  <1>3. AccountKept(call) /\ DryKept(call) /\ WroteKept(call, cxRows) /\ TxKept(call, c, cxRows)
    BY <1>1, <1>2 DEF CallKept
  <1>4. /\ new \in CallRecord /\ new.tx = call.tx /\ SameFrame(new, call)
        /\ new.writes = call.writes /\ new.done = call.done /\ new.heard = call.heard \union call.due
        /\ new.due = {} /\ new.txs = call.txs /\ new.rolled = call.rolled
    BY <1>1 DEF CallRecord, SameFrame
  <1>. HIDE DEF new
  <1>5. new.at = call.at /\ new.wrote = call.wrote /\ new.dry = call.dry
    BY <1>4 DEF SameFrame
  <1>6. Change(new, call.at.op, call.at.id) = Change(call, call.at.op, call.at.id)
    BY <1>4 DEF Change
  <1>7. AccountKept(new)
    BY <1>3, <1>4, <1>5, <1>6 DEF AccountKept
  <1>8. DryKept(new)
    BY <1>3, <1>4, <1>5 DEF DryKept
  <1>9. CallKept(new, c, cxRows)
    BY <1>1, <1>2, <1>3, <1>4, <1>7, <1>8, FrameKept DEF TxKept, WroteKept
  <1>10. new.fn = call.fn /\ new.tx.rows = call.tx.rows
    BY <1>4 DEF SameFrame
  <1>. QED
    BY <1>2, <1>4, <1>9, <1>10, CallMoves

LEMMA CxNotifyKept ==
    ASSUME CxInv, NEW c \in Numbered, NEW id \in cxCalls[c].wrote, CxNotify(c, id)
    PROVE  CxInv'
  <1>. DEFINE call == cxCalls[c]  more == OneMore(call)
              tx == [more.tx EXCEPT !.notices = more.tx.notices \union {NameOf[id]}]
              held == [more EXCEPT !.tx = tx]
              told == [more EXCEPT !.heard = more.heard \union {NameOf[id]}]
  <1>1. call \in CallRecord /\ CallKept(call, c, cxRows) /\ id \in Ids /\ NameOf[id] \in Ids
    BY CallIs, ContextAssumption DEF CallRecord
  <1>2. call.status = "running" /\ call.at = Between /\ UNCHANGED <<cxRows, cxJobs>>
    BY DEF CxNotify, Acts, Running
  <1>3. more \in CallRecord /\ SameButWrote(more, call) /\ more.wrote = call.wrote /\ more.touched = call.touched
    BY <1>1, OneMoreIs
  <1>4. call.touched \subseteq Authority(Fns[call.fn], call.scope)
    BY <1>1, <1>2 DEF CallKept, ScopeKept
  <1>5. CallKept(more, c, cxRows)
    BY <1>1, <1>2, <1>3, <1>4, SameKept
  <1>6. /\ more.status = "running" /\ more.at = Between /\ more.fn = call.fn /\ more.dry = call.dry
        /\ more.tx = call.tx /\ more.tx \in TxRecord
    BY <1>1, <1>2, <1>3, TxRowsAre DEF SameButWrote
  <1>7. /\ AccountKept(more) /\ TxKept(more, c, cxRows) /\ WroteKept(more, cxRows) /\ DryKept(more)
    BY <1>5, <1>6 DEF CallKept
  <1>8. cxCalls' = [cxCalls EXCEPT ![c] =
           IF Dry(c) THEN more
           ELSE IF InTx(c) THEN [more EXCEPT !.tx.notices = @ \union {NameOf[id]}] ELSE told]
    BY DEF CxNotify
  <1>. HIDE DEF more
  <1>9. CASE Dry(c)
    BY <1>2, <1>3, <1>5, <1>6, <1>8, <1>9, CallMoves
  <1>10. NameOf[id] \in On(more.done \union more.tx.done)
    BY <1>3, <1>7 DEF AccountKept, NamesOf
  <1>11. CASE ~Dry(c) /\ InTx(c)
    <2>1. cxCalls' = [cxCalls EXCEPT ![c] = held]
      BY <1>8, <1>11
    <2>2. /\ tx \in TxRecord /\ tx.open = more.tx.open /\ tx.rows = more.tx.rows
          /\ tx.notices = more.tx.notices \union {NameOf[id]} /\ tx.jobs = more.tx.jobs /\ tx.done = more.tx.done
          /\ tx.writes = more.tx.writes /\ tx.was = more.tx.was
      BY <1>1, <1>6 DEF TxRecord
    <2>. HIDE DEF tx
    <2>3. /\ held \in CallRecord /\ held.tx = tx /\ SameFrame(held, more)
          /\ held.writes = more.writes /\ held.done = more.done /\ held.heard = more.heard
          /\ held.due = more.due /\ held.txs = more.txs /\ held.rolled = more.rolled
      BY <1>3, <2>2 DEF CallRecord, SameFrame
    <2>. HIDE DEF held
    <2>4. held.at.op = "none" /\ held.wrote = more.wrote /\ ~held.dry /\ held.tx.open
      <3>1. held.at.op = "none" /\ held.wrote = more.wrote
        BY <1>6, <2>3 DEF SameFrame, Between
      <3>2. held.dry = call.dry /\ held.tx.open = call.tx.open
        BY <1>6, <2>2, <2>3 DEF SameFrame
      <3>. QED
        BY <1>11, <3>1, <3>2 DEF Dry, InTx
    <2>5. AccountKept(held)
      <3>1. NamesOf(held.wrote) \union held.tx.notices \subseteq On(held.done \union held.tx.done)
        BY <1>7, <1>10, <2>2, <2>3, <2>4 DEF AccountKept
      <3>. QED
        BY <1>7, <2>2, <2>3, <2>4, <3>1 DEF AccountKept
    <2>6. CallKept(held, c, cxRows)
      BY <1>5, <1>6, <1>7, <2>2, <2>3, <2>4, <2>5, FrameKept DEF DryKept, TxKept, WroteKept
    <2>7. held.fn = call.fn /\ held.tx.rows = call.tx.rows
      BY <1>6, <2>2, <2>3 DEF SameFrame
    <2>. QED
      BY <1>2, <2>1, <2>3, <2>6, <2>7, CallMoves
  <1>12. CASE ~Dry(c) /\ ~InTx(c)
    <2>1. cxCalls' = [cxCalls EXCEPT ![c] = told]
      BY <1>8, <1>12
    <2>2. /\ told \in CallRecord /\ told.tx = more.tx /\ SameFrame(told, more)
          /\ told.writes = more.writes /\ told.done = more.done /\ told.heard = more.heard \union {NameOf[id]}
          /\ told.due = more.due /\ told.txs = more.txs /\ told.rolled = more.rolled
      BY <1>1, <1>3 DEF CallRecord, SameFrame
    <2>. HIDE DEF told
    <2>3. told.at.op = "none" /\ told.wrote = more.wrote /\ ~told.dry
      BY <1>6, <1>12, <2>2 DEF SameFrame, Between, Dry
    <2>4. NameOf[id] \in On(told.done)
      <3>1. more.done \union more.tx.done = more.done
        BY <1>6, <1>7, <1>12, NoTxIs DEF InTx, TxKept
      <3>. QED
        BY <1>10, <2>2, <3>1
    <2>5. AccountKept(told)
      <3>1. told.heard \union told.due \union NamesOf(told.tx.was) \subseteq On(told.done)
        BY <1>7, <2>2, <2>4 DEF AccountKept
      <3>. QED
        BY <1>7, <2>2, <2>3, <3>1 DEF AccountKept
    <2>6. CallKept(told, c, cxRows)
      BY <1>5, <1>6, <1>7, <2>2, <2>3, <2>5, FrameKept DEF DryKept, TxKept, WroteKept
    <2>7. told.fn = call.fn /\ told.tx.rows = call.tx.rows
      BY <1>6, <2>2 DEF SameFrame
    <2>. QED
      BY <1>2, <2>1, <2>2, <2>6, <2>7, CallMoves
  <1>. QED
    BY <1>9, <1>11, <1>12

LEMMA CallRecordIs ==
    ASSUME NEW fn \in DOMAIN Fns, NEW scope \in Scope, NEW dry \in BOOLEAN, NEW limit \in SUBSET Companies
    PROVE  /\ Call(fn, scope, dry, limit) \in CallRecord
           /\ Call(fn, scope, dry, limit).tx \in {NoTx, BeginTx({})}
           /\ Call(fn, scope, dry, limit).fn = fn
  <1>1. NoTx \in TxRecord /\ BeginTx({}) \in TxRecord
    BY TxIs
  <1>. QED
    BY <1>1 DEF Call, CallRecord, Statement

LEMMA EndedIs ==
    ASSUME NEW fn \in DOMAIN Fns
    PROVE  Ended(fn) \in CallRecord /\ Ended(fn).fn = fn /\ Ended(fn).tx = NoTx
  <1>1. GlobalScope \in Scope
    BY DEF GlobalScope, Scope
  <1>2. Call(fn, GlobalScope, FALSE, {}) \in CallRecord /\ Call(fn, GlobalScope, FALSE, {}).fn = fn
    BY <1>1, CallRecordIs
  <1>3. NoTx \in TxRecord
    BY TxIs
  <1>. QED
    BY <1>2, <1>3 DEF Ended, CallRecord

LEMMA EndingKept ==
    ASSUME CxInv, NEW c \in Numbered, cxCalls' = [cxCalls EXCEPT ![c] = Ended(cxCalls[c].fn)],
           UNCHANGED <<cxRows, cxJobs>>
    PROVE  CxInv'
  <1>. DEFINE new == Ended(cxCalls[c].fn)
  <1>1. cxCalls[c].fn \in DOMAIN Fns
    BY CallIs
  <1>2. new \in CallRecord /\ new.fn = cxCalls[c].fn /\ DOMAIN new.tx.rows = {}
    BY <1>1, EndedIs, NoTxIs, NoRowsIs
  <1>3. CallKept(new, c, cxRows)
    BY <1>2, EndedKept
  <1>. HIDE DEF new
  <1>4. cxCalls' = [cxCalls EXCEPT ![c] = new]
    BY DEF new
  <1>. QED
    BY <1>2, <1>3, <1>4, CallMoves

LEMMA CxEndsKept ==
    ASSUME CxInv, NEW c \in Numbered, CxEnds(c)
    PROVE  CxInv'
  BY EndingKept DEF CxEnds

LEMMA CxRollbackKept ==
    ASSUME CxInv, NEW c \in Numbered, CxRollback(c)
    PROVE  CxInv'
  <1>. DEFINE call == cxCalls[c]  was == call.tx.was  txs == call.txs + 1
              rolled == call.rolled \union {call.txs}
              new == [call EXCEPT !.tx = NoTx, !.wrote = was, !.txs = txs, !.rolled = rolled]
  <1>1. call \in CallRecord /\ CallKept(call, c, cxRows) /\ call.tx \in TxRecord
    BY CallIs, TxRowsAre
  <1>2. call.status = "running" /\ call.at = Between /\ UNCHANGED <<cxRows, cxJobs>>
    BY DEF CxRollback, Running
  <1>3. cxCalls' = [cxCalls EXCEPT ![c] = IF FnOf(c).transactional THEN Ended(call.fn) ELSE new]
    BY DEF CxRollback
  <1>4. CASE FnOf(c).transactional
    BY <1>2, <1>3, <1>4, EndingKept
  <1>5. CASE ~FnOf(c).transactional
    <2>1. AccountKept(call) /\ DryKept(call) /\ WroteKept(call, cxRows) /\ ScopeKept(call)
      BY <1>1, <1>2 DEF CallKept
    <2>2. NoTx \in TxRecord /\ was \subseteq Ids /\ txs \in Nat \ {0} /\ rolled \subseteq Nat
      BY <1>1, TxIs DEF TxRecord, CallRecord
    <2>2a. [call EXCEPT !.tx = NoTx, !.wrote = was] \in CallRecord
      <3>. HIDE DEF was, call
      <3>. QED
        BY <1>1, <2>2 DEF CallRecord
    <2>2b. new \in CallRecord
      <3>. DEFINE mid == [call EXCEPT !.tx = NoTx, !.wrote = was]
      <3>1. mid \in CallRecord
        BY <2>2a
      <3>2. new = [mid EXCEPT !.txs = txs, !.rolled = rolled]
        OBVIOUS
      <3>. HIDE DEF mid, txs, rolled, new
      <3>. QED
        BY <2>2, <3>1, <3>2 DEF CallRecord
    <2>3. /\ new \in CallRecord /\ new.tx = NoTx /\ new.wrote = call.tx.was /\ new.txs = call.txs + 1
          /\ new.rolled = call.rolled \union {call.txs} /\ new.fn = call.fn /\ new.scope = call.scope
          /\ new.dry = call.dry /\ new.limit = call.limit /\ new.status = call.status /\ new.at = call.at
          /\ new.touched = call.touched /\ new.writes = call.writes /\ new.done = call.done
          /\ new.heard = call.heard /\ new.due = call.due
      BY <1>1, <2>2b DEF CallRecord
    <2>. HIDE DEF new
    <2>4. new.at.op = "none" /\ call.txs \in Nat /\ call.txs > 0 /\ \A w \in call.writes : w.tx \in Nat
      BY <1>1, <1>2, <2>3 DEF Between, CallRecord, CxEntry
    <2>5. ScopeKept(new)
      BY <2>1, <2>3 DEF ScopeKept
    <2>6. TxKept(new, c, cxRows)
      BY <2>3, NoTxIs, NoRowsIs DEF TxKept
    <2>7. WroteKept(new, cxRows)
      <3>1. \A id \in call.tx.was : id \in Ids /\ Legible(call, id, cxRows[id])
        BY <2>1, <2>2 DEF WroteKept
      <3>2. \A id \in Ids : View(new, cxRows)[id] = cxRows[id]
        BY <2>3, NoTxIs, NoRowsIs DEF View
      <3>3. \A id, row : Legible(new, id, row) <=> Legible(call, id, row)
        BY <2>3 DEF Legible
      <3>. QED
        BY <2>3, <3>1, <3>2, <3>3, NoTxIs DEF WroteKept
    <2>8. AtKept(new, c, cxRows)
      BY <2>4 DEF AtKept
    <2>9. AccountKept(new)
      <3>1. new.done \union new.tx.done = call.done
        BY <2>3, NoTxIs
      <3>2. NamesOf(call.tx.was) \subseteq On(call.done)
        BY <2>1 DEF AccountKept
      <3>3. NamesOf(new.wrote) \union new.tx.notices \subseteq On(new.done \union new.tx.done)
        BY <2>3, <3>1, <3>2, NoTxIs
      <3>4. \A w \in new.writes : w.tx < new.txs /\ w.tx \notin new.rolled
        BY <2>1, <2>3, <2>4 DEF AccountKept
      <3>5. \A n \in new.rolled : n \in 1 .. new.txs - 1
        BY <2>1, <2>3, <2>4 DEF AccountKept
      <3>6. new.heard \union new.due \union NamesOf(new.tx.was) \subseteq On(new.done)
        BY NoNames, <2>1, <2>3, NoTxIs DEF AccountKept
      <3>. QED
        BY <2>1, <2>3, <2>4, <3>3, <3>4, <3>5, <3>6, NoTxIs DEF AccountKept
    <2>10. DryKept(new)
      <3>1. call.dry => call.tx.was = {}
        BY <2>1 DEF DryKept, AccountKept, On, NamesOf
      <3>. QED
        BY <2>1, <2>3, <3>1, NoTxIs DEF DryKept
    <2>11. CallKept(new, c, cxRows)
      BY <1>2, <2>3, <2>5, <2>6, <2>7, <2>8, <2>9, <2>10 DEF CallKept
    <2>12. cxCalls' = [cxCalls EXCEPT ![c] = new]
      BY <1>3, <1>5
    <2>13. DOMAIN new.tx.rows = {}
      BY <2>3, NoTxIs, NoRowsIs
    <2>. QED
      BY <1>2, <2>3, <2>11, <2>12, <2>13, CallMoves
  <1>. QED
    BY <1>4, <1>5

LEMMA CxCommitKept ==
    ASSUME CxInv, NEW c \in Numbered, CxCommit(c)
    PROVE  CxInv'
  <1>. DEFINE call == cxCalls[c]  view == View(call, cxRows)
              ops == IF FnOf(c).transactional THEN MaxOps[call.fn] ELSE call.ops
              txs == call.txs + 1  due == call.tx.notices
              writes == call.writes \union call.tx.writes  done == call.done \union call.tx.done
              mid == [call EXCEPT !.tx = NoTx, !.txs = txs, !.writes = writes]
              new == [mid EXCEPT !.done = done, !.due = due, !.ops = ops]
  <1>1. /\ call \in CallRecord /\ CallKept(call, c, cxRows) /\ call.tx \in TxRecord /\ call.fn \in DOMAIN Fns
        /\ \A id \in Ids : cxRows[id] \in Cell(id)
    BY CallIs, TxRowsAre
  <1>2. call.status = "running" /\ call.at = Between /\ call.tx.open
    BY DEF CxCommit, Running, InTx
  <1>3. cxCalls' = [cxCalls EXCEPT ![c] = new] /\ cxJobs' = cxJobs \union call.tx.jobs
    BY DEF CxCommit
  <1>4. cxRows' = view
    BY DEF CxCommit, Seen, SeenAs, View
  <1>5. AccountKept(call) /\ DryKept(call) /\ WroteKept(call, cxRows) /\ ScopeKept(call) /\ TxKept(call, c, cxRows)
    BY <1>1, <1>2 DEF CallKept
  <1>6. /\ ops \in Nat /\ txs \in Nat \ {0} /\ due \subseteq Ids /\ writes \subseteq CxEntry
        /\ done \subseteq CxEntry
    BY <1>1, ContextAssumption DEF CallRecord, TxRecord
  <1>7. NoTx \in TxRecord
    BY TxIs
  <1>. HIDE DEF ops
  <1>7a. mid \in CallRecord
    <2>. HIDE DEF call, txs, writes
    <2>. QED
      BY <1>1, <1>6, <1>7 DEF CallRecord
  <1>7b. new \in CallRecord
    <2>. HIDE DEF call, mid, done, due
    <2>. QED
      BY <1>6, <1>7a DEF CallRecord
  <1>8. /\ new \in CallRecord /\ new.tx = NoTx /\ new.wrote = call.wrote /\ new.txs = call.txs + 1
        /\ new.rolled = call.rolled /\ new.fn = call.fn /\ new.scope = call.scope
        /\ new.dry = call.dry /\ new.limit = call.limit /\ new.status = call.status /\ new.at = call.at
        /\ new.touched = call.touched /\ new.writes = call.writes \union call.tx.writes
        /\ new.done = call.done \union call.tx.done /\ new.heard = call.heard /\ new.due = call.tx.notices
    BY <1>1, <1>7b DEF CallRecord
  <1>. HIDE DEF new
  <1>9. /\ new.at.op = "none" /\ call.txs \in Nat /\ call.txs > 0
        /\ \A w \in call.writes \union call.tx.writes : w.tx \in Nat
    BY <1>1, <1>2, <1>8 DEF Between, CallRecord, TxRecord, CxEntry
  <1>10. \A id \in Ids : view[id] \in Cell(id) /\ Follows(view[id], cxRows[id])
    BY <1>1, <1>5, ViewCells
  <1>11. /\ view \in Table
         /\ \A id \in Ids : view[id] = IF id \in DOMAIN call.tx.rows THEN call.tx.rows[id] ELSE cxRows[id]
    <2>1. \A id \in Ids : view[id] \in CxRow \union {NoOne, Erased}
      BY <1>10, CellIs
    <2>. QED
      BY <2>1 DEF View, Table
  <1>. HIDE DEF view
  <1>12. ScopeKept(new)
    BY <1>5, <1>8 DEF ScopeKept
  <1>13. TxKept(new, c, view)
    BY <1>8, NoTxIs, NoRowsIs DEF TxKept
  <1>14. WroteKept(new, view)
    <2>1. \A id \in call.wrote : id \in Ids /\ Legible(call, id, view[id])
      BY <1>1, <1>5 DEF WroteKept, CallRecord, view
    <2>2. \A id \in Ids : View(new, view)[id] = view[id]
      BY <1>8, NoTxIs, NoRowsIs DEF View
    <2>3. \A id, row : Legible(new, id, row) <=> Legible(call, id, row)
      BY <1>8 DEF Legible
    <2>. QED
      BY <1>8, <2>1, <2>2, <2>3, NoTxIs DEF WroteKept
  <1>15. AtKept(new, c, view)
    BY <1>9 DEF AtKept
  <1>16. AccountKept(new)
    <2>1. new.done \union new.tx.done = call.done \union call.tx.done
      BY <1>8, NoTxIs
    <2>2. NamesOf(new.wrote) \union new.tx.notices \subseteq On(new.done \union new.tx.done)
      BY <1>5, <1>8, <2>1, NoTxIs DEF AccountKept
    <2>3. On(call.done) \subseteq On(new.done)
      BY <1>8 DEF On
    <2>4. new.heard \union new.due \union NamesOf(new.tx.was) \subseteq On(new.done)
      BY NoNames, <1>5, <1>8, <2>3, NoTxIs DEF AccountKept
    <2>5. \A w \in new.writes : w.tx < new.txs /\ w.tx \notin new.rolled
      BY <1>5, <1>8, <1>9 DEF AccountKept
    <2>6. \A n \in new.rolled : n \in 1 .. new.txs - 1
      BY <1>5, <1>8, <1>9 DEF AccountKept
    <2>7. new.done \subseteq new.writes /\ new.tx.done \subseteq new.tx.writes
      BY <1>5, <1>8, NoTxIs DEF AccountKept
    <2>. QED
      BY <1>8, <1>9, <2>2, <2>4, <2>5, <2>6, <2>7, NoTxIs DEF AccountKept
  <1>17. DryKept(new)
    BY <1>5, <1>8, NoTxIs DEF DryKept
  <1>18. CallKept(new, c, view)
    BY <1>2, <1>8, <1>12, <1>13, <1>14, <1>15, <1>16, <1>17 DEF CallKept
  <1>19. c \in DOMAIN cxCalls /\ CxKept(cxRows, cxCalls, cxJobs)
    BY DEF Numbered, CxInv
  <1>. DEFINE jobs == cxJobs \union call.tx.jobs
  <1>20. StepOf(c, new, cxRows, cxJobs, view, jobs, cxCalls)
    <2>1. \A d \in DOMAIN cxCalls : d # c => DOMAIN call.tx.rows \intersect DOMAIN cxCalls[d].tx.rows = {}
      BY <1>19 DEF CxKept, Apart
    <2>2. \A d \in DOMAIN cxCalls : DOMAIN cxCalls[d].tx.rows \subseteq Ids
      BY CallIs, TxRowsAre DEF Numbered
    <2>3. \A d \in DOMAIN cxCalls : d # c => \A id \in DOMAIN cxCalls[d].tx.rows : view[id] = cxRows[id]
      BY <1>11, <2>1, <2>2
    <2>4. DOMAIN new.tx.rows = {}
      BY <1>8, NoTxIs, NoRowsIs
    <2>5. ASSUME NEW id \in DOMAIN call.tx.rows, Present(call.tx.rows[id])
          PROVE  call.tx.rows[id].by = c /\ RowRefers(call.tx.rows[id], Fns[new.fn].cross, view)
      BY <1>5, <1>8, <2>5 DEF TxKept, view
    <2>6. \A id \in Ids : Present(view[id]) /\ view[id].ref # NoOne =>
            \/ view[id] = cxRows[id]
            \/ view[id].by = c /\ RowRefers(view[id], Fns[new.fn].cross, view)
      BY <1>11, <2>5
    <2>7. jobs \subseteq CxJob /\ \A job \in jobs : job \in cxJobs \/ JobKept(job)
      BY <1>1, <1>5, <1>19 DEF CxKept, TxKept, TxRecord
    <2>8. Follow(view, cxRows)
      BY <1>10 DEF Follow, view
    <2>9. \A id \in Ids : view[id] \in Cell(id)
      BY <1>10 DEF view
    <2>10. new \in CallRecord /\ new.fn = cxCalls[c].fn
      BY <1>8
    <2>. HIDE DEF jobs
    <2>. QED
      BY <1>11, <2>3, <2>4, <2>6, <2>7, <2>8, <2>9, <2>10 DEF StepOf
  <1>21. CxKept(view, [cxCalls EXCEPT ![c] = new], jobs)
    BY <1>18, <1>19, <1>20, StepKept
  <1>22. CxKept(cxRows', cxCalls', cxJobs')
    BY <1>3, <1>4, <1>21 DEF view, new
  <1>. QED
    BY <1>22 DEF CxInv

-----------------------------------------------------------------------------
(* Calls that begin.                                                       *)

LEMMA StartKept ==
    ASSUME NEW fn \in DOMAIN Fns, NEW scope \in Scope, Coherent(scope), NEW dry \in BOOLEAN,
           NEW limit \in SUBSET Companies, Authority(Fns[fn], scope) \subseteq limit, NEW c, NEW rows
    PROVE  LET new == Call(fn, scope, dry, limit) IN
           new \in CallRecord /\ CallKept(new, c, rows) /\ DOMAIN new.tx.rows = {}
  <1>. DEFINE new == Call(fn, scope, dry, limit)
  <1>1. new \in CallRecord /\ new.tx \in {NoTx, BeginTx({})}
    BY CallRecordIs
  <1>2. /\ new.fn = fn /\ new.scope = scope /\ new.dry = dry /\ new.limit = limit /\ new.status = "running"
        /\ new.at = Between /\ new.writes = {} /\ new.done = {} /\ new.heard = {} /\ new.wrote = {}
        /\ new.touched = {} /\ new.due = {} /\ new.txs = 1 /\ new.rolled = {}
    BY DEF Call
  <1>. HIDE DEF new
  <1>3. /\ new.tx.rows = NoRows /\ new.tx.jobs = {} /\ new.tx.notices = {} /\ new.tx.done = {}
        /\ new.tx.writes = {} /\ new.tx.was = {} /\ (~new.tx.open => new.tx = NoTx)
    <2>1. CASE new.tx = NoTx
      BY <2>1, NoTxIs
    <2>2. CASE new.tx = BeginTx({})
      <3>1. {} \in SUBSET Ids
        OBVIOUS
      <3>2. /\ BeginTx({}).open = TRUE /\ BeginTx({}).rows = NoRows /\ BeginTx({}).jobs = {}
            /\ BeginTx({}).notices = {} /\ BeginTx({}).done = {} /\ BeginTx({}).writes = {} /\ BeginTx({}).was = {}
        BY <3>1, BeginTxIs
      <3>. QED
        BY <2>2, <3>2
    <2>. QED
      BY <1>1, <2>1, <2>2
  <1>4. new.at.op = "none"
    BY <1>2 DEF Between
  <1>5. ScopeKept(new)
    BY <1>2 DEF ScopeKept
  <1>6. TxKept(new, c, rows)
    BY <1>3, NoRowsIs DEF TxKept
  <1>7. WroteKept(new, rows) /\ AtKept(new, c, rows) /\ DryKept(new)
    BY <1>2, <1>3, <1>4 DEF WroteKept, AtKept, DryKept
  <1>8. AccountKept(new)
    BY NoNames, <1>2, <1>3, <1>4 DEF AccountKept
  <1>. QED
    BY <1>1, <1>2, <1>3, <1>5, <1>6, <1>7, <1>8, NoRowsIs DEF CallKept, new

LEMMA AppendKept ==
    ASSUME NEW calls, NEW rows, NEW jobs, CxKept(rows, calls, jobs),
           NEW new \in CallRecord, CallKept(new, Len(calls) + 1, rows), DOMAIN new.tx.rows = {},
           NEW jobs2 \in SUBSET jobs
    PROVE  CxKept(rows, Append(calls, new), jobs2)
  <1>. DEFINE l == Len(calls) + 1  calls2 == Append(calls, new)
  <1>1. calls \in Seq(CallRecord)
    BY DEF CxKept
  <1>2. /\ calls2 \in Seq(CallRecord) /\ DOMAIN calls2 = DOMAIN calls \union {l} /\ l \notin DOMAIN calls
        /\ calls2[l] = new /\ \A d \in DOMAIN calls : calls2[d] = calls[d]
    <2>1. Len(calls) \in Nat /\ DOMAIN calls = 1 .. Len(calls)
      BY <1>1
    <2>2. calls2 \in Seq(CallRecord) /\ Len(calls2) = l
      BY <1>1
    <2>3. DOMAIN calls2 = 1 .. l
      BY <2>2
    <2>4. calls2[l] = new /\ \A d \in 1 .. Len(calls) : calls2[d] = calls[d]
      BY <1>1
    <2>. QED
      BY <2>1, <2>2, <2>3, <2>4
  <1>. HIDE DEF calls2, l
  <1>3. TableKept(rows, calls2)
    <2>1. TableKept(rows, calls) /\ rows \in Table /\ \A id \in Ids : rows[id] \in Cell(id)
      BY DEF CxKept, TableKept, Table
    <2>2. Follow(rows, rows)
      BY FollowsItself DEF Follow
    <2>3. \A d \in DOMAIN calls : d \in DOMAIN calls2 /\ calls2[d].fn = calls[d].fn
      BY <1>2
    <2>. QED
      BY <2>1, <2>2, <2>3, TableGoesOn
  <1>4. \A d \in DOMAIN calls2 : CallKept(calls2[d], d, rows)
    BY <1>2 DEF CxKept, l
  <1>5. Apart(calls2)
    BY <1>2 DEF CxKept, Apart
  <1>. QED
    BY <1>2, <1>3, <1>4, <1>5 DEF CxKept, calls2

LEMMA CxCallKept ==
    ASSUME CxInv, NEW request \in Requests, CxCall(request)
    PROVE  CxInv'
  <1>. DEFINE scope == IF ScopesByCompany THEN request.scope ELSE GlobalScope
              limit == Authority(Fns[request.fn], scope)
              new == Call(request.fn, scope, request.dry, limit)
  <1>1. GlobalScope \in Scope
    BY DEF GlobalScope, Scope
  <1>2. request.fn \in DOMAIN Fns /\ request.dry \in BOOLEAN /\ scope \in Scope
    BY <1>1, ContextAssumption
  <1>3. /\ Coherent(scope) /\ cxCalls' = Append(cxCalls, new)
        /\ UNCHANGED <<cxRows, cxJobs>>
    BY DEF CxCall
  <1>. HIDE DEF scope
  <1>4. limit \subseteq Companies
    BY <1>2, AuthorityIs
  <1>5. new \in CallRecord /\ CallKept(new, Len(cxCalls) + 1, cxRows) /\ DOMAIN new.tx.rows = {}
    BY <1>2, <1>3, <1>4, StartKept
  <1>. HIDE DEF new
  <1>6. CxKept(cxRows, Append(cxCalls, new), cxJobs)
    BY <1>5, AppendKept DEF CxInv
  <1>7. CxKept(cxRows', cxCalls', cxJobs')
    BY <1>3, <1>6
  <1>. QED
    BY <1>7 DEF CxInv

LEMMA CxRunJobKept ==
    ASSUME CxInv, NEW job \in cxJobs, CxRunJob(job)
    PROVE  CxInv'
  <1>. DEFINE new == Call(job.fn, job.scope, FALSE, job.limit)  jobs == cxJobs \ {job}
  <1>1. job \in CxJob /\ JobKept(job)
    BY DEF CxInv, CxKept
  <1>2. Coherent(job.scope) /\ cxCalls' = Append(cxCalls, new) /\ cxJobs' = jobs /\ cxRows' = cxRows
    BY DEF CxRunJob
  <1>3. new \in CallRecord /\ CallKept(new, Len(cxCalls) + 1, cxRows) /\ DOMAIN new.tx.rows = {}
    BY <1>1, <1>2, StartKept DEF JobKept, CxJob
  <1>. HIDE DEF new
  <1>4. CxKept(cxRows, Append(cxCalls, new), jobs)
    BY <1>3, AppendKept DEF CxInv
  <1>5. CxKept(cxRows', cxCalls', cxJobs')
    BY <1>2, <1>4
  <1>. QED
    BY <1>5 DEF CxInv

-----------------------------------------------------------------------------
(* The invariant.                                                          *)

LEMMA CxInitKept ==
    ASSUME CxInit
    PROVE  CxInv
  <1>1. PICK there \in SUBSET DOMAIN KeptRows : cxRows = [id \in Ids |-> IF id \in there THEN KeptRows[id] ELSE NoOne]
    BY DEF CxInit
  <1>2. cxCalls = <<>> /\ cxJobs = {}
    BY DEF CxInit
  <1>3. \A id \in Ids : id \in there => KeptRows[id] \in RowOf(id) /\ KeptRows[id].ref = NoOne
    BY ContextAssumption
  <1>4. \A id \in Ids : cxRows[id] \in Cell(id) /\ (Present(cxRows[id]) => cxRows[id].ref = NoOne)
    BY <1>1, <1>3 DEF Cell, Present
  <1>5. cxRows \in [Ids -> CxRow \union {NoOne, Erased}]
    <2>1. \A id \in Ids : cxRows[id] \in CxRow \union {NoOne, Erased}
      BY <1>4, CellIs
    <2>. QED
      BY <1>1, <2>1
  <1>6. TableKept(cxRows, cxCalls)
    BY <1>4, <1>5 DEF TableKept
  <1>7. cxCalls \in Seq(CallRecord) /\ DOMAIN cxCalls = {}
    BY <1>2
  <1>. QED
    BY <1>2, <1>6, <1>7 DEF CxInv, CxKept, Apart

LEMMA CxOperatesKept ==
    ASSUME CxInv, NEW c \in Numbered, CxOperates(c)
    PROVE  CxInv'
  <1>1. ASSUME NEW m \in DOMAIN ModelDefs, CxRead(c, m) PROVE CxInv'
    BY <1>1, CxReadKept
  <1>2. ASSUME NEW id \in Names, NEW ref \in Refs(id), CxInsert(c, id, ref) PROVE CxInv'
    BY <1>2, CxInsertKept
  <1>3. ASSUME NEW id \in Names, NEW ref \in Refs(id), CxUpdate(c, id, ref) PROVE CxInv'
    BY <1>3, CxUpdateKept
  <1>4. ASSUME NEW ids \in (SUBSET Ids) \ {{}}, CxDelete(c, ids) PROVE CxInv'
    BY <1>4, CxDeleteKept
  <1>5. ASSUME NEW fn \in FnOf(c).enqueues, NEW named \in Companies \union {NoOne}, CxEnqueue(c, fn, named) PROVE CxInv'
    BY <1>5, CxEnqueueKept
  <1>6. ASSUME CxTxBegin(c) PROVE CxInv'
    BY <1>6, CxTxBeginKept
  <1>7. ASSUME NEW id \in cxCalls[c].wrote, CxNotify(c, id) PROVE CxInv'
    BY <1>7, CxNotifyKept
  <1>. QED
    BY <1>1, <1>2, <1>3, <1>4, <1>5, <1>6, <1>7 DEF CxOperates

LEMMA CxStepKept ==
    ASSUME CxInv, [CxNext]_cxVars
    PROVE  CxInv'
  <1>1. ASSUME NEW request \in Requests, CxCall(request) PROVE CxInv'
    BY <1>1, CxCallKept
  <1>2. ASSUME NEW job \in cxJobs, CxRunJob(job) PROVE CxInv'
    BY <1>2, CxRunJobKept
  <1>3. ASSUME NEW c \in Numbered, CxOperates(c) PROVE CxInv'
    BY <1>3, CxOperatesKept
  <1>4. ASSUME NEW c \in Numbered, CxEnds(c) PROVE CxInv'
    BY <1>4, CxEndsKept
  <1>5. ASSUME NEW c \in Numbered, CxInserts(c) PROVE CxInv'
    BY <1>5, CxInsertsKept
  <1>6. ASSUME NEW c \in Numbered, CxCommit(c) PROVE CxInv'
    BY <1>6, CxCommitKept
  <1>7. ASSUME NEW c \in Numbered, CxRollback(c) PROVE CxInv'
    BY <1>7, CxRollbackKept
  <1>8. ASSUME NEW c \in Numbered, CxDeliver(c) PROVE CxInv'
    BY <1>8, CxDeliverKept
  <1>9. ASSUME NEW c \in Numbered, NEW holds \in BOOLEAN, CxUpdates(c, holds) PROVE CxInv'
    BY <1>9, CxUpdatesKept
  <1>10. ASSUME UNCHANGED cxVars PROVE CxInv'
    <2>1. CxKept(cxRows', cxCalls', cxJobs')
      BY <1>10 DEF CxInv, cxVars
    <2>. QED
      BY <2>1 DEF CxInv
  <1>. QED
    BY <1>1, <1>2, <1>3, <1>4, <1>5, <1>6, <1>7, <1>8, <1>9, <1>10 DEF CxNext

\* What every state of the context keeps: each call its scope, what it sees of its own rows and its
\* account, the tables their references, and the queue jobs that do no more than their callers might.
THEOREM ContextInvariance == CxSpec => []CxInv
  <1>1. CxInit => CxInv
    BY CxInitKept
  <1>2. CxInv /\ [CxNext]_cxVars => CxInv'
    BY CxStepKept
  <1>. QED
    BY <1>1, <1>2, PTL DEF CxSpec

LEMMA EndedSaysNothing ==
    ASSUME NEW fn
    PROVE  /\ Ended(fn).touched = {} /\ Ended(fn).wrote = {} /\ Ended(fn).done = {} /\ Ended(fn).heard = {}
           /\ Ended(fn).writes = {} /\ Ended(fn).rolled = {}
  BY DEF Ended, Call

\* The scope of a request holds wherever its work goes: its calls and jobs touch no row of a company
\* they are not entitled to (for del, that they may not read); what they insert and update is in the
\* one company they write to; and the row a reference was checked against is of the company of the
\* row that refers to it, as long as it is there.
THEOREM ScopeIsKept == CxSpec => []ScopeHolds
  <1>1. ASSUME CxInv PROVE ScopeHolds
    <2>1. ASSUME NEW c \in Numbered
          PROVE  /\ cxCalls[c].touched \subseteq Authority(FnOf(c), CallScope(c)) \intersect cxCalls[c].limit
                 /\ \A id \in cxCalls[c].wrote :
                      Present(SeenAs(c, id)) =>
                        /\ Updates(FnOf(c), CallScope(c), SeenAs(c, id))
                        /\ InScope(FnOf(c), CallScope(c), SeenAs(c, id))
      <3>1. cxCalls[c] \in CallRecord /\ CallKept(cxCalls[c], c, cxRows)
        BY <1>1, CallIs
      <3>2. CASE cxCalls[c].status = "running"
        <4>1. ScopeKept(cxCalls[c]) /\ WroteKept(cxCalls[c], cxRows)
          BY <3>1, <3>2 DEF CallKept
        <4>2. cxCalls[c].touched \subseteq Authority(FnOf(c), CallScope(c)) \intersect cxCalls[c].limit
          BY <4>1 DEF ScopeKept, FnOf, CallScope
        <4>3. ASSUME NEW id \in cxCalls[c].wrote, Present(SeenAs(c, id))
              PROVE  /\ Updates(FnOf(c), CallScope(c), SeenAs(c, id))
                     /\ InScope(FnOf(c), CallScope(c), SeenAs(c, id))
          <5>1. id \in Ids
            BY <3>1 DEF CallRecord
          <5>2. Legible(cxCalls[c], id, SeenAs(c, id))
            BY <4>1, <5>1, SeenIs DEF WroteKept
          <5>. QED
            BY <4>3, <5>2 DEF Legible, FnOf, CallScope
        <4>. QED
          BY <4>2, <4>3
      <3>3. CASE cxCalls[c].status = "ended"
        <4>1. cxCalls[c].touched = {} /\ cxCalls[c].wrote = {}
          BY <3>1, <3>3, EndedSaysNothing DEF CallKept
        <4>. QED
          BY <4>1
      <3>. QED
        BY <3>1, <3>2, <3>3 DEF CallRecord
    <2>2. ASSUME NEW id \in Ids, Present(cxRows[id]), ~Shared(cxRows[id].model), cxRows[id].ref \in Ids,
                 Present(cxRows[cxRows[id].ref]), ~Shared(cxRows[cxRows[id].ref].model),
                 cxRows[cxRows[id].ref].company # cxRows[id].company
          PROVE  cxRows[id].blind \/ FnOf(cxRows[id].by).cross
      <3>1. TableKept(cxRows, cxCalls) /\ cxRows[cxRows[id].ref] \in Cell(cxRows[id].ref)
        BY <1>1, <2>2 DEF CxInv, CxKept, TableKept
      <3>2. cxRows[id].ref # NoOne
        BY <2>2, ContextAssumption
      <3>3. RowRefers(cxRows[id], FnOf(cxRows[id].by).cross, cxRows)
        BY <2>2, <3>1, <3>2 DEF TableKept, FnOf
      <3>4. cxRows[cxRows[id].ref].model = ModelOf[cxRows[id].ref]
        BY <2>2, <3>1, CellIs
      <3>. QED
        BY <2>2, <3>2, <3>3, <3>4 DEF RowRefers, RefersTo
    <2>3. StaysInScope /\ WritesToOne
      BY <2>1 DEF StaysInScope, WritesToOne
    <2>4. RefersWithin
      BY <2>2 DEF RefersWithin
    <2>. QED
      BY <2>3, <2>4 DEF ScopeHolds
  <1>. QED
    BY <1>1, ContextInvariance, PTL

\* What others learn of a call is what it did: its listeners hear of what is committed, its report
\* names every change and nothing that was rolled back, and a rehearsal has done nothing.
THEOREM AccountIsKept == CxSpec => []AccountIsTrue
  <1>1. ASSUME CxInv PROVE AccountIsTrue
    <2>1. ASSUME NEW c \in Numbered
          PROVE  /\ cxCalls[c].heard \subseteq {d.on : d \in cxCalls[c].done}
                 /\ cxCalls[c].done \subseteq cxCalls[c].writes
                 /\ \A w \in cxCalls[c].writes : w.tx \notin cxCalls[c].rolled
                 /\ Dry(c) => cxCalls[c].done = {} /\ cxCalls[c].heard = {}
      <3>1. cxCalls[c] \in CallRecord /\ CallKept(cxCalls[c], c, cxRows)
        BY <1>1, CallIs
      <3>2. CASE cxCalls[c].status = "running"
        <4>1. AccountKept(cxCalls[c]) /\ DryKept(cxCalls[c])
          BY <3>1, <3>2 DEF CallKept
        <4>. QED
          BY <4>1 DEF AccountKept, DryKept, Dry, On
      <3>3. CASE cxCalls[c].status = "ended"
        BY <3>1, <3>3, EndedSaysNothing DEF CallKept
      <3>. QED
        BY <3>1, <3>2, <3>3 DEF CallRecord
    <2>. QED
      BY <2>1 DEF AccountIsTrue, HeardIsCommitted, ReportIsTrue, RehearsalIsQuiet
  <1>. QED
    BY <1>1, ContextInvariance, PTL
=============================================================================
