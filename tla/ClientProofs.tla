----------------------------- MODULE ClientProofs -----------------------------
(*****************************************************************************)
(* What a page keeps while answers come late and lifetimes end.              *)
(*                                                                           *)
(* Navigation, for any documents, behaviors and callers: when nothing is in  *)
(* flight the slots show what the URL names, with the behaviors that match   *)
(* mounted, however the user's navigations overtook one another, until a     *)
(* reconciliation throws under code that handles failures; and one that was  *)
(* overtaken changes neither the slots nor the history. A later navigation   *)
(* aborts the earlier ones, so that at most one that is not aborted is in    *)
(* flight, the active one (OneInProgress); a behavior that matches what is   *)
(* shown is mounted, failed to load, or is being loaded (BehaviorsAwaited).  *)
(*                                                                           *)
(* A store, for any number of lifetimes, connectors and runs of a task: what *)
(* a connect() began is ended once, and the signals of the task speak of the *)
(* run that has it. The calls of attach() that are under way nest, each in a *)
(* connect() of the one before and of a lifetime of its own                  *)
(* (AttachingApart), so that what a lifetime holds is what it has made and   *)
(* not ended (WiringKept).                                                   *)
(*                                                                           *)
(* The mirror of one key, for any scopes, writes and loads: it shows nothing *)
(* of another scope, and while it stays in a scope nothing the server has    *)
(* answered is shown older again, except where a write that is over takes    *)
(* its own patch back. A revision of the entry is of one value, in the entry *)
(* and in what the writes would restore (VersionsKept); the load under way   *)
(* that may still land was asked for after everything the entry shows and no *)
(* patch is younger than it (LoadKept); so a rollback comes back to what     *)
(* shows the same answers.                                                   *)
(*                                                                           *)
(* The graph of signals, for any program that reads, writes, batches,        *)
(* creates and stops in whatever order its calls nest: once it is back at    *)
(* the top nobody is left with an old value, and a flush runs an effect when *)
(* the computed values have settled. What a run has read it is subscribed to *)
(* until that changes, and then it is queued (ViewKept); what is queued a    *)
(* flush under way or the end of the batch will take (QueueDriven); under a  *)
(* flush there are only runs (FlushOverRuns), so that a run it finds under   *)
(* way it has not counted.                                                   *)
(*****************************************************************************)
EXTENDS Navigation, Store, Mirror, Signals, SequenceTheorems, TLAPS

-----------------------------------------------------------------------------
(* Navigation.                                                             *)

-----------------------------------------------------------------------------
(* The inductive invariant.                                                *)

NavRecord == [ target : Urls, mode : {"push", "replace", "pop", "apply"}, caller : Callers \union {"link"},
              phase : {"fetching", "loading", "syncing", "done"}, aborted : BOOLEAN,
              loading : SUBSET Behaviors ]

NgShape ==
    /\ ngHistory \in Seq(Urls) /\ ngAt \in DOMAIN ngHistory /\ ngShown \in [Slots -> Urls] /\ ngTorn \in BOOLEAN
    /\ ngNavs \in Seq(NavRecord)
    /\ ngActive \in 0 .. Len(ngNavs) /\ ngBusy \in BOOLEAN /\ (ngBusy <=> ngActive # 0)
    /\ ngMounted \subseteq Behaviors

\* A behavior that matches what is shown is mounted, did not load, or is on its way.
BehaviorsAwaited ==
    \A b \in Matches(ngShown) :
        \/ b \in ngMounted \/ b \in ngFailed
        \/ \E n \in DOMAIN ngNavs : Nav(n).phase = "syncing" /\ b \in Nav(n).loading

AllLinks == \A n \in DOMAIN ngNavs : Nav(n).caller = "link"

\* Of the user's own navigations the last is in progress and the others are aborted; the
\* slots show what the URL names before it and, once it has applied, what it will commit.
OneInProgress ==
    /\ \A n \in DOMAIN ngNavs : InFlight(n) /\ ~Nav(n).aborted => n = ngActive
    /\ ngActive = 0 => ngShown = Showing(Here)
    /\ ngActive # 0 =>
         /\ InFlight(ngActive) /\ ~Nav(ngActive).aborted
         /\ Nav(ngActive).phase = "syncing" => ngShown = Showing(Nav(ngActive).target)
         /\ Nav(ngActive).mode = "pop" => Here = Nav(ngActive).target
         /\ Nav(ngActive).mode # "apply"

NgInv ==
    /\ NgShape
    /\ ~ngTorn => ngMounted \subseteq Matches(ngShown) /\ BehaviorsAwaited
    /\ AllLinks => OneInProgress

-----------------------------------------------------------------------------
(* What a step makes of the navigations and of the history.                *)

LEMMA NgNavIs ==
    ASSUME NgShape, NEW n \in DOMAIN ngNavs
    PROVE  /\ Nav(n) \in NavRecord /\ Nav(n) = ngNavs[n] /\ n \in Nat /\ n # 0 /\ n <= Len(ngNavs)
           /\ Nav(n).target \in Urls /\ Nav(n).aborted \in BOOLEAN /\ Nav(n).loading \subseteq Behaviors
  <1>1. n \in 1 .. Len(ngNavs) /\ Len(ngNavs) \in Nat /\ ngNavs[n] \in NavRecord
    BY DEF NgShape
  <1>. QED
    BY <1>1 DEF Nav, NavRecord

LEMMA NgShowingIs ==
    \A url \in Urls : Showing(url) \in [Slots -> Urls]
  BY DEF Showing

LEMMA NgMatchesIs ==
    \A shown \in [Slots -> Urls] : Matches(shown) \subseteq Behaviors
  <1>1. SUFFICES ASSUME NEW shown \in [Slots -> Urls], NEW b \in Matches(shown) PROVE b \in Behaviors
    OBVIOUS
  <1>2. PICK s \in Slots : b \in Matching[s][shown[s]]
    BY <1>1 DEF Matches
  <1>3. Matching[s] \in [Urls -> SUBSET Behaviors] /\ shown[s] \in Urls
    BY NavigationAssumption
  <1>. QED
    BY <1>2, <1>3

LEMMA NgHereIs ==
    ASSUME NgShape
    PROVE  Here \in Urls /\ ngAt \in 1 .. Len(ngHistory) /\ Len(ngHistory) \in Nat
  BY DEF NgShape, Here

LEMMA NgPushIs ==
    ASSUME NgShape, NEW url \in Urls, Push(url)
    PROVE  ngHistory' \in Seq(Urls) /\ ngAt' \in DOMAIN ngHistory' /\ Here' = url
  <1>. DEFINE kept == SubSeq(ngHistory, 1, ngAt)
  <1>1. ngAt \in 1 .. Len(ngHistory) /\ Len(ngHistory) \in Nat /\ ngHistory \in Seq(Urls)
    BY NgHereIs DEF NgShape
  <1>2. kept \in Seq(Urls) /\ Len(kept) = ngAt
    BY <1>1
  <1>3. ngHistory' = Append(kept, url) /\ ngAt' = ngAt + 1
    BY DEF Push
  <1>. HIDE DEF kept
  <1>4. /\ ngHistory' \in Seq(Urls) /\ Len(ngHistory') = ngAt + 1 /\ ngHistory'[ngAt + 1] = url
    BY <1>1, <1>2, <1>3
  <1>. QED
    BY <1>1, <1>3, <1>4 DEF Here

LEMMA NgReplaceIs ==
    ASSUME NgShape, NEW url \in Urls, ReplaceEntry(url)
    PROVE  ngHistory' \in Seq(Urls) /\ ngAt' \in DOMAIN ngHistory' /\ Here' = url
  BY NgHereIs DEF NgShape, ReplaceEntry, Here

\* The document is loaded: nothing is in progress and all is as the URL has it.
LEMMA NgLoadIs ==
    ASSUME NgShape, NEW url \in Urls, HardNavigate(url)
    PROVE  NgInv'
  <1>1. /\ ngShown' = Showing(url) /\ ngMounted' = Matches(Showing(url)) /\ ngFailed' = {}
        /\ ngTorn' = FALSE /\ ngActive' = 0 /\ ngNavs' = << >>
    BY DEF HardNavigate
  <1>2. ngBusy' = FALSE
    BY DEF HardNavigate
  <1>3. ngHistory' \in Seq(Urls) /\ ngAt' \in DOMAIN ngHistory' /\ Here' = url
    <2>1. CASE url = Here
      <3>1. UNCHANGED <<ngHistory, ngAt>>
        BY <2>1 DEF HardNavigate, historyVars
      <3>. QED
        BY <3>1, <2>1 DEF NgShape, Here
    <2>2. CASE url # Here
      BY <2>2, NgPushIs DEF HardNavigate
    <2>. QED
      BY <2>1, <2>2
  <1>4. Showing(url) \in [Slots -> Urls] /\ Matches(Showing(url)) \subseteq Behaviors
    BY NgShowingIs, NgMatchesIs
  <1>5. ngNavs' \in Seq(NavRecord) /\ Len(ngNavs') = 0 /\ DOMAIN ngNavs' = {}
    BY <1>1
  <1>6. NgShape'
    <2>1. ngBusy' \in BOOLEAN /\ (ngBusy' <=> ngActive' # 0) /\ ngTorn' \in BOOLEAN
      BY <1>1, <1>2
    <2>2. ngActive' \in 0 .. Len(ngNavs') /\ ngShown' \in [Slots -> Urls] /\ ngMounted' \subseteq Behaviors
      BY <1>1, <1>4, <1>5
    <2>. QED
      BY <2>1, <2>2, <1>3, <1>5 DEF NgShape
  <1>7. ~ngTorn' => BehaviorsAwaited'
    BY <1>1 DEF BehaviorsAwaited
  <1>8. OneInProgress'
    BY <1>1, <1>3, <1>5 DEF OneInProgress
  <1>. QED
    BY <1>1, <1>6, <1>7, <1>8 DEF NgInv

\* One navigation changes.
LEMMA NgOneChanges ==
    ASSUME NgShape, NEW n \in DOMAIN ngNavs, NEW x \in NavRecord, ngNavs' = [ngNavs EXCEPT ![n] = x]
    PROVE  /\ ngNavs' \in Seq(NavRecord) /\ Len(ngNavs') = Len(ngNavs) /\ DOMAIN ngNavs' = DOMAIN ngNavs
           /\ Nav(n)' = x /\ \A m \in DOMAIN ngNavs : m # n => Nav(m)' = Nav(m)
  BY DEF NgShape, Nav

\* It is aborted, has its response, or has less to wait for: nothing else changes.
LEMMA NgGoesOn ==
    ASSUME NgInv, NEW n \in DOMAIN ngNavs, NEW x \in NavRecord, ngNavs' = [ngNavs EXCEPT ![n] = x],
           UNCHANGED <<ngHistory, ngAt, ngShown, ngTorn, ngBusy, ngActive, ngMounted, ngFailed>>,
           x.target = Nav(n).target, x.mode = Nav(n).mode, x.caller = Nav(n).caller,
           Nav(n).phase = "syncing" => x.phase = "syncing" /\ x.loading = Nav(n).loading,
           InFlight(n), x.phase \in {"loading", "syncing", "fetching"}, x.phase = "syncing" => Nav(n).phase = "syncing",
           Nav(n).aborted => x.aborted, x.aborted => Nav(n).aborted \/ Nav(n).caller # "link"
    PROVE  NgInv'
  <1>. USE NgNavIs
  <1>1. NgShape
    BY DEF NgInv
  <1>2. /\ ngNavs' \in Seq(NavRecord) /\ Len(ngNavs') = Len(ngNavs) /\ DOMAIN ngNavs' = DOMAIN ngNavs
        /\ Nav(n)' = x /\ \A m \in DOMAIN ngNavs : m # n => Nav(m)' = Nav(m)
    BY <1>1, NgOneChanges
  <1>3. NgShape'
    BY <1>1, <1>2 DEF NgShape
  <1>4. ~ngTorn' => BehaviorsAwaited'
    BY <1>2 DEF NgInv, BehaviorsAwaited
  <1>5. AllLinks' => OneInProgress'
    <2>1. SUFFICES ASSUME AllLinks' PROVE OneInProgress'
      OBVIOUS
    <2>2. AllLinks
      BY <2>1, <1>2 DEF AllLinks
    <2>3. OneInProgress
      BY <2>2 DEF NgInv
    <2>4. x.aborted <=> Nav(n).aborted
      BY <2>2 DEF AllLinks
    <2>5. \A m \in DOMAIN ngNavs : InFlight(m)' <=> InFlight(m)
      BY <1>2 DEF InFlight, Nav
    <2>6. \A m \in DOMAIN ngNavs : Nav(m)'.aborted <=> Nav(m).aborted
      BY <1>2, <2>4
    <2>7. \A m \in DOMAIN ngNavs : /\ Nav(m)'.target = Nav(m).target /\ Nav(m)'.mode = Nav(m).mode
                                   /\ Nav(m)'.phase = "syncing" => Nav(m).phase = "syncing"
      BY <1>2
    <2>8. ngActive # 0 => ngActive \in DOMAIN ngNavs
      BY <1>1 DEF NgShape
    <2>9. Here' = Here /\ ngActive' = ngActive /\ ngShown' = ngShown
      BY DEF Here
    <2>10. \A m \in DOMAIN ngNavs' : InFlight(m)' /\ ~Nav(m)'.aborted => m = ngActive'
      BY <2>3, <2>5, <2>6, <2>9, <1>2 DEF OneInProgress
    <2>11. ngActive # 0 =>
             /\ InFlight(ngActive)' /\ ~Nav(ngActive)'.aborted
             /\ Nav(ngActive)'.phase = "syncing" => ngShown' = Showing(Nav(ngActive)'.target)
             /\ Nav(ngActive)'.mode = "pop" => Here' = Nav(ngActive)'.target
             /\ Nav(ngActive)'.mode # "apply"
      <3>. DEFINE a == ngActive
      <3>1. SUFFICES ASSUME a # 0
                     PROVE  /\ InFlight(a)' /\ ~Nav(a)'.aborted
                            /\ Nav(a)'.phase = "syncing" => ngShown' = Showing(Nav(a)'.target)
                            /\ Nav(a)'.mode = "pop" => Here' = Nav(a)'.target
                            /\ Nav(a)'.mode # "apply"
        OBVIOUS
      <3>. QED
        BY <2>3, <2>5, <2>6, <2>7, <2>8, <2>9, <3>1 DEF OneInProgress
    <2>. QED
      BY <2>3, <2>9, <2>10, <2>11 DEF OneInProgress
  <1>. QED
    BY <1>3, <1>4, <1>5 DEF NgInv

\* It ends: the history is as it was, or what is shown is committed.
LEMMA NgEnds ==
    ASSUME NgInv, NEW n \in DOMAIN ngNavs, InFlight(n), Ends(ngNavs, n), UNCHANGED pageVars,
           Nav(n).phase = "syncing" => Nav(n).loading = {},
           ngHistory' \in Seq(Urls), ngAt' \in DOMAIN ngHistory',
           AllLinks => IF Nav(n).aborted THEN Here' = Here ELSE ngShown = Showing(Here')
    PROVE  NgInv'
  <1>. USE NgNavIs
  <1>. DEFINE x == [Nav(n) EXCEPT !.phase = "done"]
  <1>1. NgShape
    BY DEF NgInv
  <1>2. /\ x \in NavRecord /\ x.phase = "done" /\ x.target = Nav(n).target /\ x.mode = Nav(n).mode
        /\ x.caller = Nav(n).caller /\ ngNavs' = [ngNavs EXCEPT ![n] = x]
    BY <1>1 DEF NavRecord, Ends, Nav
  <1>3. /\ ngActive' = (IF ngActive = n THEN 0 ELSE ngActive)
        /\ UNCHANGED <<ngShown, ngTorn, ngMounted, ngFailed>>
    BY DEF Ends, pageVars
  <1>4. ngBusy' = (ngActive # n /\ ngBusy)
    BY DEF Ends
  <1>. HIDE DEF x
  <1>5. /\ ngNavs' \in Seq(NavRecord) /\ Len(ngNavs') = Len(ngNavs) /\ DOMAIN ngNavs' = DOMAIN ngNavs
        /\ Nav(n)' = x /\ \A m \in DOMAIN ngNavs : m # n => Nav(m)' = Nav(m)
    BY <1>1, <1>2, NgOneChanges
  <1>6. NgShape'
    <2>1. ngBusy' \in BOOLEAN /\ (ngBusy' <=> ngActive' # 0)
      <3>1. n # 0 /\ (ngBusy <=> ngActive # 0)
        BY <1>1 DEF NgShape
      <3>2. CASE ngActive = n
        BY <3>1, <3>2, <1>3, <1>4
      <3>3. CASE ngActive # n
        BY <3>1, <3>3, <1>3, <1>4
      <3>. QED
        BY <3>2, <3>3
    <2>2. ngActive' \in 0 .. Len(ngNavs')
      BY <1>1, <1>3, <1>5 DEF NgShape
    <2>. QED
      BY <2>1, <2>2, <1>1, <1>3, <1>5 DEF NgShape
  <1>7. ~ngTorn' => BehaviorsAwaited'
    BY <1>3, <1>5 DEF NgInv, BehaviorsAwaited
  <1>8. AllLinks' => OneInProgress'
    <2>1. SUFFICES ASSUME AllLinks' PROVE OneInProgress'
      OBVIOUS
    <2>2. AllLinks
      BY <2>1, <1>2, <1>5 DEF AllLinks
    <2>3. OneInProgress
      BY <2>2 DEF NgInv
    <2>4. \A m \in DOMAIN ngNavs : IF m = n THEN ~InFlight(m)' ELSE InFlight(m)' <=> InFlight(m)
      BY <1>2, <1>5 DEF InFlight, Nav
    <2>5. \A m \in DOMAIN ngNavs' : InFlight(m)' /\ ~Nav(m)'.aborted => m = ngActive'
      BY <2>3, <2>4, <1>3, <1>5 DEF OneInProgress
    <2>6. CASE ngActive = n
      <3>1. ~Nav(n).aborted /\ ngActive' = 0
        BY <2>3, <2>6, <1>1, <1>3 DEF OneInProgress
      <3>2. ngShown' = Showing(Here')
        BY <2>2, <3>1, <1>3
      <3>. QED
        BY <2>5, <3>1, <3>2 DEF OneInProgress
    <2>7. CASE ngActive # n
      <3>1. Nav(n).aborted /\ ngActive' = ngActive
        BY <2>3, <2>7, <1>3 DEF OneInProgress
      <3>2. Here' = Here /\ ngShown' = ngShown
        BY <2>2, <3>1, <1>3
      <3>3. ngActive # 0 => ngActive \in DOMAIN ngNavs
        BY <1>1 DEF NgShape
      <3>4. \A m \in DOMAIN ngNavs : m # n => Nav(m)' = Nav(m) /\ (InFlight(m)' <=> InFlight(m))
        BY <2>4, <1>5
      <3>5. ngActive' # 0 =>
             /\ InFlight(ngActive)' /\ ~Nav(ngActive)'.aborted
             /\ Nav(ngActive)'.phase = "syncing" => ngShown' = Showing(Nav(ngActive)'.target)
             /\ Nav(ngActive)'.mode = "pop" => Here' = Nav(ngActive)'.target
             /\ Nav(ngActive)'.mode # "apply"
        BY <2>3, <2>7, <3>1, <3>2, <3>3, <3>4 DEF OneInProgress
      <3>. QED
        BY <2>3, <2>5, <3>1, <3>2, <3>5 DEF OneInProgress
    <2>. QED
      BY <2>6, <2>7
  <1>9. ~ngTorn' => ngMounted' \subseteq Matches(ngShown')
    BY <1>3 DEF NgInv
  <1>. QED
    BY <1>6, <1>7, <1>8, <1>9 DEF NgInv

-----------------------------------------------------------------------------
(* The steps.                                                              *)

\* A navigation begins: the one in progress is aborted.
LEMMA NgBegins ==
    ASSUME NgInv, NEW target \in Urls, NEW mode \in {"push", "replace", "pop"},
           NEW caller \in Callers \union {"link"}, Begin(target, mode, caller),
           ngHistory' \in Seq(Urls), ngAt' \in DOMAIN ngHistory',
           mode = "pop" => Here' = target
    PROVE  NgInv'
  <1>. DEFINE aborted == Abort(ngNavs, ngActive)
              x == Begun(target, mode, caller, "fetching")
              last == Len(ngNavs) + 1
  <1>1. NgShape /\ Len(ngNavs) \in Nat /\ DOMAIN ngNavs = 1 .. Len(ngNavs) /\ ngNavs \in Seq(NavRecord)
    BY DEF NgInv, NgShape
  <1>2. /\ ngNavs' = Append(aborted, x) /\ ngActive' = last
        /\ UNCHANGED <<ngShown, ngTorn, ngMounted, ngFailed>>
    BY DEF Begin, pageVars
  <1>3. ngBusy' = TRUE
    BY DEF Begin
  <1>4. /\ x \in NavRecord /\ x.phase = "fetching" /\ x.target = target /\ x.mode = mode /\ x.caller = caller
    BY DEF Begun, NavRecord
  <1>5. x.aborted = FALSE
    BY DEF Begun
  <1>6. /\ aborted \in Seq(NavRecord) /\ Len(aborted) = Len(ngNavs)
        /\ \A n \in DOMAIN ngNavs :
              /\ aborted[n].target = ngNavs[n].target /\ aborted[n].mode = ngNavs[n].mode
              /\ aborted[n].caller = ngNavs[n].caller /\ aborted[n].phase = ngNavs[n].phase
              /\ aborted[n].loading = ngNavs[n].loading
    <2>1. CASE ngActive = 0
      BY <2>1, <1>1 DEF Abort
    <2>2. CASE ngActive # 0
      <3>1. ngActive \in DOMAIN ngNavs
        BY <2>2, <1>1 DEF NgShape
      <3>. DEFINE y == [ngNavs[ngActive] EXCEPT !.aborted = TRUE]
      <3>2. /\ y \in NavRecord /\ y.target = ngNavs[ngActive].target /\ y.mode = ngNavs[ngActive].mode
            /\ y.caller = ngNavs[ngActive].caller /\ y.phase = ngNavs[ngActive].phase
            /\ y.loading = ngNavs[ngActive].loading
        BY <3>1, <1>1, NgNavIs DEF NavRecord
      <3>3. aborted = [ngNavs EXCEPT ![ngActive] = y]
        BY <2>2 DEF Abort
      <3>. HIDE DEF y, aborted
      <3>. QED
        BY <3>1, <3>2, <3>3, <1>1
    <2>. QED
      BY <2>1, <2>2
  <1>7. \A n \in DOMAIN ngNavs : (aborted[n].aborted <=> ngNavs[n].aborted \/ n = ngActive)
    <2>1. SUFFICES ASSUME NEW n \in DOMAIN ngNavs PROVE aborted[n].aborted <=> ngNavs[n].aborted \/ n = ngActive
      OBVIOUS
    <2>2. ngNavs[n] \in NavRecord /\ n # 0
      BY <1>1
    <2>3. CASE n = ngActive
      <3>1. aborted[n] = [ngNavs[n] EXCEPT !.aborted = TRUE]
        BY <2>2, <2>3, <1>1 DEF Abort
      <3>2. aborted[n].aborted = TRUE
        BY <2>2, <3>1 DEF NavRecord
      <3>. QED
        BY <2>3, <3>2
    <2>4. CASE n # ngActive
      <3>1. aborted[n] = ngNavs[n]
        BY <2>4, <1>1 DEF Abort
      <3>. QED
        BY <2>4, <3>1
    <2>. QED
      BY <2>3, <2>4
  <1>. HIDE DEF aborted, x
  <1>8. PICK l \in Nat : l = Len(ngNavs) + 1
    BY <1>1
  <1>9. /\ ngNavs' \in Seq(NavRecord) /\ Len(ngNavs') = l /\ DOMAIN ngNavs' = DOMAIN ngNavs \union {l}
        /\ ngNavs'[l] = x /\ \A n \in DOMAIN ngNavs : ngNavs'[n] = aborted[n] /\ n # l
    BY <1>1, <1>2, <1>4, <1>6, <1>8
  <1>10. Nav(l)' = x /\ \A n \in DOMAIN ngNavs : Nav(n)' = aborted[n] /\ n # l
    BY <1>9 DEF Nav
  <1>11. \A n \in DOMAIN ngNavs :
          /\ Nav(n)'.phase = Nav(n).phase /\ Nav(n)'.caller = Nav(n).caller /\ Nav(n)'.loading = Nav(n).loading
          /\ InFlight(n)' <=> InFlight(n)
    BY <1>6, <1>10 DEF Nav, InFlight
  <1>12. l # 0 /\ l \in 0 .. l /\ ngActive' = l
    BY <1>1, <1>2, <1>8
  <1>13. NgShape'
    <2>1. ngBusy' \in BOOLEAN /\ (ngBusy' <=> ngActive' # 0)
      BY <1>12, <1>3
    <2>. QED
      BY <2>1, <1>1, <1>2, <1>9, <1>12 DEF NgShape
  <1>14. ~ngTorn' => BehaviorsAwaited'
    BY <1>2, <1>9, <1>11 DEF NgInv, BehaviorsAwaited
  <1>15. AllLinks' => OneInProgress'
    <2>1. SUFFICES ASSUME AllLinks' PROVE OneInProgress'
      OBVIOUS
    <2>2. AllLinks
      BY <2>1, <1>9, <1>11 DEF AllLinks
    <2>3. OneInProgress
      BY <2>2 DEF NgInv
    <2>4. \A n \in DOMAIN ngNavs' : InFlight(n)' /\ ~Nav(n)'.aborted => n = l
      <3>1. SUFFICES ASSUME NEW n \in DOMAIN ngNavs, InFlight(n)' PROVE Nav(n)'.aborted
        BY <1>9
      <3>2. InFlight(n)
        BY <3>1, <1>11
      <3>3. Nav(n).aborted \/ n = ngActive
        BY <3>2, <2>3 DEF OneInProgress
      <3>. QED
        BY <3>3, <1>7, <1>10 DEF Nav
    <2>5. InFlight(l)'
      BY <1>4, <1>9 DEF InFlight
    <2>6. ~Nav(l)'.aborted
      BY <1>5, <1>10
    <2>7. /\ Nav(l)'.phase # "syncing" /\ Nav(l)'.mode # "apply"
          /\ Nav(l)'.mode = "pop" => Here' = Nav(l)'.target
      BY <1>4, <1>10
    <2>. QED
      BY <2>4, <2>5, <2>6, <2>7, <1>12 DEF OneInProgress
  <1>16. ~ngTorn' => ngMounted' \subseteq Matches(ngShown')
    BY <1>2 DEF NgInv
  <1>. QED
    BY <1>13, <1>14, <1>15, <1>16 DEF NgInv

\* A response somebody else asked for is applied: not the user's own.
LEMMA NgApplyKeeps ==
    ASSUME NgInv, "apply" \in Callers, NEW target \in Urls, NgApply(target)
    PROVE  NgInv'
  <1>. DEFINE x == Begun(target, "apply", "apply", "loading")
  <1>1. NgShape /\ Len(ngNavs) \in Nat /\ DOMAIN ngNavs = 1 .. Len(ngNavs) /\ ngNavs \in Seq(NavRecord)
    BY DEF NgInv, NgShape
  <1>2. /\ ngNavs' = Append(ngNavs, x)
        /\ UNCHANGED <<ngHistory, ngAt, ngShown, ngTorn, ngMounted, ngFailed, ngBusy, ngActive>>
    BY DEF NgApply, historyVars, pageVars
  <1>3. x \in NavRecord /\ x.caller = "apply"
    BY DEF Begun, NavRecord
  <1>. HIDE DEF x
  <1>4. PICK l \in Nat : l = Len(ngNavs) + 1
    BY <1>1
  <1>5. /\ ngNavs' \in Seq(NavRecord) /\ Len(ngNavs') = l /\ DOMAIN ngNavs' = DOMAIN ngNavs \union {l}
        /\ ngNavs'[l] = x /\ \A n \in DOMAIN ngNavs : ngNavs'[n] = ngNavs[n]
    BY <1>1, <1>2, <1>3, <1>4
  <1>6. NgShape'
    BY <1>1, <1>2, <1>4, <1>5 DEF NgShape
  <1>7. ~ngTorn' => BehaviorsAwaited'
    BY <1>2, <1>5 DEF NgInv, BehaviorsAwaited, Nav
  <1>8. ~AllLinks'
    BY <1>3, <1>5 DEF AllLinks, Nav
  <1>9. ~ngTorn' => ngMounted' \subseteq Matches(ngShown')
    BY <1>2 DEF NgInv
  <1>. QED
    BY <1>6, <1>7, <1>8, <1>9 DEF NgInv

LEMMA NgNavigateKeeps ==
    ASSUME NgInv, NEW target \in Urls, NEW mode \in {"push", "replace"}, NEW caller \in Callers,
           NgNavigate(target, mode, caller)
    PROVE  NgInv'
  <1>1. Begin(target, mode, caller) /\ UNCHANGED <<ngHistory, ngAt>>
    BY DEF NgNavigate, historyVars
  <1>2. ngHistory' \in Seq(Urls) /\ ngAt' \in DOMAIN ngHistory'
    BY <1>1 DEF NgInv, NgShape
  <1>. QED
    BY <1>1, <1>2, NgBegins

LEMMA NgPopKeeps ==
    ASSUME NgInv, NEW at \in DOMAIN ngHistory, NgPop(at)
    PROVE  NgInv'
  <1>. DEFINE url == ngHistory[at]
  <1>1. Begin(url, "pop", "link") /\ ngAt' = at /\ ngHistory' = ngHistory
    BY DEF NgPop
  <1>2. ngHistory' \in Seq(Urls) /\ ngAt' \in DOMAIN ngHistory' /\ url \in Urls
    BY <1>1 DEF NgInv, NgShape
  <1>3. Here' = url
    BY <1>1 DEF Here
  <1>. HIDE DEF url
  <1>. QED
    BY <1>1, <1>2, <1>3, NgBegins

LEMMA NgGivesUpKeeps ==
    ASSUME NgInv, NEW n \in DOMAIN ngNavs, NgGivesUp(n)
    PROVE  NgInv'
  <1>. DEFINE x == [Nav(n) EXCEPT !.aborted = TRUE]
  <1>1. NgShape
    BY DEF NgInv
  <1>2. Nav(n) \in NavRecord /\ Nav(n) = ngNavs[n] /\ n # 0
    BY <1>1, NgNavIs
  <1>3. InFlight(n) /\ Nav(n).caller # "link" /\ ngNavs' = Abort(ngNavs, n)
    BY DEF NgGivesUp
  <1>4. /\ x \in NavRecord /\ x.target = Nav(n).target /\ x.mode = Nav(n).mode /\ x.caller = Nav(n).caller
        /\ x.phase = Nav(n).phase /\ x.loading = Nav(n).loading
    BY <1>2 DEF NavRecord
  <1>5. x.aborted
    BY <1>2 DEF NavRecord
  <1>6. ngNavs' = [ngNavs EXCEPT ![n] = x]
    BY <1>2, <1>3 DEF Abort
  <1>7. UNCHANGED <<ngHistory, ngAt, ngShown, ngTorn, ngBusy, ngActive, ngMounted, ngFailed>>
    BY DEF NgGivesUp, historyVars, pageVars
  <1>8. x.phase \in {"loading", "syncing", "fetching"}
    BY <1>3, <1>4 DEF InFlight, Nav
  <1>. HIDE DEF x
  <1>. QED
    BY <1>3, <1>4, <1>5, <1>6, <1>7, <1>8, NgGoesOn

LEMMA NgFetchedKeeps ==
    ASSUME NgInv, NEW n \in DOMAIN ngNavs, NgFetched(n)
    PROVE  NgInv'
  <1>. DEFINE x == [Nav(n) EXCEPT !.phase = "loading"]
  <1>1. NgShape
    BY DEF NgInv
  <1>2. Nav(n) \in NavRecord /\ Nav(n) = ngNavs[n]
    BY <1>1, NgNavIs
  <1>3. Nav(n).phase = "fetching" /\ ngNavs' = [ngNavs EXCEPT ![n] = x]
    BY <1>2 DEF NgFetched
  <1>4. /\ x \in NavRecord /\ x.target = Nav(n).target /\ x.mode = Nav(n).mode /\ x.caller = Nav(n).caller
        /\ x.phase = "loading"
    BY <1>2 DEF NavRecord
  <1>5. x.aborted <=> Nav(n).aborted
    BY <1>2 DEF NavRecord
  <1>6. UNCHANGED <<ngHistory, ngAt, ngShown, ngTorn, ngBusy, ngActive, ngMounted, ngFailed>>
    BY DEF NgFetched, historyVars, pageVars
  <1>7. InFlight(n)
    BY <1>2, <1>3 DEF InFlight
  <1>. HIDE DEF x
  <1>. QED
    BY <1>3, <1>4, <1>5, <1>6, <1>7, NgGoesOn

LEMMA NgDroppedKeeps ==
    ASSUME NgInv, NEW n \in DOMAIN ngNavs, NgDropped(n)
    PROVE  NgInv'
  <1>1. /\ InFlight(n) /\ Nav(n).aborted /\ Nav(n).phase # "syncing"
        /\ Ends(ngNavs, n) /\ UNCHANGED pageVars /\ UNCHANGED <<ngHistory, ngAt>>
    BY DEF NgDropped, InFlight, Nav, historyVars
  <1>2. Here' = Here /\ ngHistory' \in Seq(Urls) /\ ngAt' \in DOMAIN ngHistory'
    BY <1>1 DEF Here, NgInv, NgShape
  <1>. QED
    BY <1>1, <1>2, NgEnds

LEMMA NgFailsKeeps ==
    ASSUME NgInv, NEW n \in DOMAIN ngNavs, NgFails(n)
    PROVE  NgInv'
  <1>1. NgShape
    BY DEF NgInv
  <1>2. CASE Handled(n)
    <2>1. InFlight(n) /\ Nav(n).phase # "syncing" /\ Ends(ngNavs, n) /\ UNCHANGED pageVars /\ UNCHANGED <<ngHistory, ngAt>>
      BY <1>2 DEF NgFails, InFlight, Nav, historyVars
    <2>2. ~AllLinks
      BY <1>2 DEF AllLinks, Handled
    <2>3. ngHistory' \in Seq(Urls) /\ ngAt' \in DOMAIN ngHistory'
      BY <1>1, <2>1 DEF NgShape
    <2>. QED
      BY <2>1, <2>2, <2>3, NgEnds
  <1>3. CASE ~Handled(n)
    <2>1. HardNavigate(Nav(n).target)
      BY <1>3 DEF NgFails
    <2>. DEFINE url == Nav(n).target
    <2>2. url \in Urls /\ HardNavigate(url)
      BY <1>1, <2>1, NgNavIs
    <2>. HIDE DEF url
    <2>. QED
      BY <1>1, <2>2, NgLoadIs
  <1>. QED
    BY <1>2, <1>3

\* A response of another build, asked for by a navigation or by other code.
LEMMA NgOtherBuildKeeps ==
    ASSUME NgInv,
           \/ \E target \in Urls : NgApplyOtherBuild(target)
           \/ \E n \in DOMAIN ngNavs : NgOtherBuild(n)
    PROVE  NgInv'
  <1>1. NgShape
    BY DEF NgInv
  <1>2. PICK url \in Urls : HardNavigate(url)
    <2>1. \A n \in DOMAIN ngNavs : Nav(n).target \in Urls
      BY <1>1, NgNavIs
    <2>. QED
      BY <2>1 DEF NgApplyOtherBuild, NgOtherBuild
  <1>. QED
    BY <1>1, <1>2, NgLoadIs

\* A reconciliation throws half way: code that handles failures goes on, and not for a link.
LEMMA NgTearsKeeps ==
    ASSUME NgInv, NEW n \in DOMAIN ngNavs, NgTears(n)
    PROVE  NgInv'
  <1>. DEFINE x == [Nav(n) EXCEPT !.phase = "done"]
  <1>1. NgShape
    BY DEF NgInv
  <1>2. Nav(n) \in NavRecord /\ Nav(n) = ngNavs[n] /\ n # 0 /\ Nav(n).target \in Urls
    BY <1>1, NgNavIs
  <1>3. /\ ngTorn' = TRUE /\ Ends(ngNavs, n) /\ Handled(n)
        /\ UNCHANGED <<ngHistory, ngAt, ngMounted, ngFailed>>
    BY DEF NgTears, historyVars
  <1>4. ngShown' \in [Slots -> Urls]
    <2>1. PICK replaced \in SUBSET Slots :
             ngShown' = [s \in Slots |-> IF s \in replaced THEN Nav(n).target ELSE ngShown[s]]
      BY DEF NgTears
    <2>. QED
      BY <2>1, <1>1, <1>2 DEF NgShape
  <1>5. x \in NavRecord /\ x.caller = Nav(n).caller /\ ngNavs' = [ngNavs EXCEPT ![n] = x]
    BY <1>2, <1>3 DEF NavRecord, Ends
  <1>. HIDE DEF x
  <1>6. /\ ngNavs' \in Seq(NavRecord) /\ Len(ngNavs') = Len(ngNavs) /\ DOMAIN ngNavs' = DOMAIN ngNavs
        /\ Nav(n)' = x
    BY <1>1, <1>5, NgOneChanges
  <1>7. ngActive' = (IF ngActive = n THEN 0 ELSE ngActive)
    BY <1>3 DEF Ends
  <1>8. ngBusy' \in BOOLEAN /\ (ngBusy' <=> ngActive' # 0)
    <2>1. (ngBusy <=> ngActive # 0) /\ ngBusy \in BOOLEAN
      BY <1>1 DEF NgShape
    <2>2. ngBusy' = (ngActive # n /\ ngBusy)
      BY <1>3 DEF Ends
    <2>3. CASE ngActive = n
      BY <2>2, <2>3, <1>7
    <2>4. CASE ngActive # n
      BY <2>1, <2>2, <2>4, <1>7
    <2>. QED
      BY <2>3, <2>4
  <1>9. NgShape'
    BY <1>1, <1>3, <1>4, <1>6, <1>7, <1>8 DEF NgShape
  <1>10. ~AllLinks'
    BY <1>3, <1>5, <1>6 DEF AllLinks, Handled
  <1>. QED
    BY <1>3, <1>9, <1>10 DEF NgInv

\* The slots show what it fetched, and the behaviors that match are on their way.
LEMMA NgAppliesKeeps ==
    ASSUME NgInv, NEW n \in DOMAIN ngNavs, NgApplies(n)
    PROVE  NgInv'
  <1>. DEFINE target == Nav(n).target
              matching == Matches(Showing(target))
              kept == ngMounted \intersect matching
              x == [Nav(n) EXCEPT !.phase = "syncing", !.loading = matching \ kept]
  <1>1. NgShape
    BY DEF NgInv
  <1>2. Nav(n) \in NavRecord /\ Nav(n) = ngNavs[n] /\ n # 0 /\ target \in Urls
    BY <1>1, NgNavIs
  <1>3. /\ Nav(n).phase = "loading" /\ ngShown' = Showing(target) /\ ngMounted' = kept /\ ngTorn' = FALSE
        /\ UNCHANGED <<ngHistory, ngAt, ngBusy, ngActive>>
    BY DEF NgApplies, historyVars
  <1>4. ~Nav(n).aborted
    BY DEF NgApplies
  <1>5. ngNavs' = [ngNavs EXCEPT ![n] = x]
    BY <1>2 DEF NgApplies
  <1>6. matching \subseteq Behaviors /\ Showing(target) \in [Slots -> Urls]
    BY <1>2, NgShowingIs, NgMatchesIs
  <1>7. /\ x \in NavRecord /\ x.target = target /\ x.mode = Nav(n).mode /\ x.caller = Nav(n).caller
        /\ x.phase = "syncing" /\ x.loading = matching \ kept
    BY <1>2, <1>6 DEF NavRecord
  <1>8. x.aborted <=> Nav(n).aborted
    BY <1>2 DEF NavRecord
  <1>. HIDE DEF x
  <1>9. /\ ngNavs' \in Seq(NavRecord) /\ Len(ngNavs') = Len(ngNavs) /\ DOMAIN ngNavs' = DOMAIN ngNavs
        /\ Nav(n)' = x /\ \A m \in DOMAIN ngNavs : m # n => Nav(m)' = Nav(m)
    BY <1>1, <1>5, <1>7, NgOneChanges
  <1>10. NgShape'
    BY <1>1, <1>2, <1>3, <1>6, <1>9 DEF NgShape
  <1>11. ~ngTorn' => BehaviorsAwaited'
    BY <1>3, <1>7, <1>9 DEF BehaviorsAwaited
  <1>12. AllLinks' => OneInProgress'
    <2>1. SUFFICES ASSUME AllLinks' PROVE OneInProgress'
      OBVIOUS
    <2>2. AllLinks
      BY <2>1, <1>7, <1>9 DEF AllLinks
    <2>3. OneInProgress
      BY <2>2 DEF NgInv
    <2>4. InFlight(n) /\ InFlight(n)'
      BY <1>2, <1>3, <1>7, <1>9 DEF InFlight, Nav
    <2>5. ngActive = n
      BY <2>3, <2>4, <1>4 DEF OneInProgress
    <2>6. \A m \in DOMAIN ngNavs : (InFlight(m)' <=> InFlight(m)) /\ (Nav(m)'.aborted <=> Nav(m).aborted)
      BY <2>4, <1>8, <1>9 DEF InFlight, Nav
    <2>7. \A m \in DOMAIN ngNavs' : InFlight(m)' /\ ~Nav(m)'.aborted => m = n
      BY <2>3, <2>5, <2>6, <1>9 DEF OneInProgress
    <2>8. Here' = Here
      BY <1>3 DEF Here
    <2>9. /\ ~Nav(n)'.aborted /\ ngShown' = Showing(Nav(n)'.target) /\ Nav(n)'.mode # "apply"
          /\ Nav(n)'.mode = "pop" => Here' = Nav(n)'.target
      BY <2>3, <2>5, <2>8, <1>2, <1>3, <1>4, <1>7, <1>8, <1>9 DEF OneInProgress
    <2>. QED
      BY <2>4, <2>5, <2>7, <2>9, <1>2, <1>3 DEF OneInProgress
  <1>13. ~ngTorn' => ngMounted' \subseteq Matches(ngShown')
    BY <1>3
  <1>. QED
    BY <1>10, <1>11, <1>12, <1>13 DEF NgInv

LEMMA NgBehaviorKeeps ==
    ASSUME NgInv, NEW n \in DOMAIN ngNavs, NEW b \in Behaviors, NEW loads \in BOOLEAN, NgBehavior(n, b, loads)
    PROVE  NgInv'
  <1>. DEFINE x == [Nav(n) EXCEPT !.loading = @ \ {b}]
  <1>1. NgShape
    BY DEF NgInv
  <1>2. Nav(n) \in NavRecord /\ Nav(n) = ngNavs[n] /\ n # 0
    BY <1>1, NgNavIs
  <1>3. /\ Nav(n).phase = "syncing" /\ ngNavs' = [ngNavs EXCEPT ![n] = x]
        /\ UNCHANGED <<ngHistory, ngAt, ngShown, ngTorn, ngBusy, ngActive>>
        /\ ngMounted' = (IF loads /\ b \in Matches(ngShown) THEN ngMounted \union {b} ELSE ngMounted)
        /\ ngFailed' = (IF loads THEN ngFailed ELSE ngFailed \union {b})
    BY <1>2 DEF NgBehavior, historyVars
  <1>4. /\ x \in NavRecord /\ x.target = Nav(n).target /\ x.mode = Nav(n).mode /\ x.caller = Nav(n).caller
        /\ x.phase = "syncing" /\ x.loading = Nav(n).loading \ {b}
    BY <1>2, <1>3 DEF NavRecord
  <1>5. x.aborted <=> Nav(n).aborted
    BY <1>2 DEF NavRecord
  <1>. HIDE DEF x
  <1>6. /\ ngNavs' \in Seq(NavRecord) /\ Len(ngNavs') = Len(ngNavs) /\ DOMAIN ngNavs' = DOMAIN ngNavs
        /\ Nav(n)' = x /\ \A m \in DOMAIN ngNavs : m # n => Nav(m)' = Nav(m)
    BY <1>1, <1>3, <1>4, NgOneChanges
  <1>7. NgShape'
    BY <1>1, <1>3, <1>6 DEF NgShape
  <1>8. ~ngTorn' => BehaviorsAwaited'
    <2>1. SUFFICES ASSUME ~ngTorn, NEW c \in Matches(ngShown)
                   PROVE  \/ c \in ngMounted' \/ c \in ngFailed'
                          \/ \E m \in DOMAIN ngNavs : Nav(m)'.phase = "syncing" /\ c \in Nav(m)'.loading
      BY <1>3, <1>6 DEF BehaviorsAwaited
    <2>2. CASE c = b
      BY <2>2, <1>3
    <2>3. CASE c # b
      <3>1. \A m \in DOMAIN ngNavs : Nav(m)'.phase = Nav(m).phase /\ (c \in Nav(m).loading => c \in Nav(m)'.loading)
        BY <2>3, <1>3, <1>4, <1>6
      <3>2. ngMounted \subseteq ngMounted' /\ ngFailed \subseteq ngFailed'
        BY <1>3
      <3>. QED
        BY <2>1, <3>1, <3>2 DEF NgInv, BehaviorsAwaited
    <2>. QED
      BY <2>2, <2>3
  <1>9. AllLinks' => OneInProgress'
    <2>1. SUFFICES ASSUME AllLinks' PROVE OneInProgress'
      OBVIOUS
    <2>2. AllLinks
      BY <2>1, <1>4, <1>6 DEF AllLinks
    <2>3. OneInProgress
      BY <2>2 DEF NgInv
    <2>4. \A m \in DOMAIN ngNavs :
            /\ (InFlight(m)' <=> InFlight(m)) /\ (Nav(m)'.aborted <=> Nav(m).aborted)
            /\ Nav(m)'.target = Nav(m).target /\ Nav(m)'.mode = Nav(m).mode /\ Nav(m)'.phase = Nav(m).phase
      BY <1>3, <1>4, <1>5, <1>6 DEF InFlight, Nav
    <2>5. Here' = Here
      BY <1>3 DEF Here
    <2>6. \A m \in DOMAIN ngNavs' : InFlight(m)' /\ ~Nav(m)'.aborted => m = ngActive
      BY <2>3, <2>4, <1>6 DEF OneInProgress
    <2>7. PICK a \in 0 .. Len(ngNavs) : a = ngActive
      BY <1>1 DEF NgShape
    <2>8. a # 0 => a \in DOMAIN ngNavs
      BY <1>1 DEF NgShape
    <2>9. a # 0 =>
             /\ InFlight(a)' /\ ~Nav(a)'.aborted
             /\ Nav(a)'.phase = "syncing" => ngShown = Showing(Nav(a)'.target)
             /\ Nav(a)'.mode = "pop" => Here = Nav(a)'.target
             /\ Nav(a)'.mode # "apply"
      BY <2>3, <2>4, <2>7, <2>8 DEF OneInProgress
    <2>10. ngActive' = a /\ ngShown' = ngShown
      BY <2>7, <1>3
    <2>. QED
      BY <2>3, <2>5, <2>6, <2>7, <2>9, <2>10 DEF OneInProgress
  <1>10. ~ngTorn' => ngMounted' \subseteq Matches(ngShown')
    BY <1>3 DEF NgInv
  <1>. QED
    BY <1>7, <1>8, <1>9, <1>10 DEF NgInv

\* What is shown is committed, unless the navigation was overtaken.
LEMMA NgCommitsKeeps ==
    ASSUME NgInv, NEW n \in DOMAIN ngNavs, NgCommits(n)
    PROVE  NgInv'
  <1>. DEFINE target == Nav(n).target
  <1>1. NgShape
    BY DEF NgInv
  <1>2. target \in Urls
    BY <1>1, NgNavIs
  <1>3. InFlight(n) /\ Nav(n).phase = "syncing" /\ Nav(n).loading = {} /\ Ends(ngNavs, n) /\ UNCHANGED pageVars
    BY DEF NgCommits, InFlight, Nav
  <1>4. \/ ~Nav(n).aborted /\ (Push(target) \/ ReplaceEntry(target))
        \/ (Nav(n).mode \in {"pop", "apply"} \/ Nav(n).aborted) /\ UNCHANGED <<ngHistory, ngAt>>
    BY DEF NgCommits, Locates, historyVars
  <1>5. AllLinks /\ ~Nav(n).aborted => /\ ngShown = Showing(target) /\ Nav(n).mode # "apply"
                                       /\ Nav(n).mode = "pop" => Here = target
    <2>1. n # 0
      BY <1>1, NgNavIs
    <2>2. SUFFICES ASSUME OneInProgress, ~Nav(n).aborted
                   PROVE  /\ ngShown = Showing(target) /\ Nav(n).mode # "apply"
                          /\ Nav(n).mode = "pop" => Here = target
      BY DEF NgInv
    <2>3. ngActive = n
      BY <2>2, <1>3 DEF OneInProgress
    <2>. QED
      BY <2>1, <2>2, <2>3, <1>3 DEF OneInProgress
  <1>. HIDE DEF target
  <1>6. CASE UNCHANGED <<ngHistory, ngAt>> /\ (Nav(n).aborted \/ Nav(n).mode \in {"pop", "apply"})
    <2>1. ngHistory' \in Seq(Urls) /\ ngAt' \in DOMAIN ngHistory' /\ Here' = Here
      BY <1>1, <1>6 DEF NgShape, Here
    <2>2. AllLinks => IF Nav(n).aborted THEN Here' = Here ELSE ngShown = Showing(Here')
      BY <2>1, <1>5, <1>6
    <2>. QED
      BY <2>1, <2>2, <1>3, NgEnds
  <1>7. CASE ~Nav(n).aborted /\ (Push(target) \/ ReplaceEntry(target))
    <2>1. ngHistory' \in Seq(Urls) /\ ngAt' \in DOMAIN ngHistory' /\ Here' = target
      BY <1>1, <1>2, <1>7, NgPushIs, NgReplaceIs
    <2>2. AllLinks => IF Nav(n).aborted THEN Here' = Here ELSE ngShown = Showing(Here')
      BY <2>1, <1>5, <1>7
    <2>. QED
      BY <2>1, <2>2, <1>3, NgEnds
  <1>. QED
    BY <1>4, <1>6, <1>7

-----------------------------------------------------------------------------
(* The theorems.                                                           *)

LEMMA NgInitIsSound == NgInit => NgInv
  <1>1. SUFFICES ASSUME NgInit PROVE NgInv
    OBVIOUS
  <1>2. /\ Home \in Urls /\ Showing(Home) \in [Slots -> Urls]
        /\ Matches(Showing(Home)) \subseteq Behaviors
    BY NavigationAssumption, NgShowingIs, NgMatchesIs
  <1>3. /\ ngHistory = <<Home>> /\ ngAt = 1 /\ ngShown = Showing(Home) /\ ngActive = 0 /\ ngNavs = << >>
        /\ ngMounted = Matches(Showing(Home)) /\ ngTorn = FALSE
    BY <1>1 DEF NgInit
  <1>4. ngBusy = FALSE
    BY <1>1 DEF NgInit
  <1>5. NgShape
    <2>1. ngHistory \in Seq(Urls) /\ ngAt \in DOMAIN ngHistory
      BY <1>2, <1>3
    <2>2. ngNavs \in Seq(NavRecord) /\ Len(ngNavs) = 0
      BY <1>3
    <2>3. ngBusy \in BOOLEAN /\ (ngBusy <=> ngActive # 0) /\ ngTorn \in BOOLEAN
      BY <1>3, <1>4
    <2>4. ngActive \in 0 .. Len(ngNavs) /\ ngShown \in [Slots -> Urls] /\ ngMounted \subseteq Behaviors
      BY <1>2, <1>3, <2>2
    <2>. QED
      BY <2>1, <2>2, <2>3, <2>4 DEF NgShape
  <1>. QED
    BY <1>3, <1>5 DEF NgInv, BehaviorsAwaited, OneInProgress, Here

LEMMA NgStepKeeps == NgInv /\ [NgNext]_ngVars => NgInv'
  <1>1. SUFFICES ASSUME NgInv, [NgNext]_ngVars PROVE NgInv'
    OBVIOUS
  <1>2. CASE UNCHANGED ngVars
    BY <1>1, <1>2 DEF ngVars, NgInv, NgShape, BehaviorsAwaited, AllLinks, OneInProgress, Nav, InFlight, Here
  <1>3. CASE NgNext
    <2>1. CASE \E target \in Urls, mode \in {"push", "replace"}, caller \in Callers \ {"apply"} :
                 NgNavigate(target, mode, caller)
      BY <1>1, <2>1, NgNavigateKeeps
    <2>2. CASE \E at \in DOMAIN ngHistory : NgPop(at)
      BY <1>1, <2>2, NgPopKeeps
    <2>3. CASE "apply" \in Callers /\ \E target \in Urls : NgApply(target) \/ NgApplyOtherBuild(target)
      BY <1>1, <2>3, NgApplyKeeps, NgOtherBuildKeeps
    <2>4. ASSUME NEW n \in DOMAIN ngNavs,
                 \/ NgGivesUp(n) \/ NgFetched(n) \/ NgDropped(n) \/ NgOtherBuild(n) \/ NgFails(n) \/ NgTears(n)
                 \/ NgApplies(n) \/ NgCommits(n)
                 \/ \E b \in Behaviors, loads \in BOOLEAN : NgBehavior(n, b, loads)
          PROVE  NgInv'
      BY <1>1, <2>4, NgGivesUpKeeps, NgFetchedKeeps, NgDroppedKeeps, NgOtherBuildKeeps, NgFailsKeeps, NgTearsKeeps,
         NgAppliesKeeps, NgCommitsKeeps, NgBehaviorKeeps
    <2>. QED
      BY <1>3, <2>1, <2>2, <2>3, <2>4 DEF NgNext
  <1>. QED
    BY <1>1, <1>2, <1>3

\* The inductive invariant holds of every behavior.
THEOREM NgInvariance == NgSpec => []NgInv
  <1>1. NgInit => NgInv
    BY NgInitIsSound
  <1>2. NgInv /\ [NgNext]_ngVars => NgInv'
    BY NgStepKeeps
  <1>. QED
    BY <1>1, <1>2, PTL DEF NgSpec

\* The runtime's variables have their types (browserBootstrap, ketjs/src/server/http.ts).
THEOREM NavigationTypeCorrect == NgSpec => []NgTypeOK
  <1>1. NgInv => NgTypeOK
    <2>1. SUFFICES ASSUME NgShape PROVE NgTypeOK
      BY DEF NgInv
    <2>2. ngBusy = (ngActive # 0)
      BY <2>1 DEF NgShape
    <2>. QED
      BY <2>1, <2>2 DEF NgShape, NgTypeOK
  <1>. QED
    BY <1>1, NgInvariance, PTL

\* Where all navigations are the user's, however they overtake one another, the slots show what
\* the URL names when nothing is in flight; and whoever navigates, the behaviors mounted are then
\* those that match what is shown, until a reconciliation throws under code that handles
\* failures (`navigate`, `apply` and `syncBehaviors`).
THEOREM PagesSettle == NgSpec => []PageIsSettled
  <1>1. NgInv => PageIsSettled
    <2>1. SUFFICES ASSUME NgInv PROVE PageIsSettled
      OBVIOUS
    <2>2. AllLinks /\ Settled => ngActive = 0
      <3>1. SUFFICES ASSUME AllLinks, Settled, ngActive # 0 PROVE FALSE
        OBVIOUS
      <3>2. ngActive \in DOMAIN ngNavs
        BY <2>1, <3>1 DEF NgInv, NgShape
      <3>. QED
        BY <2>1, <3>1, <3>2 DEF NgInv, OneInProgress, Settled
    <2>3. AllLinks /\ Settled => ngShown = Showing(Here)
      BY <2>1, <2>2 DEF NgInv, OneInProgress
    <2>4. Settled => \A n \in DOMAIN ngNavs : Nav(n).phase # "syncing"
      BY DEF Settled, InFlight, Nav
    <2>5. ~ngTorn /\ Settled => Matches(ngShown) \subseteq ngMounted \union ngFailed
      BY <2>1, <2>4 DEF NgInv, BehaviorsAwaited
    <2>. QED
      BY <2>1, <2>3, <2>5 DEF NgInv, PageIsSettled, SettledShowsUrl, AllLinks
  <1>. QED
    BY <1>1, NgInvariance, PTL

\* A navigation that was overtaken changes neither the slots nor the history, whoever began it,
\* and mounts only behaviors that match what is shown by then (`syncBehaviors` goes on for those
\* it has asked for).
THEOREM OvertakenNavigationsAreMute == NgSpec => OvertakenIsMute
  <1>. DEFINE Quiet == UNCHANGED <<ngShown, historyVars>> /\ ngMounted' \subseteq ngMounted \union Matches(ngShown)
              Mute == \A n \in DOMAIN ngNavs :
                        n \in DOMAIN ngNavs' /\ Nav(n).aborted /\ ngNavs'[n] # Nav(n) => Quiet
  <1>1. NgShape /\ [NgNext]_ngVars => [Mute]_ngVars
    <2>1. SUFFICES ASSUME NgShape, NgNext PROVE Mute
      OBVIOUS
    <2>2. CASE Quiet
      BY <2>2
    <2>3. ASSUME NEW at \in DOMAIN ngHistory, NgPop(at) PROVE Mute
      <3>1. SUFFICES ASSUME NEW n \in DOMAIN ngNavs, Nav(n).aborted PROVE ngNavs'[n] = Nav(n)
        OBVIOUS
      <3>. DEFINE x == Begun(ngHistory[at], "pop", "link", "fetching")
      <3>2. ngNavs' = Append(Abort(ngNavs, ngActive), x) /\ ngNavs \in Seq(NavRecord)
        BY <2>1, <2>3 DEF NgPop, Begin, NgShape
      <3>. HIDE DEF x
      <3>3. Nav(n) \in NavRecord /\ Nav(n) = ngNavs[n] /\ n \in 1 .. Len(ngNavs)
        BY <2>1, NgNavIs DEF NgShape
      <3>4. CASE ngActive # n
        BY <3>2, <3>3, <3>4, <2>1 DEF Abort, NgShape
      <3>5. CASE ngActive = n
        <4>. DEFINE y == [Nav(n) EXCEPT !.aborted = TRUE]
        <4>1. y = Nav(n)
          BY <3>1, <3>3 DEF NavRecord
        <4>2. Abort(ngNavs, ngActive) = [ngNavs EXCEPT ![n] = y]
          BY <3>3, <3>5 DEF Abort
        <4>. HIDE DEF y
        <4>. QED
          BY <4>1, <4>2, <3>2, <3>3
      <3>. QED
        BY <3>4, <3>5
    <2>4. ASSUME NEW url, HardNavigate(url) PROVE Mute
      BY <2>4 DEF HardNavigate
    <2>5. ASSUME NEW n \in DOMAIN ngNavs, NgFails(n) PROVE Mute
      <3>1. CASE Handled(n)
        BY <2>2, <2>5, <3>1 DEF NgFails, pageVars
      <3>2. CASE ~Handled(n)
        BY <2>4, <2>5, <3>2 DEF NgFails
      <3>. QED
        BY <3>1, <3>2
    <2>6. ASSUME NEW n \in DOMAIN ngNavs, NgApplies(n) PROVE Mute
      <3>1. ~Nav(n).aborted /\ \A m \in DOMAIN ngNavs : m # n => ngNavs'[m] = ngNavs[m]
        BY <2>1, <2>6 DEF NgApplies, NgShape
      <3>. QED
        BY <3>1 DEF Nav
    <2>7. ASSUME NEW n \in DOMAIN ngNavs, NgTears(n) PROVE Mute
      <3>1. ~Nav(n).aborted /\ \A m \in DOMAIN ngNavs : m # n => ngNavs'[m] = ngNavs[m]
        BY <2>1, <2>7 DEF NgTears, Ends, NgShape
      <3>. QED
        BY <3>1 DEF Nav
    <2>8. ASSUME NEW n \in DOMAIN ngNavs, NgCommits(n) PROVE Mute
      <3>1. \A m \in DOMAIN ngNavs : m # n => ngNavs'[m] = ngNavs[m]
        BY <2>1, <2>8 DEF NgCommits, Ends, NgShape
      <3>2. Nav(n).aborted => Quiet
        BY <2>8 DEF NgCommits, pageVars
      <3>. QED
        BY <3>1, <3>2 DEF Nav
    <2>9. CASE \E target \in Urls, mode \in {"push", "replace"}, caller \in Callers \ {"apply"} :
                 NgNavigate(target, mode, caller)
      BY <2>2, <2>9 DEF NgNavigate, Begin, pageVars
    <2>10. CASE \E target \in Urls : NgApply(target) \/ NgApplyOtherBuild(target)
      BY <2>2, <2>4, <2>10 DEF NgApply, NgApplyOtherBuild, pageVars
    <2>11. ASSUME NEW n \in DOMAIN ngNavs, NgGivesUp(n) \/ NgFetched(n) \/ NgDropped(n) \/ NgOtherBuild(n)
           PROVE  Mute
      BY <2>2, <2>4, <2>11 DEF NgGivesUp, NgFetched, NgDropped, NgOtherBuild, pageVars
    <2>12. ASSUME NEW n \in DOMAIN ngNavs, NEW b \in Behaviors, NEW loads \in BOOLEAN, NgBehavior(n, b, loads)
           PROVE  Mute
      BY <2>2, <2>12 DEF NgBehavior
    <2>. HIDE DEF Mute
    <2>. QED
      BY <2>1, <2>3, <2>5, <2>6, <2>7, <2>8, <2>9, <2>10, <2>11, <2>12 DEF NgNext
  <1>2. NgInv => NgShape
    BY DEF NgInv
  <1>. QED
    BY <1>1, <1>2, NgInvariance, PTL DEF NgSpec, OvertakenIsMute

-----------------------------------------------------------------------------
(* Stores.                                                                 *)

-----------------------------------------------------------------------------
(* The inductive invariant.                                                *)

\* The calls of attach() under way are of different lifetimes, and what a connector is still to
\* make none has made before.
AttachingApart ==
    \A i \in DOMAIN stAttaching :
        /\ \A j \in DOMAIN stAttaching : i # j => stAttaching[i].lifetime # stAttaching[j].lifetime
        /\ \A k \in stCleanup[stAttaching[i].lifetime].made : k < stAttaching[i].at

\* A cleanup is called when what was made is no longer held, and only then.
CalledOnce(c) == c.held \subseteq c.made /\ \A i \in 1 .. Connectors : c.called[i] = (IF i \in c.made \ c.held THEN 1 ELSE 0)

\* What is attached is of a lifetime that goes on, and of a store that is not disposed.
AttachedGoesOn == stAttached # NoLifetime => stAttached \notin stEnded /\ ~stDisposed

WiringKept ==
    \A l \in Lifetimes :
        /\ CalledOnce(stCleanup[l])
        /\ stCleanup[l].held # {} => stAttached = l

StoreInv == StTypeOK /\ AttachingApart /\ AttachedGoesOn /\ WiringKept /\ TaskSpeaksOfCurrent

-----------------------------------------------------------------------------
(* Cleanups.                                                               *)

LEMMA NoCleanupIs ==
    NoCleanup \in Cleanup /\ NoCleanup.held = {} /\ NoCleanup.made = {} /\ CalledOnce(NoCleanup)
  BY DEF NoCleanup, Cleanup, CalledOnce

LEMMA CallsIs ==
    ASSUME NEW c \in Cleanup, NEW cs \in SUBSET (1 .. Connectors)
    PROVE  /\ Calls(c, cs) \in Cleanup
           /\ Calls(c, cs).held = c.held \ cs /\ Calls(c, cs).made = c.made
           /\ \A i \in 1 .. Connectors : Calls(c, cs).called[i] = (IF i \in cs THEN c.called[i] + 1 ELSE c.called[i])
  <1>. DEFINE f == [i \in 1 .. Connectors |-> IF i \in cs THEN c.called[i] + 1 ELSE c.called[i]]
              g == c.held \ cs
  <1>1. c.held \in SUBSET (1 .. Connectors) /\ c.made \in SUBSET (1 .. Connectors) /\ c.called \in [1 .. Connectors -> Nat]
    BY DEF Cleanup
  <1>2. f \in [1 .. Connectors -> Nat] /\ g \in SUBSET (1 .. Connectors)
    <2>1. \A i \in 1 .. Connectors : c.called[i] \in Nat
      BY <1>1
    <2>2. \A i \in 1 .. Connectors : (IF i \in cs THEN c.called[i] + 1 ELSE c.called[i]) \in Nat
      BY <2>1
    <2>. QED
      BY <1>1, <2>2
  <1>3. \A i \in 1 .. Connectors : f[i] = (IF i \in cs THEN c.called[i] + 1 ELSE c.called[i])
    OBVIOUS
  <1>4. Calls(c, cs) = [c EXCEPT !.held = g, !.called = f]
    BY DEF Calls
  <1>. HIDE DEF f, g
  <1>5. /\ [c EXCEPT !.held = g, !.called = f] \in Cleanup
        /\ [c EXCEPT !.held = g, !.called = f].held = g /\ [c EXCEPT !.held = g, !.called = f].made = c.made
        /\ [c EXCEPT !.held = g, !.called = f].called = f
    BY <1>2 DEF Cleanup
  <1>. QED
    BY <1>3, <1>4, <1>5 DEF g

\* All that is held is called: then nothing is.
LEMMA CallsHeld ==
    ASSUME NEW c \in Cleanup, CalledOnce(c)
    PROVE  /\ Calls(c, c.held) \in Cleanup /\ CalledOnce(Calls(c, c.held))
           /\ Calls(c, c.held).held = {} /\ Calls(c, c.held).made = c.made
  <1>1. c.held \in SUBSET (1 .. Connectors)
    BY DEF Cleanup
  <1>. DEFINE d == Calls(c, c.held)
  <1>2. /\ d \in Cleanup /\ d.held = {} /\ d.made = c.made
        /\ \A i \in 1 .. Connectors : d.called[i] = (IF i \in c.held THEN c.called[i] + 1 ELSE c.called[i])
    BY <1>1, CallsIs
  <1>. HIDE DEF d
  <1>3. CalledOnce(d)
    BY <1>2 DEF CalledOnce
  <1>. QED
    BY <1>2, <1>3 DEF d

\* One that is made after the attachment is over is called at once.
MadeAndCalled(c, i) == Calls([c EXCEPT !.made = @ \union {i}], {i})

LEMMA CalledAtOnce ==
    ASSUME NEW c \in Cleanup, CalledOnce(c), NEW i \in 1 .. Connectors, i \notin c.made
    PROVE  /\ MadeAndCalled(c, i) \in Cleanup /\ CalledOnce(MadeAndCalled(c, i))
           /\ MadeAndCalled(c, i).held = c.held /\ MadeAndCalled(c, i).made = c.made \union {i}
  <1>. DEFINE m == c.made \union {i}
              b == [c EXCEPT !.made = m]
              d == Calls(b, {i})
  <1>1. m \in SUBSET (1 .. Connectors)
    BY DEF Cleanup
  <1>2. b \in Cleanup /\ b.held = c.held /\ b.made = m /\ b.called = c.called
    BY <1>1 DEF Cleanup
  <1>3. MadeAndCalled(c, i) = d
    BY DEF MadeAndCalled
  <1>. HIDE DEF b, m
  <1>4. /\ d \in Cleanup /\ d.held = b.held \ {i} /\ d.made = b.made
        /\ \A k \in 1 .. Connectors : d.called[k] = (IF k \in {i} THEN b.called[k] + 1 ELSE b.called[k])
    BY <1>2, CallsIs
  <1>. HIDE DEF d
  <1>5. i \notin c.held /\ c.held \subseteq c.made
    BY DEF CalledOnce
  <1>6. d.held = c.held /\ d.made = c.made \union {i}
    BY <1>2, <1>4, <1>5 DEF m
  <1>7. CalledOnce(d)
    BY <1>2, <1>4, <1>5, <1>6 DEF CalledOnce
  <1>. QED
    BY <1>3, <1>4, <1>6, <1>7

\* One that is made while attached is held.
MadeAndHeld(c, i) == [c EXCEPT !.held = @ \union {i}, !.made = @ \union {i}]

LEMMA HeldWhenMade ==
    ASSUME NEW c \in Cleanup, CalledOnce(c), NEW i \in 1 .. Connectors, i \notin c.made
    PROVE  /\ MadeAndHeld(c, i) \in Cleanup /\ CalledOnce(MadeAndHeld(c, i))
           /\ MadeAndHeld(c, i).made = c.made \union {i}
  <1>. DEFINE m == c.made \union {i}
              h == c.held \union {i}
              d == [c EXCEPT !.held = h, !.made = m]
  <1>1. m \in SUBSET (1 .. Connectors) /\ h \in SUBSET (1 .. Connectors)
    BY DEF Cleanup
  <1>2. d \in Cleanup /\ d.held = h /\ d.made = m /\ d.called = c.called
    BY <1>1 DEF Cleanup
  <1>3. MadeAndHeld(c, i) = d
    BY DEF MadeAndHeld
  <1>. HIDE DEF d
  <1>4. CalledOnce(d)
    BY <1>2 DEF CalledOnce
  <1>. QED
    BY <1>2, <1>3, <1>4

-----------------------------------------------------------------------------
(* Runs.                                                                   *)

\* Every run in flight is aborted, and none has the task.
LEMMA AbortsRunsKeeps ==
    ASSUME StTypeOK, TaskSpeaksOfCurrent, AbortsRuns(stDisposed') , stDisposed => stDisposed', stDisposed' \in BOOLEAN
    PROVE  stRun' \in [TaskRuns -> TaskRun] /\ stTask' \in Task /\ TaskSpeaksOfCurrent'
  <1>. DEFINE x(r) == [stRun[r] EXCEPT !.aborted = TRUE]
              f(r) == IF Working(r) THEN x(r) ELSE stRun[r]
  <1>1. stRun \in [TaskRuns -> TaskRun] /\ stTask \in Task
    BY DEF StTypeOK
  <1>2. \A r \in TaskRuns : x(r) \in TaskRun /\ x(r).at = stRun[r].at
    BY <1>1 DEF TaskRun
  <1>3. \A r \in TaskRuns : x(r).aborted
    BY <1>1 DEF TaskRun
  <1>4. stRun' = [r \in TaskRuns |-> f(r)]
    BY DEF AbortsRuns
  <1>5. stTask' = IF stTask.current = NoRun THEN stTask ELSE Freed(stTask, stDisposed')
    BY DEF AbortsRuns
  <1>. HIDE DEF x
  <1>6. \A r \in TaskRuns : f(r) \in TaskRun /\ f(r).at = stRun[r].at /\ (Working(r) => f(r).aborted)
    BY <1>1, <1>2, <1>3
  <1>. HIDE DEF f
  <1>7. /\ stRun' \in [TaskRuns -> TaskRun]
        /\ \A r \in TaskRuns : stRun'[r].at = stRun[r].at /\ (Working(r) => stRun'[r].aborted)
    BY <1>4, <1>6
  <1>8. /\ stTask' \in Task /\ stTask'.current = NoRun /\ stTask'.error = stTask.error
        /\ ~stDisposed' => stTask'.pending = FALSE
    <2>1. CASE stTask.current = NoRun
      <3>1. stTask' = stTask
        BY <2>1, <1>5
      <3>2. ~stDisposed => stTask.pending = FALSE
        BY <2>1, <1>1 DEF TaskSpeaksOfCurrent, Task
      <3>. QED
        BY <2>1, <3>1, <3>2, <1>1
    <2>2. CASE stTask.current # NoRun
      <3>. DEFINE p == IF stDisposed' THEN stTask.pending ELSE FALSE
                  t == [stTask EXCEPT !.current = NoRun, !.pending = p]
      <3>1. stTask' = t /\ p \in BOOLEAN
        BY <2>2, <1>1, <1>5 DEF Freed, Task
      <3>2. ~stDisposed' => p = FALSE
        OBVIOUS
      <3>. HIDE DEF p
      <3>3. t \in Task /\ t.current = NoRun /\ t.error = stTask.error /\ t.pending = p
        BY <1>1, <3>1 DEF Task
      <3>. HIDE DEF t
      <3>. QED
        BY <3>1, <3>2, <3>3
    <2>. QED
      BY <2>1, <2>2
  <1>9. \A r \in TaskRuns : ~(Working(r)' /\ ~stRun'[r].aborted)
    BY <1>7 DEF Working
  <1>10. stTask'.error # NoRun => stRun'[stTask'.error].at = "failed"
    <2>1. stTask.error # NoRun => stTask.error \in TaskRuns
      BY <1>1 DEF Task
    <2>. QED
      BY <2>1, <1>7, <1>8 DEF TaskSpeaksOfCurrent
  <1>11. NoRun \notin TaskRuns
    BY StoreAssumption
  <1>12. \A r \in TaskRuns : Working(r)' /\ ~stRun'[r].aborted <=> stTask'.current = r
    BY <1>8, <1>9, <1>11
  <1>13. ~stDisposed' => (stTask'.pending <=> stTask'.current # NoRun)
    BY <1>8
  <1>. QED
    BY <1>7, <1>8, <1>10, <1>12, <1>13 DEF TaskSpeaksOfCurrent

\* An attachment that ends calls what it holds, in whichever way it ends.
LetsGo ==
    /\ stAttached' = NoLifetime
    /\ stCleanup' = IF stAttached = NoLifetime THEN stCleanup
                    ELSE [stCleanup EXCEPT ![stAttached] = Calls(stCleanup[stAttached], stCleanup[stAttached].held)]

LEMMA LetsGoKeeps ==
    ASSUME StTypeOK, WiringKept, LetsGo
    PROVE  /\ stAttached' \in Lifetimes \union {NoLifetime} /\ stCleanup' \in [Lifetimes -> Cleanup]
           /\ \A l \in Lifetimes : stCleanup'[l].made = stCleanup[l].made
           /\ WiringKept' /\ AttachedGoesOn'
  <1>1. stCleanup \in [Lifetimes -> Cleanup] /\ stAttached' = NoLifetime
    BY DEF StTypeOK, LetsGo
  <1>2. AttachedGoesOn'
    BY <1>1 DEF AttachedGoesOn
  <1>3. CASE stAttached = NoLifetime
    <2>1. stCleanup' = stCleanup /\ NoLifetime \notin Lifetimes
      BY <1>3, StoreAssumption DEF LetsGo
    <2>2. WiringKept'
      BY <1>1, <1>3, <2>1 DEF WiringKept
    <2>. QED
      BY <1>1, <1>2, <2>1, <2>2
  <1>4. CASE stAttached # NoLifetime
    <2>1. PICK a \in Lifetimes : a = stAttached
      BY <1>4 DEF StTypeOK
    <2>. DEFINE d == Calls(stCleanup[a], stCleanup[a].held)
    <2>2. d \in Cleanup /\ CalledOnce(d) /\ d.held = {} /\ d.made = stCleanup[a].made
      BY <1>1, CallsHeld DEF WiringKept
    <2>3. stCleanup' = [stCleanup EXCEPT ![a] = d]
      BY <1>4, <2>1 DEF LetsGo
    <2>. HIDE DEF d
    <2>4. stCleanup' \in [Lifetimes -> Cleanup] /\ stCleanup'[a] = d
          /\ \A l \in Lifetimes : l # a => stCleanup'[l] = stCleanup[l]
      BY <1>1, <2>2, <2>3
    <2>5. \A l \in Lifetimes : stCleanup'[l].made = stCleanup[l].made
      BY <2>2, <2>4
    <2>6. \A l \in Lifetimes : CalledOnce(stCleanup'[l]) /\ stCleanup'[l].held = {}
      BY <2>1, <2>2, <2>4 DEF WiringKept
    <2>7. WiringKept'
      BY <2>6 DEF WiringKept, CalledOnce
    <2>. QED
      BY <1>1, <1>2, <2>4, <2>5, <2>7
  <1>. QED
    BY <1>3, <1>4

LEMMA DetachesKeeps ==
    ASSUME StTypeOK, WiringKept, AttachedGoesOn, TaskSpeaksOfCurrent, Detaches(stDisposed), stDisposed' = stDisposed,
           stAttached = NoLifetime \/ stEnded' = stEnded \/ stEnded' = stEnded \union {stAttached}
    PROVE  /\ stAttached' \in Lifetimes \union {NoLifetime} /\ stCleanup' \in [Lifetimes -> Cleanup]
           /\ stRun' \in [TaskRuns -> TaskRun] /\ stTask' \in Task
           /\ \A l \in Lifetimes : stCleanup'[l].made = stCleanup[l].made
           /\ WiringKept' /\ AttachedGoesOn' /\ TaskSpeaksOfCurrent'
  <1>1. CASE stAttached = NoLifetime
    <2>1. UNCHANGED <<stAttached, stCleanup, stRun, stTask>>
      BY <1>1 DEF Detaches
    <2>2. WiringKept' /\ AttachedGoesOn' /\ TaskSpeaksOfCurrent'
      BY <1>1, <2>1 DEF WiringKept, CalledOnce, AttachedGoesOn, TaskSpeaksOfCurrent, Working
    <2>. QED
      BY <2>1, <2>2 DEF StTypeOK
  <1>2. CASE stAttached # NoLifetime
    <2>1. LetsGo /\ AbortsRuns(stDisposed')
      BY <1>2 DEF Detaches, LetsGo
    <2>2. stDisposed' \in BOOLEAN
      BY DEF StTypeOK
    <2>. QED
      BY <2>1, <2>2, LetsGoKeeps, AbortsRunsKeeps
  <1>. QED
    BY <1>1, <1>2

\* Calls of attach() return or throw: those outside go on.
LEMMA OutsideIs ==
    ASSUME StTypeOK, Connecting
    PROVE  /\ Outside \in Seq(Attaching) /\ Len(Outside) = Len(stAttaching) - 1
           /\ Len(stAttaching) \in DOMAIN stAttaching /\ Inside \in Attaching /\ Inside = stAttaching[Len(stAttaching)]
           /\ \A i \in DOMAIN Outside : i \in DOMAIN stAttaching /\ Outside[i] = stAttaching[i] /\ i # Len(stAttaching)
  <1>1. stAttaching \in Seq(Attaching) /\ stAttaching # << >>
    BY DEF StTypeOK, Connecting
  <1>2. Len(stAttaching) \in Nat /\ Len(stAttaching) # 0 /\ DOMAIN stAttaching = 1 .. Len(stAttaching)
    BY <1>1, EmptySeq
  <1>3. Outside \in Seq(Attaching) /\ Len(Outside) = Len(stAttaching) - 1
        /\ \A i \in 1 .. Len(stAttaching) - 1 : Outside[i] = stAttaching[i]
    BY <1>1, <1>2 DEF Outside
  <1>4. DOMAIN Outside = 1 .. Len(stAttaching) - 1
    BY <1>3
  <1>. QED
    BY <1>1, <1>2, <1>3, <1>4 DEF Inside

LEMMA AttachingApartKept ==
    ASSUME StTypeOK, AttachingApart, stCleanup' \in [Lifetimes -> Cleanup],
           stAttaching' = stAttaching \/ (Connecting /\ stAttaching' = Outside),
           \A l \in Lifetimes :
               (\A i \in DOMAIN stAttaching' : stAttaching[i].lifetime # l) \/ stCleanup'[l].made = stCleanup[l].made
    PROVE  stAttaching' \in Seq(Attaching) /\ AttachingApart'
  <1>1. /\ stAttaching' \in Seq(Attaching)
        /\ \A i \in DOMAIN stAttaching' : i \in DOMAIN stAttaching /\ stAttaching'[i] = stAttaching[i]
    BY OutsideIs DEF StTypeOK
  <1>2. \A i \in DOMAIN stAttaching : stAttaching[i].lifetime \in Lifetimes
    <2>1. \A i \in DOMAIN stAttaching : stAttaching[i] \in Attaching
      BY DEF StTypeOK
    <2>. QED
      BY <2>1 DEF Attaching
  <1>. QED
    BY <1>1, <1>2 DEF AttachingApart

-----------------------------------------------------------------------------
(* The steps.                                                              *)

LEMMA StAttachKeeps ==
    ASSUME StoreInv, NEW l \in Lifetimes, StAttach(l)
    PROVE  StoreInv'
  <1>. DEFINE x == [lifetime |-> l, at |-> 1]
  <1>1. /\ stAttached' = l /\ stAttaching' = Append(stAttaching, x) /\ l \notin stEnded
        /\ stCleanup[l] = NoCleanup /\ stAttached = NoLifetime
        /\ UNCHANGED <<stConcurrency, stDisposed, stEnded, stCleanup, stRun, stTask>>
    BY DEF StAttach
  <1>2. ~stDisposed
    BY DEF StAttach
  <1>3. \A i \in DOMAIN stAttaching : stAttaching[i].lifetime # l
    BY DEF StAttach
  <1>4. x \in Attaching /\ x.lifetime = l /\ x.at = 1
    BY StoreAssumption DEF Attaching
  <1>. HIDE DEF x
  <1>5. StTypeOK
    BY DEF StoreInv
  <1>6. stAttaching \in Seq(Attaching)
    BY <1>5 DEF StTypeOK
  <1>7. PICK n \in Nat : n = Len(stAttaching) + 1
    BY <1>6
  <1>8. /\ stAttaching' \in Seq(Attaching) /\ DOMAIN stAttaching' = DOMAIN stAttaching \union {n}
        /\ stAttaching'[n] = x /\ \A i \in DOMAIN stAttaching : stAttaching'[i] = stAttaching[i] /\ i # n
    BY <1>1, <1>4, <1>6, <1>7
  <1>9. StTypeOK'
    BY <1>1, <1>5, <1>8 DEF StTypeOK
  <1>10. AttachingApart'
    <2>1. stCleanup[l].made = {}
      BY <1>1, NoCleanupIs
    <2>2. SUFFICES ASSUME NEW i \in DOMAIN stAttaching'
                   PROVE  /\ \A j \in DOMAIN stAttaching' : i # j => stAttaching'[i].lifetime # stAttaching'[j].lifetime
                          /\ \A k \in stCleanup[stAttaching'[i].lifetime].made : k < stAttaching'[i].at
      BY <1>1 DEF AttachingApart
    <2>3. CASE i = n
      BY <1>3, <1>4, <1>8, <2>1, <2>3
    <2>4. CASE i # n
      BY <1>3, <1>4, <1>8, <2>4 DEF StoreInv, AttachingApart
    <2>. QED
      BY <2>3, <2>4
  <1>11. AttachedGoesOn'
    BY <1>1, <1>2 DEF AttachedGoesOn
  <1>12. WiringKept'
    <2>1. \A m \in Lifetimes : CalledOnce(stCleanup[m]) /\ stCleanup[m].held = {}
      BY <1>1, StoreAssumption DEF StoreInv, WiringKept
    <2>. QED
      BY <1>1, <2>1 DEF WiringKept, CalledOnce
  <1>13. TaskSpeaksOfCurrent'
    BY <1>1 DEF StoreInv, TaskSpeaksOfCurrent, Working
  <1>. QED
    BY <1>9, <1>10, <1>11, <1>12, <1>13 DEF StoreInv

\* The attachment is still the one the connector was called for, or is over.
LEMMA StConnectsKeeps ==
    ASSUME StoreInv, StConnects
    PROVE  StoreInv'
  <1>1. StTypeOK /\ Connecting /\ stCleanup \in [Lifetimes -> Cleanup]
    BY DEF StoreInv, StConnects, StTypeOK
  <1>2. PICK top \in DOMAIN stAttaching : top = Len(stAttaching) /\ Inside = stAttaching[top] /\ Inside \in Attaching
    BY <1>1, OutsideIs
  <1>. DEFINE l == Inside.lifetime
              i == Inside.at
              c == stCleanup[l]
  <1>3. l \in Lifetimes /\ i \in 1 .. Connectors /\ c \in Cleanup /\ CalledOnce(c)
    BY <1>1, <1>2 DEF Attaching, StoreInv, WiringKept
  <1>4. i \notin c.made /\ \A k \in c.made : k < i
    BY <1>2, <1>3 DEF StoreInv, AttachingApart
  <1>5. UNCHANGED <<stConcurrency, stDisposed, stAttached, stEnded, stRun, stTask>>
    BY DEF StConnects
  <1>6. PICK d \in Cleanup :
          /\ stCleanup' = [stCleanup EXCEPT ![l] = d]
          /\ CalledOnce(d) /\ d.made = c.made \union {i}
          /\ d.held # {} => stAttached = l
    <2>1. CASE StillAttached(l)
      <3>1. stCleanup' = [stCleanup EXCEPT ![l].held = @ \union {i}, ![l].made = @ \union {i}]
        BY <2>1 DEF StConnects
      <3>2. stCleanup' = [stCleanup EXCEPT ![l] = MadeAndHeld(c, i)]
        BY <1>1, <1>3, <3>1 DEF MadeAndHeld
      <3>3. /\ MadeAndHeld(c, i) \in Cleanup /\ CalledOnce(MadeAndHeld(c, i))
            /\ MadeAndHeld(c, i).made = c.made \union {i} /\ stAttached = l
        BY <1>3, <1>4, <2>1, HeldWhenMade DEF StillAttached
      <3>. QED
        BY <3>2, <3>3
    <2>2. CASE ~StillAttached(l)
      <3>1. stCleanup' = [stCleanup EXCEPT ![l] = MadeAndCalled(c, i)]
        BY <2>2 DEF StConnects, MadeAndCalled
      <3>2. /\ MadeAndCalled(c, i) \in Cleanup /\ CalledOnce(MadeAndCalled(c, i))
            /\ MadeAndCalled(c, i).made = c.made \union {i} /\ MadeAndCalled(c, i).held = c.held
        BY <1>3, <1>4, CalledAtOnce
      <3>3. c.held # {} => stAttached = l
        BY <1>3 DEF StoreInv, WiringKept
      <3>. QED
        BY <3>1, <3>2, <3>3
    <2>. QED
      BY <2>1, <2>2
  <1>7. \/ stAttaching' = Outside
        \/ i # Connectors /\ stAttaching' = [stAttaching EXCEPT ![top].at = i + 1]
    BY <1>2 DEF StConnects
  <1>8. \A m \in DOMAIN stAttaching : m # top => stAttaching[m].lifetime # l
    BY <1>2 DEF StoreInv, AttachingApart
  <1>. HIDE DEF l, i, c
  <1>9. /\ stCleanup' \in [Lifetimes -> Cleanup] /\ stCleanup'[l] = d
        /\ \A m \in Lifetimes : m # l => stCleanup'[m] = stCleanup[m]
    BY <1>1, <1>3, <1>6
  <1>10. stAttaching' \in Seq(Attaching) /\ AttachingApart'
    <2>1. CASE stAttaching' = Outside
      <3>1. \A m \in DOMAIN stAttaching' : m \in DOMAIN stAttaching /\ m # top
        BY <1>1, <1>2, <2>1, OutsideIs
      <3>2. \A m \in Lifetimes :
              (\A k \in DOMAIN stAttaching' : stAttaching[k].lifetime # m) \/ stCleanup'[m].made = stCleanup[m].made
        BY <1>8, <1>9, <3>1
      <3>. QED
        BY <1>1, <1>9, <2>1, <3>2, AttachingApartKept DEF StoreInv
    <2>2. CASE i # Connectors /\ stAttaching' = [stAttaching EXCEPT ![top].at = i + 1]
      <3>. DEFINE x == [stAttaching[top] EXCEPT !.at = i + 1]
      <3>1. i + 1 \in 1 .. Connectors
        BY <1>3, <2>2, StoreAssumption
      <3>2. x \in Attaching /\ x.lifetime = l /\ x.at = i + 1
        BY <1>2, <3>1 DEF Attaching, l
      <3>3. stAttaching' = [stAttaching EXCEPT ![top] = x] /\ stAttaching \in Seq(Attaching)
        BY <1>1, <2>2 DEF StTypeOK
      <3>. HIDE DEF x
      <3>4. /\ stAttaching' \in Seq(Attaching) /\ DOMAIN stAttaching' = DOMAIN stAttaching /\ stAttaching'[top] = x
            /\ \A m \in DOMAIN stAttaching : m # top => stAttaching'[m] = stAttaching[m]
        BY <3>2, <3>3
      <3>5. \A k \in d.made : k < i + 1
        BY <1>3, <1>4, <1>6 DEF Cleanup
      <3>6. AttachingApart'
        <4>1. SUFFICES ASSUME NEW m \in DOMAIN stAttaching
                       PROVE  /\ \A j \in DOMAIN stAttaching : m # j => stAttaching'[m].lifetime # stAttaching'[j].lifetime
                              /\ \A k \in stCleanup'[stAttaching'[m].lifetime].made : k < stAttaching'[m].at
          BY <3>4 DEF AttachingApart
        <4>2. CASE m = top
          BY <4>2, <1>8, <1>9, <3>2, <3>4, <3>5
        <4>3. CASE m # top
          <5>1. stAttaching'[m] = stAttaching[m] /\ stAttaching[m].lifetime # l /\ stAttaching[m].lifetime \in Lifetimes
            <6>1. stAttaching[m] \in Attaching
              BY <3>3
            <6>. QED
              BY <4>3, <6>1, <1>8, <3>4 DEF Attaching
          <5>2. stCleanup'[stAttaching'[m].lifetime] = stCleanup[stAttaching[m].lifetime]
            BY <5>1, <1>9
          <5>. QED
            BY <5>1, <5>2, <3>2, <3>4 DEF StoreInv, AttachingApart
        <4>. QED
          BY <4>2, <4>3
      <3>. QED
        BY <3>4, <3>6
    <2>. QED
      BY <1>7, <2>1, <2>2
  <1>11. StTypeOK'
    BY <1>1, <1>5, <1>9, <1>10 DEF StTypeOK
  <1>12. WiringKept'
    <2>1. \A m \in Lifetimes : CalledOnce(stCleanup'[m]) /\ (stCleanup'[m].held # {} => stAttached = m)
      BY <1>6, <1>9 DEF StoreInv, WiringKept
    <2>. QED
      BY <1>5, <2>1 DEF WiringKept, CalledOnce
  <1>13. AttachedGoesOn' /\ TaskSpeaksOfCurrent'
    BY <1>5 DEF StoreInv, AttachedGoesOn, TaskSpeaksOfCurrent, Working
  <1>. QED
    BY <1>10, <1>11, <1>12, <1>13 DEF StoreInv

LEMMA StConnectThrowsKeeps ==
    ASSUME StoreInv, StConnectThrows
    PROVE  StoreInv'
  <1>1. StTypeOK /\ Connecting /\ stAttaching' = Outside /\ Detaches(stDisposed)
        /\ UNCHANGED <<stConcurrency, stDisposed, stEnded>>
    BY DEF StoreInv, StConnectThrows
  <1>2. /\ stAttached' \in Lifetimes \union {NoLifetime} /\ stCleanup' \in [Lifetimes -> Cleanup]
        /\ stRun' \in [TaskRuns -> TaskRun] /\ stTask' \in Task
        /\ \A l \in Lifetimes : stCleanup'[l].made = stCleanup[l].made
        /\ WiringKept' /\ AttachedGoesOn' /\ TaskSpeaksOfCurrent'
    BY <1>1, DetachesKeeps DEF StoreInv
  <1>3. stAttaching' \in Seq(Attaching) /\ AttachingApart'
    BY <1>1, <1>2, AttachingApartKept DEF StoreInv
  <1>4. StTypeOK'
    BY <1>1, <1>2, <1>3 DEF StTypeOK
  <1>. QED
    BY <1>2, <1>3, <1>4 DEF StoreInv

LEMMA StLifetimeEndsKeeps ==
    ASSUME StoreInv, NEW l \in Lifetimes, StLifetimeEnds(l)
    PROVE  StoreInv'
  <1>1. StTypeOK /\ stEnded' = stEnded \union {l} /\ UNCHANGED <<stConcurrency, stDisposed, stAttaching>>
    BY DEF StoreInv, StLifetimeEnds
  <1>2. /\ stAttached' \in Lifetimes \union {NoLifetime} /\ stCleanup' \in [Lifetimes -> Cleanup]
        /\ stRun' \in [TaskRuns -> TaskRun] /\ stTask' \in Task
        /\ \A m \in Lifetimes : stCleanup'[m].made = stCleanup[m].made
        /\ WiringKept' /\ AttachedGoesOn' /\ TaskSpeaksOfCurrent'
    <2>1. CASE stAttached = l
      <3>1. Detaches(stDisposed) /\ stEnded' = stEnded \union {stAttached}
        BY <1>1, <2>1 DEF StLifetimeEnds
      <3>. QED
        BY <1>1, <3>1, DetachesKeeps DEF StoreInv
    <2>2. CASE stAttached # l
      <3>1. UNCHANGED <<stAttached, stCleanup, stRun, stTask>>
        BY <2>2 DEF StLifetimeEnds
      <3>2. AttachedGoesOn'
        BY <1>1, <2>2, <3>1 DEF StoreInv, AttachedGoesOn
      <3>3. WiringKept' /\ TaskSpeaksOfCurrent'
        BY <1>1, <3>1 DEF StoreInv, WiringKept, CalledOnce, TaskSpeaksOfCurrent, Working
      <3>. QED
        BY <1>1, <3>1, <3>2, <3>3 DEF StTypeOK
    <2>. QED
      BY <2>1, <2>2
  <1>3. stAttaching' \in Seq(Attaching) /\ AttachingApart'
    BY <1>1, <1>2, AttachingApartKept DEF StoreInv
  <1>4. StTypeOK'
    BY <1>1, <1>2, <1>3 DEF StTypeOK
  <1>. QED
    BY <1>2, <1>3, <1>4 DEF StoreInv

LEMMA StDisposeKeeps ==
    ASSUME StoreInv, StDispose
    PROVE  StoreInv'
  <1>1. StTypeOK /\ stDisposed' = TRUE /\ LetsGo /\ AbortsRuns(stDisposed')
        /\ UNCHANGED <<stConcurrency, stEnded, stAttaching>>
    BY DEF StoreInv, StDispose, LetsGo
  <1>2. /\ stAttached' \in Lifetimes \union {NoLifetime} /\ stCleanup' \in [Lifetimes -> Cleanup]
        /\ \A l \in Lifetimes : stCleanup'[l].made = stCleanup[l].made
        /\ WiringKept' /\ AttachedGoesOn'
    BY <1>1, LetsGoKeeps DEF StoreInv
  <1>3. stRun' \in [TaskRuns -> TaskRun] /\ stTask' \in Task /\ TaskSpeaksOfCurrent'
    BY <1>1, AbortsRunsKeeps DEF StoreInv
  <1>4. stAttaching' \in Seq(Attaching) /\ AttachingApart'
    BY <1>1, <1>2, AttachingApartKept DEF StoreInv
  <1>5. StTypeOK'
    BY <1>1, <1>2, <1>3, <1>4 DEF StTypeOK
  <1>. QED
    BY <1>2, <1>3, <1>4, <1>5 DEF StoreInv

Overtaken(run) == [run EXCEPT !.superseded = TRUE, !.aborted = TRUE]

\* A run begins: the one that has the task gives it up.
LEMMA StRunTaskKeeps ==
    ASSUME StoreInv, NEW r \in TaskRuns, StRunTask(r)
    PROVE  StoreInv'
  <1>. DEFINE new == [NewRun EXCEPT !.at = "working"]
              f(q) == IF q = r THEN new ELSE IF q = stTask.current THEN Overtaken(stRun[q]) ELSE stRun[q]
              t == [current |-> r, pending |-> TRUE, error |-> NoRun]
  <1>1. stRun \in [TaskRuns -> TaskRun] /\ stTask \in Task
    BY DEF StoreInv, StTypeOK
  <1>2. stRun[r].at = "new" /\ stRun' = [q \in TaskRuns |-> f(q)] /\ stTask' = t
        /\ UNCHANGED <<stConcurrency, stDisposed, stAttached, stEnded, stAttaching, stCleanup>>
    BY Zenon DEF StRunTask, Overtaken
  <1>3. new \in TaskRun /\ new.at = "working"
    BY DEF NewRun, TaskRun
  <1>4. ~new.aborted
    BY DEF NewRun
  <1>5. \A q \in TaskRuns : Overtaken(stRun[q]) \in TaskRun /\ Overtaken(stRun[q]).at = stRun[q].at
    BY <1>1 DEF TaskRun, Overtaken
  <1>6. \A q \in TaskRuns : Overtaken(stRun[q]).aborted
    BY <1>1 DEF TaskRun, Overtaken
  <1>7. t \in Task /\ t.current = r /\ t.error = NoRun
    BY DEF Task
  <1>8. t.pending
    OBVIOUS
  <1>. HIDE DEF new, t
  <1>9. \A q \in TaskRuns : /\ f(q) \in TaskRun /\ (q = r => f(q).at = "working")
                            /\ q # r => (f(q).at = "working" => f(q).aborted)
    <2>1. \A q \in TaskRuns : q # stTask.current => (stRun[q].at = "working" => stRun[q].aborted)
      BY DEF StoreInv, TaskSpeaksOfCurrent, Working
    <2>. QED
      BY <1>1, <1>3, <1>5, <1>6, <2>1
  <1>10. ~f(r).aborted
    BY <1>4
  <1>. HIDE DEF f
  <1>11. /\ stRun' \in [TaskRuns -> TaskRun]
         /\ \A q \in TaskRuns : Working(q)' /\ ~stRun'[q].aborted <=> q = r
    BY <1>2, <1>9, <1>10 DEF Working
  <1>12. r # NoRun
    BY StoreAssumption
  <1>13. TaskSpeaksOfCurrent'
    BY <1>2, <1>7, <1>8, <1>11, <1>12 DEF TaskSpeaksOfCurrent
  <1>14. StTypeOK'
    BY <1>2, <1>7, <1>11 DEF StoreInv, StTypeOK
  <1>15. AttachingApart' /\ AttachedGoesOn' /\ WiringKept'
    BY <1>2 DEF StoreInv, AttachingApart, AttachedGoesOn, WiringKept, CalledOnce
  <1>. QED
    BY <1>13, <1>14, <1>15 DEF StoreInv

\* A run settles: only one that has the task takes it away.
LEMMA StSettleKeeps ==
    ASSUME StoreInv, NEW r \in TaskRuns, NEW answer \in {"done", "failed"}, StSettle(r, answer)
    PROVE  StoreInv'
  <1>. DEFINE outcome == OutcomeOf(stRun[r], answer)
              x == [stRun[r] EXCEPT !.at = outcome]
              p == IF stDisposed THEN stTask.pending ELSE FALSE
              e == IF ~stDisposed /\ outcome = "failed" THEN r ELSE stTask.error
              t == [current |-> NoRun, pending |-> p, error |-> e]
  <1>1. stRun \in [TaskRuns -> TaskRun] /\ stTask \in Task /\ stDisposed \in BOOLEAN
    BY DEF StoreInv, StTypeOK
  <1>2. Working(r) /\ stRun' = [stRun EXCEPT ![r] = x]
        /\ stTask' = (IF HoldsSlot(r) THEN t ELSE stTask)
        /\ UNCHANGED <<stConcurrency, stDisposed, stAttached, stEnded, stAttaching, stCleanup>>
    BY DEF StSettle
  <1>3. outcome \in {"done", "failed", "superseded", "aborted"}
    BY DEF OutcomeOf
  <1>4. p \in BOOLEAN /\ (~stDisposed => p = FALSE)
    BY <1>1 DEF Task
  <1>5. e \in TaskRuns \union {NoRun}
    BY <1>1 DEF Task
  <1>6. e = stTask.error \/ (e = r /\ outcome = "failed")
    OBVIOUS
  <1>. HIDE DEF outcome, p, e
  <1>7. x \in TaskRun /\ x.at = outcome
    BY <1>1, <1>3 DEF TaskRun
  <1>8. t \in Task /\ t.current = NoRun /\ t.error = e /\ t.pending = p
    BY <1>4, <1>5 DEF Task
  <1>. HIDE DEF x, t
  <1>9. /\ stRun' \in [TaskRuns -> TaskRun] /\ stRun'[r] = x
        /\ \A q \in TaskRuns : q # r => stRun'[q] = stRun[q]
    BY <1>1, <1>2, <1>7
  <1>10. NoRun \notin TaskRuns
    BY StoreAssumption
  <1>11. ~Working(r)' /\ \A q \in TaskRuns : q # r => (Working(q)' <=> Working(q))
    BY <1>3, <1>7, <1>9 DEF Working
  <1>12. /\ \A q \in TaskRuns : Working(q) /\ ~stRun[q].aborted <=> stTask.current = q
         /\ ~stDisposed => (stTask.pending <=> stTask.current # NoRun)
         /\ stTask.error # NoRun => stRun[stTask.error].at = "failed" /\ stTask.current = NoRun
    BY DEF StoreInv, TaskSpeaksOfCurrent
  <1>13. stTask' \in Task
    BY <1>1, <1>2, <1>8
  <1>14. TaskSpeaksOfCurrent'
    <2>1. CASE HoldsSlot(r)
      <3>1. stTask' = t /\ stTask.current = r /\ r # NoRun
        BY <2>1, <1>2, <1>10 DEF HoldsSlot
      <3>2. stTask.error = NoRun
        BY <1>12, <3>1
      <3>3. \A q \in TaskRuns : Working(q)' /\ ~stRun'[q].aborted <=> stTask'.current = q
        BY <3>1, <1>8, <1>9, <1>10, <1>11, <1>12
      <3>4. ~stDisposed' => (stTask'.pending <=> stTask'.current # NoRun)
        BY <3>1, <1>2, <1>4, <1>8
      <3>5. stTask'.error # NoRun => stRun'[stTask'.error].at = "failed" /\ stTask'.current = NoRun
        BY <3>1, <3>2, <1>6, <1>7, <1>8, <1>9
      <3>. QED
        BY <3>3, <3>4, <3>5 DEF TaskSpeaksOfCurrent
    <2>2. CASE ~HoldsSlot(r)
      <3>1. stTask' = stTask /\ stTask.current # r
        BY <2>2, <1>2 DEF HoldsSlot
      <3>2. \A q \in TaskRuns : Working(q)' /\ ~stRun'[q].aborted <=> stTask'.current = q
        BY <3>1, <1>9, <1>11, <1>12
      <3>3. stTask.error # NoRun => stTask.error \in TaskRuns /\ stTask.error # r
        BY <1>1, <1>2, <1>12 DEF Task, Working
      <3>4. stTask'.error # NoRun => stRun'[stTask'.error].at = "failed" /\ stTask'.current = NoRun
        BY <3>1, <3>3, <1>9, <1>12
      <3>. QED
        BY <3>1, <3>2, <3>4, <1>2, <1>12 DEF TaskSpeaksOfCurrent
    <2>. QED
      BY <2>1, <2>2
  <1>15. StTypeOK'
    BY <1>2, <1>9, <1>13 DEF StoreInv, StTypeOK
  <1>16. AttachingApart' /\ AttachedGoesOn' /\ WiringKept'
    BY <1>2 DEF StoreInv, AttachingApart, AttachedGoesOn, WiringKept, CalledOnce
  <1>. QED
    BY <1>14, <1>15, <1>16 DEF StoreInv

-----------------------------------------------------------------------------
(* The theorems.                                                           *)

LEMMA StInitIsSound == StInit => StoreInv
  <1>1. SUFFICES ASSUME StInit PROVE StoreInv
    OBVIOUS
  <1>. DEFINE t == [current |-> NoRun, pending |-> FALSE, error |-> NoRun]
  <1>2. /\ stConcurrency \in {"exclusive", "latest"} /\ stAttached = NoLifetime /\ stEnded = {}
        /\ stAttaching = << >> /\ stCleanup = [l \in Lifetimes |-> NoCleanup]
        /\ stRun = [r \in TaskRuns |-> NewRun] /\ stTask = t
    BY <1>1 DEF StInit
  <1>3. stDisposed = FALSE
    BY <1>1 DEF StInit
  <1>4. NewRun \in TaskRun /\ NewRun.at = "new"
    BY DEF NewRun, TaskRun
  <1>5. t \in Task /\ t.current = NoRun /\ t.error = NoRun
    BY DEF Task
  <1>6. ~t.pending
    OBVIOUS
  <1>. HIDE DEF t
  <1>7. stCleanup \in [Lifetimes -> Cleanup] /\ stRun \in [TaskRuns -> TaskRun] /\ stAttaching \in Seq(Attaching)
    BY <1>2, <1>4, NoCleanupIs
  <1>8. StTypeOK
    BY <1>2, <1>3, <1>5, <1>7 DEF StTypeOK
  <1>9. WiringKept
    BY <1>2, NoCleanupIs DEF WiringKept
  <1>10. TaskSpeaksOfCurrent
    BY <1>2, <1>4, <1>5, <1>6, StoreAssumption DEF TaskSpeaksOfCurrent, Working
  <1>. QED
    BY <1>2, <1>8, <1>9, <1>10 DEF StoreInv, AttachingApart, AttachedGoesOn

LEMMA StStepKeeps == StoreInv /\ [StNext]_stVars => StoreInv'
  <1>1. SUFFICES ASSUME StoreInv, [StNext]_stVars PROVE StoreInv'
    OBVIOUS
  <1>2. CASE UNCHANGED stVars
    BY <1>1, <1>2 DEF stVars, StoreInv, StTypeOK, AttachingApart, AttachedGoesOn, WiringKept, CalledOnce,
       TaskSpeaksOfCurrent, Working
  <1>3. CASE StNext
    BY <1>1, <1>3, StAttachKeeps, StLifetimeEndsKeeps, StConnectsKeeps, StConnectThrowsKeeps, StDisposeKeeps,
       StRunTaskKeeps, StSettleKeeps DEF StNext
  <1>. QED
    BY <1>1, <1>2, <1>3

\* The inductive invariant holds of every behavior.
THEOREM StoreInvariance == StSpec => []StoreInv
  <1>1. StInit => StoreInv
    BY StInitIsSound
  <1>2. StoreInv /\ [StNext]_stVars => StoreInv'
    BY StStepKeeps
  <1>. QED
    BY <1>1, <1>2, PTL DEF StSpec

\* The store's variables have their types (ketjs-view/src/store.ts).
THEOREM StoreTypeCorrect == StSpec => []StTypeOK
  <1>1. StoreInv => StTypeOK
    BY DEF StoreInv
  <1>. QED
    BY <1>1, StoreInvariance, PTL

\* What a connect() began is ended once, and the task's signals speak of the run that has it
\* (attach, detach and task of store.ts).
THEOREM StoresAreKept == StSpec => []StoreKept
  <1>1. StoreInv => StoreKept
    <2>1. SUFFICES ASSUME StoreInv PROVE WiringEndsOnce /\ TaskSpeaksOfCurrent
      BY DEF StoreKept
    <2>2. SUFFICES ASSUME NEW l \in Lifetimes, stCleanup[l].held # {} PROVE l \notin stEnded /\ ~stDisposed
      BY <2>1 DEF StoreInv, WiringKept, CalledOnce, WiringEndsOnce
    <2>3. stAttached = l /\ l # NoLifetime
      BY <2>1, <2>2, StoreAssumption DEF StoreInv, WiringKept
    <2>. QED
      BY <2>1, <2>3 DEF StoreInv, AttachedGoesOn
  <1>. QED
    BY <1>1, StoreInvariance, PTL

-----------------------------------------------------------------------------
(* The mirror.                                                             *)

MirrorRecord ==
    [scope : Scopes \union {NoScope}, epoch : Nat, revisions : Nat, attached : BOOLEAN,
     disposed : BOOLEAN, entry : Entry \union {NoEntry}, loads : [1 .. LoadSlots -> Load],
     writes : [Writes -> WriteRecord]]

\* A value of scope s: what the server answered is what it has applied.
OfScope(d, s, server) == d # NoData => d.scope = s /\ (d.given \/ d.seen \subseteq server[s])

\* What the answer e shows of d, unless the application gave d.
NotBehind(e, d) == d = NoData \/ d.given \/ d.seen \subseteq e.seen

Undos(c) == { c.writes[w].undo : w \in Writes } \ {NoUndo}
UnderWay(c) == { i \in 1 .. LoadSlots : c.loads[i].at # "free" /\ ~c.loads[i].aborted }

\* The revisions the entry has, may come back to, or may be extended from, with their values.
Versions(c) ==
    IF c.entry = NoEntry THEN {}
    ELSE {<<c.entry.revision, c.entry.data>>} \union { <<u.before, u.data>> : u \in Undos(c) }
         \union { <<c.loads[i].revision, c.loads[i].value>> : i \in { k \in UnderWay(c) : c.loads[k].more } }

\* A revision is of one value; that of a patch shows the answers its value before had shown.
VersionsKept(c, server) ==
    /\ \A x \in Versions(c) : x[1] <= c.revisions /\ OfScope(x[2], c.scope, server)
    /\ \A x, y \in Versions(c) : x[1] = y[1] => x[2] = y[2]
    /\ \A x \in Versions(c), u \in Undos(c) :
         x[1] = u.revision => u.data = NoData \/ (x[2] # NoData /\ x[2].seen = u.data.seen)

EntryKept(c) ==
    /\ c.entry # NoEntry =>
         /\ c.scope \in Scopes
         /\ c.entry.restored # NoData => c.entry.restored.scope = c.scope /\ c.entry.restored.given
    /\ \A u \in Undos(c) : c.entry # NoEntry /\ u.revision <= c.revisions

\* A load under way is the entry's, and no patch is younger than it.
LoadKept(c, i, server) ==
    LET load == c.loads[i] IN
    /\ c.entry # NoEntry /\ c.entry.inflight = i /\ load.scope = c.scope
    /\ \A u \in Undos(c) : u.revision <= load.asked
    /\ load.more => load.value # NoData
    /\ load.at = "served" /\ ~load.more =>
         /\ load.value # NoData /\ OfScope(load.value, c.scope, server)
         /\ NotBehind(load.value, c.entry.data)
         /\ \A u \in Undos(c) : NotBehind(load.value, u.data)

MirrorKept(c, server) ==
    /\ c \in MirrorRecord
    /\ VersionsKept(c, server)
    /\ EntryKept(c)
    /\ \A i \in UnderWay(c) : LoadKept(c, i, server)

\* A load has the scope it was asked under.
LoadScoped(load) == load.at # "free" => load.scope \in Scopes

\* A write is sent under the scope it was run in.
WriteKept(write, w, server) ==
    /\ write.at \in Running => write.scope \in Scopes /\ write.sentAs = write.scope
    /\ \A s \in Scopes : w \in server[s] => write.scope = s /\ write.at # "new"

\* A reading that is bound has its entry.
ReadingFollows(p, c) ==
    p.reading = "bound" => c.entry # NoEntry /\ c.scope = p.identity /\ ~c.disposed

PageRecord ==
    [identity : Scopes, reading : {"none", "idle", "bound"},
     sharing : {"queue", "exclusive", "apart"}, closed : SUBSET Writes]

MirrorInv ==
    /\ miPage \in PageRecord /\ miServer \in [Scopes -> SUBSET Writes]
    /\ MirrorKept(miMirror, miServer)
    /\ \A i \in 1 .. LoadSlots : LoadScoped(miMirror.loads[i])
    /\ \A w \in Writes : WriteKept(miMirror.writes[w], w, miServer)
    /\ ReadingFollows(miPage, miMirror)

-----------------------------------------------------------------------------
(* What narrows what is kept.                                              *)

RestoredKept(c) ==
    c.entry # NoEntry /\ c.entry.restored # NoData =>
        c.entry.restored.scope = c.scope /\ c.entry.restored.given

\* d has the value c has, or one that c would come back to, and fewer patches and loads.
Narrows(d, c) ==
    /\ d.scope = c.scope /\ d.revisions = c.revisions
    /\ d.entry = NoEntry <=> c.entry = NoEntry
    /\ RestoredKept(d)
    /\ d.entry # NoEntry =>
         \/ d.entry.revision = c.entry.revision /\ d.entry.data = c.entry.data
         \/ \E u \in Undos(c) : d.entry.revision = u.before /\ d.entry.data = u.data
    /\ Undos(d) \subseteq Undos(c)
    /\ UnderWay(d) \subseteq UnderWay(c)
    /\ \A i \in UnderWay(d) : d.loads[i] = c.loads[i] /\ d.entry.inflight = c.entry.inflight

LEMMA Narrowed ==
    ASSUME NEW server, NEW c, MirrorKept(c, server), NEW d \in MirrorRecord, Narrows(d, c)
    PROVE  MirrorKept(d, server)
  <1>1. c \in MirrorRecord /\ VersionsKept(c, server) /\ EntryKept(c)
        /\ \A i \in UnderWay(c) : LoadKept(c, i, server)
    BY DEF MirrorKept
  <1>2. Versions(d) \subseteq Versions(c)
    <2>1. CASE d.entry = NoEntry
      BY <2>1 DEF Versions
    <2>2. CASE d.entry # NoEntry
      <3>1. c.entry # NoEntry
        BY <2>2 DEF Narrows
      <3>2. ASSUME NEW x \in Versions(d) PROVE x \in Versions(c)
        <4>1. \/ x = <<d.entry.revision, d.entry.data>>
              \/ \E u \in Undos(d) : x = <<u.before, u.data>>
              \/ \E i \in UnderWay(d) : d.loads[i].more /\ x = <<d.loads[i].revision, d.loads[i].value>>
          BY <2>2 DEF Versions
        <4>2. CASE x = <<d.entry.revision, d.entry.data>>
          BY <4>2, <2>2, <3>1 DEF Narrows, Versions
        <4>3. CASE \E u \in Undos(d) : x = <<u.before, u.data>>
          BY <4>3, <3>1 DEF Narrows, Versions
        <4>4. CASE \E i \in UnderWay(d) : d.loads[i].more /\ x = <<d.loads[i].revision, d.loads[i].value>>
          BY <4>4, <3>1 DEF Narrows, Versions
        <4>. QED
          BY <4>1, <4>2, <4>3, <4>4
      <3>. QED
        BY <3>2
    <2>. QED
      BY <2>1, <2>2
  <1>3. VersionsKept(d, server)
    BY <1>1, <1>2 DEF VersionsKept, Narrows
  <1>4. EntryKept(d)
    BY <1>1 DEF EntryKept, Narrows, RestoredKept
  <1>5. ASSUME NEW i \in UnderWay(d) PROVE LoadKept(d, i, server)
    <2>1. i \in UnderWay(c) /\ d.loads[i] = c.loads[i] /\ d.entry.inflight = c.entry.inflight
          /\ Undos(d) \subseteq Undos(c) /\ d.scope = c.scope /\ (d.entry = NoEntry <=> c.entry = NoEntry)
      BY DEF Narrows
    <2>2. LoadKept(c, i, server)
      BY <1>1, <2>1
    <2>3. d.entry # NoEntry => d.entry.data = c.entry.data \/ \E u \in Undos(c) : d.entry.data = u.data
      BY DEF Narrows
    <2>. QED
      BY <2>1, <2>2, <2>3 DEF LoadKept
  <1>. QED
    BY <1>3, <1>4, <1>5 DEF MirrorKept

\* What has no entry, no patch and no load keeps everything.
LEMMA NothingKept ==
    ASSUME NEW server, NEW d \in MirrorRecord, d.entry = NoEntry, Undos(d) = {}, UnderWay(d) = {}
    PROVE  MirrorKept(d, server)
  BY DEF MirrorKept, VersionsKept, EntryKept, Versions

LEMMA EmptyOnly ==
    ASSUME NEW server, NEW c, MirrorKept(c, server), c.entry = NoEntry
    PROVE  Undos(c) = {} /\ UnderWay(c) = {}
  BY DEF MirrorKept, EntryKept, LoadKept

\* More is applied by the server.
LEMMA ServerGoesOn ==
    ASSUME NEW server, NEW c, MirrorKept(c, server), NEW more,
           \A s \in Scopes : server[s] \subseteq more[s]
    PROVE  MirrorKept(c, more)
  <1>1. c \in MirrorRecord /\ VersionsKept(c, server) /\ EntryKept(c)
        /\ \A i \in UnderWay(c) : LoadKept(c, i, server)
    BY DEF MirrorKept
  <1>2. c.entry # NoEntry => c.scope \in Scopes
    BY <1>1 DEF EntryKept
  <1>3. ASSUME c.entry # NoEntry, NEW e, OfScope(e, c.scope, server) PROVE OfScope(e, c.scope, more)
    BY <1>2, <1>3 DEF OfScope
  <1>4. VersionsKept(c, more)
    <2>1. \A x \in Versions(c) : c.entry # NoEntry
      BY DEF Versions
    <2>. QED
      BY <1>1, <1>3, <2>1 DEF VersionsKept
  <1>5. \A i \in UnderWay(c) : LoadKept(c, i, more)
    BY <1>1, <1>3 DEF LoadKept
  <1>. QED
    BY <1>1, <1>4, <1>5 DEF MirrorKept

-----------------------------------------------------------------------------
(* Loads and writes that are aborted, and the change of the scope.         *)

\* No write moves on and no load comes to its end.
Goes(d, c) ==
    /\ d.disposed = c.disposed
    /\ \A w \in Writes : /\ d.writes[w].at = c.writes[w].at /\ d.writes[w].scope = c.writes[w].scope
                         /\ d.writes[w].sentAs = c.writes[w].sentAs
    /\ \A i \in 1 .. LoadSlots : /\ c.loads[i].at # "free" => d.loads[i].at # "free"
                                 /\ LoadScoped(c.loads[i]) => LoadScoped(d.loads[i])

LEMMA RecordIs ==
    ASSUME NEW c \in MirrorRecord
    PROVE  /\ c.scope \in Scopes \union {NoScope} /\ c.epoch \in Nat /\ c.revisions \in Nat
           /\ c.attached \in BOOLEAN /\ c.disposed \in BOOLEAN
           /\ c.entry # NoEntry => c.entry \in Entry
           /\ c.loads \in [1 .. LoadSlots -> Load] /\ c.writes \in [Writes -> WriteRecord]
  BY DEF MirrorRecord

LEMMA EntryIs ==
    ASSUME NEW e \in Entry
    PROVE  /\ e.data \in Value \union {NoData} /\ e.stale \in BOOLEAN /\ e.revision \in Nat
           /\ e.loadable \in BOOLEAN /\ e.inflight \in 1 .. LoadSlots \union {NoLoad}
           /\ e.restored \in Value \union {NoData} /\ e.owed \in BOOLEAN /\ e # NoEntry
  BY MirrorNulls DEF Entry

LEMMA LoadIs ==
    ASSUME NEW l \in Load
    PROVE  /\ l.at \in {"free", "asked", "served"} /\ l.aborted \in BOOLEAN /\ l.more \in BOOLEAN
           /\ l.asked \in Nat /\ l.scope \in Scopes \union {NoScope}
           /\ l.value \in Value \union {NoData} /\ l.revision \in Nat
  BY DEF Load

LEMMA WriteIs ==
    ASSUME NEW w \in WriteRecord
    PROVE  /\ w.at \in {"new", "queued", "sent", "applied", "done", "failed", "aborted", "rejected"}
           /\ w.scope \in Scopes \union {NoScope} /\ w.epoch \in Nat
           /\ w.sentAs \in Scopes \union {NoScope} /\ w.aborted \in BOOLEAN
           /\ w.undo \in Undo \union {NoUndo} /\ w.behind \in SUBSET Writes
  BY DEF WriteRecord

LEMMA AbandonedIs ==
    ASSUME NEW c \in MirrorRecord
    PROVE  LET d == Abandoned(c) IN
           /\ d \in MirrorRecord
           /\ d.scope = c.scope /\ d.epoch = c.epoch /\ d.revisions = c.revisions
           /\ d.attached = c.attached /\ d.disposed = c.disposed /\ d.writes = c.writes
           /\ d.entry = NoEntry <=> c.entry = NoEntry
           /\ c.entry # NoEntry =>
                /\ d.entry.data = c.entry.data /\ d.entry.revision = c.entry.revision
                /\ d.entry.restored = c.entry.restored /\ d.entry.stale = c.entry.stale
                /\ d.entry.loadable = c.entry.loadable /\ d.entry.owed = c.entry.owed
                /\ d.entry.inflight = NoLoad
           /\ \A i \in 1 .. LoadSlots :
                /\ d.loads[i].at = c.loads[i].at /\ d.loads[i].scope = c.loads[i].scope
                /\ (c.loads[i].aborted => d.loads[i].aborted)
                /\ c.entry # NoEntry /\ c.entry.inflight = i => d.loads[i].aborted
  <1>. DEFINE d == Abandoned(c)
  <1>1. CASE c.entry = NoEntry \/ c.entry.inflight = NoLoad
    <2>1. d = c
      BY <1>1 DEF Abandoned
    <2>. QED
      BY <1>1, <2>1, MirrorAssumption
  <1>2. CASE c.entry # NoEntry /\ c.entry.inflight # NoLoad
    <2>. DEFINE k == c.entry.inflight
                e == [c.entry EXCEPT !.inflight = NoLoad]
                l == [c.loads[k] EXCEPT !.aborted = TRUE]
                ls == [c.loads EXCEPT ![k] = l]
    <2>1. c.entry \in Entry /\ c.loads \in [1 .. LoadSlots -> Load] /\ k \in 1 .. LoadSlots
      BY <1>2, RecordIs, EntryIs
    <2>2. /\ e \in Entry /\ e.data = c.entry.data /\ e.revision = c.entry.revision
          /\ e.restored = c.entry.restored /\ e.stale = c.entry.stale
          /\ e.loadable = c.entry.loadable /\ e.owed = c.entry.owed /\ e.inflight = NoLoad
      BY <2>1 DEF Entry
    <2>3. c.loads[k] \in Load
      BY <2>1
    <2>4. l \in Load /\ l.at = c.loads[k].at /\ l.scope = c.loads[k].scope /\ l.aborted
      BY <2>3 DEF Load
    <2>5. ls \in [1 .. LoadSlots -> Load] /\ \A i \in 1 .. LoadSlots : ls[i] = IF i = k THEN l ELSE c.loads[i]
      BY <2>1, <2>4
    <2>6. d = [c EXCEPT !.loads = ls, !.entry = e]
      BY <1>2 DEF Abandoned, MirrorRecord
    <2>. HIDE DEF e, l, ls
    <2>7. /\ d \in MirrorRecord /\ d.loads = ls /\ d.entry = e
          /\ d.scope = c.scope /\ d.epoch = c.epoch /\ d.revisions = c.revisions
          /\ d.attached = c.attached /\ d.disposed = c.disposed /\ d.writes = c.writes
      BY <2>2, <2>5, <2>6 DEF MirrorRecord
    <2>8. e # NoEntry
      BY <2>2, EntryIs
    <2>. HIDE DEF d
    <2>9. \A i \in 1 .. LoadSlots : /\ d.loads[i].at = c.loads[i].at /\ d.loads[i].scope = c.loads[i].scope
                                    /\ (c.loads[i].aborted => d.loads[i].aborted)
                                    /\ (c.entry.inflight = i => d.loads[i].aborted)
      BY <2>4, <2>5, <2>7
    <2>. QED
      BY <1>2, <2>2, <2>7, <2>8, <2>9 DEF d
  <1>. QED
    BY <1>1, <1>2

LEMMA AbandonedKept ==
    ASSUME NEW server, NEW c, MirrorKept(c, server)
    PROVE  MirrorKept(Abandoned(c), server) /\ Goes(Abandoned(c), c) /\ UnderWay(Abandoned(c)) = {}
  <1>. DEFINE d == Abandoned(c)
  <1>1. c \in MirrorRecord /\ \A i \in UnderWay(c) : c.entry # NoEntry /\ c.entry.inflight = i
    BY DEF MirrorKept, LoadKept
  <1>2. /\ d \in MirrorRecord
        /\ d.scope = c.scope /\ d.revisions = c.revisions
        /\ d.disposed = c.disposed /\ d.writes = c.writes
        /\ d.entry = NoEntry <=> c.entry = NoEntry
        /\ c.entry # NoEntry => /\ d.entry.data = c.entry.data /\ d.entry.revision = c.entry.revision
                                /\ d.entry.restored = c.entry.restored
        /\ \A i \in 1 .. LoadSlots :
             /\ d.loads[i].at = c.loads[i].at /\ d.loads[i].scope = c.loads[i].scope
             /\ (c.loads[i].aborted => d.loads[i].aborted)
             /\ c.entry # NoEntry /\ c.entry.inflight = i => d.loads[i].aborted
    BY <1>1, AbandonedIs
  <1>. HIDE DEF d
  <1>3. UnderWay(d) = {}
    BY <1>1, <1>2 DEF UnderWay
  <1>4. Undos(d) = Undos(c)
    BY <1>2 DEF Undos
  <1>5. RestoredKept(d)
    BY <1>2 DEF RestoredKept, MirrorKept, EntryKept
  <1>6. MirrorKept(d, server)
    BY <1>2, <1>3, <1>4, <1>5, Narrowed DEF Narrows
  <1>7. Goes(d, c)
    BY <1>2 DEF Goes, LoadScoped
  <1>. QED
    BY <1>3, <1>6, <1>7 DEF d

\* Nothing is left of the entry, and nobody comes back to it.
LEMMA DroppedIs ==
    ASSUME NEW c \in MirrorRecord
    PROVE  LET d == Dropped(c) IN
           /\ d \in MirrorRecord /\ d.entry = NoEntry
           /\ d.scope = c.scope /\ d.epoch = c.epoch /\ d.revisions = c.revisions
           /\ d.attached = c.attached /\ d.disposed = c.disposed
           /\ \A w \in Writes : /\ d.writes[w].undo = NoUndo
                                /\ d.writes[w] \in WriteRecord
                                /\ d.writes[w].at = c.writes[w].at /\ d.writes[w].scope = c.writes[w].scope
                                /\ d.writes[w].sentAs = c.writes[w].sentAs /\ d.writes[w].epoch = c.writes[w].epoch
           /\ d.loads = Abandoned(c).loads
  <1>. DEFINE a == Abandoned(c)
              ws == [w \in Writes |-> [c.writes[w] EXCEPT !.undo = NoUndo]]
              d == Dropped(c)
  <1>1. /\ a \in MirrorRecord
        /\ a.scope = c.scope /\ a.epoch = c.epoch /\ a.revisions = c.revisions
        /\ a.attached = c.attached /\ a.disposed = c.disposed
    BY AbandonedIs
  <1>2. c.writes \in [Writes -> WriteRecord]
    BY RecordIs
  <1>3. \A w \in Writes : /\ ws[w] \in WriteRecord /\ ws[w].undo = NoUndo
                          /\ ws[w].at = c.writes[w].at /\ ws[w].scope = c.writes[w].scope
                          /\ ws[w].sentAs = c.writes[w].sentAs /\ ws[w].epoch = c.writes[w].epoch
    <2>1. TAKE w \in Writes
    <2>. DEFINE v == c.writes[w]
                u == [v EXCEPT !.undo = NoUndo]
    <2>2. v \in WriteRecord
      BY <1>2
    <2>. HIDE DEF v
    <2>3. u \in WriteRecord /\ u.undo = NoUndo /\ u.at = v.at /\ u.scope = v.scope /\ u.sentAs = v.sentAs
          /\ u.epoch = v.epoch
      BY <2>2 DEF WriteRecord
    <2>4. ws[w] = u
      BY DEF v
    <2>. QED
      BY <2>3, <2>4 DEF v
  <1>4. ws \in [Writes -> WriteRecord]
    BY <1>3
  <1>5. d = [a EXCEPT !.entry = NoEntry, !.writes = ws]
    BY DEF Dropped
  <1>. HIDE DEF a, ws
  <1>6. /\ d \in MirrorRecord /\ d.entry = NoEntry /\ d.writes = ws /\ d.loads = a.loads
        /\ d.scope = a.scope /\ d.epoch = a.epoch /\ d.revisions = a.revisions
        /\ d.attached = a.attached /\ d.disposed = a.disposed
    BY <1>1, <1>4, <1>5 DEF MirrorRecord
  <1>. HIDE DEF d
  <1>. QED
    BY <1>1, <1>3, <1>6 DEF d, a

LEMMA DroppedKept ==
    ASSUME NEW server, NEW c, MirrorKept(c, server)
    PROVE  /\ Dropped(c) \in MirrorRecord /\ Dropped(c).entry = NoEntry
           /\ Undos(Dropped(c)) = {} /\ UnderWay(Dropped(c)) = {} /\ Goes(Dropped(c), c)
  <1>. DEFINE d == Dropped(c)
              a == Abandoned(c)
  <1>1. c \in MirrorRecord
    BY DEF MirrorKept
  <1>2. /\ d \in MirrorRecord /\ d.entry = NoEntry /\ d.disposed = c.disposed /\ d.loads = a.loads
        /\ \A w \in Writes : /\ d.writes[w].undo = NoUndo
                             /\ d.writes[w].at = c.writes[w].at /\ d.writes[w].scope = c.writes[w].scope
                             /\ d.writes[w].sentAs = c.writes[w].sentAs
    BY <1>1, DroppedIs
  <1>3. UnderWay(a) = {} /\ Goes(a, c)
    BY AbandonedKept
  <1>. HIDE DEF d, a
  <1>4. UnderWay(d) = {}
    BY <1>2, <1>3 DEF UnderWay
  <1>5. Undos(d) = {}
    BY <1>2 DEF Undos
  <1>6. Goes(d, c)
    BY <1>2, <1>3 DEF Goes
  <1>. QED
    BY <1>2, <1>4, <1>5, <1>6 DEF d

LEMMA WritesAbortedIs ==
    ASSUME NEW c \in MirrorRecord
    PROVE  LET d == WritesAborted(c) IN
           /\ d \in MirrorRecord /\ d.entry = c.entry /\ d.loads = c.loads
           /\ d.scope = c.scope /\ d.epoch = c.epoch /\ d.revisions = c.revisions
           /\ d.attached = c.attached /\ d.disposed = c.disposed
           /\ \A w \in Writes : /\ d.writes[w] \in WriteRecord /\ d.writes[w].undo = c.writes[w].undo
                                /\ d.writes[w].at = c.writes[w].at /\ d.writes[w].scope = c.writes[w].scope
                                /\ d.writes[w].sentAs = c.writes[w].sentAs /\ d.writes[w].epoch = c.writes[w].epoch
  <1>. DEFINE ws == [w \in Writes |->
                IF c.writes[w].at \in Running THEN [c.writes[w] EXCEPT !.aborted = TRUE] ELSE c.writes[w]]
              d == WritesAborted(c)
  <1>1. c.writes \in [Writes -> WriteRecord]
    BY RecordIs
  <1>2. \A w \in Writes : /\ ws[w] \in WriteRecord /\ ws[w].undo = c.writes[w].undo
                          /\ ws[w].at = c.writes[w].at /\ ws[w].scope = c.writes[w].scope
                          /\ ws[w].sentAs = c.writes[w].sentAs /\ ws[w].epoch = c.writes[w].epoch
    <2>1. TAKE w \in Writes
    <2>. DEFINE v == c.writes[w]
                u == [v EXCEPT !.aborted = TRUE]
    <2>2. v \in WriteRecord
      BY <1>1
    <2>. HIDE DEF v
    <2>3. u \in WriteRecord /\ u.undo = v.undo /\ u.at = v.at /\ u.scope = v.scope /\ u.sentAs = v.sentAs
          /\ u.epoch = v.epoch
      BY <2>2 DEF WriteRecord
    <2>4. ws[w] = IF v.at \in Running THEN u ELSE v
      BY DEF v
    <2>. HIDE DEF u, ws
    <2>. QED
      BY <2>2, <2>3, <2>4 DEF v
  <1>3. ws \in [Writes -> WriteRecord]
    BY <1>2
  <1>4. d = [c EXCEPT !.writes = ws]
    BY DEF WritesAborted
  <1>. HIDE DEF ws
  <1>5. /\ d \in MirrorRecord /\ d.entry = c.entry /\ d.writes = ws /\ d.loads = c.loads
        /\ d.scope = c.scope /\ d.epoch = c.epoch /\ d.revisions = c.revisions
        /\ d.attached = c.attached /\ d.disposed = c.disposed
    BY <1>3, <1>4 DEF MirrorRecord
  <1>. HIDE DEF d
  <1>. QED
    BY <1>2, <1>5 DEF d

\* enterScope: the entry stays as it is, or is gone.
LEMMA EnteredKept ==
    ASSUME NEW server, NEW c, MirrorKept(c, server), NEW s \in Scopes
    PROVE  LET d == Entered(c, s) IN
           /\ MirrorKept(d, server) /\ Goes(d, c) /\ d.scope = s /\ d.revisions = c.revisions
           /\ d.entry \in {c.entry, NoEntry}
           /\ d.attached = c.attached
           /\ FreeSlots(d) = FreeSlots(c)
           /\ \A w \in Writes : d.writes[w].undo \in {c.writes[w].undo, NoUndo}
           /\ d.loads \in {c.loads, Abandoned(c).loads}
  <1>. DEFINE d == Entered(c, s)
  <1>1. c \in MirrorRecord
    BY DEF MirrorKept
  <1>2. CASE c.scope = s
    <2>1. d = [c EXCEPT !.scope = s]
      BY <1>2 DEF Entered
    <2>2. d = c
      BY <1>1, <1>2, <2>1 DEF MirrorRecord
    <2>. QED
      BY <1>2, <2>2 DEF Goes
  <1>3. CASE c.scope = NoScope
    <2>1. d = [c EXCEPT !.scope = s]
      BY <1>3 DEF Entered
    <2>2. /\ d \in MirrorRecord /\ d.scope = s /\ d.entry = c.entry /\ d.writes = c.writes /\ d.loads = c.loads
          /\ d.disposed = c.disposed /\ d.revisions = c.revisions /\ d.attached = c.attached
      BY <1>1, <2>1 DEF MirrorRecord
    <2>3. c.entry = NoEntry
      BY <1>3, MirrorAssumption DEF MirrorKept, EntryKept
    <2>4. Undos(c) = {} /\ UnderWay(c) = {}
      BY <2>3, EmptyOnly
    <2>. HIDE DEF d
    <2>5. Undos(d) = {} /\ UnderWay(d) = {}
      BY <2>2, <2>4 DEF Undos, UnderWay
    <2>. QED
      <3>1. MirrorKept(d, server)
        BY <2>2, <2>3, <2>5, NothingKept
      <3>2. Goes(d, c) /\ FreeSlots(d) = FreeSlots(c)
        BY <2>2 DEF Goes, FreeSlots
      <3>. QED
        BY <2>2, <3>1, <3>2 DEF d
  <1>4. CASE c.scope \notin {NoScope, s}
    <2>. DEFINE p == Dropped(c)
                a == WritesAborted(p)
    <2>1. /\ p \in MirrorRecord /\ p.entry = NoEntry /\ Undos(p) = {} /\ UnderWay(p) = {} /\ Goes(p, c)
      BY DroppedKept
    <2>2. p.revisions = c.revisions /\ p.attached = c.attached /\ p.loads = Abandoned(c).loads
      BY <1>1, DroppedIs
    <2>. HIDE DEF p
    <2>3. /\ a \in MirrorRecord /\ a.entry = NoEntry /\ a.loads = p.loads
          /\ a.revisions = p.revisions /\ a.attached = p.attached /\ a.disposed = p.disposed
          /\ \A w \in Writes : /\ a.writes[w].undo = p.writes[w].undo
                               /\ a.writes[w].at = p.writes[w].at /\ a.writes[w].scope = p.writes[w].scope
                               /\ a.writes[w].sentAs = p.writes[w].sentAs
      BY <2>1, WritesAbortedIs
    <2>. HIDE DEF a
    <2>4. d = [a EXCEPT !.scope = s, !.epoch = a.epoch + 1]
      BY <1>4 DEF Entered, a, p
    <2>. DEFINE next == a.epoch + 1
    <2>12. next \in Nat /\ s \in Scopes \union {NoScope}
      BY <2>3, RecordIs
    <2>13. d = [a EXCEPT !.scope = s, !.epoch = next]
      BY <2>4
    <2>. HIDE DEF d, next
    <2>5. /\ d \in MirrorRecord /\ d.scope = s /\ d.entry = NoEntry /\ d.writes = a.writes /\ d.loads = a.loads
          /\ d.disposed = a.disposed /\ d.revisions = a.revisions /\ d.attached = a.attached
      BY <2>3, <2>12, <2>13 DEF MirrorRecord
    <2>6. Undos(d) = {} /\ UnderWay(d) = {}
      BY <2>1, <2>3, <2>5 DEF Undos, UnderWay
    <2>7. MirrorKept(d, server)
      BY <2>5, <2>6, NothingKept
    <2>8. Goes(d, c)
      BY <2>1, <2>3, <2>5 DEF Goes
    <2>9. \A i \in 1 .. LoadSlots : d.loads[i].at = c.loads[i].at
      BY <1>1, <2>2, <2>3, <2>5, AbandonedIs
    <2>10. FreeSlots(d) = FreeSlots(c)
      BY <2>9 DEF FreeSlots
    <2>11. \A w \in Writes : d.writes[w].undo = NoUndo
      BY <2>6 DEF Undos
    <2>. QED
      BY <2>2, <2>3, <2>5, <2>7, <2>8, <2>10, <2>11 DEF d
  <1>. QED
    BY <1>2, <1>3, <1>4

LEMMA GoesOn ==
    ASSUME NEW c, NEW d, NEW e, Goes(d, c), Goes(e, d)
    PROVE  Goes(e, c)
  BY DEF Goes

-----------------------------------------------------------------------------
(* New values.                                                             *)

\* d has a value of its own, under a revision nothing has.
Renews(d, c, server) ==
    /\ c.entry # NoEntry /\ d.entry # NoEntry
    /\ d.scope = c.scope /\ d.revisions = c.revisions + 1
    /\ d.entry.revision = c.revisions + 1 /\ OfScope(d.entry.data, c.scope, server)
    /\ RestoredKept(d)
    /\ Undos(d) \subseteq Undos(c)
    /\ UnderWay(d) \subseteq UnderWay(c)
    /\ \A i \in UnderWay(d) :
         /\ d.loads[i] = c.loads[i] /\ d.entry.inflight = c.entry.inflight
         /\ d.loads[i].at = "served" /\ ~d.loads[i].more => NotBehind(d.loads[i].value, d.entry.data)

LEMMA Renewed ==
    ASSUME NEW server, NEW c, MirrorKept(c, server), NEW d \in MirrorRecord, Renews(d, c, server)
    PROVE  MirrorKept(d, server)
  <1>. DEFINE top == c.revisions + 1
              here == <<top, d.entry.data>>
  <1>1. c \in MirrorRecord /\ VersionsKept(c, server) /\ EntryKept(c)
        /\ \A i \in UnderWay(c) : LoadKept(c, i, server)
    BY DEF MirrorKept
  <1>2. /\ c.entry # NoEntry /\ d.entry # NoEntry /\ d.scope = c.scope /\ c.revisions \in Nat
        /\ d.revisions = top /\ d.entry.revision = top /\ OfScope(d.entry.data, c.scope, server)
        /\ Undos(d) \subseteq Undos(c) /\ UnderWay(d) \subseteq UnderWay(c)
    BY <1>1, RecordIs DEF Renews
  <1>3. Versions(d) \subseteq Versions(c) \union {here}
    <2>1. ASSUME NEW x \in Versions(d), x # here PROVE x \in Versions(c)
      <3>1. \/ x = <<d.entry.revision, d.entry.data>>
            \/ \E u \in Undos(d) : x = <<u.before, u.data>>
            \/ \E i \in UnderWay(d) : d.loads[i].more /\ x = <<d.loads[i].revision, d.loads[i].value>>
        BY <1>2 DEF Versions
      <3>2. CASE \E u \in Undos(d) : x = <<u.before, u.data>>
        BY <3>2, <1>2 DEF Versions
      <3>3. CASE \E i \in UnderWay(d) : d.loads[i].more /\ x = <<d.loads[i].revision, d.loads[i].value>>
        BY <3>3, <1>2 DEF Renews, Versions
      <3>. QED
        BY <3>1, <3>2, <3>3, <2>1, <1>2
    <2>. QED
      BY <2>1
  <1>4. /\ \A x \in Versions(c) : x[1] \in Nat /\ x[1] <= c.revisions
        /\ \A u \in Undos(c) : u.revision \in Nat /\ u.revision <= c.revisions
    <2>1. \A u \in Undos(c) : u \in Undo
      BY <1>1, RecordIs, WriteIs DEF Undos
    <2>2. \A i \in UnderWay(c) : c.loads[i] \in Load
      BY <1>1, RecordIs DEF UnderWay
    <2>3. \A x \in Versions(c) : x[1] \in Nat
      BY <1>1, <1>2, <2>1, <2>2, RecordIs, EntryIs, LoadIs DEF Versions, Undo
    <2>. QED
      BY <1>1, <2>1, <2>3 DEF VersionsKept, EntryKept, Undo
  <1>5. here[1] = top /\ here[2] = d.entry.data
    OBVIOUS
  <1>. HIDE DEF top, here
  <1>6. top > c.revisions /\ \A n \in Nat : n <= c.revisions => n # top /\ n <= top
    BY <1>2 DEF top
  <1>7. VersionsKept(d, server)
    <2>1. ASSUME NEW x \in Versions(d) PROVE x[1] <= d.revisions /\ OfScope(x[2], d.scope, server)
      <3>1. CASE x \in Versions(c)
        BY <3>1, <1>1, <1>2, <1>4, <1>6 DEF VersionsKept
      <3>2. CASE x = here
        BY <3>2, <1>2, <1>5 DEF top
      <3>. QED
        BY <1>3, <3>1, <3>2
    <2>2. ASSUME NEW x \in Versions(d), NEW y \in Versions(d), x[1] = y[1] PROVE x[2] = y[2]
      BY <2>2, <1>1, <1>3, <1>4, <1>5, <1>6 DEF VersionsKept
    <2>3. ASSUME NEW x \in Versions(d), NEW u \in Undos(d), x[1] = u.revision
          PROVE  u.data = NoData \/ (x[2] # NoData /\ x[2].seen = u.data.seen)
      <3>1. x # here
        BY <2>3, <1>2, <1>4, <1>5, <1>6
      <3>. QED
        BY <2>3, <3>1, <1>1, <1>2, <1>3 DEF VersionsKept
    <2>. QED
      BY <2>1, <2>2, <2>3 DEF VersionsKept
  <1>8. EntryKept(d)
    BY <1>1, <1>2, <1>4, <1>6 DEF EntryKept, Renews, RestoredKept
  <1>9. ASSUME NEW i \in UnderWay(d) PROVE LoadKept(d, i, server)
    <2>1. i \in UnderWay(c) /\ d.loads[i] = c.loads[i] /\ d.entry.inflight = c.entry.inflight
          /\ (d.loads[i].at = "served" /\ ~d.loads[i].more => NotBehind(d.loads[i].value, d.entry.data))
      BY DEF Renews
    <2>. QED
      BY <1>1, <1>2, <2>1 DEF LoadKept
  <1>. QED
    BY <1>7, <1>8, <1>9 DEF MirrorKept

LEMMA CommittedKept ==
    ASSUME NEW server, NEW c, MirrorKept(c, server), c.entry # NoEntry,
           NEW value \in Value, OfScope(value, c.scope, server), value.given \/ UnderWay(c) = {}
    PROVE  LET d == Committed(c, value) IN
           /\ MirrorKept(d, server) /\ Goes(d, c) /\ d.entry # NoEntry /\ d.scope = c.scope
           /\ d.attached = c.attached /\ d.loads = c.loads /\ d.writes = c.writes
           /\ d.entry.data = value /\ d.entry.inflight = c.entry.inflight
           /\ d.entry.restored = c.entry.restored
  <1>. DEFINE top == c.revisions + 1
              e == [c.entry EXCEPT !.revision = top, !.data = value, !.stale = FALSE]
              d == Committed(c, value)
  <1>1. c \in MirrorRecord /\ c.entry \in Entry /\ top \in Nat
    BY RecordIs DEF MirrorKept
  <1>. HIDE DEF top
  <1>2. /\ e \in Entry /\ e.revision = top /\ e.data = value /\ e.restored = c.entry.restored
        /\ e.inflight = c.entry.inflight
    BY <1>1 DEF Entry
  <1>3. d = [c EXCEPT !.revisions = top, !.entry = e]
    BY <1>1 DEF Committed, MirrorRecord, top
  <1>. HIDE DEF e
  <1>4. /\ d \in MirrorRecord /\ d.entry = e /\ d.revisions = top /\ d.scope = c.scope
        /\ d.loads = c.loads /\ d.writes = c.writes /\ d.disposed = c.disposed /\ d.attached = c.attached
    BY <1>1, <1>2, <1>3 DEF MirrorRecord
  <1>. HIDE DEF d
  <1>5. e # NoEntry
    BY <1>2, EntryIs
  <1>6. Undos(d) = Undos(c) /\ UnderWay(d) = UnderWay(c)
    BY <1>4 DEF Undos, UnderWay
  <1>7. RestoredKept(d)
    BY <1>2, <1>4 DEF RestoredKept, MirrorKept, EntryKept
  <1>8. Renews(d, c, server)
    BY <1>2, <1>4, <1>5, <1>6, <1>7 DEF Renews, NotBehind, top
  <1>9. MirrorKept(d, server)
    BY <1>4, <1>8, Renewed
  <1>10. Goes(d, c)
    BY <1>4 DEF Goes
  <1>. QED
    BY <1>2, <1>4, <1>5, <1>9, <1>10 DEF d

LEMMA EntryForKept ==
    ASSUME NEW server, NEW c, MirrorKept(c, server), NEW s \in Scopes
    PROVE  LET d == EntryFor(c, s) IN
           /\ MirrorKept(d, server) /\ Goes(d, c) /\ d.scope = s /\ d.entry # NoEntry
           /\ d.attached = c.attached /\ FreeSlots(d) = FreeSlots(c)
           /\ d.entry.data = NoData \/ d.entry = c.entry
  <1>. DEFINE a == Entered(c, s)
              d == EntryFor(c, s)
  <1>1. /\ MirrorKept(a, server) /\ Goes(a, c) /\ a.scope = s /\ a.entry \in {c.entry, NoEntry}
        /\ a.attached = c.attached /\ FreeSlots(a) = FreeSlots(c)
    BY EnteredKept
  <1>2. d = IF a.entry = NoEntry THEN [a EXCEPT !.entry = NewEntry] ELSE a
    BY DEF EntryFor
  <1>. HIDE DEF a, d
  <1>3. CASE a.entry # NoEntry
    BY <1>1, <1>2, <1>3 DEF d
  <1>4. CASE a.entry = NoEntry
    <2>1. a \in MirrorRecord
      BY <1>1 DEF MirrorKept
    <2>2. NewEntry \in Entry /\ NewEntry.data = NoData /\ NewEntry.restored = NoData /\ NewEntry.revision = 0
      BY DEF Entry, NewEntry
    <2>3. NewEntry # NoEntry
      BY <2>2, EntryIs
    <2>4. /\ d \in MirrorRecord /\ d.entry = NewEntry /\ d.scope = a.scope /\ d.loads = a.loads
          /\ d.writes = a.writes /\ d.disposed = a.disposed /\ d.attached = a.attached /\ d.revisions = a.revisions
      BY <1>2, <1>4, <2>1, <2>2 DEF MirrorRecord
    <2>5. Undos(d) = {} /\ UnderWay(d) = {}
      <3>1. Undos(a) = {} /\ UnderWay(a) = {}
        BY <1>1, <1>4, EmptyOnly
      <3>. QED
        BY <2>4, <3>1 DEF Undos, UnderWay
    <2>6. Versions(d) = {<<0, NoData>>}
      BY <2>2, <2>3, <2>4, <2>5 DEF Versions
    <2>7. d.revisions \in Nat
      BY <2>1, <2>4, RecordIs
    <2>8. VersionsKept(d, server)
      BY <2>5, <2>6, <2>7 DEF VersionsKept, OfScope
    <2>9. EntryKept(d)
      BY <1>1, <2>2, <2>4, <2>5 DEF EntryKept
    <2>10. MirrorKept(d, server)
      BY <2>4, <2>5, <2>8, <2>9 DEF MirrorKept
    <2>11. Goes(d, c) /\ FreeSlots(d) = FreeSlots(c)
      BY <1>1, <2>4 DEF Goes, FreeSlots
    <2>. QED
      BY <1>1, <2>2, <2>3, <2>4, <2>10, <2>11 DEF d
  <1>. QED
    BY <1>3, <1>4

\* configureRead: what was restored becomes the value.
LEMMA ConfiguredKept ==
    ASSUME NEW server, NEW c, MirrorKept(c, server), c.entry # NoEntry
    PROVE  LET d == Configured(c) IN
           /\ MirrorKept(d, server) /\ Goes(d, c) /\ d.entry # NoEntry /\ d.scope = c.scope
           /\ d.attached = c.attached /\ FreeSlots(d) = FreeSlots(c)
  <1>. DEFINE e == [c.entry EXCEPT !.loadable = TRUE, !.restored = NoData]
              a == [c EXCEPT !.entry = e]
              value == c.entry.restored
  <1>1. c \in MirrorRecord /\ c.entry \in Entry /\ EntryKept(c)
    BY RecordIs DEF MirrorKept
  <1>2. value \in Value \union {NoData}
    BY <1>1, EntryIs
  <1>3. /\ e \in Entry /\ e.data = c.entry.data /\ e.revision = c.entry.revision /\ e.restored = NoData
        /\ e.inflight = c.entry.inflight
    BY <1>1 DEF Entry
  <1>4. Configured(c) = IF value = NoData THEN a ELSE Committed(a, value)
    BY <1>1 DEF Configured, MirrorRecord
  <1>. HIDE DEF e
  <1>5. /\ a \in MirrorRecord /\ a.entry = e /\ a.scope = c.scope /\ a.revisions = c.revisions
        /\ a.loads = c.loads /\ a.writes = c.writes /\ a.disposed = c.disposed /\ a.attached = c.attached
    BY <1>1, <1>3 DEF MirrorRecord
  <1>. HIDE DEF a
  <1>6. e # NoEntry
    BY <1>3, EntryIs
  <1>7. Narrows(a, c)
    <2>1. Undos(a) = Undos(c) /\ UnderWay(a) = UnderWay(c)
      BY <1>5 DEF Undos, UnderWay
    <2>2. RestoredKept(a)
      BY <1>3, <1>5 DEF RestoredKept
    <2>. QED
      BY <1>3, <1>5, <1>6, <2>1, <2>2 DEF Narrows
  <1>8. MirrorKept(a, server)
    BY <1>5, <1>7, Narrowed
  <1>9. Goes(a, c) /\ FreeSlots(a) = FreeSlots(c)
    BY <1>5 DEF Goes, FreeSlots
  <1>10. CASE value = NoData
    BY <1>4, <1>5, <1>6, <1>8, <1>9, <1>10
  <1>11. CASE value # NoData
    <2>. DEFINE d == Committed(a, value)
    <2>1. value \in Value /\ value.given /\ value.scope = c.scope
      BY <1>1, <1>2, <1>11 DEF EntryKept
    <2>2. OfScope(value, a.scope, server)
      BY <2>1, <1>5 DEF OfScope
    <2>. HIDE DEF value
    <2>3. /\ MirrorKept(d, server) /\ Goes(d, a) /\ d.entry # NoEntry /\ d.scope = a.scope
          /\ d.attached = a.attached /\ d.loads = a.loads
      BY <1>5, <1>6, <1>8, <2>1, <2>2, CommittedKept
    <2>4. Configured(c) = d
      BY <1>4, <1>11
    <2>. HIDE DEF d
    <2>5. FreeSlots(d) = FreeSlots(c)
      BY <2>3, <1>5 DEF FreeSlots
    <2>6. Goes(d, c)
      BY <2>3, <1>9, GoesOn
    <2>. QED
      BY <2>3, <2>4, <2>5, <2>6, <1>5
  <1>. QED
    BY <1>10, <1>11

\* A load begins with what there is: it is the only one under way.
LEMMA StartedKept ==
    ASSUME NEW server, NEW c, MirrorKept(c, server), c.entry # NoEntry, FreeSlots(c) # {},
           NEW load \in Load, ~load.aborted,
           load.more => load.value = c.entry.data /\ load.value # NoData /\ load.revision = c.entry.revision
    PROVE  LET d == Started(c, load) IN
           /\ MirrorKept(d, server) /\ Goes(d, c) /\ d.entry # NoEntry /\ d.scope = c.scope
  <1>. DEFINE a == Abandoned(c)
              k == CHOOSE i \in FreeSlots(c) : TRUE
              l == [load EXCEPT !.at = "asked", !.asked = c.revisions, !.scope = c.scope]
              ls == [a.loads EXCEPT ![k] = l]
              e == [a.entry EXCEPT !.inflight = k]
              d == Started(c, load)
  <1>1. c \in MirrorRecord /\ VersionsKept(c, server) /\ EntryKept(c) /\ c.entry \in Entry
    BY RecordIs DEF MirrorKept
  <1>2. k \in FreeSlots(c)
    OBVIOUS
  <1>3. k \in 1 .. LoadSlots /\ c.loads[k].at = "free"
    BY <1>2 DEF FreeSlots
  <1>4. /\ MirrorKept(a, server) /\ Goes(a, c) /\ UnderWay(a) = {}
    BY AbandonedKept
  <1>5. /\ a \in MirrorRecord /\ a.scope = c.scope /\ a.revisions = c.revisions /\ a.writes = c.writes
        /\ a.disposed = c.disposed /\ a.entry # NoEntry
        /\ a.entry.data = c.entry.data /\ a.entry.revision = c.entry.revision
        /\ a.entry.restored = c.entry.restored
        /\ \A i \in 1 .. LoadSlots : a.loads[i].at = c.loads[i].at
    BY <1>1, AbandonedIs
  <1>6. d = [a EXCEPT !.loads[k] = l, !.entry.inflight = k]
    BY DEF Started
  <1>. HIDE DEF a, k
  <1>7. a.entry \in Entry /\ a.loads \in [1 .. LoadSlots -> Load] /\ c.revisions \in Nat
        /\ c.scope \in Scopes \union {NoScope}
    BY <1>1, <1>5, RecordIs
  <1>8. /\ l \in Load /\ l.at = "asked" /\ l.asked = c.revisions /\ l.scope = c.scope
        /\ l.aborted = load.aborted /\ l.more = load.more /\ l.value = load.value /\ l.revision = load.revision
    BY <1>7 DEF Load
  <1>. HIDE DEF l
  <1>9. ls \in [1 .. LoadSlots -> Load] /\ \A i \in 1 .. LoadSlots : ls[i] = IF i = k THEN l ELSE a.loads[i]
    BY <1>3, <1>7, <1>8
  <1>10. /\ e \in Entry /\ e.data = a.entry.data /\ e.revision = a.entry.revision
         /\ e.restored = a.entry.restored /\ e.inflight = k
    BY <1>3, <1>7 DEF Entry
  <1>11. d = [a EXCEPT !.loads = ls, !.entry = e]
    BY <1>5, <1>6 DEF MirrorRecord
  <1>. HIDE DEF ls, e, d
  <1>12. /\ d \in MirrorRecord /\ d.loads = ls /\ d.entry = e /\ d.scope = c.scope
         /\ d.revisions = c.revisions /\ d.writes = c.writes /\ d.disposed = c.disposed
    BY <1>5, <1>9, <1>10, <1>11 DEF MirrorRecord
  <1>13. e # NoEntry
    BY <1>10, EntryIs
  <1>14. UnderWay(d) = {k} /\ d.loads[k] = l
    <2>1. d.loads[k] = l /\ l.at = "asked" /\ ~l.aborted
      BY <1>3, <1>8, <1>9, <1>12
    <2>2. \A i \in 1 .. LoadSlots : i # k => d.loads[i] = a.loads[i]
      BY <1>9, <1>12
    <2>. QED
      BY <1>3, <1>4, <2>1, <2>2 DEF UnderWay
  <1>15. Undos(d) = Undos(c)
    BY <1>12 DEF Undos
  <1>16. Versions(d) \subseteq Versions(c)
    BY <1>5, <1>8, <1>10, <1>12, <1>13, <1>14, <1>15 DEF Versions
  <1>17. VersionsKept(d, server)
    BY <1>1, <1>12, <1>15, <1>16 DEF VersionsKept
  <1>18. EntryKept(d)
    BY <1>1, <1>5, <1>10, <1>12, <1>13, <1>15 DEF EntryKept
  <1>19. LoadKept(d, k, server)
    <2>1. \A u \in Undos(d) : u.revision <= l.asked
      BY <1>1, <1>8, <1>15 DEF EntryKept
    <2>2. l.at # "served" /\ (l.more => l.value # NoData) /\ l.scope = d.scope
      BY <1>8, <1>12
    <2>3. d.entry # NoEntry /\ d.entry.inflight = k
      BY <1>10, <1>12, <1>13
    <2>. QED
      BY <1>14, <2>1, <2>2, <2>3 DEF LoadKept
  <1>20. MirrorKept(d, server)
    BY <1>12, <1>14, <1>17, <1>18, <1>19 DEF MirrorKept
  <1>21. Goes(d, c)
    <2>1. \A i \in 1 .. LoadSlots : d.loads[i] = IF i = k THEN l ELSE a.loads[i]
      BY <1>9, <1>12
    <2>2. LoadScoped(l)
      BY <1>1, <1>8 DEF EntryKept, LoadScoped
    <2>3. \A i \in 1 .. LoadSlots : /\ c.loads[i].at # "free" => d.loads[i].at # "free"
                                    /\ LoadScoped(c.loads[i]) => LoadScoped(d.loads[i])
      BY <1>3, <1>4, <1>5, <2>1, <2>2 DEF Goes
    <2>. QED
      BY <2>3, <1>12 DEF Goes
  <1>. QED
    BY <1>12, <1>13, <1>20, <1>21 DEF d

LEMMA FreeLoadIs ==
    FreeLoad \in Load /\ ~FreeLoad.aborted /\ ~FreeLoad.more /\ FreeLoad.at = "free"
  BY DEF FreeLoad, Load

LEMMA LoadingKept ==
    ASSUME NEW server, NEW c, MirrorKept(c, server), c.entry # NoEntry, FreeSlots(c) # {},
           NEW force \in BOOLEAN
    PROVE  LET d == Loading(c, force) IN
           /\ MirrorKept(d, server) /\ Goes(d, c) /\ d.entry # NoEntry /\ d.scope = c.scope
  <1>1. Goes(c, c)
    BY DEF Goes
  <1>2. Loading(c, force) \in {c, Started(c, FreeLoad)}
    BY DEF Loading
  <1>3. CASE Loading(c, force) = c
    BY <1>1, <1>3
  <1>4. CASE Loading(c, force) = Started(c, FreeLoad)
    BY <1>4, StartedKept, FreeLoadIs
  <1>. QED
    BY <1>2, <1>3, <1>4

\* The binding effect leaves the reading with its entry.
LEMMA FollowedKept ==
    ASSUME NEW server, NEW c, MirrorKept(c, server), NEW p \in PageRecord,
           FreeSlots(c) # {} \/ ~c.attached
    PROVE  LET d == Followed(c, p) IN
           /\ MirrorKept(d, server) /\ Goes(d, c)
           /\ p.reading = "bound" /\ ~c.disposed => d.entry # NoEntry /\ d.scope = p.identity
  <1>. DEFINE d == Followed(c, p)
              a == EntryFor(c, p.identity)
              b == Configured(a)
  <1>1. p.identity \in Scopes /\ p.reading \in {"none", "idle", "bound"}
    BY DEF PageRecord
  <1>2. CASE p.reading = "none" \/ c.disposed
    <2>1. d = c
      BY <1>2 DEF Followed
    <2>2. Goes(c, c)
      BY DEF Goes
    <2>. QED
      BY <1>2, <2>1, <2>2
  <1>3. CASE p.reading = "idle" /\ ~c.disposed
    <2>1. d = Entered(c, p.identity)
      BY <1>3 DEF Followed
    <2>. QED
      BY <1>1, <1>3, <2>1, EnteredKept
  <1>4. CASE p.reading = "bound" /\ ~c.disposed
    <2>1. /\ MirrorKept(a, server) /\ Goes(a, c) /\ a.scope = p.identity /\ a.entry # NoEntry
          /\ a.attached = c.attached /\ FreeSlots(a) = FreeSlots(c)
      BY <1>1, EntryForKept
    <2>2. d \in {b, Loading(b, FALSE)} /\ (d # b => b.attached)
      BY <1>4 DEF Followed
    <2>. HIDE DEF a
    <2>3. /\ MirrorKept(b, server) /\ Goes(b, a) /\ b.entry # NoEntry /\ b.scope = a.scope
          /\ b.attached = a.attached /\ FreeSlots(b) = FreeSlots(a)
      BY <2>1, ConfiguredKept
    <2>. HIDE DEF b
    <2>4. Goes(b, c)
      BY <2>1, <2>3, GoesOn
    <2>5. CASE d = b
      BY <2>1, <2>3, <2>4, <2>5
    <2>6. CASE d # b
      <3>1. d = Loading(b, FALSE) /\ FreeSlots(b) # {}
        BY <2>1, <2>2, <2>3, <2>6
      <3>2. MirrorKept(d, server) /\ Goes(d, b) /\ d.entry # NoEntry /\ d.scope = b.scope
        BY <2>3, <3>1, LoadingKept
      <3>. QED
        BY <2>1, <2>3, <2>4, <3>2, GoesOn
    <2>. QED
      BY <2>5, <2>6
  <1>. QED
    BY <1>1, <1>2, <1>3, <1>4

-----------------------------------------------------------------------------
(* Patches, and what becomes of them.                                      *)

LEMMA EnteredSame ==
    ASSUME NEW c \in MirrorRecord, c.scope # NoScope
    PROVE  Entered(c, c.scope) = c
  <1>1. Entered(c, c.scope) = [c EXCEPT !.scope = c.scope]
    BY DEF Entered
  <1>. QED
    BY <1>1 DEF MirrorRecord

\* The writes may be moved on, as long as their patches stay what they are.
LEMMA WritesSet ==
    ASSUME NEW server, NEW c, MirrorKept(c, server), NEW ws \in [Writes -> WriteRecord],
           \A v \in Writes : ws[v].undo = c.writes[v].undo
    PROVE  LET d == [c EXCEPT !.writes = ws] IN
           /\ MirrorKept(d, server) /\ d.writes = ws /\ d.entry = c.entry /\ d.scope = c.scope
           /\ d.disposed = c.disposed /\ d.loads = c.loads /\ d.revisions = c.revisions
           /\ d.epoch = c.epoch /\ d.attached = c.attached
  <1>. DEFINE d == [c EXCEPT !.writes = ws]
  <1>1. c \in MirrorRecord /\ EntryKept(c)
    BY DEF MirrorKept
  <1>2. /\ d \in MirrorRecord /\ d.writes = ws /\ d.entry = c.entry /\ d.scope = c.scope
        /\ d.disposed = c.disposed /\ d.loads = c.loads /\ d.revisions = c.revisions
        /\ d.epoch = c.epoch /\ d.attached = c.attached
    BY <1>1 DEF MirrorRecord
  <1>. HIDE DEF d
  <1>3. Undos(d) = Undos(c) /\ UnderWay(d) = UnderWay(c)
    BY <1>2 DEF Undos, UnderWay
  <1>4. RestoredKept(d)
    BY <1>1, <1>2 DEF EntryKept, RestoredKept
  <1>5. Narrows(d, c)
    BY <1>2, <1>3, <1>4 DEF Narrows
  <1>6. MirrorKept(d, server)
    BY <1>2, <1>5, Narrowed
  <1>. QED
    BY <1>2, <1>6 DEF d

Outcomes == {"done", "failed", "aborted", "rejected", "sent", "applied"}

LEMMA EndedKept ==
    ASSUME NEW server, NEW c, MirrorKept(c, server), NEW w \in Writes, NEW outcome \in Outcomes
    PROVE  LET d == Ended(c, w, outcome) IN
           /\ MirrorKept(d, server) /\ d.entry = c.entry /\ d.scope = c.scope
           /\ d.disposed = c.disposed /\ d.loads = c.loads /\ d.revisions = c.revisions
           /\ d.writes[w].at = outcome
           /\ d.writes[w].scope = c.writes[w].scope /\ d.writes[w].sentAs = c.writes[w].sentAs
           /\ \A v \in Writes : v # w => d.writes[v] = c.writes[v]
  <1>. DEFINE v == [c.writes[w] EXCEPT !.at = outcome]
              ws == [c.writes EXCEPT ![w] = v]
  <1>1. c \in MirrorRecord /\ c.writes \in [Writes -> WriteRecord]
    BY RecordIs DEF MirrorKept
  <1>2. c.writes[w] \in WriteRecord
    BY <1>1
  <1>3. /\ v \in WriteRecord /\ v.at = outcome /\ v.undo = c.writes[w].undo
        /\ v.scope = c.writes[w].scope /\ v.sentAs = c.writes[w].sentAs
    BY <1>2 DEF WriteRecord, Outcomes
  <1>4. Ended(c, w, outcome) = [c EXCEPT !.writes = ws]
    BY <1>1 DEF Ended, MirrorRecord
  <1>. HIDE DEF v
  <1>5. ws \in [Writes -> WriteRecord] /\ \A x \in Writes : ws[x] = IF x = w THEN v ELSE c.writes[x]
    BY <1>1, <1>3
  <1>. HIDE DEF ws
  <1>6. \A x \in Writes : ws[x].undo = c.writes[x].undo
    BY <1>3, <1>5
  <1>7. LET d == [c EXCEPT !.writes = ws] IN
           /\ MirrorKept(d, server) /\ d.writes = ws /\ d.entry = c.entry /\ d.scope = c.scope
           /\ d.disposed = c.disposed /\ d.loads = c.loads /\ d.revisions = c.revisions
    BY <1>5, <1>6, WritesSet
  <1>. QED
    BY <1>3, <1>4, <1>5, <1>7

LEMMA WithPatchIs ==
    ASSUME NEW value \in Value \union {NoData}, NEW s \in Scopes, NEW w \in Writes, NEW server,
           OfScope(value, s, server)
    PROVE  LET v == WithPatch(value, s, w) IN
           /\ v \in Value /\ v # NoData /\ OfScope(v, s, server)
           /\ value = NoData \/ v.seen = value.seen
  <1>. DEFINE v == WithPatch(value, s, w)
  <1>1. CASE value = NoData
    <2>1. v = [scope |-> s, seen |-> {}, ghosts |-> {w}, given |-> FALSE]
      BY <1>1 DEF WithPatch, Answer
    <2>2. v \in Value
      BY <2>1 DEF Value
    <2>3. v.scope = s /\ v.seen = {}
      BY <2>1
    <2>. HIDE DEF v
    <2>4. OfScope(v, s, server)
      BY <2>3 DEF OfScope
    <2>. QED
      BY <1>1, <2>2, <2>4, MirrorNulls DEF v
  <1>2. CASE value # NoData
    <2>1. value \in Value /\ v = [value EXCEPT !.ghosts = @ \union {w}]
      BY <1>2 DEF WithPatch
    <2>2. v \in Value /\ v.scope = value.scope /\ v.seen = value.seen /\ v.given = value.given
      BY <2>1 DEF Value
    <2>. QED
      BY <1>2, <2>2, MirrorNulls DEF OfScope
  <1>. QED
    BY <1>1, <1>2

\* A patch aborts the loads under way, and its version is new.
LEMMA PatchedKept ==
    ASSUME NEW server, NEW c, MirrorKept(c, server), NEW w \in Writes
    PROVE  LET d == Patched(c, w) IN
           /\ MirrorKept(d, server) /\ Goes(d, c) /\ d.scope = c.scope /\ (d.entry = NoEntry <=> c.entry = NoEntry)
           /\ c.entry # NoEntry => /\ d.writes[w].undo # NoUndo /\ d.writes[w].undo.data = c.entry.data
                                   /\ d.writes[w].undo.revision = d.entry.revision
           /\ c.entry = NoEntry => d = c
  <1>. DEFINE d == Patched(c, w)
              a == Abandoned(c)
              top == c.revisions + 1
              undo == [data |-> c.entry.data, before |-> c.entry.revision, revision |-> top]
              value == WithPatch(c.entry.data, c.scope, w)
              e == [a.entry EXCEPT !.revision = top, !.stale = TRUE, !.data = value]
              v == [a.writes[w] EXCEPT !.undo = undo]
              ws == [a.writes EXCEPT ![w] = v]
              here == <<top, value>>
  <1>0. CASE c.entry = NoEntry
    <2>1. d = c
      BY <1>0 DEF Patched
    <2>. QED
      BY <1>0, <2>1 DEF Goes
  <1>1. CASE c.entry # NoEntry
    <2>1. /\ c \in MirrorRecord /\ VersionsKept(c, server) /\ EntryKept(c) /\ c.entry \in Entry
          /\ c.scope \in Scopes /\ c.revisions \in Nat
      BY <1>1, RecordIs DEF MirrorKept, EntryKept
    <2>2. /\ MirrorKept(a, server) /\ Goes(a, c) /\ UnderWay(a) = {}
      BY AbandonedKept
    <2>3. /\ a \in MirrorRecord /\ a.scope = c.scope /\ a.revisions = c.revisions /\ a.writes = c.writes
          /\ a.disposed = c.disposed /\ a.entry # NoEntry
          /\ a.entry.data = c.entry.data /\ a.entry.revision = c.entry.revision
          /\ a.entry.restored = c.entry.restored
      BY <1>1, <2>1, AbandonedIs
    <2>4. /\ c.entry.data \in Value \union {NoData} /\ c.entry.revision \in Nat
          /\ <<c.entry.revision, c.entry.data>> \in Versions(c)
      BY <1>1, <2>1, EntryIs DEF Versions
    <2>5. c.entry.revision <= c.revisions /\ OfScope(c.entry.data, c.scope, server)
      BY <2>1, <2>4 DEF VersionsKept
    <2>6. /\ value \in Value /\ OfScope(value, c.scope, server)
          /\ c.entry.data = NoData \/ (value # NoData /\ value.seen = c.entry.data.seen)
      BY <2>1, <2>4, <2>5, WithPatchIs
    <2>7. d = [a EXCEPT !.revisions = top, !.entry.revision = top, !.entry.stale = TRUE, !.entry.data = value,
                        !.writes[w].undo = undo]
      BY <1>1, <2>3 DEF Patched, MakesWay
    <2>. HIDE DEF a, value
    <2>8. top \in Nat /\ undo \in Undo /\ undo.data = c.entry.data /\ undo.before = c.entry.revision
          /\ undo.revision = top
      BY <2>1, <2>4 DEF Undo
    <2>. HIDE DEF top
    <2>. HIDE DEF undo
    <2>9. a.entry \in Entry /\ a.writes \in [Writes -> WriteRecord] /\ a.writes[w] \in WriteRecord
      BY <2>3, RecordIs
    <2>10. /\ e \in Entry /\ e.revision = top /\ e.data = value /\ e.restored = c.entry.restored
           /\ e.inflight = a.entry.inflight
      BY <2>3, <2>6, <2>8, <2>9 DEF Entry
    <2>11. /\ v \in WriteRecord /\ v.undo = undo /\ v.at = c.writes[w].at /\ v.scope = c.writes[w].scope
           /\ v.sentAs = c.writes[w].sentAs
      BY <2>3, <2>8, <2>9 DEF WriteRecord
    <2>12. d = [a EXCEPT !.revisions = top, !.entry = e, !.writes = ws]
      BY <2>3, <2>7 DEF MirrorRecord
    <2>. HIDE DEF e, v
    <2>13. ws \in [Writes -> WriteRecord] /\ \A x \in Writes : ws[x] = IF x = w THEN v ELSE c.writes[x]
      BY <2>3, <2>9, <2>11
    <2>. HIDE DEF ws, d
    <2>14. /\ d \in MirrorRecord /\ d.entry = e /\ d.writes = ws /\ d.revisions = top /\ d.scope = c.scope
           /\ d.loads = a.loads /\ d.disposed = c.disposed
      BY <2>3, <2>8, <2>10, <2>12, <2>13 DEF MirrorRecord
    <2>15. e # NoEntry /\ undo # NoUndo
      BY <2>8, <2>10, EntryIs, MirrorNulls
    <2>16. UnderWay(d) = {}
      BY <2>2, <2>14 DEF UnderWay
    <2>17. Undos(d) \subseteq Undos(c) \union {undo}
      BY <2>11, <2>13, <2>14 DEF Undos
    <2>18. Versions(d) \subseteq Versions(c) \union {here}
      <3>1. Versions(d) = {<<e.revision, e.data>>} \union { <<u.before, u.data>> : u \in Undos(d) }
        BY <2>14, <2>15, <2>16 DEF Versions
      <3>2. <<undo.before, undo.data>> \in Versions(c)
        BY <2>4, <2>8
      <3>3. \A u \in Undos(c) : <<u.before, u.data>> \in Versions(c)
        BY <1>1 DEF Versions
      <3>. QED
        BY <3>1, <3>2, <3>3, <2>10, <2>17
    <2>19. here[1] = top /\ here[2] = value
      OBVIOUS
    <2>. HIDE DEF here
    <2>20. /\ \A x \in Versions(c) : x[1] \in Nat /\ x[1] <= c.revisions
           /\ \A u \in Undos(c) : u.revision \in Nat /\ u.revision <= c.revisions
      <3>1. \A u \in Undos(c) : u \in Undo
        BY <2>1, RecordIs, WriteIs DEF Undos
      <3>2. \A i \in UnderWay(c) : c.loads[i] \in Load
        BY <2>1, RecordIs DEF UnderWay
      <3>3. \A x \in Versions(c) : x[1] \in Nat
        BY <1>1, <2>1, <3>1, <3>2, EntryIs, LoadIs DEF Versions, Undo
      <3>. QED
        BY <2>1, <3>1, <3>3 DEF VersionsKept, EntryKept, Undo
    <2>21. top > c.revisions /\ \A n \in Nat : n <= c.revisions => n # top /\ n <= top
      BY <2>1 DEF top
    <2>22. VersionsKept(d, server)
      <3>1. ASSUME NEW x \in Versions(d) PROVE x[1] <= d.revisions /\ OfScope(x[2], d.scope, server)
        <4>1. CASE x \in Versions(c)
          BY <4>1, <2>1, <2>14, <2>20, <2>21 DEF VersionsKept
        <4>2. CASE x = here
          BY <4>2, <2>6, <2>8, <2>14, <2>19
        <4>. QED
          BY <2>18, <4>1, <4>2
      <3>2. ASSUME NEW x \in Versions(d), NEW y \in Versions(d), x[1] = y[1] PROVE x[2] = y[2]
        BY <3>2, <2>1, <2>18, <2>19, <2>20, <2>21 DEF VersionsKept
      <3>3. ASSUME NEW x \in Versions(d), NEW u \in Undos(d), x[1] = u.revision
            PROVE  u.data = NoData \/ (x[2] # NoData /\ x[2].seen = u.data.seen)
        <4>1. CASE u = undo
          <5>1. x = here
            BY <3>3, <4>1, <2>8, <2>18, <2>20, <2>21
          <5>. QED
            BY <4>1, <5>1, <2>6, <2>8, <2>19
        <4>2. CASE u \in Undos(c)
          <5>1. x \in Versions(c)
            BY <3>3, <4>2, <2>18, <2>19, <2>20, <2>21
          <5>. QED
            BY <3>3, <4>2, <5>1, <2>1 DEF VersionsKept
        <4>. QED
          BY <2>17, <4>1, <4>2
      <3>. QED
        BY <3>1, <3>2, <3>3 DEF VersionsKept
    <2>23. EntryKept(d)
      <3>1. \A u \in Undos(d) : u.revision <= d.revisions
        BY <2>8, <2>14, <2>17, <2>20, <2>21
      <3>. QED
        BY <1>1, <3>1, <2>1, <2>10, <2>14, <2>15 DEF EntryKept
    <2>24. MirrorKept(d, server)
      BY <2>14, <2>16, <2>22, <2>23 DEF MirrorKept
    <2>25. Goes(d, c)
      <3>1. \A x \in Writes : /\ d.writes[x].at = c.writes[x].at /\ d.writes[x].scope = c.writes[x].scope
                              /\ d.writes[x].sentAs = c.writes[x].sentAs
        BY <2>11, <2>13, <2>14
      <3>. QED
        BY <3>1, <2>2, <2>14 DEF Goes
    <2>26. d.writes[w].undo = undo
      BY <2>11, <2>13, <2>14
    <2>. QED
      BY <1>1, <2>8, <2>10, <2>14, <2>15, <2>24, <2>25, <2>26 DEF d
  <1>. QED
    BY <1>0, <1>1

\* A rollback comes back to what the patch was laid over, which shows the same answers.
LEMMA RolledBackKept ==
    ASSUME NEW server, NEW c, MirrorKept(c, server), NEW w \in Writes
    PROVE  LET d == RolledBack(c, w) IN
           /\ MirrorKept(d, server) /\ Goes(d, c) /\ d.scope = c.scope /\ (d.entry = NoEntry <=> c.entry = NoEntry)
           /\ c.entry # NoEntry =>
                d.entry.data = NoData \/ (c.entry.data # NoData /\ d.entry.data.seen = c.entry.data.seen)
                \/ d.entry.data = c.entry.data
  <1>. DEFINE d == RolledBack(c, w)
              undo == c.writes[w].undo
              e == [c.entry EXCEPT !.data = undo.data, !.revision = undo.before]
  <1>1. CASE ~OwnPatch(c, undo, w)
    <2>1. d = c
      BY <1>1 DEF RolledBack
    <2>. QED
      BY <2>1 DEF Goes
  <1>2. CASE OwnPatch(c, undo, w)
    <2>1. c \in MirrorRecord /\ VersionsKept(c, server) /\ EntryKept(c)
      BY DEF MirrorKept
    <2>2. undo # NoUndo /\ c.entry.revision = undo.revision /\ undo \in Undos(c)
      BY <1>2 DEF OwnPatch, Undos
    <2>3. c.entry # NoEntry /\ c.entry \in Entry
      BY <2>1, <2>2, RecordIs DEF EntryKept
    <2>4. undo \in Undo
      <3>1. c.writes[w] \in WriteRecord
        BY <2>1, RecordIs
      <3>. QED
        BY <2>2, <3>1, WriteIs
    <2>5. d = [c EXCEPT !.entry = e]
      BY <1>2, <2>1 DEF RolledBack, MirrorRecord
    <2>. HIDE DEF undo
    <2>6. /\ e \in Entry /\ e.data = undo.data /\ e.revision = undo.before
          /\ e.restored = c.entry.restored /\ e.inflight = c.entry.inflight
      BY <2>3, <2>4 DEF Entry, Undo
    <2>. HIDE DEF e, d
    <2>7. /\ d \in MirrorRecord /\ d.entry = e /\ d.scope = c.scope /\ d.revisions = c.revisions
          /\ d.loads = c.loads /\ d.writes = c.writes /\ d.disposed = c.disposed
      BY <2>1, <2>5, <2>6 DEF MirrorRecord
    <2>8. e # NoEntry
      BY <2>6, EntryIs
    <2>9. Undos(d) = Undos(c) /\ UnderWay(d) = UnderWay(c)
      BY <2>7 DEF Undos, UnderWay
    <2>10. RestoredKept(d)
      BY <2>1, <2>3, <2>6, <2>7 DEF RestoredKept, EntryKept
    <2>11. Narrows(d, c)
      BY <2>2, <2>3, <2>6, <2>7, <2>8, <2>9, <2>10 DEF Narrows
    <2>12. MirrorKept(d, server)
      BY <2>7, <2>11, Narrowed
    <2>13. undo.data = NoData \/ (c.entry.data # NoData /\ c.entry.data.seen = undo.data.seen)
      <3>. DEFINE x == <<c.entry.revision, c.entry.data>>
      <3>1. x \in Versions(c) /\ x[1] = c.entry.revision /\ x[2] = c.entry.data
        BY <2>3 DEF Versions
      <3>. HIDE DEF x
      <3>. QED
        BY <3>1, <2>1, <2>2 DEF VersionsKept
    <2>14. Goes(d, c)
      BY <2>7 DEF Goes
    <2>. QED
      BY <2>3, <2>6, <2>7, <2>8, <2>12, <2>13, <2>14 DEF d
  <1>. QED
    BY <1>1, <1>2

-----------------------------------------------------------------------------
(* One write or the entry is set.                                          *)

LEMMA WriteIsSet ==
    ASSUME NEW server, NEW c, MirrorKept(c, server), NEW w \in Writes,
           NEW v \in WriteRecord, v.undo = c.writes[w].undo
    PROVE  LET d == [c EXCEPT !.writes = [c.writes EXCEPT ![w] = v]] IN
           /\ MirrorKept(d, server) /\ d.entry = c.entry /\ d.scope = c.scope
           /\ d.disposed = c.disposed /\ d.loads = c.loads /\ d.revisions = c.revisions
           /\ d.epoch = c.epoch /\ d.attached = c.attached
           /\ d.writes[w] = v /\ \A x \in Writes : x # w => d.writes[x] = c.writes[x]
  <1>. DEFINE ws == [c.writes EXCEPT ![w] = v]
  <1>1. c.writes \in [Writes -> WriteRecord]
    BY RecordIs DEF MirrorKept
  <1>2. ws \in [Writes -> WriteRecord] /\ \A x \in Writes : ws[x] = IF x = w THEN v ELSE c.writes[x]
    BY <1>1
  <1>. HIDE DEF ws
  <1>3. \A x \in Writes : ws[x].undo = c.writes[x].undo
    BY <1>2
  <1>4. LET d == [c EXCEPT !.writes = ws] IN
           /\ MirrorKept(d, server) /\ d.writes = ws /\ d.entry = c.entry /\ d.scope = c.scope
           /\ d.disposed = c.disposed /\ d.loads = c.loads /\ d.revisions = c.revisions
           /\ d.epoch = c.epoch /\ d.attached = c.attached
    BY <1>2, <1>3, WritesSet
  <1>. QED
    BY <1>2, <1>4 DEF ws

\* The entry is marked: its value and its load stay what they are.
LEMMA EntryMarked ==
    ASSUME NEW server, NEW c, MirrorKept(c, server), c.entry # NoEntry, NEW e \in Entry,
           e.data = c.entry.data, e.revision = c.entry.revision,
           e.inflight = c.entry.inflight \/ UnderWay(c) = {},
           e.restored # NoData => e.restored.scope = c.scope /\ e.restored.given
    PROVE  LET d == [c EXCEPT !.entry = e] IN
           /\ MirrorKept(d, server) /\ Goes(d, c) /\ d.entry = e /\ d.entry # NoEntry /\ d.scope = c.scope
           /\ d.disposed = c.disposed /\ d.loads = c.loads /\ d.writes = c.writes
           /\ d.attached = c.attached
  <1>. DEFINE d == [c EXCEPT !.entry = e]
  <1>1. c \in MirrorRecord
    BY DEF MirrorKept
  <1>2. /\ d \in MirrorRecord /\ d.entry = e /\ d.scope = c.scope /\ d.revisions = c.revisions
        /\ d.disposed = c.disposed /\ d.loads = c.loads /\ d.writes = c.writes /\ d.attached = c.attached
    BY <1>1 DEF MirrorRecord
  <1>. HIDE DEF d
  <1>3. Undos(d) = Undos(c) /\ UnderWay(d) = UnderWay(c) /\ e # NoEntry
    BY <1>2, EntryIs DEF Undos, UnderWay
  <1>4. RestoredKept(d)
    BY <1>2 DEF RestoredKept
  <1>5. Narrows(d, c)
    BY <1>2, <1>3, <1>4 DEF Narrows
  <1>6. MirrorKept(d, server)
    BY <1>2, <1>5, Narrowed
  <1>7. Goes(d, c)
    BY <1>2 DEF Goes
  <1>. QED
    BY <1>2, <1>3, <1>6, <1>7 DEF d

LEMMA AttachedSet ==
    ASSUME NEW server, NEW c, MirrorKept(c, server), NEW on \in BOOLEAN
    PROVE  LET d == [c EXCEPT !.attached = on] IN
           /\ MirrorKept(d, server) /\ Goes(d, c) /\ d.attached = on /\ d.entry = c.entry
           /\ d.loads = c.loads
  <1>. DEFINE d == [c EXCEPT !.attached = on]
  <1>1. c \in MirrorRecord
    BY DEF MirrorKept
  <1>2. /\ d \in MirrorRecord /\ d.entry = c.entry /\ d.scope = c.scope /\ d.revisions = c.revisions
        /\ d.disposed = c.disposed /\ d.loads = c.loads /\ d.writes = c.writes /\ d.attached = on
    BY <1>1 DEF MirrorRecord
  <1>. HIDE DEF d
  <1>3. Undos(d) = Undos(c) /\ UnderWay(d) = UnderWay(c)
    BY <1>2 DEF Undos, UnderWay
  <1>4. RestoredKept(d)
    BY <1>2 DEF RestoredKept, MirrorKept, EntryKept
  <1>5. Narrows(d, c)
    BY <1>2, <1>3, <1>4 DEF Narrows
  <1>6. MirrorKept(d, server)
    BY <1>2, <1>5, Narrowed
  <1>7. Goes(d, c)
    BY <1>2 DEF Goes
  <1>. QED
    BY <1>2, <1>6, <1>7 DEF d

LEMMA ReloadPatchedKept ==
    ASSUME NEW server, NEW c, MirrorKept(c, server), FreeSlots(c) # {}, NEW w \in Writes
    PROVE  LET d == ReloadPatched(c, w) IN
           /\ MirrorKept(d, server) /\ Goes(d, c) /\ d.scope = c.scope
           /\ c.entry # NoEntry => d.entry # NoEntry
  <1>1. Goes(c, c)
    BY DEF Goes
  <1>2. CASE ReloadPatched(c, w) = c
    BY <1>1, <1>2
  <1>3. CASE ReloadPatched(c, w) # c
    <2>1. ReloadPatched(c, w) = Loading(c, TRUE) /\ c.writes[w].undo # NoUndo
      BY <1>3 DEF ReloadPatched
    <2>2. c.entry # NoEntry
      BY <2>1 DEF MirrorKept, EntryKept, Undos
    <2>. QED
      BY <2>1, <2>2, LoadingKept
  <1>. QED
    BY <1>2, <1>3

LEMMA InvalidatedKept ==
    ASSUME NEW server, NEW c, MirrorKept(c, server), FreeSlots(c) # {}, miPage \in PageRecord
    PROVE  LET d == Invalidated(c) IN
           /\ MirrorKept(d, server) /\ Goes(d, c)
           /\ c.scope = miPage.identity => d.scope = c.scope /\ (c.entry # NoEntry => d.entry # NoEntry)
  <1>. DEFINE a == Entered(c, miPage.identity)
              e == [a.entry EXCEPT !.stale = TRUE]
              f == [e EXCEPT !.owed = TRUE]
              b == [a EXCEPT !.entry = e]
              owing == [a EXCEPT !.entry = f]
              d == Invalidated(c)
  <1>0. CASE c.disposed
    <2>1. d = c
      BY <1>0 DEF Invalidated
    <2>. QED
      BY <2>1 DEF Goes
  <1>1. CASE ~c.disposed
    <2>1. /\ MirrorKept(a, server) /\ Goes(a, c) /\ a.scope = miPage.identity /\ FreeSlots(a) # {}
      BY EnteredKept DEF PageRecord
    <2>2. c.scope = miPage.identity => a = c
      <3>1. miPage.identity # NoScope /\ c \in MirrorRecord
        BY MirrorAssumption DEF MirrorKept, PageRecord
      <3>. QED
        BY <3>1, EnteredSame
    <2>3. a \in MirrorRecord
      BY <2>1 DEF MirrorKept
    <2>4. d \in {a, b, Loading(owing, TRUE)} /\ (a.entry # NoEntry => d \in {b, Loading(owing, TRUE)})
          /\ (a.entry = NoEntry => d = a)
      <3>1. [a EXCEPT !.entry.stale = TRUE] = b
        BY <2>3 DEF MirrorRecord
      <3>2. [b EXCEPT !.entry.owed = TRUE] = owing
        BY <2>3 DEF MirrorRecord
      <3>. HIDE DEF a, b, owing, e, f
      <3>. QED
        BY <1>1, <3>1, <3>2 DEF Invalidated, a
    <2>5. CASE a.entry = NoEntry
      BY <2>1, <2>2, <2>4, <2>5
    <2>6. CASE a.entry # NoEntry
      <3>. HIDE DEF a
      <3>1. a.entry \in Entry /\ (a.entry.restored # NoData => a.entry.restored.scope = a.scope /\ a.entry.restored.given)
        BY <2>1, <2>3, <2>6, RecordIs DEF MirrorKept, EntryKept
      <3>2. /\ e \in Entry /\ e.data = a.entry.data /\ e.revision = a.entry.revision
            /\ e.inflight = a.entry.inflight /\ e.restored = a.entry.restored
            /\ f \in Entry /\ f.data = a.entry.data /\ f.revision = a.entry.revision
            /\ f.inflight = a.entry.inflight /\ f.restored = a.entry.restored
        BY <3>1 DEF Entry
      <3>. HIDE DEF e, f
      <3>3. MirrorKept(b, server) /\ Goes(b, a) /\ b.entry # NoEntry /\ b.scope = a.scope
        BY <2>1, <2>6, <3>1, <3>2, EntryMarked
      <3>4. /\ MirrorKept(owing, server) /\ Goes(owing, a) /\ owing.entry # NoEntry /\ owing.scope = a.scope
            /\ owing.loads = a.loads
        BY <2>1, <2>6, <3>1, <3>2, EntryMarked
      <3>. HIDE DEF b, owing
      <3>5. FreeSlots(owing) # {}
        BY <2>1, <3>4 DEF FreeSlots
      <3>6. /\ MirrorKept(Loading(owing, TRUE), server) /\ Goes(Loading(owing, TRUE), owing)
            /\ Loading(owing, TRUE).entry # NoEntry /\ Loading(owing, TRUE).scope = owing.scope
        BY <3>4, <3>5, LoadingKept
      <3>7. MirrorKept(d, server) /\ Goes(d, c) /\ d.entry # NoEntry /\ d.scope = a.scope
        <4>1. CASE d = b
          BY <4>1, <2>1, <3>3, GoesOn
        <4>2. CASE d = Loading(owing, TRUE)
          <5>1. Goes(owing, c)
            BY <2>1, <3>4, GoesOn
          <5>. QED
            BY <4>2, <5>1, <3>4, <3>6, GoesOn
        <4>. QED
          BY <2>4, <2>6, <4>1, <4>2
      <3>. QED
        BY <2>1, <3>7
    <2>. QED
      BY <2>5, <2>6
  <1>. QED
    BY <1>0, <1>1

-----------------------------------------------------------------------------
(* What a step leaves of the page.                                         *)

DataOf(c) == IF c.entry = NoEntry THEN NoData ELSE c.entry.data

\* What MirrorKeepsNewer says of a step.
KeepsNewer ==
    /\ \A i \in 1 .. LoadSlots : Landed(i) =>
         /\ \A w \in Writes : LET undo == miMirror.writes[w].undo
                              IN undo # NoUndo => undo.revision <= miMirror.loads[i].asked
         /\ ~Older(Data, Data') \/ (Data.given /\ ~miMirror.loads[i].more)
    /\ \A w \in Writes :
         miMirror.writes[w].at # "failed" /\ miMirror'.writes[w].at = "failed" => ~Older(Data, Data')

\* Only the write w moves on, and no load comes to its end.
Moves(d, c, w) ==
    /\ d.disposed = c.disposed
    /\ \A v \in Writes : v # w => /\ d.writes[v].at = c.writes[v].at
                                  /\ d.writes[v].scope = c.writes[v].scope
                                  /\ d.writes[v].sentAs = c.writes[v].sentAs
    /\ \A i \in 1 .. LoadSlots : /\ c.loads[i].at # "free" => d.loads[i].at # "free"
                                 /\ LoadScoped(c.loads[i]) => LoadScoped(d.loads[i])

\* A reading that is bound stays so.
StaysBound(d) == Observed => d.entry # NoEntry /\ d.scope = miMirror.scope

LEMMA GoesMoves ==
    ASSUME NEW c, NEW d, Goes(d, c), NEW w
    PROVE  Moves(d, c, w)
  BY DEF Goes, Moves

LEMMA MovesOn ==
    ASSUME NEW c, NEW d, NEW e, NEW w, Moves(d, c, w), Moves(e, d, w)
    PROVE  Moves(e, c, w)
  BY DEF Moves

LEMMA Calm ==
    ASSUME \A i \in 1 .. LoadSlots : miMirror.loads[i].at # "free" => miMirror'.loads[i].at # "free",
           \A w \in Writes : miMirror'.writes[w].at = "failed" => miMirror.writes[w].at = "failed"
    PROVE  KeepsNewer
  <1>1. \A i \in 1 .. LoadSlots : ~Landed(i)
    BY DEF Landed
  <1>. QED
    BY <1>1 DEF KeepsNewer

\* The application is left what it is, and no write moves on.
LEMMA Gone ==
    ASSUME MirrorInv, NEW d, MirrorKept(d, miServer), Goes(d, miMirror), StaysBound(d),
           miMirror' = d, UNCHANGED <<miPage, miServer>>
    PROVE  MirrorInv' /\ KeepsNewer
  <1>1. \A w \in Writes : WriteKept(d.writes[w], w, miServer)
    BY DEF MirrorInv, WriteKept, Goes
  <1>2. ReadingFollows(miPage, d)
    BY DEF MirrorInv, ReadingFollows, StaysBound, Observed, Goes
  <1>5. \A i \in 1 .. LoadSlots : LoadScoped(d.loads[i])
    BY DEF MirrorInv, Goes
  <1>3. MirrorInv'
    BY <1>1, <1>2, <1>5 DEF MirrorInv
  <1>4. KeepsNewer
    BY Calm DEF Goes
  <1>. QED
    BY <1>3, <1>4

LEMMA Moved ==
    ASSUME MirrorInv, NEW w \in Writes, NEW d, MirrorKept(d, miServer), Moves(d, miMirror, w),
           StaysBound(d), WriteKept(d.writes[w], w, miServer),
           d.writes[w].at = "failed" => ~Older(Data, DataOf(d)),
           miMirror' = d, UNCHANGED <<miPage, miServer>>
    PROVE  MirrorInv' /\ KeepsNewer
  <1>1. \A v \in Writes : WriteKept(d.writes[v], v, miServer)
    BY DEF MirrorInv, WriteKept, Moves
  <1>2. ReadingFollows(miPage, d)
    BY DEF MirrorInv, ReadingFollows, StaysBound, Observed, Moves
  <1>7. \A i \in 1 .. LoadSlots : LoadScoped(d.loads[i])
    BY DEF MirrorInv, Moves
  <1>3. MirrorInv'
    BY <1>1, <1>2, <1>7 DEF MirrorInv
  <1>4. \A i \in 1 .. LoadSlots : ~Landed(i)
    BY DEF Landed, Moves
  <1>5. Data' = DataOf(d)
    BY DEF Data, DataOf
  <1>6. KeepsNewer
    BY <1>4, <1>5 DEF KeepsNewer, Moves
  <1>. QED
    BY <1>3, <1>6

\* A call of the application enters its scope; a reading that is bound is in it.
LEMMA EnteredHere ==
    ASSUME MirrorInv
    PROVE  LET c == Entered(miMirror, miPage.identity) IN
           /\ MirrorKept(c, miServer) /\ Goes(c, miMirror) /\ c.scope = miPage.identity
           /\ c.entry \in {miMirror.entry, NoEntry} /\ FreeSlots(c) = FreeSlots(miMirror)
           /\ c.attached = miMirror.attached
           /\ Observed => c = miMirror /\ c.entry # NoEntry
           /\ StaysBound(c)
  <1>1. miPage.identity \in Scopes /\ miPage.identity # NoScope /\ MirrorKept(miMirror, miServer)
    BY MirrorAssumption DEF MirrorInv, PageRecord
  <1>2. miMirror \in MirrorRecord
    BY <1>1 DEF MirrorKept
  <1>3. Observed => miMirror.scope = miPage.identity /\ miMirror.entry # NoEntry
    BY DEF MirrorInv, ReadingFollows, Observed
  <1>4. Observed => Entered(miMirror, miPage.identity) = miMirror
    BY <1>1, <1>2, <1>3, EnteredSame
  <1>. QED
    BY <1>1, <1>3, <1>4, EnteredKept DEF StaysBound

-----------------------------------------------------------------------------
(* The calls of the application.                                           *)

\* The page changes, and the binding effect of its reading runs.
LEMMA BecomesKept ==
    ASSUME MirrorInv, NEW p \in PageRecord, NEW c, MirrorKept(c, miServer),
           FreeSlots(c) # {} \/ ~c.attached,
           \A w \in Writes : /\ c.writes[w].at = miMirror.writes[w].at
                             /\ c.writes[w].scope = miMirror.writes[w].scope
                             /\ c.writes[w].sentAs = miMirror.writes[w].sentAs,
           \A i \in 1 .. LoadSlots : /\ miMirror.loads[i].at # "free" => c.loads[i].at # "free"
                                     /\ LoadScoped(miMirror.loads[i]) => LoadScoped(c.loads[i]),
           Becomes(p, c)
    PROVE  MirrorInv' /\ KeepsNewer
  <1>. DEFINE d == Followed(c, p)
              q == [p EXCEPT !.reading = IF c.disposed /\ @ = "bound" THEN "idle" ELSE @]
  <1>1. miMirror' = d /\ miPage' = q /\ miServer' = miServer
    BY DEF Becomes
  <1>2. /\ MirrorKept(d, miServer) /\ Goes(d, c)
        /\ p.reading = "bound" /\ ~c.disposed => d.entry # NoEntry /\ d.scope = p.identity
    BY FollowedKept
  <1>3. q \in PageRecord /\ q.identity = p.identity
        /\ (q.reading = "bound" => p.reading = "bound" /\ ~c.disposed)
    BY DEF PageRecord
  <1>. HIDE DEF q, d
  <1>4. ReadingFollows(q, d)
    BY <1>2, <1>3 DEF ReadingFollows, Goes
  <1>5. \A w \in Writes : WriteKept(d.writes[w], w, miServer)
    BY <1>2 DEF MirrorInv, WriteKept, Goes
  <1>8. \A i \in 1 .. LoadSlots : LoadScoped(d.loads[i])
    BY <1>2 DEF MirrorInv, Goes
  <1>6. MirrorInv'
    BY <1>1, <1>2, <1>3, <1>4, <1>5, <1>8 DEF MirrorInv
  <1>7. KeepsNewer
    BY <1>1, <1>2, Calm DEF Goes
  <1>. QED
    BY <1>6, <1>7

LEMMA SetScopeKept ==
    ASSUME MirrorInv, NEW s \in Scopes, SetScope(s)
    PROVE  MirrorInv' /\ KeepsNewer
  <1>. DEFINE p == [miPage EXCEPT !.identity = s]
  <1>1. p \in PageRecord
    BY DEF MirrorInv, PageRecord
  <1>2. Becomes(p, miMirror) /\ FreeSlots(miMirror) # {}
    BY DEF SetScope, Room
  <1>3. MirrorKept(miMirror, miServer)
    BY DEF MirrorInv
  <1>. HIDE DEF p
  <1>. QED
    BY <1>1, <1>2, <1>3, BecomesKept

LEMMA SetReadingKept ==
    ASSUME MirrorInv, NEW r \in {"none", "idle", "bound"}, SetReading(r)
    PROVE  MirrorInv' /\ KeepsNewer
  <1>. DEFINE p == [miPage EXCEPT !.reading = r]
  <1>1. p \in PageRecord
    BY DEF MirrorInv, PageRecord
  <1>2. Becomes(p, miMirror) /\ FreeSlots(miMirror) # {}
    BY DEF SetReading, Room
  <1>3. MirrorKept(miMirror, miServer)
    BY DEF MirrorInv
  <1>. HIDE DEF p
  <1>. QED
    BY <1>1, <1>2, <1>3, BecomesKept

LEMMA AttachKept ==
    ASSUME MirrorInv, Attach
    PROVE  MirrorInv' /\ KeepsNewer
  <1>. DEFINE c == [miMirror EXCEPT !.attached = TRUE]
  <1>1. /\ MirrorKept(c, miServer) /\ Goes(c, miMirror) /\ c.loads = miMirror.loads
    BY AttachedSet DEF MirrorInv
  <1>2. Becomes(miPage, c) /\ FreeSlots(miMirror) # {} /\ miPage \in PageRecord
    BY DEF Attach, Room, MirrorInv
  <1>. HIDE DEF c
  <1>3. FreeSlots(c) # {}
    BY <1>1, <1>2 DEF FreeSlots
  <1>. QED
    BY <1>1, <1>2, <1>3, BecomesKept DEF Goes

LEMMA DetachKept ==
    ASSUME MirrorInv, Detach
    PROVE  MirrorInv' /\ KeepsNewer
  <1>. DEFINE a == Abandoned(miMirror)
              e == [a.entry EXCEPT !.owed = FALSE]
              b == [a EXCEPT !.entry = e]
              d == IF miMirror.entry = NoEntry THEN miMirror ELSE b
              c == [d EXCEPT !.attached = FALSE]
  <1>1. MirrorKept(miMirror, miServer) /\ miMirror \in MirrorRecord /\ miPage \in PageRecord
    BY DEF MirrorInv, MirrorKept
  <1>2. MirrorKept(a, miServer) /\ Goes(a, miMirror) /\ UnderWay(a) = {} /\ a \in MirrorRecord
    BY <1>1, AbandonedKept DEF MirrorKept
  <1>3. miMirror.entry # NoEntry => a.entry # NoEntry
    BY <1>1, AbandonedIs
  <1>4. Becomes(miPage, c)
    <2>1. [a EXCEPT !.entry.owed = FALSE] = b
      BY <1>2 DEF MirrorRecord
    <2>. HIDE DEF a, b
    <2>. QED
      BY <2>1 DEF Detach, a
  <1>. HIDE DEF a
  <1>5. MirrorKept(d, miServer) /\ Goes(d, miMirror)
    <2>1. CASE miMirror.entry = NoEntry
      BY <1>1, <2>1 DEF Goes
    <2>2. CASE miMirror.entry # NoEntry
      <3>1. a.entry \in Entry /\ (a.entry.restored # NoData => a.entry.restored.scope = a.scope /\ a.entry.restored.given)
        BY <1>2, <1>3, <2>2, RecordIs DEF MirrorKept, EntryKept
      <3>2. /\ e \in Entry /\ e.data = a.entry.data /\ e.revision = a.entry.revision
            /\ e.inflight = a.entry.inflight /\ e.restored = a.entry.restored
        BY <3>1 DEF Entry
      <3>. HIDE DEF e
      <3>3. MirrorKept(b, miServer) /\ Goes(b, a)
        BY <1>2, <1>3, <2>2, <3>1, <3>2, EntryMarked
      <3>. HIDE DEF b
      <3>. QED
        BY <1>2, <2>2, <3>3, GoesOn
    <2>. QED
      BY <2>1, <2>2
  <1>. HIDE DEF d
  <1>6. MirrorKept(c, miServer) /\ Goes(c, d) /\ ~c.attached
    BY <1>5, AttachedSet
  <1>. HIDE DEF c
  <1>7. Goes(c, miMirror)
    BY <1>5, <1>6, GoesOn
  <1>. QED
    BY <1>1, <1>4, <1>6, <1>7, BecomesKept DEF Goes

LEMMA MirrorDisposeKept ==
    ASSUME MirrorInv, MirrorDispose
    PROVE  MirrorInv' /\ KeepsNewer
  <1>. DEFINE a == Dropped(miMirror)
              b == WritesAborted(a)
              c == [b EXCEPT !.disposed = TRUE, !.attached = FALSE]
  <1>1. MirrorKept(miMirror, miServer) /\ miMirror \in MirrorRecord /\ miPage \in PageRecord
    BY DEF MirrorInv, MirrorKept
  <1>2. /\ a \in MirrorRecord /\ a.entry = NoEntry /\ Undos(a) = {} /\ UnderWay(a) = {} /\ Goes(a, miMirror)
    BY <1>1, DroppedKept
  <1>3. Becomes(miPage, c)
    BY DEF MirrorDispose
  <1>. HIDE DEF a
  <1>4. /\ b \in MirrorRecord /\ b.entry = a.entry /\ b.loads = a.loads
        /\ \A w \in Writes : /\ b.writes[w].undo = a.writes[w].undo
                             /\ b.writes[w].at = a.writes[w].at /\ b.writes[w].scope = a.writes[w].scope
                             /\ b.writes[w].sentAs = a.writes[w].sentAs
    BY <1>2, WritesAbortedIs
  <1>. HIDE DEF b
  <1>5. /\ c \in MirrorRecord /\ c.entry = b.entry /\ c.loads = b.loads /\ c.writes = b.writes /\ ~c.attached
    BY <1>4 DEF MirrorRecord
  <1>. HIDE DEF c
  <1>6. Undos(c) = {} /\ UnderWay(c) = {} /\ c.entry = NoEntry
    <2>1. Undos(c) = Undos(a)
      BY <1>4, <1>5 DEF Undos
    <2>2. UnderWay(c) = UnderWay(a)
      BY <1>4, <1>5 DEF UnderWay
    <2>. QED
      BY <2>1, <2>2, <1>2, <1>4, <1>5
  <1>7. MirrorKept(c, miServer)
    BY <1>5, <1>6, NothingKept
  <1>8. \A w \in Writes : /\ c.writes[w].at = miMirror.writes[w].at
                          /\ c.writes[w].scope = miMirror.writes[w].scope
                          /\ c.writes[w].sentAs = miMirror.writes[w].sentAs
    BY <1>2, <1>4, <1>5 DEF Goes
  <1>9. \A i \in 1 .. LoadSlots : /\ miMirror.loads[i].at # "free" => c.loads[i].at # "free"
                                  /\ LoadScoped(miMirror.loads[i]) => LoadScoped(c.loads[i])
    BY <1>2, <1>4, <1>5 DEF Goes
  <1>. QED
    BY <1>1, <1>3, <1>5, <1>7, <1>8, <1>9, BecomesKept

\* A call that loads again: refetch(), polling, focus.
LEMMA ReloadsKept ==
    ASSUME MirrorInv, Refetch \/ MiPoll \/ RefetchObserved
    PROVE  MirrorInv' /\ KeepsNewer
  <1>1. MirrorKept(miMirror, miServer) /\ FreeSlots(miMirror) # {} /\ Observed
    BY DEF MirrorInv, Room, Refetch, MiPoll, RefetchObserved
  <1>2. miMirror.entry # NoEntry
    BY <1>1 DEF MirrorInv, ReadingFollows, Observed
  <1>3. ASSUME NEW force \in BOOLEAN, MiDoes(Loading(miMirror, force)) PROVE MirrorInv' /\ KeepsNewer
    <2>. DEFINE d == Loading(miMirror, force)
    <2>1. MirrorKept(d, miServer) /\ Goes(d, miMirror) /\ d.entry # NoEntry /\ d.scope = miMirror.scope
      BY <1>1, <1>2, LoadingKept
    <2>2. miMirror' = d /\ UNCHANGED <<miPage, miServer>>
      BY <1>3 DEF MiDoes
    <2>. HIDE DEF d
    <2>. QED
      BY <2>1, <2>2, Gone DEF StaysBound
  <1>. QED
    BY <1>3 DEF Refetch, MiPoll, RefetchObserved

LEMMA InvalidateKept ==
    ASSUME MirrorInv, Invalidate
    PROVE  MirrorInv' /\ KeepsNewer
  <1>. DEFINE d == Invalidated(miMirror)
  <1>1. MirrorKept(miMirror, miServer) /\ FreeSlots(miMirror) # {} /\ miPage \in PageRecord
    BY DEF MirrorInv, Room, Invalidate
  <1>2. /\ MirrorKept(d, miServer) /\ Goes(d, miMirror)
        /\ miMirror.scope = miPage.identity => d.scope = miMirror.scope /\ (miMirror.entry # NoEntry => d.entry # NoEntry)
    BY <1>1, InvalidatedKept
  <1>3. miMirror' = d /\ UNCHANGED <<miPage, miServer>>
    BY DEF Invalidate, MiDoes
  <1>. HIDE DEF d
  <1>4. StaysBound(d)
    BY <1>2 DEF StaysBound, MirrorInv, ReadingFollows, Observed
  <1>. QED
    BY <1>2, <1>3, <1>4, Gone

LEMMA PeekKept ==
    ASSUME MirrorInv, Peek
    PROVE  MirrorInv' /\ KeepsNewer
  <1>. DEFINE d == Entered(miMirror, miPage.identity)
  <1>1. MirrorKept(d, miServer) /\ Goes(d, miMirror) /\ StaysBound(d)
    BY EnteredHere
  <1>2. miMirror' = d /\ UNCHANGED <<miPage, miServer>>
    BY DEF Peek, Uncounted
  <1>. HIDE DEF d
  <1>. QED
    BY <1>1, <1>2, Gone

\* What the calls that make the entry start from.
LEMMA EntryHere ==
    ASSUME MirrorInv
    PROVE  LET c == EntryFor(miMirror, miPage.identity) IN
           /\ MirrorKept(c, miServer) /\ Goes(c, miMirror) /\ c.entry # NoEntry
           /\ c.scope = miPage.identity /\ FreeSlots(c) = FreeSlots(miMirror)
           /\ Observed => miMirror.scope = miPage.identity
  <1>1. miPage.identity \in Scopes /\ MirrorKept(miMirror, miServer)
    BY DEF MirrorInv, PageRecord
  <1>2. Observed => miMirror.scope = miPage.identity
    BY DEF MirrorInv, ReadingFollows, Observed
  <1>. QED
    BY <1>1, <1>2, EntryForKept

LEMMA PrefetchKept ==
    ASSUME MirrorInv, Prefetch
    PROVE  MirrorInv' /\ KeepsNewer
  <1>. DEFINE a == EntryFor(miMirror, miPage.identity)
              c == Configured(a)
              d == IF NeedsLoad(c.entry) THEN Loading(c, FALSE) ELSE c
  <1>1. /\ MirrorKept(a, miServer) /\ Goes(a, miMirror) /\ a.entry # NoEntry
        /\ a.scope = miPage.identity /\ FreeSlots(a) # {}
        /\ Observed => miMirror.scope = miPage.identity
    BY EntryHere DEF Prefetch, Room
  <1>2. miMirror' = d /\ UNCHANGED <<miPage, miServer>>
    BY DEF Prefetch, MiDoes
  <1>. HIDE DEF a
  <1>3. /\ MirrorKept(c, miServer) /\ Goes(c, a) /\ c.entry # NoEntry /\ c.scope = a.scope /\ FreeSlots(c) # {}
    BY <1>1, ConfiguredKept
  <1>. HIDE DEF c
  <1>4. Goes(c, miMirror)
    BY <1>1, <1>3, GoesOn
  <1>5. d \in {c, Loading(c, FALSE)}
    OBVIOUS
  <1>. HIDE DEF d
  <1>6. MirrorKept(d, miServer) /\ Goes(d, miMirror) /\ d.entry # NoEntry /\ d.scope = miPage.identity
    <2>1. CASE d = c
      BY <2>1, <1>1, <1>3, <1>4
    <2>2. CASE d = Loading(c, FALSE)
      <3>1. MirrorKept(d, miServer) /\ Goes(d, c) /\ d.entry # NoEntry /\ d.scope = c.scope
        BY <2>2, <1>3, LoadingKept
      <3>. QED
        BY <3>1, <1>1, <1>3, <1>4, GoesOn
    <2>. QED
      BY <1>5, <2>1, <2>2
  <1>. QED
    BY <1>1, <1>2, <1>6, Gone DEF StaysBound

LEMMA GivenIs ==
    ASSUME NEW s \in Scopes, NEW seen \in SUBSET Writes, NEW server
    PROVE  /\ Given(s, seen) \in Value /\ Given(s, seen).scope = s /\ Given(s, seen).given
           /\ OfScope(Given(s, seen), s, server)
  <1>. DEFINE v == Given(s, seen)
  <1>1. v \in Value /\ v.scope = s /\ v.given
    BY DEF Given, Answer, Value
  <1>. HIDE DEF v
  <1>2. OfScope(v, s, server)
    BY <1>1 DEF OfScope
  <1>. QED
    BY <1>1, <1>2 DEF v

\* What is restored is set, with nothing else of the entry.
LEMMA RestoredSet ==
    ASSUME NEW server, NEW c, MirrorKept(c, server), c.entry # NoEntry,
           NEW value \in Value \union {NoData}, value # NoData => value.scope = c.scope /\ value.given
    PROVE  LET d == [c EXCEPT !.entry.restored = value] IN
           /\ MirrorKept(d, server) /\ Goes(d, c) /\ d.entry # NoEntry /\ d.scope = c.scope
  <1>. DEFINE e == [c.entry EXCEPT !.restored = value]
  <1>1. c \in MirrorRecord /\ c.entry \in Entry
    BY RecordIs DEF MirrorKept
  <1>2. [c EXCEPT !.entry.restored = value] = [c EXCEPT !.entry = e]
    BY <1>1 DEF MirrorRecord
  <1>3. /\ e \in Entry /\ e.data = c.entry.data /\ e.revision = c.entry.revision
        /\ e.inflight = c.entry.inflight /\ e.restored = value
    BY <1>1 DEF Entry
  <1>. HIDE DEF e
  <1>4. LET d == [c EXCEPT !.entry = e] IN
           /\ MirrorKept(d, server) /\ Goes(d, c) /\ d.entry # NoEntry /\ d.scope = c.scope
    BY <1>3, EntryMarked
  <1>. QED
    BY <1>2, <1>4

LEMMA SeedKept ==
    ASSUME MirrorInv, NEW seen \in SUBSET Writes, Seed(seen)
    PROVE  MirrorInv' /\ KeepsNewer
  <1>. DEFINE a == EntryFor(miMirror, miPage.identity)
              b == [a EXCEPT !.entry.restored = NoData]
              value == Given(miPage.identity, seen)
              d == Committed(b, value)
  <1>1. /\ MirrorKept(a, miServer) /\ Goes(a, miMirror) /\ a.entry # NoEntry
        /\ a.scope = miPage.identity /\ (Observed => miMirror.scope = miPage.identity)
    BY EntryHere
  <1>2. miMirror' = d /\ UNCHANGED <<miPage, miServer>>
    BY DEF Seed, MiDoes
  <1>3. value \in Value /\ value.given /\ OfScope(value, miPage.identity, miServer)
    BY GivenIs DEF MirrorInv, PageRecord
  <1>. HIDE DEF a, value
  <1>4. MirrorKept(b, miServer) /\ Goes(b, a) /\ b.entry # NoEntry /\ b.scope = a.scope
    BY <1>1, RestoredSet
  <1>. HIDE DEF b
  <1>5. MirrorKept(d, miServer) /\ Goes(d, b) /\ d.entry # NoEntry /\ d.scope = b.scope
    BY <1>1, <1>3, <1>4, CommittedKept
  <1>. HIDE DEF d
  <1>6. Goes(d, miMirror)
    <2>1. Goes(b, miMirror)
      BY <1>1, <1>4, GoesOn
    <2>. QED
      BY <2>1, <1>5, GoesOn
  <1>. QED
    BY <1>1, <1>2, <1>4, <1>5, <1>6, Gone DEF StaysBound

LEMMA RestoreKept ==
    ASSUME MirrorInv, NEW s \in Scopes, NEW seen \in SUBSET Writes, Restore(s, seen)
    PROVE  MirrorInv' /\ KeepsNewer
  <1>. DEFINE a == EntryFor(miMirror, miPage.identity)
              value == Given(s, seen)
              b == [a EXCEPT !.entry.restored = value]
              d == IF a.entry.data # NoData \/ a.entry.inflight # NoLoad THEN a
                   ELSE IF a.entry.loadable THEN Configured(b) ELSE b
  <1>1. /\ MirrorKept(a, miServer) /\ Goes(a, miMirror) /\ a.entry # NoEntry
        /\ a.scope = miPage.identity /\ (Observed => miMirror.scope = miPage.identity)
    BY EntryHere
  <1>2. miMirror' = d /\ UNCHANGED <<miPage, miServer>> /\ s = miPage.identity
    BY DEF Restore, MiDoes, Adopts
  <1>3. value \in Value /\ value.given /\ value.scope = s
    BY GivenIs
  <1>. HIDE DEF a, value
  <1>4. MirrorKept(b, miServer) /\ Goes(b, a) /\ b.entry # NoEntry /\ b.scope = a.scope
    BY <1>1, <1>2, <1>3, RestoredSet
  <1>5. d \in {a, b, Configured(b)}
    OBVIOUS
  <1>. HIDE DEF b, d
  <1>6. MirrorKept(Configured(b), miServer) /\ Goes(Configured(b), b) /\ Configured(b).entry # NoEntry
        /\ Configured(b).scope = b.scope
    BY <1>4, ConfiguredKept
  <1>7. Goes(b, miMirror)
    BY <1>1, <1>4, GoesOn
  <1>8. Goes(Configured(b), miMirror)
    BY <1>6, <1>7, GoesOn
  <1>9. MirrorKept(d, miServer) /\ Goes(d, miMirror) /\ d.entry # NoEntry /\ d.scope = miPage.identity
    BY <1>1, <1>4, <1>5, <1>6, <1>7, <1>8
  <1>. QED
    BY <1>1, <1>2, <1>9, Gone DEF StaysBound

LEMMA GrowsStaleKept ==
    ASSUME MirrorInv, GrowsStale
    PROVE  MirrorInv' /\ KeepsNewer
  <1>. DEFINE e == [miMirror.entry EXCEPT !.stale = TRUE]
              d == [miMirror EXCEPT !.entry = e]
  <1>1. MirrorKept(miMirror, miServer) /\ miMirror \in MirrorRecord /\ miMirror.entry # NoEntry
        /\ miMirror.entry \in Entry
    BY RecordIs DEF MirrorInv, MirrorKept, GrowsStale
  <1>2. miMirror' = d /\ UNCHANGED <<miPage, miServer>>
    <2>1. [miMirror EXCEPT !.entry.stale = TRUE] = d
      BY <1>1 DEF MirrorRecord
    <2>. QED
      BY <2>1 DEF GrowsStale, MiDoes
  <1>3. /\ e \in Entry /\ e.data = miMirror.entry.data /\ e.revision = miMirror.entry.revision
        /\ e.inflight = miMirror.entry.inflight /\ e.restored = miMirror.entry.restored
    BY <1>1 DEF Entry
  <1>4. e.restored # NoData => e.restored.scope = miMirror.scope /\ e.restored.given
    BY <1>1, <1>3 DEF MirrorKept, EntryKept
  <1>. HIDE DEF e
  <1>5. MirrorKept(d, miServer) /\ Goes(d, miMirror) /\ d.entry # NoEntry /\ d.scope = miMirror.scope
    BY <1>1, <1>3, <1>4, EntryMarked
  <1>. HIDE DEF d
  <1>. QED
    BY <1>2, <1>5, Gone DEF StaysBound

LEMMA CollectKept ==
    ASSUME MirrorInv, Collect
    PROVE  MirrorInv' /\ KeepsNewer
  <1>. DEFINE d == Dropped(miMirror)
  <1>1. /\ d \in MirrorRecord /\ d.entry = NoEntry /\ Undos(d) = {} /\ UnderWay(d) = {} /\ Goes(d, miMirror)
    BY DroppedKept DEF MirrorInv
  <1>2. miMirror' = d /\ UNCHANGED <<miPage, miServer>> /\ ~Observed
    BY DEF Collect, MiDoes
  <1>. HIDE DEF d
  <1>3. MirrorKept(d, miServer)
    BY <1>1, NothingKept
  <1>. QED
    BY <1>1, <1>2, <1>3, Gone DEF StaysBound

LEMMA LoadMoreKept ==
    ASSUME MirrorInv, LoadMore
    PROVE  MirrorInv' /\ KeepsNewer
  <1>. DEFINE load == [FreeLoad EXCEPT !.more = TRUE, !.value = miMirror.entry.data,
                                       !.revision = miMirror.entry.revision]
              d == Started(miMirror, load)
  <1>1. MirrorKept(miMirror, miServer) /\ FreeSlots(miMirror) # {} /\ Observed
        /\ miMirror.entry.data # NoData
    BY DEF MirrorInv, LoadMore, Room
  <1>2. miMirror.entry # NoEntry /\ miMirror.entry \in Entry
    BY <1>1, RecordIs DEF MirrorInv, ReadingFollows, Observed, MirrorKept
  <1>3. miMirror.entry.data \in Value \union {NoData} /\ miMirror.entry.revision \in Nat
    BY <1>2, EntryIs
  <1>4. /\ load \in Load /\ ~load.aborted /\ load.value = miMirror.entry.data
        /\ load.revision = miMirror.entry.revision
    BY <1>3 DEF FreeLoad, Load
  <1>5. miMirror' = d /\ UNCHANGED <<miPage, miServer>>
    BY DEF LoadMore, MiDoes
  <1>. HIDE DEF load
  <1>6. MirrorKept(d, miServer) /\ Goes(d, miMirror) /\ d.entry # NoEntry /\ d.scope = miMirror.scope
    BY <1>1, <1>2, <1>4, StartedKept
  <1>. HIDE DEF d
  <1>. QED
    BY <1>5, <1>6, Gone DEF StaysBound

LEMMA DisposeWriterKept ==
    ASSUME MirrorInv, NEW w \in Writes, DisposeWriter(w)
    PROVE  MirrorInv' /\ KeepsNewer
  <1>. DEFINE mates == IF miPage.sharing = "apart" THEN {w} ELSE Writes
              a == WritesAborted(miMirror)
              ws == [v \in Writes |-> IF v \in mates THEN a.writes[v] ELSE miMirror.writes[v]]
              d == [miMirror EXCEPT !.writes = ws]
              p == [miPage EXCEPT !.closed = @ \union mates]
  <1>1. MirrorKept(miMirror, miServer) /\ miMirror \in MirrorRecord /\ miPage \in PageRecord
    BY DEF MirrorInv, MirrorKept
  <1>2. mates \subseteq Writes
    OBVIOUS
  <1>3. miMirror' = d /\ miPage' = p /\ miServer' = miServer
    BY <1>1 DEF DisposeWriter, MirrorRecord
  <1>. HIDE DEF mates
  <1>4. \A v \in Writes : /\ a.writes[v] \in WriteRecord /\ a.writes[v].undo = miMirror.writes[v].undo
                          /\ a.writes[v].at = miMirror.writes[v].at
                          /\ a.writes[v].scope = miMirror.writes[v].scope
                          /\ a.writes[v].sentAs = miMirror.writes[v].sentAs
    BY <1>1, WritesAbortedIs
  <1>5. \A v \in Writes : miMirror.writes[v] \in WriteRecord
    BY <1>1, RecordIs
  <1>. HIDE DEF a
  <1>6. ws \in [Writes -> WriteRecord] /\ \A v \in Writes : ws[v] \in {a.writes[v], miMirror.writes[v]}
    BY <1>4, <1>5
  <1>. HIDE DEF ws
  <1>7. \A v \in Writes : ws[v].undo = miMirror.writes[v].undo
    BY <1>4, <1>6
  <1>8. /\ MirrorKept(d, miServer) /\ d.writes = ws /\ d.entry = miMirror.entry /\ d.scope = miMirror.scope
        /\ d.disposed = miMirror.disposed /\ d.loads = miMirror.loads
    BY <1>1, <1>6, <1>7, WritesSet
  <1>9. /\ p \in PageRecord /\ p.reading = miPage.reading /\ p.identity = miPage.identity
    BY <1>1, <1>2 DEF PageRecord
  <1>. HIDE DEF d, p
  <1>10. Goes(d, miMirror)
    BY <1>4, <1>6, <1>8 DEF Goes
  <1>11. \A v \in Writes : WriteKept(d.writes[v], v, miServer)
    BY <1>10 DEF MirrorInv, WriteKept, Goes
  <1>12. ReadingFollows(p, d)
    BY <1>8, <1>9 DEF MirrorInv, ReadingFollows
  <1>14. \A i \in 1 .. LoadSlots : LoadScoped(d.loads[i])
    BY <1>10 DEF MirrorInv, Goes
  <1>13. MirrorInv'
    BY <1>3, <1>8, <1>9, <1>11, <1>12, <1>14 DEF MirrorInv
  <1>. QED
    BY <1>3, <1>10, <1>13, Calm DEF Goes

-----------------------------------------------------------------------------
(* Loads: what is answered while no patch is younger is not behind.        *)

\* A load under way is asked again, or is answered.
LEMMA LoadSet ==
    ASSUME NEW server, NEW c, MirrorKept(c, server), NEW i \in 1 .. LoadSlots, NEW l \in Load,
           c.loads[i].at # "free", l.at # "free", l.aborted = c.loads[i].aborted,
           l.more = c.loads[i].more, l.asked = c.loads[i].asked, l.scope = c.loads[i].scope,
           l.revision = c.loads[i].revision, l.more => l.value = c.loads[i].value,
           i \in UnderWay(c) /\ l.at = "served" /\ ~l.more =>
             /\ l.value # NoData /\ OfScope(l.value, c.scope, server)
             /\ NotBehind(l.value, c.entry.data)
             /\ \A u \in Undos(c) : NotBehind(l.value, u.data)
    PROVE  LET d == [c EXCEPT !.loads = [c.loads EXCEPT ![i] = l]] IN
           MirrorKept(d, server) /\ Goes(d, c) /\ d.entry = c.entry /\ d.scope = c.scope
  <1>. DEFINE ls == [c.loads EXCEPT ![i] = l]
              d == [c EXCEPT !.loads = ls]
  <1>1. /\ c \in MirrorRecord /\ VersionsKept(c, server) /\ EntryKept(c)
        /\ \A k \in UnderWay(c) : LoadKept(c, k, server)
    BY DEF MirrorKept
  <1>2. c.loads \in [1 .. LoadSlots -> Load]
    BY <1>1, RecordIs
  <1>3. ls \in [1 .. LoadSlots -> Load] /\ \A k \in 1 .. LoadSlots : ls[k] = IF k = i THEN l ELSE c.loads[k]
    BY <1>2
  <1>. HIDE DEF ls
  <1>4. /\ d \in MirrorRecord /\ d.loads = ls /\ d.entry = c.entry /\ d.scope = c.scope
        /\ d.revisions = c.revisions /\ d.writes = c.writes /\ d.disposed = c.disposed
    BY <1>1, <1>3 DEF MirrorRecord
  <1>. HIDE DEF d
  <1>5. UnderWay(d) = UnderWay(c) /\ Undos(d) = Undos(c)
    BY <1>3, <1>4 DEF UnderWay, Undos
  <1>6. \A k \in 1 .. LoadSlots : /\ d.loads[k].more = c.loads[k].more
                                  /\ d.loads[k].revision = c.loads[k].revision
                                  /\ (d.loads[k].more => d.loads[k].value = c.loads[k].value)
    BY <1>3, <1>4
  <1>7. Versions(d) = Versions(c)
    <2>1. \A k \in UnderWay(c) : k \in 1 .. LoadSlots
      BY DEF UnderWay
    <2>2. { <<d.loads[k].revision, d.loads[k].value>> : k \in { j \in UnderWay(d) : d.loads[j].more } }
            = { <<c.loads[k].revision, c.loads[k].value>> : k \in { j \in UnderWay(c) : c.loads[j].more } }
      BY <1>5, <1>6, <2>1
    <2>. QED
      BY <1>4, <1>5, <2>2 DEF Versions
  <1>8. VersionsKept(d, server) /\ EntryKept(d)
    BY <1>1, <1>4, <1>5, <1>7 DEF VersionsKept, EntryKept
  <1>9. ASSUME NEW k \in UnderWay(d) PROVE LoadKept(d, k, server)
    <2>1. k \in UnderWay(c) /\ LoadKept(c, k, server) /\ k \in 1 .. LoadSlots
      BY <1>1, <1>5 DEF UnderWay
    <2>2. CASE k # i
      <3>1. d.loads[k] = c.loads[k]
        BY <1>3, <1>4, <2>1, <2>2
      <3>. QED
        BY <2>1, <3>1, <1>4, <1>5 DEF LoadKept
    <2>3. CASE k = i
      <3>1. d.loads[k] = l
        BY <1>3, <1>4, <2>3
      <3>. QED
        BY <2>1, <2>3, <3>1, <1>4, <1>5 DEF LoadKept
    <2>. QED
      BY <2>2, <2>3
  <1>10. MirrorKept(d, server)
    BY <1>4, <1>8, <1>9 DEF MirrorKept
  <1>11. Goes(d, c)
    <2>1. \A k \in 1 .. LoadSlots : /\ c.loads[k].at # "free" => d.loads[k].at # "free"
                                    /\ LoadScoped(c.loads[k]) => LoadScoped(d.loads[k])
      BY <1>3, <1>4 DEF LoadScoped
    <2>. QED
      BY <2>1, <1>4 DEF Goes
  <1>. QED
    BY <1>4, <1>10, <1>11 DEF d, ls

LEMMA LoadServedKept ==
    ASSUME MirrorInv, NEW i \in 1 .. LoadSlots, LoadServed(i)
    PROVE  MirrorInv' /\ KeepsNewer
  <1>. DEFINE load == miMirror.loads[i]
              value == IF load.more THEN load.value ELSE Answer(load.scope, miServer[load.scope])
              l == [load EXCEPT !.at = "served", !.value = value]
              d == [miMirror EXCEPT !.loads = [miMirror.loads EXCEPT ![i] = l]]
  <1>1. /\ MirrorKept(miMirror, miServer) /\ miMirror \in MirrorRecord /\ load \in Load
        /\ VersionsKept(miMirror, miServer) /\ \A k \in UnderWay(miMirror) : LoadKept(miMirror, k, miServer)
    BY RecordIs DEF MirrorInv, MirrorKept
  <1>2. load.at = "asked" /\ load.scope \in Scopes
    BY DEF MirrorInv, LoadScoped, LoadServed
  <1>3. miMirror' = d /\ UNCHANGED <<miPage, miServer>>
    <2>1. [miMirror EXCEPT !.loads[i] = l] = d
      BY <1>1 DEF MirrorRecord
    <2>. QED
      BY <2>1 DEF LoadServed, MiSteps
  <1>4. miServer[load.scope] \in SUBSET Writes
    BY <1>2 DEF MirrorInv
  <1>5. ~load.more => /\ value \in Value /\ value.scope = load.scope /\ value.seen = miServer[load.scope]
                      /\ value # NoData
    <2>1. SUFFICES ASSUME ~load.more
                   PROVE  /\ value \in Value /\ value.scope = load.scope /\ value.seen = miServer[load.scope]
                          /\ value # NoData
      OBVIOUS
    <2>. DEFINE s == load.scope
                seen == miServer[s]
    <2>2. value = [scope |-> s, seen |-> seen, ghosts |-> {}, given |-> FALSE]
      BY <2>1 DEF Answer
    <2>3. s \in Scopes /\ seen \in SUBSET Writes
      BY <1>2, <1>4
    <2>. HIDE DEF load, value, s, seen
    <2>4. value \in Value /\ value.scope = s /\ value.seen = seen
      BY <2>2, <2>3 DEF Value
    <2>. QED
      BY <2>4, MirrorNulls DEF s, seen
  <1>6. value \in Value \union {NoData}
    BY <1>1, <1>5, LoadIs
  <1>. HIDE DEF value
  <1>7. /\ l \in Load /\ l.at = "served" /\ l.aborted = load.aborted /\ l.more = load.more
        /\ l.asked = load.asked /\ l.scope = load.scope /\ l.revision = load.revision /\ l.value = value
    BY <1>1, <1>6 DEF Load
  <1>. HIDE DEF l
  <1>8. l.more => l.value = load.value
    BY <1>7 DEF value
  <1>9. ASSUME i \in UnderWay(miMirror), ~l.more
        PROVE  /\ l.value # NoData /\ OfScope(l.value, miMirror.scope, miServer)
               /\ NotBehind(l.value, miMirror.entry.data)
               /\ \A u \in Undos(miMirror) : NotBehind(l.value, u.data)
    <2>1. load.scope = miMirror.scope /\ miMirror.entry # NoEntry
      BY <1>1, <1>9 DEF LoadKept
    <2>2. OfScope(value, miMirror.scope, miServer)
      BY <1>5, <1>7, <1>9, <2>1 DEF OfScope
    <2>3. ASSUME NEW x \in Versions(miMirror) PROVE NotBehind(value, x[2])
      <3>1. OfScope(x[2], miMirror.scope, miServer)
        BY <1>1 DEF VersionsKept
      <3>. QED
        BY <3>1, <1>5, <1>7, <1>9, <2>1 DEF OfScope, NotBehind
    <2>4. NotBehind(value, miMirror.entry.data)
      <3>. DEFINE x == <<miMirror.entry.revision, miMirror.entry.data>>
      <3>1. x \in Versions(miMirror) /\ x[2] = miMirror.entry.data
        BY <2>1 DEF Versions
      <3>. HIDE DEF x
      <3>. QED
        BY <2>3, <3>1
    <2>5. ASSUME NEW u \in Undos(miMirror) PROVE NotBehind(value, u.data)
      <3>. DEFINE x == <<u.before, u.data>>
      <3>1. x \in Versions(miMirror) /\ x[2] = u.data
        BY <2>1 DEF Versions
      <3>. HIDE DEF x
      <3>. QED
        BY <2>3, <3>1
    <2>. QED
      BY <1>5, <1>7, <1>9, <2>2, <2>4, <2>5
  <1>10. MirrorKept(d, miServer) /\ Goes(d, miMirror) /\ d.entry = miMirror.entry /\ d.scope = miMirror.scope
    BY <1>1, <1>2, <1>7, <1>8, <1>9, LoadSet
  <1>. HIDE DEF d
  <1>. QED
    BY <1>3, <1>10, Gone DEF StaysBound, MirrorInv, ReadingFollows, Observed

LEMMA LoadRetriesKept ==
    ASSUME MirrorInv, NEW i \in 1 .. LoadSlots, LoadRetries(i)
    PROVE  MirrorInv' /\ KeepsNewer
  <1>. DEFINE load == miMirror.loads[i]
              l == [load EXCEPT !.at = "asked"]
              d == [miMirror EXCEPT !.loads = [miMirror.loads EXCEPT ![i] = l]]
  <1>1. MirrorKept(miMirror, miServer) /\ miMirror \in MirrorRecord /\ load \in Load /\ load.at = "served"
    BY RecordIs DEF MirrorInv, MirrorKept, LoadRetries
  <1>2. miMirror' = d /\ UNCHANGED <<miPage, miServer>>
    <2>1. [miMirror EXCEPT !.loads[i].at = "asked"] = d
      BY <1>1 DEF MirrorRecord
    <2>. QED
      BY <2>1 DEF LoadRetries, MiSteps
  <1>3. /\ l \in Load /\ l.at = "asked" /\ l.aborted = load.aborted /\ l.more = load.more
        /\ l.asked = load.asked /\ l.scope = load.scope /\ l.revision = load.revision /\ l.value = load.value
    BY <1>1 DEF Load
  <1>. HIDE DEF l
  <1>4. MirrorKept(d, miServer) /\ Goes(d, miMirror) /\ d.entry = miMirror.entry /\ d.scope = miMirror.scope
    BY <1>1, <1>3, LoadSet
  <1>. HIDE DEF d
  <1>. QED
    BY <1>2, <1>4, Gone DEF StaysBound, MirrorInv, ReadingFollows, Observed

\* A load that was aborted gives its slot back, and nothing else.
LEMMA AbortedFreed ==
    ASSUME NEW server, NEW c, MirrorKept(c, server), NEW i \in 1 .. LoadSlots, i \notin UnderWay(c)
    PROVE  LET d == [c EXCEPT !.loads[i] = FreeLoad] IN
           /\ MirrorKept(d, server) /\ d.entry = c.entry /\ d.scope = c.scope /\ d.revisions = c.revisions
           /\ d.writes = c.writes /\ d.disposed = c.disposed
           /\ \A k \in 1 .. LoadSlots : d.loads[k] = IF k = i THEN FreeLoad ELSE c.loads[k]
  <1>. DEFINE ls == [c.loads EXCEPT ![i] = FreeLoad]
              d == [c EXCEPT !.loads[i] = FreeLoad]
  <1>1. c \in MirrorRecord /\ c.loads \in [1 .. LoadSlots -> Load]
    BY RecordIs DEF MirrorKept
  <1>2. ls \in [1 .. LoadSlots -> Load]
        /\ \A k \in 1 .. LoadSlots : ls[k] = IF k = i THEN FreeLoad ELSE c.loads[k]
    BY <1>1, FreeLoadIs
  <1>3. d = [c EXCEPT !.loads = ls]
    BY <1>1 DEF MirrorRecord
  <1>. HIDE DEF ls, d
  <1>4. /\ d \in MirrorRecord /\ d.loads = ls /\ d.entry = c.entry /\ d.scope = c.scope
        /\ d.revisions = c.revisions /\ d.writes = c.writes /\ d.disposed = c.disposed
    BY <1>1, <1>2, <1>3 DEF MirrorRecord
  <1>5. Undos(d) = Undos(c) /\ UnderWay(d) \subseteq UnderWay(c)
        /\ \A k \in UnderWay(d) : d.loads[k] = c.loads[k]
    BY <1>2, <1>4, FreeLoadIs DEF Undos, UnderWay
  <1>6. RestoredKept(d)
    BY <1>4 DEF RestoredKept, MirrorKept, EntryKept
  <1>7. Narrows(d, c)
    BY <1>4, <1>5, <1>6 DEF Narrows
  <1>8. MirrorKept(d, server)
    BY <1>4, <1>7, Narrowed
  <1>. QED
    BY <1>2, <1>4, <1>8 DEF d

\* The load of the entry ends: no other is under way.
FreedLoad(c, i, owed) == [c EXCEPT !.loads[i] = FreeLoad, !.entry.inflight = NoLoad, !.entry.owed = owed]

LEMMA UnderWayFreed ==
    ASSUME NEW server, NEW c, MirrorKept(c, server), NEW i \in UnderWay(c), NEW owed \in BOOLEAN
    PROVE  LET d == FreedLoad(c, i, owed) IN
           /\ MirrorKept(d, server) /\ UnderWay(d) = {} /\ Undos(d) = Undos(c)
           /\ d.entry # NoEntry /\ d.scope = c.scope /\ d.revisions = c.revisions
           /\ d.entry.data = c.entry.data /\ d.entry.revision = c.entry.revision
           /\ d.entry.owed = owed
           /\ d.writes = c.writes /\ d.disposed = c.disposed
           /\ \A k \in 1 .. LoadSlots : d.loads[k] = IF k = i THEN FreeLoad ELSE c.loads[k]
  <1>. DEFINE ls == [c.loads EXCEPT ![i] = FreeLoad]
              e == [c.entry EXCEPT !.inflight = NoLoad, !.owed = owed]
              d == FreedLoad(c, i, owed)
  <1>1. /\ c \in MirrorRecord /\ c.loads \in [1 .. LoadSlots -> Load] /\ i \in 1 .. LoadSlots
        /\ \A k \in UnderWay(c) : c.entry # NoEntry /\ c.entry.inflight = k
    BY RecordIs DEF MirrorKept, UnderWay, LoadKept
  <1>2. c.entry # NoEntry /\ c.entry \in Entry /\ c.entry.inflight = i
    BY <1>1, RecordIs
  <1>3. ls \in [1 .. LoadSlots -> Load]
        /\ \A k \in 1 .. LoadSlots : ls[k] = IF k = i THEN FreeLoad ELSE c.loads[k]
    BY <1>1, FreeLoadIs
  <1>4. /\ e \in Entry /\ e.data = c.entry.data /\ e.revision = c.entry.revision
        /\ e.restored = c.entry.restored /\ e.owed = owed
    BY <1>2 DEF Entry
  <1>5. d = [c EXCEPT !.loads = ls, !.entry = e]
    BY <1>1 DEF MirrorRecord, FreedLoad
  <1>. HIDE DEF ls, e, d
  <1>6. /\ d \in MirrorRecord /\ d.loads = ls /\ d.entry = e /\ d.scope = c.scope
        /\ d.revisions = c.revisions /\ d.writes = c.writes /\ d.disposed = c.disposed
    BY <1>1, <1>3, <1>4, <1>5 DEF MirrorRecord
  <1>7. e # NoEntry
    BY <1>4, EntryIs
  <1>8. Undos(d) = Undos(c) /\ UnderWay(d) = {}
    BY <1>1, <1>3, <1>6, <1>2, FreeLoadIs DEF Undos, UnderWay
  <1>9. RestoredKept(d)
    BY <1>2, <1>4, <1>6 DEF RestoredKept, MirrorKept, EntryKept
  <1>10. Narrows(d, c)
    BY <1>2, <1>4, <1>6, <1>7, <1>8, <1>9 DEF Narrows
  <1>11. MirrorKept(d, server)
    BY <1>6, <1>10, Narrowed
  <1>. QED
    BY <1>3, <1>4, <1>6, <1>7, <1>8, <1>11 DEF d

\* The load i ends, and nothing else does.
LEMMA LoadEnds ==
    ASSUME MirrorInv, NEW i \in 1 .. LoadSlots, NEW d, MirrorKept(d, miServer),
           d.writes = miMirror.writes, d.disposed = miMirror.disposed, StaysBound(d),
           \A k \in 1 .. LoadSlots : d.loads[k] = IF k = i THEN FreeLoad ELSE miMirror.loads[k],
           d.revisions # miMirror.revisions =>
             /\ \A u \in Undos(miMirror) : u.revision <= miMirror.loads[i].asked
             /\ ~Older(Data, DataOf(d)) \/ (Data.given /\ ~miMirror.loads[i].more),
           miMirror' = d, UNCHANGED <<miPage, miServer>>
    PROVE  MirrorInv' /\ KeepsNewer
  <1>1. \A w \in Writes : WriteKept(d.writes[w], w, miServer)
    BY DEF MirrorInv
  <1>2. ReadingFollows(miPage, d)
    BY DEF MirrorInv, ReadingFollows, StaysBound, Observed
  <1>3. \A k \in 1 .. LoadSlots : LoadScoped(d.loads[k])
    BY FreeLoadIs DEF MirrorInv, LoadScoped
  <1>4. MirrorInv'
    BY <1>1, <1>2, <1>3 DEF MirrorInv
  <1>5. Data' = DataOf(d)
    BY DEF Data, DataOf
  <1>6. \A w \in Writes : ~(miMirror.writes[w].at # "failed" /\ miMirror'.writes[w].at = "failed")
    OBVIOUS
  <1>7. ASSUME NEW k \in 1 .. LoadSlots, Landed(k)
        PROVE  /\ \A w \in Writes : LET undo == miMirror.writes[w].undo
                                    IN undo # NoUndo => undo.revision <= miMirror.loads[k].asked
               /\ ~Older(Data, Data') \/ (Data.given /\ ~miMirror.loads[k].more)
    <2>1. k = i /\ d.revisions # miMirror.revisions
      BY <1>7 DEF Landed
    <2>2. \A w \in Writes : miMirror.writes[w].undo # NoUndo => miMirror.writes[w].undo \in Undos(miMirror)
      BY DEF Undos
    <2>. QED
      BY <2>1, <2>2, <1>5
  <1>8. KeepsNewer
    BY <1>6, <1>7 DEF KeepsNewer
  <1>. QED
    BY <1>4, <1>8

LEMMA LoadFailsKept ==
    ASSUME MirrorInv, NEW i \in 1 .. LoadSlots, LoadFails(i)
    PROVE  MirrorInv' /\ KeepsNewer
  <1>. DEFINE load == miMirror.loads[i]
              c == [miMirror EXCEPT !.loads[i] = FreeLoad]
              owed == load.more /\ miMirror.entry.owed
              d == FreedLoad(miMirror, i, owed)
  <1>1. /\ MirrorKept(miMirror, miServer) /\ miMirror \in MirrorRecord /\ load.at # "free"
        /\ (Observed => miMirror.entry # NoEntry)
    BY DEF MirrorInv, MirrorKept, LoadFails, ReadingFollows, Observed
  <1>2. CASE load.aborted
    <2>1. miMirror' = c /\ UNCHANGED <<miPage, miServer>>
      BY <1>2 DEF LoadFails, MiSteps
    <2>2. i \notin UnderWay(miMirror)
      BY <1>2 DEF UnderWay
    <2>3. /\ MirrorKept(c, miServer) /\ c.entry = miMirror.entry /\ c.scope = miMirror.scope
          /\ c.revisions = miMirror.revisions /\ c.writes = miMirror.writes /\ c.disposed = miMirror.disposed
          /\ \A k \in 1 .. LoadSlots : c.loads[k] = IF k = i THEN FreeLoad ELSE miMirror.loads[k]
      BY <1>1, <2>2, AbortedFreed
    <2>. HIDE DEF c
    <2>. QED
      BY <1>1, <2>1, <2>3, LoadEnds DEF StaysBound
  <1>3. CASE ~load.aborted
    <2>1. i \in UnderWay(miMirror)
      BY <1>1, <1>3 DEF UnderWay
    <2>2. miMirror.entry # NoEntry /\ miMirror.entry \in Entry
      BY <1>1, <2>1, RecordIs DEF MirrorKept, LoadKept
    <2>3. owed \in BOOLEAN
      BY <1>1, <2>2, EntryIs, LoadIs
    <2>4. miMirror' = d /\ UNCHANGED <<miPage, miServer>>
      <3>1. [c EXCEPT !.entry.inflight = NoLoad, !.entry.owed = owed] = d
        BY DEF FreedLoad
      <3>2. c.entry.owed = miMirror.entry.owed
        BY <1>1 DEF MirrorRecord
      <3>. HIDE DEF d
      <3>. QED
        BY <1>3, <3>1, <3>2 DEF LoadFails, MiSteps
    <2>. HIDE DEF owed
    <2>5. /\ MirrorKept(d, miServer) /\ d.entry # NoEntry /\ d.scope = miMirror.scope
          /\ d.revisions = miMirror.revisions /\ d.writes = miMirror.writes /\ d.disposed = miMirror.disposed
          /\ \A k \in 1 .. LoadSlots : d.loads[k] = IF k = i THEN FreeLoad ELSE miMirror.loads[k]
      BY <1>1, <2>1, <2>3, UnderWayFreed
    <2>. HIDE DEF d
    <2>. QED
      BY <2>4, <2>5, LoadEnds DEF StaysBound
  <1>. QED
    BY <1>2, <1>3

LEMMA LoadLandsKept ==
    ASSUME MirrorInv, NEW i \in 1 .. LoadSlots, LoadLands(i)
    PROVE  MirrorInv' /\ KeepsNewer
  <1>. DEFINE load == miMirror.loads[i]
              c == [miMirror EXCEPT !.loads[i] = FreeLoad]
              d == IF c.entry # NoEntry /\ c.entry.inflight = i THEN [c EXCEPT !.entry.inflight = NoLoad] ELSE c
              landed == [Committed(d, load.value) EXCEPT !.entry.owed = FALSE]
              longer == [d EXCEPT !.revisions = @ + 1, !.entry.revision = c.revisions + 1,
                                  !.entry.data = load.value]
  <1>1. /\ MirrorKept(miMirror, miServer) /\ miMirror \in MirrorRecord /\ load.at = "served"
        /\ (Observed => miMirror.entry # NoEntry)
        /\ \A k \in UnderWay(miMirror) : LoadKept(miMirror, k, miServer)
        /\ VersionsKept(miMirror, miServer)
    BY DEF MirrorInv, MirrorKept, LoadLands, ReadingFollows, Observed
  <1>2. UNCHANGED <<miPage, miServer>>
        /\ miMirror' = IF load.aborted THEN c ELSE IF ~load.more THEN landed
                       ELSE IF load.revision # c.entry.revision THEN d ELSE longer
    BY DEF LoadLands, MiSteps, Lands, Extends
  <1>3. CASE load.aborted
    <2>1. miMirror' = c /\ i \notin UnderWay(miMirror)
      BY <1>2, <1>3 DEF UnderWay
    <2>2. /\ MirrorKept(c, miServer) /\ c.entry = miMirror.entry /\ c.scope = miMirror.scope
          /\ c.revisions = miMirror.revisions /\ c.writes = miMirror.writes /\ c.disposed = miMirror.disposed
          /\ \A k \in 1 .. LoadSlots : c.loads[k] = IF k = i THEN FreeLoad ELSE miMirror.loads[k]
      BY <1>1, <2>1, AbortedFreed
    <2>. HIDE DEF c, d, landed, longer
    <2>. QED
      BY <1>1, <1>2, <2>1, <2>2, LoadEnds DEF StaysBound
  <1>4. CASE ~load.aborted
    <2>1. i \in UnderWay(miMirror)
      BY <1>1, <1>4 DEF UnderWay
    <2>2. /\ miMirror.entry # NoEntry /\ miMirror.entry \in Entry /\ miMirror.entry.inflight = i
          /\ LoadKept(miMirror, i, miServer) /\ miMirror.revisions \in Nat
      BY <1>1, <2>1, RecordIs DEF LoadKept
    <2>3. load \in Load
      BY <1>1, RecordIs
    <2>. DEFINE owed == miMirror.entry.owed
    <2>4. d = FreedLoad(miMirror, i, owed)
      <3>1. c.entry = miMirror.entry /\ c.loads = [miMirror.loads EXCEPT ![i] = FreeLoad]
        BY <1>1 DEF MirrorRecord
      <3>2. [miMirror.entry EXCEPT !.inflight = NoLoad] = [miMirror.entry EXCEPT !.inflight = NoLoad, !.owed = owed]
        BY <2>2 DEF Entry
      <3>3. d = [miMirror EXCEPT !.loads = [miMirror.loads EXCEPT ![i] = FreeLoad],
                                 !.entry = [miMirror.entry EXCEPT !.inflight = NoLoad]]
        BY <1>1, <2>2, <3>1 DEF MirrorRecord
      <3>4. FreedLoad(miMirror, i, owed)
              = [miMirror EXCEPT !.loads = [miMirror.loads EXCEPT ![i] = FreeLoad],
                                 !.entry = [miMirror.entry EXCEPT !.inflight = NoLoad, !.owed = owed]]
        BY <1>1 DEF MirrorRecord, FreedLoad
      <3>. QED
        BY <3>2, <3>3, <3>4
    <2>5. owed \in BOOLEAN
      BY <2>2, EntryIs
    <2>6. c.revisions = miMirror.revisions /\ c.entry.revision = miMirror.entry.revision
      BY <1>1 DEF MirrorRecord
    <2>. HIDE DEF c, d, owed
    <2>7. /\ MirrorKept(d, miServer) /\ UnderWay(d) = {} /\ Undos(d) = Undos(miMirror)
          /\ d.entry # NoEntry /\ d.scope = miMirror.scope /\ d.revisions = miMirror.revisions
          /\ d.entry.data = miMirror.entry.data /\ d.entry.revision = miMirror.entry.revision
          /\ d.writes = miMirror.writes /\ d.disposed = miMirror.disposed
          /\ \A k \in 1 .. LoadSlots : d.loads[k] = IF k = i THEN FreeLoad ELSE miMirror.loads[k]
      BY <1>1, <2>1, <2>4, <2>5, UnderWayFreed
    <2>8. Data = miMirror.entry.data /\ \A u \in Undos(miMirror) : u.revision <= load.asked
      BY <2>2 DEF Data, LoadKept
    <2>9. CASE ~load.more
      <3>1. miMirror' = landed
        BY <1>2, <1>4, <2>9
      <3>2. /\ load.value \in Value /\ OfScope(load.value, miMirror.scope, miServer)
            /\ NotBehind(load.value, miMirror.entry.data)
        BY <1>1, <2>2, <2>3, <2>9, LoadIs DEF LoadKept
      <3>. DEFINE m == Committed(d, load.value)
                  e == [m.entry EXCEPT !.owed = FALSE]
                  f == [m EXCEPT !.entry = e]
      <3>3. /\ MirrorKept(m, miServer) /\ m.entry # NoEntry /\ m.scope = d.scope /\ m.loads = d.loads
            /\ m.writes = d.writes /\ m.entry.data = load.value /\ Goes(m, d)
        BY <2>7, <3>2, CommittedKept
      <3>4. landed = f
        <4>1. m \in MirrorRecord
          BY <3>3 DEF MirrorKept
        <4>. QED
          BY <4>1 DEF MirrorRecord
      <3>. HIDE DEF m, landed
      <3>5. m.entry \in Entry /\ (m.entry.restored # NoData => m.entry.restored.scope = m.scope /\ m.entry.restored.given)
        BY <3>3, RecordIs DEF MirrorKept, EntryKept
      <3>6. /\ e \in Entry /\ e.data = m.entry.data /\ e.revision = m.entry.revision
            /\ e.inflight = m.entry.inflight /\ e.restored = m.entry.restored
        BY <3>5 DEF Entry
      <3>. HIDE DEF e
      <3>7. /\ MirrorKept(f, miServer) /\ f.entry = e /\ f.entry # NoEntry /\ f.scope = m.scope
            /\ f.loads = m.loads /\ f.writes = m.writes /\ f.disposed = m.disposed
        BY <3>3, <3>5, <3>6, EntryMarked
      <3>. HIDE DEF f
      <3>8. DataOf(f) = load.value
        BY <3>3, <3>6, <3>7 DEF DataOf
      <3>9. ~Older(Data, DataOf(f)) \/ (Data.given /\ ~load.more)
        BY <2>8, <2>9, <3>2, <3>8 DEF Older, NotBehind
      <3>10. m.disposed = d.disposed
        BY <3>3 DEF Goes
      <3>11. StaysBound(f)
        BY <2>7, <3>3, <3>7 DEF StaysBound
      <3>. QED
        BY <1>2, <2>7, <2>8, <3>1, <3>3, <3>4, <3>7, <3>9, <3>10, <3>11, LoadEnds
    <2>10. CASE load.more /\ load.revision # c.entry.revision
      <3>1. miMirror' = d
        BY <1>2, <1>4, <2>10
      <3>2. StaysBound(d)
        BY <2>7 DEF StaysBound
      <3>. QED
        BY <1>2, <2>7, <3>1, <3>2, LoadEnds
    <2>11. CASE load.more /\ load.revision = c.entry.revision
      <3>1. miMirror' = longer
        BY <1>2, <1>4, <2>11
      <3>2. OfScope(load.value, miMirror.scope, miServer) /\ load.value = miMirror.entry.data
        <4>. DEFINE x == <<load.revision, load.value>>
                    y == <<miMirror.entry.revision, miMirror.entry.data>>
        <4>1. x \in Versions(miMirror) /\ y \in Versions(miMirror)
          BY <2>1, <2>2, <2>11 DEF Versions
        <4>2. x[1] = y[1] /\ x[2] = load.value /\ y[2] = miMirror.entry.data
          BY <2>6, <2>11
        <4>. HIDE DEF x, y
        <4>. QED
          BY <4>1, <4>2, <1>1 DEF VersionsKept
      <3>. DEFINE top == miMirror.revisions + 1
                  e == [d.entry EXCEPT !.revision = top, !.data = load.value]
      <3>3. d \in MirrorRecord /\ d.entry \in Entry /\ top \in Nat /\ load.value \in Value \union {NoData}
        BY <2>2, <2>3, <2>7, RecordIs, LoadIs DEF MirrorKept
      <3>4. longer = [d EXCEPT !.revisions = top, !.entry = e]
        BY <2>6, <2>7, <3>3 DEF MirrorRecord
      <3>5. top # miMirror.revisions /\ top = d.revisions + 1
        BY <2>2, <2>7
      <3>. HIDE DEF top, longer
      <3>6. /\ e \in Entry /\ e.revision = top /\ e.data = load.value
            /\ e.inflight = d.entry.inflight /\ e.restored = d.entry.restored
        BY <3>3 DEF Entry
      <3>. HIDE DEF e
      <3>7. /\ longer \in MirrorRecord /\ longer.entry = e /\ longer.scope = d.scope
            /\ longer.revisions = top /\ longer.loads = d.loads /\ longer.writes = d.writes
            /\ longer.disposed = d.disposed
        BY <3>3, <3>4, <3>6 DEF MirrorRecord
      <3>8. e # NoEntry
        BY <3>6, EntryIs
      <3>9. Undos(longer) = Undos(d) /\ UnderWay(longer) = {}
        BY <2>7, <3>7 DEF Undos, UnderWay
      <3>10. RestoredKept(longer)
        BY <2>7, <3>6, <3>7 DEF RestoredKept, MirrorKept, EntryKept
      <3>11. Renews(longer, d, miServer)
        BY <2>7, <3>2, <3>5, <3>6, <3>7, <3>8, <3>9, <3>10 DEF Renews
      <3>12. MirrorKept(longer, miServer)
        BY <2>7, <3>7, <3>11, Renewed
      <3>13. ~Older(Data, DataOf(longer))
        BY <2>8, <3>2, <3>6, <3>7, <3>8 DEF Older, DataOf
      <3>14. StaysBound(longer)
        BY <2>7, <3>7, <3>8 DEF StaysBound
      <3>. QED
        BY <1>2, <2>7, <2>8, <3>1, <3>7, <3>12, <3>13, <3>14, LoadEnds
    <2>. QED
      BY <2>9, <2>10, <2>11
  <1>. QED
    BY <1>3, <1>4

-----------------------------------------------------------------------------
(* Writes: sent under the scope they were run in, and never behind an answer. *)

\* What the server has of a write is of the write's scope.
HeldAs(write, w) == \A s \in Scopes : w \in miServer[s] => write.scope = s

LEMMA WriteEnds ==
    ASSUME MirrorInv, NEW w \in Writes, NEW c, MirrorKept(c, miServer), Moves(c, miMirror, w),
           StaysBound(c), HeldAs(c.writes[w], w),
           NEW outcome \in Outcomes, outcome \notin Running,
           outcome = "failed" => ~Older(Data, DataOf(c)),
           miMirror' = Ended(c, w, outcome), UNCHANGED <<miPage, miServer>>
    PROVE  MirrorInv' /\ KeepsNewer
  <1>. DEFINE d == Ended(c, w, outcome)
  <1>1. /\ MirrorKept(d, miServer) /\ d.entry = c.entry /\ d.scope = c.scope
        /\ d.disposed = c.disposed /\ d.loads = c.loads
        /\ d.writes[w].at = outcome /\ d.writes[w].scope = c.writes[w].scope
        /\ \A v \in Writes : v # w => d.writes[v] = c.writes[v]
    BY EndedKept
  <1>2. miMirror' = d
    OBVIOUS
  <1>. HIDE DEF d
  <1>3. WriteKept(d.writes[w], w, miServer)
    BY <1>1 DEF WriteKept, HeldAs, Outcomes
  <1>4. Moves(d, miMirror, w)
    BY <1>1 DEF Moves
  <1>5. StaysBound(d)
    BY <1>1 DEF StaysBound
  <1>6. d.writes[w].at = "failed" => ~Older(Data, DataOf(d))
    BY <1>1 DEF DataOf
  <1>. QED
    BY <1>1, <1>2, <1>3, <1>4, <1>5, <1>6, Moved

LEMMA EndsAre ==
    \A outcome \in {"done", "failed", "aborted", "rejected"} : outcome \in Outcomes /\ outcome \notin Running
  BY DEF Outcomes, Running

\* A patch that is undone at once leaves what there was.
LEMMA PatchUndone ==
    ASSUME NEW server, NEW c, MirrorKept(c, server), NEW w \in Writes
    PROVE  LET d == RolledBack(Patched(c, w), w) IN
           /\ MirrorKept(d, server) /\ Goes(d, c) /\ d.scope = c.scope
           /\ (d.entry = NoEntry <=> c.entry = NoEntry) /\ DataOf(d) = DataOf(c)
  <1>. DEFINE p == Patched(c, w)
              d == RolledBack(p, w)
  <1>1. /\ MirrorKept(p, server) /\ Goes(p, c) /\ p.scope = c.scope /\ (p.entry = NoEntry <=> c.entry = NoEntry)
        /\ c.entry # NoEntry => /\ p.writes[w].undo # NoUndo /\ p.writes[w].undo.data = c.entry.data
                                /\ p.writes[w].undo.revision = p.entry.revision
    BY PatchedKept
  <1>. HIDE DEF p
  <1>2. /\ MirrorKept(d, server) /\ Goes(d, p) /\ d.scope = p.scope /\ (d.entry = NoEntry <=> p.entry = NoEntry)
    BY <1>1, RolledBackKept
  <1>. HIDE DEF d
  <1>3. Goes(d, c)
    BY <1>1, <1>2, GoesOn
  <1>4. DataOf(d) = DataOf(c)
    <2>1. CASE c.entry = NoEntry
      BY <1>1, <1>2, <2>1 DEF DataOf
    <2>2. CASE c.entry # NoEntry
      <3>1. p \in MirrorRecord /\ p.entry # NoEntry
        BY <1>1, <2>2 DEF MirrorKept
      <3>2. p.entry \in Entry
        BY <3>1, RecordIs
      <3>. DEFINE undo == p.writes[w].undo
                  e == [p.entry EXCEPT !.data = undo.data, !.revision = undo.before]
      <3>3. d = [p EXCEPT !.entry = e]
        BY <1>1, <2>2, <3>1 DEF RolledBack, OwnPatch, MirrorRecord, d
      <3>4. e.data = undo.data
        BY <3>2 DEF Entry
      <3>. HIDE DEF e
      <3>5. d.entry = e
        BY <3>1, <3>3 DEF MirrorRecord
      <3>. QED
        BY <1>1, <1>2, <2>2, <3>4, <3>5 DEF DataOf
    <2>. QED
      BY <2>1, <2>2
  <1>. QED
    BY <1>1, <1>2, <1>3, <1>4 DEF d, p

\* The request of a write whose patch has been laid.
Sent(c, w, s) == [c EXCEPT !.writes[w].at = "sent", !.writes[w].sentAs = s]

LEMMA SentKept ==
    ASSUME NEW server, NEW c, MirrorKept(c, server), NEW w \in Writes, NEW s \in Scopes
    PROVE  LET d == Sent(c, w, s) IN
           /\ MirrorKept(d, server) /\ d.entry = c.entry /\ d.scope = c.scope
           /\ d.disposed = c.disposed /\ d.loads = c.loads
           /\ d.writes[w].at = "sent" /\ d.writes[w].scope = c.writes[w].scope /\ d.writes[w].sentAs = s
           /\ \A x \in Writes : x # w => d.writes[x] = c.writes[x]
  <1>. DEFINE v == [c.writes[w] EXCEPT !.at = "sent", !.sentAs = s]
              d == Sent(c, w, s)
              f == [c EXCEPT !.writes = [c.writes EXCEPT ![w] = v]]
  <1>1. c \in MirrorRecord /\ c.writes \in [Writes -> WriteRecord]
    BY RecordIs DEF MirrorKept
  <1>2. c.writes[w] \in WriteRecord
    BY <1>1
  <1>3. /\ v \in WriteRecord /\ v.at = "sent" /\ v.sentAs = s /\ v.undo = c.writes[w].undo
        /\ v.scope = c.writes[w].scope
    BY <1>2 DEF WriteRecord
  <1>4. d = f
    BY <1>1 DEF MirrorRecord, Sent
  <1>. HIDE DEF v, d
  <1>5. /\ MirrorKept(f, server) /\ f.entry = c.entry /\ f.scope = c.scope
        /\ f.disposed = c.disposed /\ f.loads = c.loads
        /\ f.writes[w] = v /\ \A x \in Writes : x # w => f.writes[x] = c.writes[x]
    BY <1>1, <1>3, WriteIsSet
  <1>. HIDE DEF f
  <1>. QED
    BY <1>3, <1>4, <1>5 DEF d

\* execute, of a write that is run now or was queued.
LEMMA ExecutesKept ==
    ASSUME MirrorInv, NEW w \in Writes, NEW c, MirrorKept(c, miServer), Moves(c, miMirror, w),
           StaysBound(c), c.entry \in {miMirror.entry, NoEntry}, HeldAs(c.writes[w], w),
           Executes(c, w), UNCHANGED miServer
    PROVE  MirrorInv' /\ KeepsNewer
  <1>. DEFINE d == IF Shut(c, w) THEN c ELSE Entered(c, miPage.identity)
              p == Patched(d, w)
              r == RolledBack(p, w)
              sent == Sent(p, w, miPage.identity)
  <1>1. miPage.identity \in Scopes /\ miPage.identity # NoScope /\ c \in MirrorRecord
    BY MirrorAssumption DEF MirrorInv, PageRecord, MirrorKept
  <1>2. UNCHANGED miPage
        /\ \/ miMirror' = Ended(d, w, "aborted")
           \/ ~Shut(c, w) /\ SameScope(d, w) /\ miMirror' \in {sent, Ended(r, w, "failed")}
    BY DEF Executes, MiSteps, Sent
  <1>3. /\ MirrorKept(d, miServer) /\ Goes(d, c) /\ d.entry \in {miMirror.entry, NoEntry} /\ StaysBound(d)
        /\ ~Shut(c, w) => d.scope = miPage.identity
    <2>1. CASE Shut(c, w)
      BY <2>1 DEF Goes
    <2>2. CASE ~Shut(c, w)
      <3>1. /\ MirrorKept(d, miServer) /\ Goes(d, c) /\ d.entry \in {c.entry, NoEntry} /\ d.scope = miPage.identity
        BY <1>1, <2>2, EnteredKept
      <3>2. Observed => c.scope = miPage.identity
        BY DEF StaysBound, MirrorInv, ReadingFollows, Observed
      <3>3. Observed => d = c
        BY <1>1, <2>2, <3>2, EnteredSame
      <3>4. StaysBound(d)
        BY <3>3 DEF StaysBound
      <3>. QED
        BY <2>2, <3>1, <3>4
    <2>. QED
      BY <2>1, <2>2
  <1>. HIDE DEF d
  <1>4. Moves(d, miMirror, w)
    BY <1>3, GoesMoves, MovesOn
  <1>5. HeldAs(d.writes[w], w)
    BY <1>3 DEF HeldAs, Goes
  <1>6. CASE miMirror' = Ended(d, w, "aborted")
    <2>1. "aborted" \in Outcomes /\ "aborted" \notin Running /\ "aborted" # "failed"
      BY EndsAre
    <2>. QED
      BY <1>2, <1>3, <1>4, <1>5, <1>6, <2>1, WriteEnds
  <1>7. CASE SameScope(d, w) /\ ~Shut(c, w) /\ miMirror' = Ended(r, w, "failed")
    <2>1. /\ MirrorKept(r, miServer) /\ Goes(r, d) /\ r.scope = d.scope
          /\ (r.entry = NoEntry <=> d.entry = NoEntry) /\ DataOf(r) = DataOf(d)
      BY <1>3, PatchUndone
    <2>. HIDE DEF r
    <2>2. Moves(r, miMirror, w)
      BY <1>4, <2>1, GoesMoves, MovesOn
    <2>3. StaysBound(r)
      BY <1>3, <2>1 DEF StaysBound
    <2>4. HeldAs(r.writes[w], w)
      BY <1>5, <2>1 DEF HeldAs, Goes
    <2>6. "failed" \in Outcomes /\ "failed" \notin Running
      BY EndsAre
    <2>5. ~Older(Data, DataOf(r))
      <3>1. DataOf(d) = Data \/ DataOf(d) = NoData
        BY <1>3 DEF Data, DataOf
      <3>. QED
        BY <2>1, <3>1 DEF Older
    <2>. QED
      BY <1>2, <1>7, <2>1, <2>2, <2>3, <2>4, <2>5, <2>6, WriteEnds
  <1>8. CASE SameScope(d, w) /\ ~Shut(c, w) /\ miMirror' = sent
    <2>1. /\ MirrorKept(p, miServer) /\ Goes(p, d) /\ p.scope = d.scope
          /\ (p.entry = NoEntry <=> d.entry = NoEntry)
      BY <1>3, PatchedKept
    <2>. HIDE DEF p
    <2>2. /\ MirrorKept(sent, miServer) /\ sent.entry = p.entry /\ sent.scope = p.scope
          /\ sent.disposed = p.disposed /\ sent.loads = p.loads
          /\ sent.writes[w].at = "sent" /\ sent.writes[w].scope = p.writes[w].scope
          /\ sent.writes[w].sentAs = miPage.identity
          /\ \A x \in Writes : x # w => sent.writes[x] = p.writes[x]
      BY <1>1, <2>1, SentKept
    <2>. HIDE DEF sent
    <2>3. Moves(sent, miMirror, w)
      <3>1. Moves(p, miMirror, w)
        BY <1>4, <2>1, GoesMoves, MovesOn
      <3>. QED
        BY <3>1, <2>2 DEF Moves
    <2>4. StaysBound(sent)
      BY <1>3, <2>1, <2>2 DEF StaysBound
    <2>5. p.writes[w].scope = d.writes[w].scope /\ d.writes[w].scope = d.scope
      BY <1>8, <2>1 DEF SameScope, Goes
    <2>6. WriteKept(sent.writes[w], w, miServer)
      BY <1>1, <1>3, <1>5, <1>8, <2>2, <2>5 DEF WriteKept, HeldAs
    <2>. QED
      BY <1>2, <1>8, <2>2, <2>3, <2>4, <2>6, Moved
  <1>. QED
    BY <1>2, <1>6, <1>7, <1>8

\* What run makes of the write: the scope it is of, and the queue it joins.
ScopedTo(c, w, s) == [c EXCEPT !.writes[w].scope = s, !.writes[w].epoch = c.epoch]
Queued(c, w, behind) == [c EXCEPT !.writes[w].at = "queued", !.writes[w].behind = behind]

LEMMA ScopedKept ==
    ASSUME NEW server, NEW c, MirrorKept(c, server), NEW w \in Writes, NEW s \in Scopes
    PROVE  LET d == ScopedTo(c, w, s) IN
           /\ MirrorKept(d, server) /\ d.entry = c.entry /\ d.scope = c.scope
           /\ d.disposed = c.disposed /\ d.loads = c.loads
           /\ \A x \in Writes : x # w => d.writes[x] = c.writes[x]
  <1>. DEFINE v == [c.writes[w] EXCEPT !.scope = s, !.epoch = c.epoch]
              d == ScopedTo(c, w, s)
              f == [c EXCEPT !.writes = [c.writes EXCEPT ![w] = v]]
  <1>1. c \in MirrorRecord /\ c.writes \in [Writes -> WriteRecord] /\ c.epoch \in Nat
    BY RecordIs DEF MirrorKept
  <1>2. c.writes[w] \in WriteRecord
    BY <1>1
  <1>3. v \in WriteRecord /\ v.undo = c.writes[w].undo
    BY <1>1, <1>2 DEF WriteRecord
  <1>4. d = f
    BY <1>1 DEF MirrorRecord, ScopedTo
  <1>. HIDE DEF v, d
  <1>5. /\ MirrorKept(f, server) /\ f.entry = c.entry /\ f.scope = c.scope
        /\ f.disposed = c.disposed /\ f.loads = c.loads
        /\ \A x \in Writes : x # w => f.writes[x] = c.writes[x]
    BY <1>3, WriteIsSet
  <1>. HIDE DEF f
  <1>. QED
    BY <1>4, <1>5 DEF d

LEMMA QueuedKept ==
    ASSUME NEW server, NEW c, MirrorKept(c, server), NEW w \in Writes, NEW behind \in SUBSET Writes
    PROVE  LET d == Queued(c, w, behind) IN
           /\ MirrorKept(d, server) /\ d.entry = c.entry /\ d.scope = c.scope
           /\ d.disposed = c.disposed /\ d.loads = c.loads /\ d.writes[w].at = "queued"
           /\ \A x \in Writes : x # w => d.writes[x] = c.writes[x]
  <1>. DEFINE v == [c.writes[w] EXCEPT !.at = "queued", !.behind = behind]
              d == Queued(c, w, behind)
              f == [c EXCEPT !.writes = [c.writes EXCEPT ![w] = v]]
  <1>1. c \in MirrorRecord /\ c.writes \in [Writes -> WriteRecord]
    BY RecordIs DEF MirrorKept
  <1>2. c.writes[w] \in WriteRecord
    BY <1>1
  <1>3. v \in WriteRecord /\ v.undo = c.writes[w].undo /\ v.at = "queued"
    BY <1>2 DEF WriteRecord
  <1>4. d = f
    BY <1>1 DEF MirrorRecord, Queued
  <1>. HIDE DEF v, d
  <1>5. /\ MirrorKept(f, server) /\ f.entry = c.entry /\ f.scope = c.scope
        /\ f.disposed = c.disposed /\ f.loads = c.loads /\ f.writes[w] = v
        /\ \A x \in Writes : x # w => f.writes[x] = c.writes[x]
    BY <1>3, WriteIsSet
  <1>. HIDE DEF f
  <1>. QED
    BY <1>3, <1>4, <1>5 DEF d

LEMMA RunKept ==
    ASSUME MirrorInv, NEW w \in Writes, Run(w)
    PROVE  MirrorInv' /\ KeepsNewer
  <1>. DEFINE c == Entered(miMirror, miPage.identity)
              pending == { v \in Writes : c.writes[v].at \in Pending }
              d == ScopedTo(c, w, miPage.identity)
              q == Queued(d, w, pending)
  <1>1. /\ MirrorKept(miMirror, miServer) /\ miPage.identity \in Scopes
        /\ (Observed => miMirror.entry # NoEntry)
    BY DEF MirrorInv, PageRecord, ReadingFollows, Observed
  <1>2. /\ MirrorKept(c, miServer) /\ Goes(c, miMirror) /\ c.entry \in {miMirror.entry, NoEntry}
        /\ StaysBound(c)
    BY EnteredHere
  <1>3. \A s \in Scopes : w \notin miServer[s]
    BY DEF MirrorInv, WriteKept, Run
  <1>4. "aborted" \in Outcomes /\ "aborted" \notin Running /\ "rejected" \in Outcomes /\ "rejected" \notin Running
    BY EndsAre
  <1>5. UNCHANGED miServer
        /\ \/ miMirror' = Ended(miMirror, w, "aborted") /\ UNCHANGED miPage
           \/ miMirror' = q /\ UNCHANGED miPage
           \/ miMirror' = Ended(c, w, "rejected") /\ UNCHANGED miPage
           \/ Executes(d, w)
    BY DEF Run, MiSteps, ScopedTo, Queued
  <1>. HIDE DEF c, pending
  <1>6. Moves(c, miMirror, w)
    BY <1>2, GoesMoves
  <1>7. /\ MirrorKept(d, miServer) /\ d.entry = c.entry /\ d.scope = c.scope
        /\ d.disposed = c.disposed /\ d.loads = c.loads
        /\ \A x \in Writes : x # w => d.writes[x] = c.writes[x]
    BY <1>1, <1>2, ScopedKept
  <1>. HIDE DEF d
  <1>8. Moves(d, miMirror, w) /\ StaysBound(d)
    BY <1>2, <1>6, <1>7 DEF Moves, StaysBound
  <1>9. CASE miMirror' = Ended(miMirror, w, "aborted") /\ UNCHANGED miPage
    <2>1. Moves(miMirror, miMirror, w) /\ StaysBound(miMirror) /\ HeldAs(miMirror.writes[w], w)
      BY <1>1, <1>3 DEF Moves, StaysBound, HeldAs
    <2>2. "aborted" # "failed"
      OBVIOUS
    <2>. QED
      BY <1>1, <1>4, <1>5, <1>9, <2>1, <2>2, WriteEnds
  <1>10. CASE miMirror' = q /\ UNCHANGED miPage
    <2>1. pending \in SUBSET Writes
      BY DEF pending
    <2>2. /\ MirrorKept(q, miServer) /\ q.entry = d.entry /\ q.scope = d.scope
          /\ q.disposed = d.disposed /\ q.loads = d.loads /\ q.writes[w].at = "queued"
          /\ \A x \in Writes : x # w => q.writes[x] = d.writes[x]
      BY <1>7, <2>1, QueuedKept
    <2>. HIDE DEF q
    <2>3. Moves(q, miMirror, w) /\ StaysBound(q)
      BY <1>8, <2>2 DEF Moves, StaysBound
    <2>4. WriteKept(q.writes[w], w, miServer) /\ q.writes[w].at # "failed"
      BY <1>3, <2>2 DEF WriteKept, Running
    <2>. QED
      BY <1>5, <1>10, <2>2, <2>3, <2>4, Moved
  <1>11. CASE miMirror' = Ended(c, w, "rejected") /\ UNCHANGED miPage
    <2>1. HeldAs(c.writes[w], w) /\ "rejected" # "failed"
      BY <1>3 DEF HeldAs
    <2>. QED
      BY <1>2, <1>4, <1>5, <1>6, <1>11, <2>1, WriteEnds
  <1>12. CASE Executes(d, w)
    <2>1. HeldAs(d.writes[w], w)
      BY <1>3 DEF HeldAs
    <2>2. d.entry \in {miMirror.entry, NoEntry}
      BY <1>2, <1>7
    <2>. QED
      BY <1>5, <1>7, <1>8, <1>12, <2>1, <2>2, ExecutesKept
  <1>. QED
    BY <1>5, <1>9, <1>10, <1>11, <1>12

LEMMA ExecuteKept ==
    ASSUME MirrorInv, NEW w \in Writes, Execute(w)
    PROVE  MirrorInv' /\ KeepsNewer
  <1>1. Executes(miMirror, w) /\ UNCHANGED miServer
    BY DEF Execute
  <1>2. MirrorKept(miMirror, miServer) /\ StaysBound(miMirror) /\ Moves(miMirror, miMirror, w)
    BY DEF MirrorInv, ReadingFollows, Observed, StaysBound, Moves
  <1>3. HeldAs(miMirror.writes[w], w)
    BY DEF MirrorInv, WriteKept, HeldAs
  <1>. QED
    BY <1>1, <1>2, <1>3, ExecutesKept

LEMMA ServerAppliesKept ==
    ASSUME MirrorInv, NEW w \in Writes, ServerApplies(w)
    PROVE  MirrorInv' /\ KeepsNewer
  <1>. DEFINE write == miMirror.writes[w]
              d == Ended(miMirror, w, "applied")
              more == [miServer EXCEPT ![write.sentAs] = @ \union {w}]
  <1>1. /\ MirrorKept(miMirror, miServer) /\ miPage \in PageRecord
        /\ miServer \in [Scopes -> SUBSET Writes] /\ ReadingFollows(miPage, miMirror)
        /\ \A i \in 1 .. LoadSlots : LoadScoped(miMirror.loads[i])
        /\ \A v \in Writes : WriteKept(miMirror.writes[v], v, miServer)
    BY DEF MirrorInv
  <1>2. write.at = "sent" /\ miServer' = more /\ UNCHANGED miPage /\ miMirror' = d
    BY DEF ServerApplies, MiSteps, Ended
  <1>3. write.scope \in Scopes /\ write.sentAs = write.scope
    BY <1>1, <1>2 DEF WriteKept, Running
  <1>4. "applied" \in Outcomes /\ "applied" # "failed"
    BY DEF Outcomes
  <1>5. /\ MirrorKept(d, miServer) /\ d.entry = miMirror.entry /\ d.scope = miMirror.scope
        /\ d.disposed = miMirror.disposed /\ d.loads = miMirror.loads
        /\ d.writes[w].at = "applied"
        /\ d.writes[w].scope = write.scope /\ d.writes[w].sentAs = write.sentAs
        /\ \A v \in Writes : v # w => d.writes[v] = miMirror.writes[v]
    BY <1>1, <1>4, EndedKept
  <1>. HIDE DEF d
  <1>6. /\ more \in [Scopes -> SUBSET Writes]
        /\ \A s \in Scopes : more[s] = IF s = write.scope THEN miServer[s] \union {w} ELSE miServer[s]
    BY <1>1, <1>3
  <1>. HIDE DEF more
  <1>7. MirrorKept(d, more)
    BY <1>5, <1>6, ServerGoesOn
  <1>8. ASSUME NEW v \in Writes PROVE WriteKept(d.writes[v], v, more)
    <2>1. CASE v = w
      <3>1. \A s \in Scopes : w \in more[s] => write.scope = s
        BY <1>1, <1>6 DEF WriteKept
      <3>. QED
        BY <2>1, <3>1, <1>3, <1>5 DEF WriteKept
    <2>2. CASE v # w
      <3>1. d.writes[v] = miMirror.writes[v] /\ \A s \in Scopes : v \in more[s] => v \in miServer[s]
        BY <1>5, <1>6, <2>2
      <3>. QED
        BY <1>1, <3>1 DEF WriteKept
    <2>. QED
      BY <2>1, <2>2
  <1>9. MirrorInv'
    BY <1>1, <1>2, <1>5, <1>6, <1>7, <1>8 DEF MirrorInv, ReadingFollows
  <1>10. KeepsNewer
    BY <1>2, <1>4, <1>5, Calm
  <1>. QED
    BY <1>9, <1>10

\* What an answer to a write starts from.
LEMMA AnswerHere ==
    ASSUME MirrorInv, NEW w \in Writes, Room
    PROVE  LET c == Entered(miMirror, miPage.identity) IN
           /\ MirrorKept(c, miServer) /\ Moves(c, miMirror, w) /\ StaysBound(c) /\ HeldAs(c.writes[w], w)
           /\ FreeSlots(c) # {} /\ c.scope = miPage.identity
           /\ Goes(c, miMirror) /\ c.entry \in {miMirror.entry, NoEntry}
  <1>. DEFINE c == Entered(miMirror, miPage.identity)
  <1>1. /\ MirrorKept(c, miServer) /\ Goes(c, miMirror) /\ c.scope = miPage.identity
        /\ c.entry \in {miMirror.entry, NoEntry} /\ FreeSlots(c) = FreeSlots(miMirror)
        /\ StaysBound(c)
    BY EnteredHere
  <1>. HIDE DEF c
  <1>2. HeldAs(c.writes[w], w)
    BY <1>1 DEF MirrorInv, WriteKept, HeldAs, Goes
  <1>. QED
    BY <1>1, <1>2, GoesMoves DEF c, Room

\* A write that was abandoned reloads what it patched.
LEMMA AbandonKept ==
    ASSUME MirrorInv, NEW w \in Writes, Room,
           miMirror' = Ended(ReloadPatched(Entered(miMirror, miPage.identity), w), w, "aborted"),
           UNCHANGED <<miPage, miServer>>
    PROVE  MirrorInv' /\ KeepsNewer
  <1>. DEFINE c == Entered(miMirror, miPage.identity)
              r == ReloadPatched(c, w)
  <1>1. /\ MirrorKept(c, miServer) /\ Moves(c, miMirror, w) /\ StaysBound(c) /\ HeldAs(c.writes[w], w)
        /\ FreeSlots(c) # {}
    BY AnswerHere
  <1>2. miMirror' = Ended(r, w, "aborted")
    OBVIOUS
  <1>. HIDE DEF c
  <1>3. /\ MirrorKept(r, miServer) /\ Goes(r, c) /\ r.scope = c.scope
        /\ c.entry # NoEntry => r.entry # NoEntry
    BY <1>1, ReloadPatchedKept
  <1>. HIDE DEF r
  <1>4. Moves(r, miMirror, w)
    BY <1>1, <1>3, GoesMoves, MovesOn
  <1>5. StaysBound(r) /\ HeldAs(r.writes[w], w)
    BY <1>1, <1>3 DEF StaysBound, HeldAs, Goes
  <1>6. "aborted" \in Outcomes /\ "aborted" \notin Running /\ "aborted" # "failed"
    BY EndsAre
  <1>. QED
    BY <1>2, <1>3, <1>4, <1>5, <1>6, WriteEnds

LEMMA WriteAnswersKept ==
    ASSUME MirrorInv, NEW w \in Writes, WriteAnswers(w)
    PROVE  MirrorInv' /\ KeepsNewer
  <1>. DEFINE c == Entered(miMirror, miPage.identity)
              v == Invalidated(c)
  <1>1. /\ Room /\ UNCHANGED <<miPage, miServer>>
        /\ \/ miMirror' = Ended(ReloadPatched(c, w), w, "aborted")
           \/ miMirror' = Ended(c, w, "done")
           \/ miMirror' = Ended(v, w, "done")
    BY DEF WriteAnswers, MiSteps
  <1>2. CASE miMirror' = Ended(ReloadPatched(c, w), w, "aborted")
    BY <1>1, <1>2, AbandonKept
  <1>3. /\ MirrorKept(c, miServer) /\ Moves(c, miMirror, w) /\ StaysBound(c) /\ HeldAs(c.writes[w], w)
        /\ FreeSlots(c) # {} /\ c.scope = miPage.identity /\ miPage \in PageRecord
    BY <1>1, AnswerHere DEF MirrorInv
  <1>4. "done" \in Outcomes /\ "done" \notin Running /\ "done" # "failed"
    BY EndsAre
  <1>. HIDE DEF c
  <1>5. CASE miMirror' = Ended(c, w, "done")
    BY <1>1, <1>3, <1>4, <1>5, WriteEnds
  <1>6. CASE miMirror' = Ended(v, w, "done")
    <2>1. /\ MirrorKept(v, miServer) /\ Goes(v, c)
          /\ c.scope = miPage.identity => v.scope = c.scope /\ (c.entry # NoEntry => v.entry # NoEntry)
      BY <1>3, InvalidatedKept
    <2>. HIDE DEF v
    <2>2. Moves(v, miMirror, w)
      BY <1>3, <2>1, GoesMoves, MovesOn
    <2>3. StaysBound(v) /\ HeldAs(v.writes[w], w)
      BY <1>3, <2>1 DEF StaysBound, HeldAs, Goes
    <2>. QED
      BY <1>1, <1>4, <1>6, <2>1, <2>2, <2>3, WriteEnds
  <1>. QED
    BY <1>1, <1>2, <1>5, <1>6

LEMMA WriteFailsKept ==
    ASSUME MirrorInv, NEW w \in Writes, WriteFails(w)
    PROVE  MirrorInv' /\ KeepsNewer
  <1>. DEFINE c == Entered(miMirror, miPage.identity)
              r == RolledBack(c, w)
              again == Ended(c, w, "sent")
  <1>1. /\ Room /\ UNCHANGED <<miPage, miServer>> /\ miMirror.writes[w].at \in Running
        /\ \/ miMirror' = Ended(ReloadPatched(c, w), w, "aborted")
           \/ miMirror' = again
           \/ miMirror' = Ended(r, w, "failed")
    BY DEF WriteFails, MiSteps, Ended
  <1>2. CASE miMirror' = Ended(ReloadPatched(c, w), w, "aborted")
    BY <1>1, <1>2, AbandonKept
  <1>3. /\ MirrorKept(c, miServer) /\ Moves(c, miMirror, w) /\ StaysBound(c) /\ HeldAs(c.writes[w], w)
        /\ Goes(c, miMirror) /\ c.entry \in {miMirror.entry, NoEntry}
    BY <1>1, AnswerHere
  <1>4. "failed" \in Outcomes /\ "failed" \notin Running /\ "sent" \in Outcomes /\ "sent" # "failed" /\ "sent" # "new"
    BY EndsAre DEF Outcomes
  <1>. HIDE DEF c
  <1>5. CASE miMirror' = again
    <2>1. /\ MirrorKept(again, miServer) /\ again.entry = c.entry /\ again.scope = c.scope
          /\ again.disposed = c.disposed /\ again.loads = c.loads
          /\ again.writes[w].at = "sent"
          /\ again.writes[w].scope = c.writes[w].scope /\ again.writes[w].sentAs = c.writes[w].sentAs
          /\ \A v \in Writes : v # w => again.writes[v] = c.writes[v]
      BY <1>3, <1>4, EndedKept
    <2>. HIDE DEF again
    <2>2. miMirror.writes[w].scope \in Scopes /\ miMirror.writes[w].sentAs = miMirror.writes[w].scope
      BY <1>1 DEF MirrorInv, WriteKept
    <2>3. WriteKept(again.writes[w], w, miServer)
      BY <1>3, <1>4, <2>1, <2>2 DEF WriteKept, HeldAs, Goes
    <2>4. Moves(again, miMirror, w) /\ StaysBound(again)
      BY <1>3, <2>1 DEF Moves, StaysBound
    <2>. QED
      BY <1>1, <1>4, <1>5, <2>1, <2>3, <2>4, Moved
  <1>6. CASE miMirror' = Ended(r, w, "failed")
    <2>1. /\ MirrorKept(r, miServer) /\ Goes(r, c) /\ r.scope = c.scope /\ (r.entry = NoEntry <=> c.entry = NoEntry)
          /\ c.entry # NoEntry =>
               r.entry.data = NoData \/ (c.entry.data # NoData /\ r.entry.data.seen = c.entry.data.seen)
               \/ r.entry.data = c.entry.data
      BY <1>3, RolledBackKept
    <2>. HIDE DEF r
    <2>2. Moves(r, miMirror, w)
      BY <1>3, <2>1, GoesMoves, MovesOn
    <2>3. StaysBound(r) /\ HeldAs(r.writes[w], w)
      BY <1>3, <2>1 DEF StaysBound, HeldAs, Goes
    <2>4. ~Older(Data, DataOf(r))
      <3>1. CASE c.entry = NoEntry
        BY <2>1, <3>1 DEF DataOf, Older
      <3>2. CASE c.entry # NoEntry
        <4>1. Data = c.entry.data /\ DataOf(r) = r.entry.data
          BY <1>3, <2>1, <3>2 DEF Data, DataOf
        <4>. QED
          BY <2>1, <3>2, <4>1 DEF Older
      <3>. QED
        BY <3>1, <3>2
    <2>. QED
      BY <1>1, <1>4, <1>6, <2>1, <2>2, <2>3, <2>4, WriteEnds
  <1>. QED
    BY <1>1, <1>2, <1>5, <1>6

-----------------------------------------------------------------------------
(* The theorems.                                                           *)

LEMMA MirrorInit == MiInit => MirrorInv
  <1>. SUFFICES ASSUME MiInit PROVE MirrorInv
    OBVIOUS
  <1>. DEFINE m == miMirror
  <1>1. /\ m = [scope |-> NoScope, epoch |-> 0, revisions |-> 0, attached |-> FALSE,
                disposed |-> FALSE, entry |-> NoEntry, loads |-> [i \in 1 .. LoadSlots |-> FreeLoad],
                writes |-> [w \in Writes |-> NewWrite]]
        /\ miServer = [s \in Scopes |-> {}]
    BY DEF MiInit
  <1>2. miPage \in PageRecord /\ miPage.reading = "none"
    <2>1. PICK s \in Scopes, sharing \in {"queue", "exclusive", "apart"} :
            miPage = [identity |-> s, reading |-> "none", sharing |-> sharing, closed |-> {}]
      BY DEF MiInit
    <2>. QED
      BY <2>1 DEF PageRecord
  <1>3. NewWrite \in WriteRecord /\ NewWrite.undo = NoUndo /\ NewWrite.at = "new"
    BY DEF NewWrite, WriteRecord
  <1>4. /\ m.entry = NoEntry /\ m.loads = [i \in 1 .. LoadSlots |-> FreeLoad]
        /\ m.writes = [w \in Writes |-> NewWrite]
    BY <1>1
  <1>5. m.loads \in [1 .. LoadSlots -> Load] /\ m.writes \in [Writes -> WriteRecord]
        /\ (\A i \in 1 .. LoadSlots : m.loads[i] = FreeLoad) /\ \A w \in Writes : m.writes[w] = NewWrite
    BY <1>3, <1>4, FreeLoadIs
  <1>6. m \in MirrorRecord
    <2>. DEFINE ls == [i \in 1 .. LoadSlots |-> FreeLoad]
                ws == [w \in Writes |-> NewWrite]
    <2>1. ls \in [1 .. LoadSlots -> Load] /\ ws \in [Writes -> WriteRecord]
      BY <1>4, <1>5
    <2>2. m = [scope |-> NoScope, epoch |-> 0, revisions |-> 0, attached |-> FALSE,
               disposed |-> FALSE, entry |-> NoEntry, loads |-> ls, writes |-> ws]
      BY <1>1
    <2>. HIDE DEF ls, ws, m
    <2>. QED
      BY <2>1, <2>2 DEF MirrorRecord
  <1>. HIDE DEF m
  <1>7. Undos(m) = {} /\ UnderWay(m) = {}
    BY <1>3, <1>5, FreeLoadIs DEF Undos, UnderWay
  <1>8. MirrorKept(m, miServer)
    BY <1>4, <1>6, <1>7, NothingKept
  <1>9. \A w \in Writes : WriteKept(m.writes[w], w, miServer)
    BY <1>1, <1>3, <1>5 DEF WriteKept, Running
  <1>10. \A i \in 1 .. LoadSlots : LoadScoped(m.loads[i])
    BY <1>5, FreeLoadIs DEF LoadScoped
  <1>11. miServer \in [Scopes -> SUBSET Writes]
    BY <1>1
  <1>. QED
    BY <1>2, <1>8, <1>9, <1>10, <1>11 DEF MirrorInv, ReadingFollows, m

LEMMA MirrorNext ==
    ASSUME MirrorInv, MiNext
    PROVE  MirrorInv' /\ KeepsNewer
  <1>1. ASSUME NEW s \in Scopes, SetScope(s) PROVE MirrorInv' /\ KeepsNewer
    BY <1>1, SetScopeKept
  <1>2. ASSUME NEW s \in Scopes, NEW seen \in {{}, miServer[s]}, Restore(s, seen)
        PROVE  MirrorInv' /\ KeepsNewer
    <2>1. seen \in SUBSET Writes
      BY <1>2 DEF MirrorInv
    <2>. QED
      BY <1>2, <2>1, RestoreKept
  <1>3. ASSUME NEW r \in {"none", "idle", "bound"}, SetReading(r) PROVE MirrorInv' /\ KeepsNewer
    BY <1>3, SetReadingKept
  <1>4. ASSUME NEW seen \in {{}, miServer[miPage.identity]}, Seed(seen) PROVE MirrorInv' /\ KeepsNewer
    <2>1. seen \in SUBSET Writes
      BY <1>4 DEF MirrorInv, PageRecord
    <2>. QED
      BY <1>4, <2>1, SeedKept
  <1>5. CASE Attach \/ Detach \/ MirrorDispose
    BY <1>5, AttachKept, DetachKept, MirrorDisposeKept
  <1>6. CASE Refetch \/ MiPoll \/ RefetchObserved
    BY <1>6, ReloadsKept
  <1>7. CASE Invalidate \/ Prefetch \/ Peek \/ GrowsStale \/ Collect \/ LoadMore
    BY <1>7, InvalidateKept, PrefetchKept, PeekKept, GrowsStaleKept, CollectKept, LoadMoreKept
  <1>8. ASSUME NEW i \in 1 .. LoadSlots,
               LoadServed(i) \/ LoadRetries(i) \/ LoadLands(i) \/ LoadFails(i)
        PROVE  MirrorInv' /\ KeepsNewer
    BY <1>8, LoadServedKept, LoadRetriesKept, LoadLandsKept, LoadFailsKept
  <1>9. ASSUME NEW w \in Writes,
               Run(w) \/ Execute(w) \/ ServerApplies(w) \/ WriteAnswers(w) \/ WriteFails(w) \/ DisposeWriter(w)
        PROVE  MirrorInv' /\ KeepsNewer
    BY <1>9, RunKept, ExecuteKept, ServerAppliesKept, WriteAnswersKept, WriteFailsKept, DisposeWriterKept
  <1>. QED
    BY <1>1, <1>2, <1>3, <1>4, <1>5, <1>6, <1>7, <1>8, <1>9 DEF MiNext

LEMMA MirrorStutters ==
    ASSUME MirrorInv, UNCHANGED miVars
    PROVE  MirrorInv' /\ KeepsNewer
  <1>1. UNCHANGED <<miPage, miMirror, miServer>>
    BY DEF miVars
  <1>2. MirrorInv'
    BY <1>1 DEF MirrorInv, ReadingFollows
  <1>3. KeepsNewer
    BY <1>1, Calm
  <1>. QED
    BY <1>2, <1>3

\* The inductive invariant of the mirror, for any scopes, writes and loads: each revision the entry
\* has, or may come back to, is of one value of the entry's scope; a load under way is the entry's,
\* of its scope, and no patch is younger than it; and a write is sent as it was run.
THEOREM MirrorInvariance == MiSpec => []MirrorInv
  <1>1. MirrorInv /\ [MiNext]_miVars => MirrorInv'
    BY MirrorNext, MirrorStutters
  <1>. QED
    BY <1>1, MirrorInit, PTL DEF MiSpec

\* What createMirror closes over has the type it is declared with in mirror.ts.
THEOREM MirrorTypeCorrect == MiSpec => []MiTypeOK
  <1>1. MirrorInv => MiTypeOK
    <2>1. SUFFICES ASSUME MirrorInv PROVE MiTypeOK
      OBVIOUS
    <2>2. miMirror \in MirrorRecord /\ miPage \in PageRecord /\ miServer \in [Scopes -> SUBSET Writes]
      BY <2>1 DEF MirrorInv, MirrorKept
    <2>. QED
      BY <2>2, RecordIs DEF MiTypeOK, PageRecord
  <1>. QED
    BY <1>1, MirrorInvariance, PTL

\* A page never holds under one scope what belongs to another, nor shows it to a reading, and no
\* write reaches the server for a scope other than the one it was run in, whatever is in flight when
\* the account changes (enterScope, commit and write of mirror.ts).
THEOREM MirrorShowsItsScope == MiSpec => []MirrorScope
  <1>1. MirrorInv => MirrorScope
    <2>1. SUFFICES ASSUME MirrorInv PROVE MirrorScope
      OBVIOUS
    <2>2. VersionsKept(miMirror, miServer) /\ EntryKept(miMirror)
      BY <2>1 DEF MirrorInv, MirrorKept
    <2>3. ASSUME miMirror.entry # NoEntry, NEW d \in {miMirror.entry.data, miMirror.entry.restored} \ {NoData}
          PROVE  d.scope = miMirror.scope
      <3>. DEFINE x == <<miMirror.entry.revision, miMirror.entry.data>>
      <3>1. x \in Versions(miMirror) /\ x[2] = miMirror.entry.data
        BY <2>3 DEF Versions
      <3>. HIDE DEF x
      <3>2. OfScope(miMirror.entry.data, miMirror.scope, miServer)
        BY <2>2, <3>1 DEF VersionsKept
      <3>. QED
        BY <2>2, <2>3, <3>2 DEF OfScope, EntryKept
    <2>4. Observed => miMirror.scope = miPage.identity
      BY <2>1 DEF MirrorInv, ReadingFollows, Observed
    <2>5. \A s \in Scopes : \A w \in miServer[s] : miMirror.writes[w].scope = s
      BY <2>1 DEF MirrorInv, WriteKept
    <2>. QED
      BY <2>3, <2>4, <2>5 DEF MirrorScope
  <1>. QED
    BY <1>1, MirrorInvariance, PTL

\* An answer never lands on a patch made after it was asked for, nor on a newer answer, nor a page
\* on newer pages, and a write that fails never takes the entry back behind an answer (the revision
\* that rollback and loadMore compare in mirror.ts).
THEOREM MirrorNeverGoesBack == MiSpec => MirrorKeepsNewer
  <1>1. MirrorInv /\ [MiNext]_miVars => [KeepsNewer]_miVars
    BY MirrorNext
  <1>. QED
    BY <1>1, MirrorInvariance, PTL DEF MiSpec, MirrorKeepsNewer, KeepsNewer

-----------------------------------------------------------------------------
(* Signals.                                                                *)

-----------------------------------------------------------------------------
(* What every state keeps.                                                 *)

RunOf(stack, i, n) == i \in DOMAIN stack /\ stack[i].call = "run" /\ stack[i].node = n

\* Under a flush there are only runs: it is called when none is under way and no batch is open.
FlushOverRuns(stack) ==
    \A i, j \in DOMAIN stack : stack[i].call = "flush" /\ j < i => stack[j].call = "run"

\* What a run has read, it is subscribed to, until one of these changes; then it is queued.
ViewKept(view, n, node, pending) == IF view.stale THEN n \in pending ELSE view.read \subseteq node.deps

\* Of an effect in the graph: the view of its last run, and of the run under way unless there are two.
\* A flush that found it running has not counted a run of it.
LiveKept(n, node, pending, stack) ==
    /\ node.sure => ViewKept(node.view, n, node, pending)
    /\ ~node.nested =>
        /\ \A i, j \in DOMAIN stack : RunOf(stack, i, n) /\ RunOf(stack, j, n) => i = j
        /\ \A i \in DOMAIN stack : RunOf(stack, i, n) => ViewKept(stack[i].view, n, node, pending)
        /\ \A i, j \in DOMAIN stack : RunOf(stack, i, n) /\ i < j /\ stack[j].call = "flush" => node.runs = 0

NodeKept(n, node, pending, stack) ==
    /\ node.state = "new" => node.deps = {} /\ n \notin pending /\ \A i \in DOMAIN stack : ~RunOf(stack, i, n)
    /\ node.state = "live" => LiveKept(n, node, pending, stack)

GraphKept(nodes, pending, stack) ==
    /\ nodes \in [Nodes -> Node] /\ pending \subseteq Nodes /\ stack \in Seq(Frame)
    /\ FlushOverRuns(stack)
    /\ \A n \in Nodes : NodeKept(n, nodes[n], pending, stack)

\* Runs are counted by the flush under way.
CountsKept(nodes, stack) ==
    (\A i \in DOMAIN stack : stack[i].call # "flush") => \A n \in Nodes : nodes[n].runs = 0

\* What is queued, a flush under way or after the batch will take.
QueueDriven(pending, stack) == pending # {} => \E i \in DOMAIN stack : stack[i].call \in {"flush", "batch"}

SgKept(nodes, pending, stack) ==
    GraphKept(nodes, pending, stack) /\ CountsKept(nodes, stack) /\ QueueDriven(pending, stack)

SgInv == SgKept(sgNode, sgPending, sgStack)
-----------------------------------------------------------------------------
(* The call stack.                                                         *)

LEMMA FrameKinds ==
    ASSUME NEW f \in Frame
    PROVE  /\ f.call \in {"run", "batch", "flush"}
           /\ f.call = "run" => f \in RunFrame
  BY DEF Frame, RunFrame

LEMMA StackShape ==
    ASSUME NEW stack \in Seq(Frame)
    PROVE  /\ Len(stack) \in Nat /\ DOMAIN stack = 1 .. Len(stack)
           /\ \A i \in DOMAIN stack : stack[i] \in Frame
           /\ stack # <<>> => Len(stack) \in DOMAIN stack
  BY EmptySeq, LenProperties, ElementOfSeq

\* A stack with another frame on top of it.
OneMore(stack, taller, frame) ==
    /\ Len(taller) = Len(stack) + 1
    /\ DOMAIN taller = 1 .. Len(stack) + 1
    /\ \A i \in DOMAIN stack : taller[i] = stack[i]
    /\ taller[Len(stack) + 1] = frame

LEMMA Pushed ==
    ASSUME NEW stack \in Seq(Frame), NEW frame \in Frame
    PROVE  Append(stack, frame) \in Seq(Frame) /\ OneMore(stack, Append(stack, frame), frame)
<1>1. Append(stack, frame) \in Seq(Frame) /\ Len(Append(stack, frame)) = Len(stack) + 1
      /\ (\A i \in 1 .. Len(stack) : Append(stack, frame)[i] = stack[i])
      /\ Append(stack, frame)[Len(stack) + 1] = frame
  BY AppendProperties
<1>2. DOMAIN stack = 1 .. Len(stack) /\ DOMAIN Append(stack, frame) = 1 .. Len(stack) + 1
  BY <1>1, StackShape
<1> QED
  BY <1>1, <1>2 DEF OneMore

LEMMA Popped ==
    ASSUME NEW stack \in Seq(Frame), stack # <<>>
    PROVE  Below(stack) \in Seq(Frame) /\ OneMore(Below(stack), stack, stack[Len(stack)])
<1>1. Len(stack) \in Nat \ {0} /\ DOMAIN stack = 1 .. Len(stack) /\ \A i \in 1 .. Len(stack) : stack[i] \in Frame
  BY EmptySeq, StackShape
<1> DEFINE n == Len(stack) - 1
<1>2. n \in Nat /\ n < Len(stack)
  BY <1>1
<1>3. \A i \in 1 .. n : stack[i] \in Frame
  BY <1>1, <1>2
<1>4. /\ SubSeq(stack, 1, n) \in Seq(Frame)
      /\ Len(SubSeq(stack, 1, n)) = IF 1 <= n THEN n - 1 + 1 ELSE 0
      /\ \A i \in 1 .. n - 1 + 1 : SubSeq(stack, 1, n)[i] = stack[1 + i - 1]
  <2> HIDE DEF n
  <2> QED
    BY <1>2, <1>3, SubSeqProperties, Z3
<1>5. Len(SubSeq(stack, 1, n)) = n /\ \A i \in 1 .. n : SubSeq(stack, 1, n)[i] = stack[i]
  <2> HIDE DEF n
  <2> QED
    BY <1>2, <1>4
<1>6. DOMAIN SubSeq(stack, 1, n) = 1 .. n
  BY <1>4, <1>5, StackShape
<1> QED
  BY <1>1, <1>4, <1>5, <1>6 DEF Below, OneMore

LEMMA Restacked ==
    ASSUME NEW stack \in Seq(Frame), NEW s \in Readable
    PROVE  /\ StackAfter(stack, s) \in Seq(Frame)
           /\ DOMAIN StackAfter(stack, s) = DOMAIN stack
           /\ Len(StackAfter(stack, s)) = Len(stack)
           /\ \A i \in DOMAIN stack :
                /\ StackAfter(stack, s)[i].call = stack[i].call
                /\ stack[i].call = "run" =>
                    /\ StackAfter(stack, s)[i].node = stack[i].node
                    /\ StackAfter(stack, s)[i].view = Changed(stack[i].view, s)
<1>1. Len(stack) \in Nat /\ DOMAIN stack = 1 .. Len(stack)
      /\ \A i \in DOMAIN stack : stack[i] \in Frame
  BY StackShape
<1>2. ASSUME NEW f \in RunFrame
      PROVE  LET g == [f EXCEPT !.view = Changed(@, s)] IN
             g \in RunFrame /\ g.call = f.call /\ g.node = f.node /\ g.view = Changed(f.view, s)
  BY DEF RunFrame, Changed, View
<1>3. ASSUME NEW i \in DOMAIN stack
      PROVE  LET g == IF stack[i].call = "run" THEN [stack[i] EXCEPT !.view = Changed(@, s)] ELSE stack[i] IN
             /\ g \in Frame /\ g.call = stack[i].call
             /\ stack[i].call = "run" => g.node = stack[i].node /\ g.view = Changed(stack[i].view, s)
  <2>1. CASE stack[i].call = "run"
    <3>1. stack[i] \in RunFrame
      BY <1>1, <2>1, FrameKinds
    <3> QED
      BY <1>2, <2>1, <3>1 DEF Frame
  <2>2. CASE stack[i].call # "run"
    BY <1>1, <2>2
  <2> QED
    BY <2>1, <2>2
<1>4. StackAfter(stack, s) \in [1 .. Len(stack) -> Frame]
  BY <1>1, <1>3 DEF StackAfter
<1>5. StackAfter(stack, s) \in Seq(Frame)
  BY <1>1, <1>4, SeqDef
<1>6. DOMAIN StackAfter(stack, s) = 1 .. Len(stack)
  BY <1>4
<1>7. Len(StackAfter(stack, s)) = Len(stack)
  BY <1>1, <1>5, <1>6, StackShape
<1> QED
  BY <1>1, <1>3, <1>5, <1>6, <1>7 DEF StackAfter

-----------------------------------------------------------------------------
(* What an effect keeps while the stack changes over it.                   *)

\* The runs of n there are in the new stack were in the old one, with the same views, and so
\* were the flushes over them, unless none has counted a run of n.
RunsWithin(n, runs, stack, next) ==
    /\ \A i \in DOMAIN next : RunOf(next, i, n) => RunOf(stack, i, n) /\ next[i].view = stack[i].view
    /\ \A i, j \in DOMAIN next :
        RunOf(next, i, n) /\ i < j /\ next[j].call = "flush" =>
            runs = 0 \/ (j \in DOMAIN stack /\ stack[j].call = "flush")

LEMMA OtherKept ==
    ASSUME NEW n, NEW node, NEW pending, NEW queued, NEW stack, NEW next,
           NodeKept(n, node, pending, stack), RunsWithin(n, node.runs, stack, next),
           n \in pending <=> n \in queued
    PROVE  NodeKept(n, node, queued, next)
<1>1. \A view : ViewKept(view, n, node, pending) <=> ViewKept(view, n, node, queued)
  BY DEF ViewKept
<1>2. ASSUME node.state = "live"
      PROVE  LiveKept(n, node, queued, next)
  <2>1. LiveKept(n, node, pending, stack)
    BY <1>2 DEF NodeKept
  <2>2. node.sure => ViewKept(node.view, n, node, queued)
    BY <1>1, <2>1 DEF LiveKept
  <2>3. ASSUME ~node.nested
        PROVE  /\ \A i, j \in DOMAIN next : RunOf(next, i, n) /\ RunOf(next, j, n) => i = j
               /\ \A i \in DOMAIN next : RunOf(next, i, n) => ViewKept(next[i].view, n, node, queued)
               /\ \A i, j \in DOMAIN next :
                    RunOf(next, i, n) /\ i < j /\ next[j].call = "flush" => node.runs = 0
    <3>1. \A i \in DOMAIN next : RunOf(next, i, n) =>
            i \in DOMAIN stack /\ RunOf(stack, i, n) /\ next[i].view = stack[i].view
      BY DEF RunsWithin, RunOf
    <3>2. \A i, j \in DOMAIN stack : RunOf(stack, i, n) /\ RunOf(stack, j, n) => i = j
      BY <2>1, <2>3 DEF LiveKept
    <3>3. \A i \in DOMAIN stack : RunOf(stack, i, n) => ViewKept(stack[i].view, n, node, pending)
      BY <2>1, <2>3 DEF LiveKept
    <3>4. \A i, j \in DOMAIN stack :
            RunOf(stack, i, n) /\ i < j /\ stack[j].call = "flush" => node.runs = 0
      BY <2>1, <2>3 DEF LiveKept
    <3>5. \A i \in DOMAIN next : RunOf(next, i, n) => ViewKept(next[i].view, n, node, queued)
      BY <1>1, <3>1, <3>3
    <3>6. \A i, j \in DOMAIN next :
            RunOf(next, i, n) /\ i < j /\ next[j].call = "flush" => node.runs = 0
      BY <3>1, <3>4 DEF RunsWithin
    <3> QED
      BY <3>1, <3>2, <3>5, <3>6
  <2> QED
    BY <2>2, <2>3 DEF LiveKept
<1>3. ASSUME node.state = "new"
      PROVE  node.deps = {} /\ n \notin queued /\ \A i \in DOMAIN next : ~RunOf(next, i, n)
  <2>1. node.deps = {} /\ n \notin pending /\ \A i \in DOMAIN stack : ~RunOf(stack, i, n)
    BY <1>3 DEF NodeKept
  <2> QED
    BY <2>1 DEF RunsWithin, RunOf
<1> QED
  BY <1>2, <1>3 DEF NodeKept

LEMMA BelowWithin ==
    ASSUME NEW stack \in Seq(Frame), stack # <<>>
    PROVE  /\ \A n, runs : RunsWithin(n, runs, stack, Below(stack))
           /\ FlushOverRuns(stack) => FlushOverRuns(Below(stack))
<1>1. Below(stack) \in Seq(Frame) /\ OneMore(Below(stack), stack, stack[Len(stack)])
  BY Popped
<1>2. DOMAIN Below(stack) = 1 .. Len(Below(stack)) /\ Len(Below(stack)) \in Nat
  BY <1>1, StackShape
<1>3. \A i \in DOMAIN Below(stack) : i \in DOMAIN stack /\ Below(stack)[i] = stack[i]
  BY <1>1, <1>2 DEF OneMore
<1>4. \A n, runs : RunsWithin(n, runs, stack, Below(stack))
  BY <1>3 DEF RunsWithin, RunOf
<1>5. FlushOverRuns(stack) => FlushOverRuns(Below(stack))
  BY <1>3 DEF FlushOverRuns
<1> QED
  BY <1>4, <1>5

\* A run or a batch goes over the stack: the runs of other effects stay as they are.
LEMMA PushWithin ==
    ASSUME NEW stack \in Seq(Frame), NEW frame \in Frame, frame.call # "flush"
    PROVE  /\ \A n, runs : (frame.call = "run" => frame.node # n) =>
                RunsWithin(n, runs, stack, Append(stack, frame))
           /\ FlushOverRuns(stack) => FlushOverRuns(Append(stack, frame))
<1> DEFINE next == Append(stack, frame)
<1>1. OneMore(stack, next, frame)
  BY Pushed
<1>2. DOMAIN stack = 1 .. Len(stack) /\ Len(stack) \in Nat
  BY StackShape
<1>3. \A i \in DOMAIN next : i = Len(stack) + 1 \/ i \in DOMAIN stack
  BY <1>1, <1>2 DEF OneMore
<1>4. next[Len(stack) + 1] = frame /\ (\A i \in DOMAIN stack : next[i] = stack[i])
  BY <1>1 DEF OneMore
<1>5. \A i, j \in DOMAIN next : j < i /\ i \in DOMAIN stack => j \in DOMAIN stack
  BY <1>1, <1>2 DEF OneMore
<1> HIDE DEF next
<1>6. ASSUME NEW n, NEW runs, frame.call = "run" => frame.node # n
      PROVE  RunsWithin(n, runs, stack, next)
  <2>1. \A i \in DOMAIN next : RunOf(next, i, n) => RunOf(stack, i, n) /\ next[i].view = stack[i].view
    BY <1>3, <1>4, <1>6 DEF RunOf
  <2>2. \A j \in DOMAIN next : next[j].call = "flush" => j \in DOMAIN stack /\ stack[j].call = "flush"
    BY <1>3, <1>4
  <2> QED
    BY <2>1, <2>2 DEF RunsWithin
<1>7. ASSUME FlushOverRuns(stack)
      PROVE  FlushOverRuns(next)
  <2>1. \A j \in DOMAIN next : next[j].call = "flush" => j \in DOMAIN stack /\ stack[j].call = "flush"
    BY <1>3, <1>4
  <2> QED
    BY <1>4, <1>5, <1>7, <2>1 DEF FlushOverRuns
<1> QED
  BY <1>6, <1>7 DEF next

\* A flush goes over runs only.
LEMMA FlushPushed ==
    ASSUME NEW stack \in Seq(Frame),
           \A i \in DOMAIN stack : stack[i].call = "run"
    PROVE  /\ FlushFrame \in Frame
           /\ \A n : RunsWithin(n, 0, stack, Append(stack, FlushFrame))
           /\ FlushOverRuns(Append(stack, FlushFrame))
<1> DEFINE next == Append(stack, FlushFrame)
<1>1. FlushFrame \in Frame /\ FlushFrame.call = "flush"
  BY DEF FlushFrame, Frame
<1>2. OneMore(stack, next, FlushFrame)
  BY <1>1, Pushed
<1>3. DOMAIN stack = 1 .. Len(stack) /\ Len(stack) \in Nat
  BY StackShape
<1>4. \A i \in DOMAIN next : i = Len(stack) + 1 \/ i \in DOMAIN stack
  BY <1>2, <1>3 DEF OneMore
<1>5. next[Len(stack) + 1] = FlushFrame /\ (\A i \in DOMAIN stack : next[i] = stack[i])
  BY <1>2 DEF OneMore
<1>6. \A i \in DOMAIN stack : i < Len(stack) + 1
  BY <1>3
<1>7. \A i, j \in DOMAIN next : j < i => j \in DOMAIN stack
  BY <1>2, <1>3 DEF OneMore
<1> HIDE DEF next
<1>8. \A n : RunsWithin(n, 0, stack, next)
  <2> TAKE n
  <2>1. \A i \in DOMAIN next : RunOf(next, i, n) => RunOf(stack, i, n) /\ next[i].view = stack[i].view
    BY <1>1, <1>4, <1>5 DEF RunOf
  <2> QED
    BY <2>1 DEF RunsWithin
<1>9. FlushOverRuns(next)
  BY <1>5, <1>7 DEF FlushOverRuns
<1> QED
  BY <1>1, <1>8, <1>9 DEF next

-----------------------------------------------------------------------------
(* A signal changes, and a flush is called.                                *)

LEMMA QueuesKept ==
    ASSUME NEW nodes, NEW pending, NEW stack,
           GraphKept(nodes, pending, stack), CountsKept(nodes, stack)
    PROVE  SgKept(nodes, pending, Queues(pending, stack))
<1> DEFINE busy == \E i \in DOMAIN stack : stack[i].call \in {"flush", "batch"}
<1>1. stack \in Seq(Frame)
  BY DEF GraphKept
<1>2. CASE busy \/ pending = {}
  <2>1. Queues(pending, stack) = stack
    BY <1>2 DEF Queues
  <2> QED
    BY <1>2, <2>1 DEF SgKept, QueueDriven
<1>3. CASE ~busy /\ pending # {}
  <2> DEFINE next == Append(stack, FlushFrame)
  <2>1. Queues(pending, stack) = next
    BY <1>3 DEF Queues
  <2>2. \A i \in DOMAIN stack : stack[i].call = "run"
    BY <1>1, <1>3, StackShape, FrameKinds
  <2>3. FlushFrame \in Frame /\ (\A n : RunsWithin(n, 0, stack, next)) /\ FlushOverRuns(next)
    BY <1>1, <2>2, FlushPushed
  <2>4. next \in Seq(Frame) /\ OneMore(stack, next, FlushFrame)
    BY <1>1, <2>3, Pushed
  <2>5. \A n \in Nodes : nodes[n].runs = 0
    BY <2>2 DEF CountsKept
  <2>6. ASSUME NEW n \in Nodes
        PROVE  NodeKept(n, nodes[n], pending, next)
    <3>1. NodeKept(n, nodes[n], pending, stack)
      BY DEF GraphKept
    <3>2. RunsWithin(n, nodes[n].runs, stack, next)
      BY <2>3, <2>5
    <3> HIDE DEF next
    <3> QED
      BY <3>1, <3>2, OtherKept
  <2>7. GraphKept(nodes, pending, next)
    BY <2>3, <2>4, <2>6 DEF GraphKept
  <2>8. Len(stack) + 1 \in DOMAIN next /\ next[Len(stack) + 1].call = "flush"
    BY <1>1, <2>4, StackShape DEF OneMore, FlushFrame
  <2>9. CountsKept(nodes, next) /\ QueueDriven(pending, next)
    BY <2>5, <2>8 DEF CountsKept, QueueDriven
  <2> QED
    BY <2>1, <2>7, <2>9 DEF SgKept
<1> QED
  BY <1>2, <1>3

\* Who has read the signal sees an old value, and is subscribed to it: it is queued.
LEMMA ViewAfter ==
    ASSUME NEW view, NEW n, NEW node, NEW after, NEW pending, NEW queued, NEW s,
           ViewKept(view, n, node, pending), pending \subseteq queued,
           after.deps = node.deps, s \in node.deps => n \in queued
    PROVE  ViewKept(Changed(view, s), n, after, queued)
<1>1. CASE s \in view.read
  <2>1. n \in queued
    BY <1>1 DEF ViewKept
  <2> QED
    BY <1>1, <2>1 DEF ViewKept, Changed
<1>2. CASE s \notin view.read
  BY <1>2 DEF ViewKept, Changed
<1> QED
  BY <1>1, <1>2

LEMMA NodesAfterType ==
    ASSUME NEW nodes \in [Nodes -> Node], NEW s \in Readable
    PROVE  /\ NodesAfter(nodes, s) \in [Nodes -> Node]
           /\ \A n \in Nodes :
                LET node == nodes[n]
                    after == NodesAfter(nodes, s)[n] IN
                /\ after.state = node.state /\ after.deps = node.deps /\ after.runs = node.runs
                /\ after.sure = node.sure /\ after.nested = node.nested /\ after.view = Changed(node.view, s)
<1>1. ASSUME NEW node \in Node
      PROVE  LET after == [node EXCEPT !.view = Changed(@, s)] IN
             /\ after \in Node
             /\ after.state = node.state /\ after.deps = node.deps /\ after.runs = node.runs
             /\ after.sure = node.sure /\ after.nested = node.nested /\ after.view = Changed(node.view, s)
  BY DEF Node, Changed, View
<1> QED
  BY <1>1 DEF NodesAfter

LEMMA ChangedKept ==
    ASSUME NEW nodes, NEW pending, NEW stack, NEW s \in Readable, GraphKept(nodes, pending, stack)
    PROVE  /\ GraphKept(NodesAfter(nodes, s), pending \union Subscribers(nodes, s), StackAfter(stack, s))
           /\ CountsKept(nodes, stack) => CountsKept(NodesAfter(nodes, s), StackAfter(stack, s))
<1> DEFINE after == NodesAfter(nodes, s)
           queued == pending \union Subscribers(nodes, s)
           next == StackAfter(stack, s)
<1>1. nodes \in [Nodes -> Node] /\ pending \subseteq Nodes /\ stack \in Seq(Frame) /\ FlushOverRuns(stack)
  BY DEF GraphKept
<1>2. /\ after \in [Nodes -> Node]
      /\ \A n \in Nodes :
            /\ after[n].state = nodes[n].state /\ after[n].deps = nodes[n].deps
            /\ after[n].runs = nodes[n].runs /\ after[n].sure = nodes[n].sure
            /\ after[n].nested = nodes[n].nested /\ after[n].view = Changed(nodes[n].view, s)
  BY <1>1, NodesAfterType
<1>3. /\ next \in Seq(Frame) /\ DOMAIN next = DOMAIN stack
      /\ \A i \in DOMAIN stack :
            /\ next[i].call = stack[i].call
            /\ stack[i].call = "run" =>
                next[i].node = stack[i].node /\ next[i].view = Changed(stack[i].view, s)
  BY <1>1, Restacked
<1>4. queued \subseteq Nodes /\ pending \subseteq queued
      /\ \A n \in Nodes : s \in nodes[n].deps => n \in queued
  BY <1>1 DEF Subscribers
<1>5. \A n \in Nodes : n \in queued => n \in pending \/ s \in nodes[n].deps
  BY DEF Subscribers
<1> HIDE DEF after, queued, next
<1>6. \A i, n : RunOf(next, i, n) <=> RunOf(stack, i, n)
  BY <1>3 DEF RunOf
<1>7. FlushOverRuns(next)
  BY <1>1, <1>3 DEF FlushOverRuns
<1>8. ASSUME NEW n \in Nodes
      PROVE  NodeKept(n, after[n], queued, next)
  <2>1. NodeKept(n, nodes[n], pending, stack)
    BY DEF GraphKept
  <2>2. ASSUME NEW view, ViewKept(view, n, nodes[n], pending)
        PROVE  ViewKept(Changed(view, s), n, after[n], queued)
    BY <1>2, <1>4, <2>2, ViewAfter
  <2>3. ASSUME after[n].state = "live"
        PROVE  LiveKept(n, after[n], queued, next)
    <3>1. LiveKept(n, nodes[n], pending, stack)
      BY <1>2, <2>1, <2>3 DEF NodeKept
    <3>2. after[n].sure => ViewKept(after[n].view, n, after[n], queued)
      BY <1>2, <2>2, <3>1 DEF LiveKept
    <3>3. ASSUME ~after[n].nested
          PROVE  /\ \A i, j \in DOMAIN next : RunOf(next, i, n) /\ RunOf(next, j, n) => i = j
                 /\ \A i \in DOMAIN next : RunOf(next, i, n) => ViewKept(next[i].view, n, after[n], queued)
                 /\ \A i, j \in DOMAIN next :
                      RunOf(next, i, n) /\ i < j /\ next[j].call = "flush" => after[n].runs = 0
      <4>1. ~nodes[n].nested
        BY <1>2, <3>3
      <4>2. \A i, j \in DOMAIN next : RunOf(next, i, n) /\ RunOf(next, j, n) => i = j
        BY <1>3, <1>6, <3>1, <4>1 DEF LiveKept
      <4>3. ASSUME NEW i \in DOMAIN next, RunOf(next, i, n)
            PROVE  ViewKept(next[i].view, n, after[n], queued)
        <5>1. RunOf(stack, i, n) /\ i \in DOMAIN stack
          BY <1>3, <1>6, <4>3
        <5>2. ViewKept(stack[i].view, n, nodes[n], pending)
          BY <3>1, <4>1, <5>1 DEF LiveKept
        <5>3. next[i].view = Changed(stack[i].view, s)
          BY <1>3, <5>1 DEF RunOf
        <5> QED
          BY <2>2, <5>2, <5>3
      <4>4. \A i, j \in DOMAIN next :
              RunOf(next, i, n) /\ i < j /\ next[j].call = "flush" => after[n].runs = 0
        BY <1>2, <1>3, <1>6, <3>1, <4>1 DEF LiveKept
      <4> QED
        BY <4>2, <4>3, <4>4
    <3> QED
      BY <3>2, <3>3 DEF LiveKept
  <2>4. ASSUME after[n].state = "new"
        PROVE  after[n].deps = {} /\ n \notin queued /\ \A i \in DOMAIN next : ~RunOf(next, i, n)
    <3>1. nodes[n].deps = {} /\ n \notin pending /\ \A i \in DOMAIN stack : ~RunOf(stack, i, n)
      BY <1>2, <2>1, <2>4 DEF NodeKept
    <3> QED
      BY <1>2, <1>3, <1>5, <1>6, <3>1
  <2> QED
    BY <2>3, <2>4 DEF NodeKept
<1>9. GraphKept(after, queued, next)
  BY <1>2, <1>3, <1>4, <1>7, <1>8 DEF GraphKept
<1>10. CountsKept(nodes, stack) => CountsKept(after, next)
  BY <1>2, <1>3 DEF CountsKept
<1> QED
  BY <1>9, <1>10 DEF after, queued, next

LEMMA SetsKept ==
    ASSUME NEW s \in Readable, NEW nodes, NEW stack,
           GraphKept(nodes, sgPending, stack), CountsKept(nodes, stack), Sets(s, nodes, stack)
    PROVE  SgInv'
<1>1. GraphKept(sgNode', sgPending', StackAfter(stack, s)) /\ CountsKept(sgNode', StackAfter(stack, s))
  BY ChangedKept DEF Sets
<1>2. SgKept(sgNode', sgPending', Queues(sgPending', StackAfter(stack, s)))
  BY <1>1, QueuesKept
<1> QED
  BY <1>2 DEF Sets, SgInv

-----------------------------------------------------------------------------
(* The steps.                                                              *)

LEMMA SgInvParts ==
    ASSUME SgInv
    PROVE  /\ sgNode \in [Nodes -> Node] /\ sgPending \subseteq Nodes /\ sgStack \in Seq(Frame)
           /\ FlushOverRuns(sgStack)
           /\ \A n \in Nodes : NodeKept(n, sgNode[n], sgPending, sgStack)
           /\ CountsKept(sgNode, sgStack) /\ QueueDriven(sgPending, sgStack)
  BY DEF SgInv, SgKept, GraphKept

\* The frame on top is in the stack.
LEMMA TopFrame ==
    ASSUME SgInv, NEW call, In(call)
    PROVE  /\ sgStack # <<>> /\ Top \in Frame /\ Top.call = call
           /\ Len(sgStack) \in DOMAIN sgStack /\ Top = sgStack[Len(sgStack)]
           /\ call = "run" => Top \in RunFrame /\ Top.node \in Nodes
  BY SgInvParts, StackShape, FrameKinds DEF In, Top, RunFrame

LEMMA ReadStep ==
    ASSUME SgInv, NEW s \in Readable, SgRead(s)
    PROVE  SgInv' /\ Len(sgStack') = Len(sgStack)
<1>1. /\ sgNode \in [Nodes -> Node] /\ sgPending \subseteq Nodes /\ sgStack \in Seq(Frame)
      /\ FlushOverRuns(sgStack)
      /\ \A n \in Nodes : NodeKept(n, sgNode[n], sgPending, sgStack)
      /\ CountsKept(sgNode, sgStack) /\ QueueDriven(sgPending, sgStack)
  BY SgInvParts
<1>2. PICK i \in DOMAIN sgStack :
        /\ Active(i)
        /\ sgNode' = [sgNode EXCEPT ![sgStack[i].node].deps = @ \union {s}]
        /\ sgStack' = [sgStack EXCEPT ![i].view = Reads(@, s)]
        /\ sgPending' = sgPending
  BY DEF SgRead
<1> DEFINE n == sgStack[i].node
           node == [sgNode[n] EXCEPT !.deps = @ \union {s}]
           frame == [sgStack[i] EXCEPT !.view = Reads(@, s)]
<1>3. sgStack[i] \in RunFrame /\ sgStack[i].call = "run" /\ n \in Nodes
  BY <1>1, <1>2, StackShape, FrameKinds DEF Active, RunFrame
<1>4. sgNode[n] \in Node
  BY <1>1, <1>3
<1>5. /\ node \in Node /\ node.deps = sgNode[n].deps \union {s} /\ node.state = sgNode[n].state
      /\ node.runs = sgNode[n].runs /\ node.sure = sgNode[n].sure /\ node.nested = sgNode[n].nested
      /\ node.view = sgNode[n].view
  BY <1>4 DEF Node
<1>6. /\ frame \in RunFrame /\ frame.call = "run" /\ frame.node = n
      /\ frame.view = Reads(sgStack[i].view, s)
  BY <1>3 DEF RunFrame, Reads, View
<1>7. sgNode' = [sgNode EXCEPT ![n] = node] /\ sgStack' = [sgStack EXCEPT ![i] = frame]
  BY <1>2
<1> HIDE DEF node, frame
<1>8. /\ sgNode' \in [Nodes -> Node] /\ sgNode'[n] = node
      /\ \A m \in Nodes : m # n => sgNode'[m] = sgNode[m]
  BY <1>1, <1>3, <1>5, <1>7
<1>9. i \in 1 .. Len(sgStack) /\ DOMAIN sgStack = 1 .. Len(sgStack) /\ frame \in Frame
  BY <1>1, <1>2, <1>6, StackShape DEF Frame
<1>10. /\ sgStack' \in Seq(Frame) /\ Len(sgStack') = Len(sgStack)
       /\ \A j \in 1 .. Len(sgStack) : sgStack'[j] = IF j = i THEN frame ELSE sgStack[j]
  BY <1>1, <1>7, <1>9, ExceptSeq
<1>11. DOMAIN sgStack' = DOMAIN sgStack
  BY <1>9, <1>10, StackShape
<1> HIDE DEF n
<1>12. /\ \A j \in DOMAIN sgStack : sgStack'[j].call = sgStack[j].call
       /\ \A j, m : RunOf(sgStack', j, m) <=> RunOf(sgStack, j, m)
       /\ \A j \in DOMAIN sgStack : j # i => sgStack'[j] = sgStack[j]
       /\ sgStack'[i] = frame
  BY <1>3, <1>6, <1>9, <1>10, <1>11 DEF RunOf, n
<1>13. FlushOverRuns(sgStack')
  BY <1>1, <1>11, <1>12 DEF FlushOverRuns
<1>14. RunOf(sgStack, i, n)
  BY <1>2, <1>3 DEF RunOf, n
<1>15. \A m \in Nodes : sgNode'[m].runs = sgNode[m].runs
  BY <1>5, <1>8
<1>16. ASSUME NEW m \in Nodes, m # n
       PROVE  NodeKept(m, sgNode'[m], sgPending, sgStack')
  <2>1. \A j \in DOMAIN sgStack' : RunOf(sgStack', j, m) => RunOf(sgStack, j, m) /\ j # i
    BY <1>12, <1>14, <1>16 DEF RunOf
  <2>2. RunsWithin(m, sgNode[m].runs, sgStack, sgStack')
    BY <1>11, <1>12, <2>1 DEF RunsWithin
  <2> QED
    BY <1>1, <1>8, <1>16, <2>2, OtherKept
<1>17. NodeKept(n, node, sgPending, sgStack')
  <2>1. NodeKept(n, sgNode[n], sgPending, sgStack)
    BY <1>1, <1>3
  <2>2. node.state # "new"
    BY <1>2, <1>5, <1>14, <2>1 DEF NodeKept
  <2>3. \A view : ViewKept(view, n, sgNode[n], sgPending) => ViewKept(view, n, node, sgPending)
    BY <1>5 DEF ViewKept
  <2>4. ASSUME NEW view \in View, ViewKept(view, n, sgNode[n], sgPending)
        PROVE  ViewKept(Reads(view, s), n, node, sgPending)
    <3>1. CASE view.stale
      BY <2>4, <3>1 DEF ViewKept, Reads
    <3>2. CASE ~view.stale
      <4>1. view.read \subseteq sgNode[n].deps
        BY <2>4, <3>2 DEF ViewKept
      <4>2. Reads(view, s).read = view.read \union {s} /\ Reads(view, s).stale = view.stale
        BY <3>2 DEF Reads, View
      <4> QED
        BY <1>5, <3>2, <4>1, <4>2 DEF ViewKept
    <3> QED
      BY <3>1, <3>2
  <2>5. ASSUME node.state = "live"
        PROVE  LiveKept(n, node, sgPending, sgStack')
    <3>1. LiveKept(n, sgNode[n], sgPending, sgStack)
      BY <1>5, <2>1, <2>5 DEF NodeKept
    <3>2. node.sure => ViewKept(node.view, n, node, sgPending)
      BY <1>5, <2>3, <3>1 DEF LiveKept
    <3>3. ASSUME ~node.nested
          PROVE  /\ \A j, k \in DOMAIN sgStack' : RunOf(sgStack', j, n) /\ RunOf(sgStack', k, n) => j = k
                 /\ \A j \in DOMAIN sgStack' :
                      RunOf(sgStack', j, n) => ViewKept(sgStack'[j].view, n, node, sgPending)
                 /\ \A j, k \in DOMAIN sgStack' :
                      RunOf(sgStack', j, n) /\ j < k /\ sgStack'[k].call = "flush" => node.runs = 0
      <4>1. ~sgNode[n].nested
        BY <1>5, <3>3
      <4>2. \A j, k \in DOMAIN sgStack' : RunOf(sgStack', j, n) /\ RunOf(sgStack', k, n) => j = k
        BY <1>11, <1>12, <3>1, <4>1 DEF LiveKept
      <4>3. ViewKept(sgStack[i].view, n, sgNode[n], sgPending) /\ sgStack[i].view \in View
        BY <1>2, <1>3, <1>14, <3>1, <4>1 DEF LiveKept, RunFrame
      <4>4. ASSUME NEW j \in DOMAIN sgStack', RunOf(sgStack', j, n)
            PROVE  ViewKept(sgStack'[j].view, n, node, sgPending)
        <5>1. j = i
          BY <1>2, <1>11, <1>12, <1>14, <4>2, <4>4
        <5> QED
          BY <1>6, <1>12, <2>4, <4>3, <5>1
      <4>5. \A j, k \in DOMAIN sgStack' :
              RunOf(sgStack', j, n) /\ j < k /\ sgStack'[k].call = "flush" => node.runs = 0
        BY <1>5, <1>11, <1>12, <3>1, <4>1 DEF LiveKept
      <4> QED
        BY <4>2, <4>4, <4>5
    <3> QED
      BY <3>2, <3>3 DEF LiveKept
  <2> QED
    BY <2>2, <2>5 DEF NodeKept
<1>18. GraphKept(sgNode', sgPending', sgStack')
  BY <1>1, <1>2, <1>8, <1>10, <1>13, <1>16, <1>17 DEF GraphKept
<1>19. CountsKept(sgNode', sgStack') /\ QueueDriven(sgPending', sgStack')
  BY <1>1, <1>2, <1>11, <1>12, <1>15 DEF CountsKept, QueueDriven
<1> QED
  BY <1>10, <1>18, <1>19 DEF SgInv, SgKept

LEMMA WriteStep ==
    ASSUME SgInv, NEW s \in Sources, SgWrite(s)
    PROVE  SgInv'
  BY SetsKept DEF SgWrite, SgInv, SgKept, Readable

LEMMA BatchStep ==
    ASSUME SgInv, SgBatch
    PROVE  SgInv'
<1>1. /\ sgNode \in [Nodes -> Node] /\ sgPending \subseteq Nodes /\ sgStack \in Seq(Frame)
      /\ FlushOverRuns(sgStack)
      /\ \A n \in Nodes : NodeKept(n, sgNode[n], sgPending, sgStack)
      /\ CountsKept(sgNode, sgStack)
  BY SgInvParts
<1>2. sgStack' = Append(sgStack, BatchFrame) /\ sgNode' = sgNode /\ sgPending' = sgPending
  BY DEF SgBatch
<1>3. BatchFrame \in Frame /\ BatchFrame.call = "batch"
  BY DEF BatchFrame, Frame
<1>4. sgStack' \in Seq(Frame) /\ OneMore(sgStack, sgStack', BatchFrame)
  BY <1>1, <1>2, <1>3, Pushed
<1>5. FlushOverRuns(sgStack') /\ \A n, runs : RunsWithin(n, runs, sgStack, sgStack')
  BY <1>1, <1>2, <1>3, PushWithin
<1>6. \A n \in Nodes : NodeKept(n, sgNode'[n], sgPending', sgStack')
  BY <1>1, <1>2, <1>5, OtherKept
<1>7. Len(sgStack) + 1 \in DOMAIN sgStack' /\ sgStack'[Len(sgStack) + 1].call = "batch"
      /\ \A i \in DOMAIN sgStack : i \in DOMAIN sgStack' /\ sgStack'[i] = sgStack[i]
  BY <1>1, <1>3, <1>4, StackShape DEF OneMore
<1>8. CountsKept(sgNode', sgStack') /\ QueueDriven(sgPending', sgStack')
  BY <1>1, <1>2, <1>7 DEF CountsKept, QueueDriven
<1> QED
  BY <1>1, <1>2, <1>4, <1>5, <1>6, <1>8 DEF SgInv, SgKept, GraphKept

\* A frame leaves the stack.
LEMMA BelowKept ==
    ASSUME NEW nodes, NEW pending, NEW stack, GraphKept(nodes, pending, stack), stack # <<>>
    PROVE  /\ GraphKept(nodes, pending, Below(stack))
           /\ CountsKept(nodes, stack) /\ stack[Len(stack)].call # "flush" => CountsKept(nodes, Below(stack))
           /\ QueueDriven(pending, stack) /\ stack[Len(stack)].call = "run" =>
                QueueDriven(pending, Below(stack))
<1>1. stack \in Seq(Frame) /\ FlushOverRuns(stack)
  BY DEF GraphKept
<1>2. Below(stack) \in Seq(Frame) /\ OneMore(Below(stack), stack, stack[Len(stack)])
  BY <1>1, Popped
<1>3. FlushOverRuns(Below(stack)) /\ \A n, runs : RunsWithin(n, runs, stack, Below(stack))
  BY <1>1, BelowWithin
<1>4. ASSUME NEW n \in Nodes
      PROVE  NodeKept(n, nodes[n], pending, Below(stack))
  BY <1>3, OtherKept DEF GraphKept
<1>5. GraphKept(nodes, pending, Below(stack))
  BY <1>2, <1>3, <1>4 DEF GraphKept
<1>6. DOMAIN Below(stack) = 1 .. Len(Below(stack)) /\ Len(Below(stack)) \in Nat
  BY <1>2, StackShape
<1>7. Len(stack) = Len(Below(stack)) + 1 /\ DOMAIN stack = 1 .. Len(Below(stack)) + 1
      /\ \A i \in DOMAIN Below(stack) : stack[i] = Below(stack)[i]
  BY <1>2 DEF OneMore
<1>8. \A i \in DOMAIN stack : i = Len(stack) \/ (i \in DOMAIN Below(stack) /\ stack[i] = Below(stack)[i])
  BY <1>6, <1>7
<1>9. CountsKept(nodes, stack) /\ stack[Len(stack)].call # "flush" => CountsKept(nodes, Below(stack))
  BY <1>8 DEF CountsKept
<1>10. QueueDriven(pending, stack) /\ stack[Len(stack)].call = "run" => QueueDriven(pending, Below(stack))
  BY <1>8 DEF QueueDriven
<1> QED
  BY <1>5, <1>9, <1>10

LEMMA BatchEndsStep ==
    ASSUME SgInv, SgBatchEnds
    PROVE  SgInv'
<1>1. sgStack # <<>> /\ sgStack[Len(sgStack)].call = "batch"
  BY TopFrame DEF SgBatchEnds
<1>2. GraphKept(sgNode, sgPending, Below(sgStack)) /\ CountsKept(sgNode, Below(sgStack))
  BY <1>1, BelowKept DEF SgInv, SgKept
<1>3. SgKept(sgNode, sgPending, Queues(sgPending, Below(sgStack)))
  BY <1>2, QueuesKept
<1> QED
  BY <1>3 DEF SgBatchEnds, SgInv

\* One effect changes, and with it perhaps what is queued of it: the others need not know.
LEMMA OneChanged ==
    ASSUME NEW nodes, NEW pending, NEW stack, GraphKept(nodes, pending, stack),
           NEW n \in Nodes, NEW node \in Node, NEW queued, NEW next \in Seq(Frame),
           queued \subseteq Nodes, \A m \in Nodes : m # n => (m \in pending <=> m \in queued),
           FlushOverRuns(next), \A m, runs : m # n => RunsWithin(m, runs, stack, next),
           NodeKept(n, node, queued, next)
    PROVE  GraphKept([nodes EXCEPT ![n] = node], queued, next)
<1>1. nodes \in [Nodes -> Node]
  BY DEF GraphKept
<1>2. /\ [nodes EXCEPT ![n] = node] \in [Nodes -> Node] /\ [nodes EXCEPT ![n] = node][n] = node
      /\ \A m \in Nodes : m # n => [nodes EXCEPT ![n] = node][m] = nodes[m]
  BY <1>1
<1>3. ASSUME NEW m \in Nodes, m # n
      PROVE  NodeKept(m, nodes[m], queued, next)
  <2>1. NodeKept(m, nodes[m], pending, stack) /\ RunsWithin(m, nodes[m].runs, stack, next)
    BY <1>3 DEF GraphKept
  <2> QED
    BY <1>3, <2>1, OtherKept
<1> QED
  BY <1>2, <1>3 DEF GraphKept

LEMMA Begins ==
    ASSUME NEW node \in Node
    PROVE  LET begun == RunBegun(node) IN
           /\ begun \in Node /\ begun.state = "live" /\ begun.deps = {} /\ ~begun.sure
           /\ begun.nested = node.nested /\ begun.runs = node.runs /\ begun.view = NoView
  BY DEF RunBegun, Node, NoView, View

LEMMA Stops ==
    ASSUME NEW node \in Node
    PROVE  LET stopped == Stopped(node) IN
           stopped \in Node /\ stopped.state = "stopped" /\ stopped.runs = 0
<1>1. RunBegun(node) \in Node
  BY Begins
<1>2. 0 \in 0 .. MaxRuns + 1
  BY SignalsAssumption
<1> QED
  BY <1>1, <1>2 DEF Stopped, Node

LEMMA CallFrame ==
    ASSUME NEW n \in Nodes, NEW eager \in BOOLEAN
    PROVE  LET call == Call(n, eager) IN
           /\ call \in Frame /\ call.call = "run" /\ call.node = n /\ call.eager = eager
           /\ call.view = NoView
  BY DEF Call, Frame, RunFrame, NoView, View

\* A run of an effect begins that has no other, or is known to be nested.
LEMMA RunBegins ==
    ASSUME NEW n \in Nodes, NEW node \in Node, NEW eager \in BOOLEAN, NEW stack \in Seq(Frame), NEW queued,
           node.state = "live", ~node.sure, node.deps = {},
           ~node.nested => \A i \in DOMAIN stack : ~RunOf(stack, i, n)
    PROVE  NodeKept(n, node, queued, Append(stack, Call(n, eager)))
<1> DEFINE frame == Call(n, eager)
           next == Append(stack, frame)
<1>1. frame \in Frame /\ frame.call = "run" /\ frame.node = n /\ frame.view = NoView
  BY CallFrame
<1>2. OneMore(stack, next, frame)
  BY <1>1, Pushed
<1>3. DOMAIN stack = 1 .. Len(stack) /\ Len(stack) \in Nat
  BY StackShape
<1>4. DOMAIN next = 1 .. Len(stack) + 1 /\ next[Len(stack) + 1] = frame
      /\ \A i \in DOMAIN next : i = Len(stack) + 1 \/ (i \in DOMAIN stack /\ next[i] = stack[i])
  BY <1>2, <1>3 DEF OneMore
<1> HIDE DEF frame, next
<1>5. ASSUME ~node.nested
      PROVE  /\ \A i, j \in DOMAIN next : RunOf(next, i, n) /\ RunOf(next, j, n) => i = j
             /\ \A i \in DOMAIN next : RunOf(next, i, n) => ViewKept(next[i].view, n, node, queued)
             /\ \A i, j \in DOMAIN next :
                  RunOf(next, i, n) /\ i < j /\ next[j].call = "flush" => node.runs = 0
  <2>1. \A i \in DOMAIN next : RunOf(next, i, n) => i = Len(stack) + 1
    BY <1>4, <1>5 DEF RunOf
  <2>2. ViewKept(NoView, n, node, queued)
    BY DEF ViewKept, NoView
  <2>3. \A i \in DOMAIN next : RunOf(next, i, n) => ViewKept(next[i].view, n, node, queued)
    BY <1>1, <1>4, <2>1, <2>2
  <2>4. \A i, j \in DOMAIN next : RunOf(next, i, n) /\ i < j => FALSE
    BY <1>3, <1>4, <2>1
  <2> QED
    BY <2>1, <2>3, <2>4
<1> QED
  BY <1>5 DEF NodeKept, LiveKept, next, frame

LEMMA CreateStep ==
    ASSUME SgInv, NEW n \in Nodes, SgCreate(n)
    PROVE  SgInv'
<1>1. /\ sgNode \in [Nodes -> Node] /\ sgPending \subseteq Nodes /\ sgStack \in Seq(Frame)
      /\ FlushOverRuns(sgStack) /\ NodeKept(n, sgNode[n], sgPending, sgStack)
      /\ CountsKept(sgNode, sgStack) /\ QueueDriven(sgPending, sgStack)
  BY SgInvParts
<1> DEFINE node == RunBegun(sgNode[n])
           frame == Call(n, TRUE)
<1>2. sgNode' = [sgNode EXCEPT ![n] = node] /\ sgStack' = Append(sgStack, frame) /\ sgPending' = sgPending
      /\ sgNode[n].state = "new"
  BY DEF SgCreate
<1>3. /\ node \in Node /\ node.state = "live" /\ node.deps = {} /\ ~node.sure
      /\ node.runs = sgNode[n].runs
  BY <1>1, Begins
<1>4. frame \in Frame /\ frame.call = "run" /\ frame.node = n
  BY CallFrame
<1>5. \A i \in DOMAIN sgStack : ~RunOf(sgStack, i, n)
  BY <1>1, <1>2 DEF NodeKept
<1>6. NodeKept(n, node, sgPending, Append(sgStack, frame))
  BY <1>1, <1>3, <1>5, RunBegins
<1>7. sgStack' \in Seq(Frame) /\ OneMore(sgStack, sgStack', frame)
  BY <1>1, <1>2, <1>4, Pushed
<1>8. FlushOverRuns(sgStack') /\ \A m, runs : m # n => RunsWithin(m, runs, sgStack, sgStack')
  BY <1>1, <1>2, <1>4, PushWithin
<1> HIDE DEF node, frame
<1>9. GraphKept(sgNode, sgPending, sgStack)
  BY DEF SgInv, SgKept
<1>10. GraphKept(sgNode', sgPending', sgStack')
  BY <1>1, <1>2, <1>3, <1>6, <1>7, <1>8, <1>9, OneChanged
<1>11. \A i \in DOMAIN sgStack : i \in DOMAIN sgStack' /\ sgStack'[i] = sgStack[i]
  BY <1>1, <1>7, StackShape DEF OneMore
<1>12. \A m \in Nodes : sgNode'[m].runs = sgNode[m].runs
  BY <1>1, <1>2, <1>3
<1>13. CountsKept(sgNode', sgStack') /\ QueueDriven(sgPending', sgStack')
  BY <1>1, <1>2, <1>11, <1>12 DEF CountsKept, QueueDriven
<1> QED
  BY <1>10, <1>13 DEF SgInv, SgKept

\* The view of the run under way becomes that of the effect, unless there are two.
LEMMA RunEndedKept ==
    ASSUME SgInv, In("run")
    PROVE  LET n == Top.node
               node == RunEnded(sgNode[n], n, Top) IN
           /\ n \in Nodes /\ node \in Node /\ node.runs = sgNode[n].runs
           /\ NodeKept(n, node, sgPending, Below(sgStack))
<1> DEFINE n == Top.node
           node == RunEnded(sgNode[n], n, Top)
           below == Below(sgStack)
<1>1. /\ sgNode \in [Nodes -> Node] /\ sgStack \in Seq(Frame)
      /\ \A m \in Nodes : NodeKept(m, sgNode[m], sgPending, sgStack)
  BY SgInvParts
<1>2. /\ sgStack # <<>> /\ Top \in RunFrame /\ Top.call = "run" /\ n \in Nodes
      /\ Len(sgStack) \in DOMAIN sgStack /\ Top = sgStack[Len(sgStack)]
  BY TopFrame
<1>3. sgNode[n] \in Node /\ Top.view \in View
  BY <1>1, <1>2 DEF RunFrame
<1>4. /\ node \in Node /\ node.runs = sgNode[n].runs /\ node.state = sgNode[n].state
      /\ node.deps = sgNode[n].deps /\ node.sure = ~sgNode[n].nested
      /\ node.nested = (sgNode[n].nested /\ Around(n))
      /\ ~sgNode[n].nested => node.view = Top.view
  <2>1. Around(n) \in BOOLEAN /\ (n \in Effects) \in BOOLEAN /\ NoView \in View
    BY DEF Around, NoView, View
  <2>2. (IF sgNode[n].nested THEN NoView ELSE Top.view) \in View
    BY <1>3, <2>1
  <2> HIDE DEF n
  <2> QED
    BY <1>3, <2>1, <2>2 DEF RunEnded, Node
<1>5. below \in Seq(Frame) /\ OneMore(below, sgStack, Top)
  BY <1>1, <1>2, Popped
<1>6. /\ DOMAIN below = 1 .. Len(sgStack) - 1 /\ Len(sgStack) \in Nat
      /\ \A i \in DOMAIN below : i \in DOMAIN sgStack /\ below[i] = sgStack[i] /\ i < Len(sgStack)
  BY <1>1, <1>5, StackShape DEF OneMore
<1>7. RunOf(sgStack, Len(sgStack), n)
  BY <1>2 DEF RunOf
<1> HIDE DEF below, node, n
<1>8. NodeKept(n, sgNode[n], sgPending, sgStack)
  BY <1>1, <1>2
<1>9. node.state # "new"
  BY <1>2, <1>4, <1>7, <1>8 DEF NodeKept
<1>10. ASSUME node.state = "live"
       PROVE  LiveKept(n, node, sgPending, below)
  <2>1. LiveKept(n, sgNode[n], sgPending, sgStack)
    BY <1>4, <1>8, <1>10 DEF NodeKept
  <2>2. ASSUME node.sure
        PROVE  ViewKept(node.view, n, node, sgPending)
    <3>1. ~sgNode[n].nested
      BY <1>4, <2>2
    <3>2. ViewKept(Top.view, n, sgNode[n], sgPending)
      BY <1>2, <1>7, <2>1, <3>1 DEF LiveKept
    <3> QED
      BY <1>4, <3>1, <3>2 DEF ViewKept
  <2>3. ASSUME ~node.nested, NEW i \in DOMAIN below, RunOf(below, i, n)
        PROVE  FALSE
    <3>1. RunOf(sgStack, i, n) /\ i \in 1 .. Len(sgStack) - 1 /\ i < Len(sgStack)
      BY <1>6, <2>3 DEF RunOf
    <3>2. Around(n)
      BY <3>1 DEF Around, RunOf
    <3>3. ~sgNode[n].nested
      BY <1>4, <2>3, <3>2
    <3>4. i = Len(sgStack)
      BY <1>2, <1>6, <1>7, <2>1, <3>1, <3>3 DEF LiveKept
    <3> QED
      BY <1>6, <3>1, <3>4
  <2> QED
    BY <2>2, <2>3 DEF LiveKept
<1>11. NodeKept(n, node, sgPending, below)
  BY <1>9, <1>10 DEF NodeKept
<1> QED
  BY <1>2, <1>4, <1>11 DEF n, node, below

LEMMA RunEndsStep ==
    ASSUME SgInv, SgRunEnds
    PROVE  SgInv'
<1> DEFINE n == Top.node
           node == RunEnded(sgNode[n], n, Top)
           nodes == [sgNode EXCEPT ![n] = node]
           below == Below(sgStack)
<1>1. /\ GraphKept(sgNode, sgPending, sgStack) /\ sgNode \in [Nodes -> Node] /\ sgPending \subseteq Nodes
      /\ CountsKept(sgNode, sgStack) /\ QueueDriven(sgPending, sgStack)
  BY SgInvParts DEF SgInv, SgKept
<1>2. In("run")
  BY DEF SgRunEnds
<1>3. sgStack # <<>> /\ sgStack[Len(sgStack)].call = "run"
  BY <1>2, TopFrame
<1>4. n \in Nodes /\ node \in Node /\ node.runs = sgNode[n].runs /\ NodeKept(n, node, sgPending, below)
  BY <1>2, RunEndedKept
<1>5. GraphKept(sgNode, sgPending, below) /\ CountsKept(sgNode, below) /\ QueueDriven(sgPending, below)
  BY <1>1, <1>3, BelowKept
<1>6. \/ sgNode' = nodes /\ sgStack' = below /\ sgPending' = sgPending
      \/ n \in Computeds /\ Sets(n, nodes, below)
  BY DEF SgRunEnds
<1> HIDE DEF n, node, below
<1>7. GraphKept(nodes, sgPending, below)
  <2>1. \A m, runs : RunsWithin(m, runs, below, below)
    BY DEF RunsWithin
  <2>2. below \in Seq(Frame) /\ FlushOverRuns(below)
    BY <1>5 DEF GraphKept
  <2> QED
    BY <1>1, <1>4, <1>5, <2>1, <2>2, OneChanged
<1>8. \A m \in Nodes : nodes[m].runs = sgNode[m].runs
  BY <1>1, <1>4
<1>9. CountsKept(nodes, below)
  BY <1>5, <1>8 DEF CountsKept
<1>10. CASE sgNode' = nodes /\ sgStack' = below /\ sgPending' = sgPending
  BY <1>5, <1>7, <1>9, <1>10 DEF SgInv, SgKept
<1>11. CASE n \in Computeds /\ Sets(n, nodes, below)
  <2>1. n \in Readable
    BY <1>11 DEF Readable
  <2> HIDE DEF nodes
  <2> QED
    BY <1>7, <1>9, <1>11, <2>1, SetsKept
<1> QED
  BY <1>6, <1>10, <1>11

LEMMA StoppedKept ==
    ASSUME NEW n, NEW node \in Node, NEW queued, NEW stack
    PROVE  NodeKept(n, Stopped(node), queued, stack)
<1>1. Stopped(node).state = "stopped"
  BY Stops
<1> QED
  BY <1>1 DEF NodeKept

LEMMA Unsures ==
    ASSUME NEW node \in Node
    PROVE  LET unsure == Unsure(node) IN
           /\ unsure \in Node /\ unsure.state = node.state /\ unsure.deps = node.deps
           /\ unsure.runs = node.runs /\ unsure.nested = node.nested /\ ~unsure.sure
           /\ unsure.cleanup = node.cleanup /\ unsure.view = NoView
  BY DEF Unsure, Node, NoView, View

LEMMA ThrowsStep ==
    ASSUME SgInv, SgThrows
    PROVE  SgInv'
<1> DEFINE n == Top.node
           below == Below(sgStack)
<1>1. /\ GraphKept(sgNode, sgPending, sgStack) /\ sgNode \in [Nodes -> Node] /\ sgPending \subseteq Nodes
      /\ CountsKept(sgNode, sgStack) /\ QueueDriven(sgPending, sgStack)
  BY SgInvParts DEF SgInv, SgKept
<1>2. In("run") /\ sgStack' = below
  BY DEF SgThrows
<1>3. sgStack # <<>> /\ sgStack[Len(sgStack)].call = "run" /\ n \in Nodes
  BY <1>2, TopFrame
<1>4. /\ GraphKept(sgNode, sgPending, below) /\ CountsKept(sgNode, below)
      /\ QueueDriven(sgPending, below)
  BY <1>1, <1>3, BelowKept
<1>5. /\ below \in Seq(Frame) /\ FlushOverRuns(below)
      /\ \A m, runs : RunsWithin(m, runs, below, below)
  BY <1>4 DEF GraphKept, RunsWithin
<1>6. sgNode[n] \in Node
  BY <1>1, <1>3
<1>7. \/ sgNode' = [sgNode EXCEPT ![n] = Stopped(sgNode[n])] /\ sgPending' = sgPending \ {n}
      \/ sgNode' = [sgNode EXCEPT ![n] = Unsure(sgNode[n])] /\ sgPending' = sgPending
  BY DEF SgThrows
<1> HIDE DEF n, below
<1>8. CASE sgNode' = [sgNode EXCEPT ![n] = Stopped(sgNode[n])] /\ sgPending' = sgPending \ {n}
  <2> DEFINE node == Stopped(sgNode[n])
  <2>1. node \in Node /\ node.runs = 0 /\ NodeKept(n, node, sgPending', below)
    BY <1>6, Stops, StoppedKept
  <2> HIDE DEF node
  <2>2. GraphKept([sgNode EXCEPT ![n] = node], sgPending', below)
    BY <1>1, <1>3, <1>4, <1>5, <1>8, <2>1, OneChanged
  <2>3. sgNode' = [sgNode EXCEPT ![n] = node]
    BY <1>8 DEF node
  <2>4. CountsKept(sgNode', below)
    BY <1>1, <1>4, <2>1, <2>3 DEF CountsKept
  <2>5. QueueDriven(sgPending', below)
    BY <1>4, <1>8 DEF QueueDriven
  <2> QED
    BY <1>2, <2>2, <2>3, <2>4, <2>5 DEF SgInv, SgKept
<1>9. CASE sgNode' = [sgNode EXCEPT ![n] = Unsure(sgNode[n])] /\ sgPending' = sgPending
  <2> DEFINE node == Unsure(sgNode[n])
  <2>1. /\ node \in Node /\ node.runs = sgNode[n].runs /\ node.state = sgNode[n].state
        /\ node.deps = sgNode[n].deps /\ node.nested = sgNode[n].nested /\ ~node.sure
    BY <1>6, Unsures
  <2> HIDE DEF node
  <2>2. NodeKept(n, sgNode[n], sgPending, below)
    BY <1>3, <1>4 DEF GraphKept
  <2>3. NodeKept(n, node, sgPending, below)
    BY <2>1, <2>2 DEF NodeKept, LiveKept, ViewKept
  <2>4. GraphKept([sgNode EXCEPT ![n] = node], sgPending, below)
    BY <1>1, <1>3, <1>4, <1>5, <2>1, <2>3, OneChanged
  <2>5. sgNode' = [sgNode EXCEPT ![n] = node]
    BY <1>9 DEF node
  <2>6. CountsKept(sgNode', below)
    BY <1>1, <1>4, <2>1, <2>5 DEF CountsKept
  <2> QED
    BY <1>2, <1>4, <1>9, <2>4, <2>5, <2>6 DEF SgInv, SgKept
<1> QED
  BY <1>7, <1>8, <1>9

LEMMA StopStep ==
    ASSUME SgInv, NEW n \in Nodes, SgStop(n)
    PROVE  SgInv'
<1>1. /\ GraphKept(sgNode, sgPending, sgStack) /\ sgNode \in [Nodes -> Node] /\ sgPending \subseteq Nodes
      /\ CountsKept(sgNode, sgStack) /\ QueueDriven(sgPending, sgStack)
      /\ sgStack \in Seq(Frame) /\ FlushOverRuns(sgStack)
  BY SgInvParts DEF SgInv, SgKept
<1> DEFINE node == Stopped(sgNode[n])
<1>2. sgNode' = [sgNode EXCEPT ![n] = node] /\ sgPending' = sgPending \ {n} /\ sgStack' = sgStack
  BY DEF SgStop
<1>3. node \in Node /\ node.runs = 0 /\ NodeKept(n, node, sgPending', sgStack)
  BY <1>1, Stops, StoppedKept
<1> HIDE DEF node
<1>4. \A m, runs : RunsWithin(m, runs, sgStack, sgStack)
  BY DEF RunsWithin
<1>5. GraphKept(sgNode', sgPending', sgStack)
  BY <1>1, <1>2, <1>3, <1>4, OneChanged
<1>6. CountsKept(sgNode', sgStack) /\ QueueDriven(sgPending', sgStack)
  BY <1>1, <1>2, <1>3 DEF CountsKept, QueueDriven
<1> QED
  BY <1>2, <1>5, <1>6 DEF SgInv, SgKept

\* A run that is under way under the flush has not been counted: who has run too often has none,
\* or runs inside itself.
LEMMA FlushRunStep ==
    ASSUME SgInv, NEW n \in Nodes, SgFlushRun(n)
    PROVE  SgInv'
<1>1. /\ GraphKept(sgNode, sgPending, sgStack) /\ sgNode \in [Nodes -> Node] /\ sgPending \subseteq Nodes
      /\ sgStack \in Seq(Frame) /\ FlushOverRuns(sgStack) /\ NodeKept(n, sgNode[n], sgPending, sgStack)
  BY SgInvParts DEF SgInv, SgKept
<1>2. In("flush") /\ n \in sgPending /\ sgPending' = sgPending \ {n}
  BY DEF SgFlushRun, NextPending
<1>3. Len(sgStack) \in DOMAIN sgStack /\ sgStack[Len(sgStack)].call = "flush"
  BY <1>2, TopFrame
<1>4. DOMAIN sgStack = 1 .. Len(sgStack) /\ Len(sgStack) \in Nat
  BY <1>1, StackShape
<1>5. sgNode[n] \in Node /\ sgNode[n].state # "new" /\ sgNode[n].runs \in 0 .. MaxRuns + 1 /\ MaxRuns \in Nat \ {0}
  BY <1>1, <1>2, SignalsAssumption DEF NodeKept, Node
<1>6. CASE RunsAgain(n)
  <2> DEFINE begun == RunBegun(sgNode[n])
             node == Rerun(sgNode[n], n)
             frame == Call(n, FALSE)
  <2>1. sgNode' = [sgNode EXCEPT ![n] = node] /\ sgStack' = Append(sgStack, frame)
    BY <1>6 DEF SgFlushRun
  <2>2. /\ begun \in Node /\ begun.state = "live" /\ begun.deps = {} /\ ~begun.sure
        /\ begun.runs = sgNode[n].runs
    BY <1>5, Begins
  <2>3. sgNode[n].runs + 1 \in 0 .. MaxRuns + 1 /\ InRun(n) \in BOOLEAN
    BY <1>5, <1>6 DEF RunsAgain, InRun
  <2> HIDE DEF begun
  <2>4. /\ node \in Node /\ node.state = "live" /\ node.deps = {} /\ ~node.sure
        /\ node.nested = InRun(n)
    BY <2>2, <2>3 DEF Node, Rerun, begun
  <2> HIDE DEF node, frame
  <2>5. ~node.nested => \A i \in DOMAIN sgStack : ~RunOf(sgStack, i, n)
    BY <2>4 DEF InRun, RunOf
  <2>6. NodeKept(n, node, sgPending', Append(sgStack, frame))
    BY <1>1, <2>4, <2>5, RunBegins DEF frame
  <2>7. frame \in Frame /\ frame.call = "run" /\ frame.node = n
    BY CallFrame DEF frame
  <2>8. sgStack' \in Seq(Frame) /\ OneMore(sgStack, sgStack', frame)
    BY <1>1, <2>1, <2>7, Pushed
  <2>9. FlushOverRuns(sgStack') /\ \A m, runs : m # n => RunsWithin(m, runs, sgStack, sgStack')
    BY <1>1, <2>1, <2>7, PushWithin
  <2>10. sgPending' \subseteq Nodes /\ \A m \in Nodes : m # n => (m \in sgPending <=> m \in sgPending')
    BY <1>1, <1>2
  <2>11. GraphKept(sgNode', sgPending', sgStack')
    BY <1>1, <2>1, <2>4, <2>6, <2>8, <2>9, <2>10, OneChanged
  <2>12. Len(sgStack) \in DOMAIN sgStack' /\ sgStack'[Len(sgStack)].call = "flush"
    BY <1>3, <1>4, <2>8 DEF OneMore
  <2> QED
    BY <2>11, <2>12 DEF SgInv, SgKept, CountsKept, QueueDriven
<1>7. CASE ~RunsAgain(n)
  <2> DEFINE unsure == Unsure(sgNode[n])
             runs == IF sgNode[n].runs > MaxRuns THEN sgNode[n].runs ELSE sgNode[n].runs + 1
             node == Skipped(sgNode[n])
  <2>1. sgNode' = [sgNode EXCEPT ![n] = node] /\ sgStack' = sgStack
    BY <1>7 DEF SgFlushRun
  <2>2. /\ unsure \in Node /\ unsure.state = sgNode[n].state /\ unsure.runs = sgNode[n].runs
        /\ unsure.nested = sgNode[n].nested /\ ~unsure.sure
    BY <1>5, Unsures
  <2>3. runs \in 0 .. MaxRuns + 1
    BY <1>5
  <2>4. node = [unsure EXCEPT !.runs = runs]
    BY <2>2 DEF Skipped
  <2> HIDE DEF unsure, runs, node
  <2>5. /\ node \in Node /\ node.state = sgNode[n].state /\ node.nested = sgNode[n].nested /\ ~node.sure
    BY <2>2, <2>3, <2>4 DEF Node
  <2>6. ASSUME node.state = "live", ~node.nested, NEW i \in DOMAIN sgStack, RunOf(sgStack, i, n)
        PROVE  FALSE
    <3>1. LiveKept(n, sgNode[n], sgPending, sgStack) /\ ~sgNode[n].nested /\ sgNode[n].state = "live"
      BY <1>1, <2>5, <2>6 DEF NodeKept
    <3>2. i # Len(sgStack)
      BY <1>3, <2>6 DEF RunOf
    <3>3. i < Len(sgStack)
      BY <1>4, <2>6, <3>2
    <3>4. sgNode[n].runs = 0
      BY <1>3, <2>6, <3>1, <3>3 DEF LiveKept
    <3> QED
      BY <1>5, <1>7, <3>1, <3>4 DEF RunsAgain
  <2>7. NodeKept(n, node, sgPending', sgStack)
    BY <1>5, <2>5, <2>6 DEF NodeKept, LiveKept
  <2>8. \A m, r : RunsWithin(m, r, sgStack, sgStack)
    BY DEF RunsWithin
  <2>9. sgPending' \subseteq Nodes /\ \A m \in Nodes : m # n => (m \in sgPending <=> m \in sgPending')
    BY <1>1, <1>2
  <2>10. GraphKept(sgNode', sgPending', sgStack')
    BY <1>1, <2>1, <2>5, <2>7, <2>8, <2>9, OneChanged
  <2> QED
    BY <1>3, <2>1, <2>10 DEF SgInv, SgKept, CountsKept, QueueDriven
<1> QED
  BY <1>6, <1>7

LEMMA FlushEndsStep ==
    ASSUME SgInv, SgFlushEnds
    PROVE  SgInv'
<1> DEFINE below == Below(sgStack)
<1>1. GraphKept(sgNode, sgPending, sgStack) /\ sgNode \in [Nodes -> Node]
  BY SgInvParts DEF SgInv, SgKept
<1>2. /\ In("flush") /\ sgPending = {} /\ sgPending' = sgPending /\ sgStack' = below
      /\ sgNode' = [n \in Nodes |-> [sgNode[n] EXCEPT !.runs = 0]]
  BY DEF SgFlushEnds
<1>3. GraphKept(sgNode, sgPending, below)
  BY <1>1, <1>2, TopFrame, BelowKept
<1> HIDE DEF below
<1>4. ASSUME NEW n \in Nodes
      PROVE  /\ sgNode'[n] \in Node /\ sgNode'[n].runs = 0 /\ NodeKept(n, sgNode'[n], sgPending, below)
  <2> DEFINE node == [sgNode[n] EXCEPT !.runs = 0]
  <2>1. sgNode[n] \in Node /\ 0 \in 0 .. MaxRuns + 1
    BY <1>1, SignalsAssumption
  <2>2. /\ node \in Node /\ node.runs = 0 /\ node.state = sgNode[n].state /\ node.deps = sgNode[n].deps
        /\ node.sure = sgNode[n].sure /\ node.nested = sgNode[n].nested /\ node.view = sgNode[n].view
    BY <2>1 DEF Node
  <2>3. sgNode'[n] = node
    BY <1>2
  <2> HIDE DEF node
  <2>4. NodeKept(n, sgNode[n], sgPending, below)
    BY <1>3 DEF GraphKept
  <2>5. NodeKept(n, node, sgPending, below)
    BY <2>2, <2>4 DEF NodeKept, LiveKept, ViewKept
  <2> QED
    BY <2>2, <2>3, <2>5
<1>5. sgNode' \in [Nodes -> Node]
  BY <1>2, <1>4
<1>6. GraphKept(sgNode', sgPending', sgStack')
  BY <1>2, <1>3, <1>4, <1>5 DEF GraphKept
<1> QED
  BY <1>2, <1>4, <1>6 DEF SgInv, SgKept, CountsKept, QueueDriven

-----------------------------------------------------------------------------
(* The theorems.                                                           *)

LEMMA SgStart == SgInit => SgInv
<1> SUFFICES ASSUME SgInit
             PROVE  SgInv
  OBVIOUS
<1> DEFINE node == [state |-> "new", deps |-> {}, runs |-> 0, cleanup |-> FALSE,
                    view |-> NoView, sure |-> FALSE, nested |-> FALSE]
<1>1. sgNode = [n \in Nodes |-> node] /\ sgPending = {} /\ sgStack = <<>>
  BY DEF SgInit
<1>2. 0 \in 0 .. MaxRuns + 1
  BY SignalsAssumption
<1>3. node \in Node /\ node.state = "new" /\ node.deps = {} /\ node.runs = 0
  BY <1>2 DEF Node, NoView, View
<1> HIDE DEF node
<1>4. sgStack \in Seq(Frame) /\ DOMAIN sgStack = {}
  BY <1>1, EmptySeq, StackShape
<1>5. \A n \in Nodes : NodeKept(n, sgNode[n], sgPending, sgStack)
  BY <1>1, <1>3, <1>4 DEF NodeKept
<1>6. sgNode \in [Nodes -> Node] /\ sgPending \subseteq Nodes /\ FlushOverRuns(sgStack)
  BY <1>1, <1>3, <1>4 DEF FlushOverRuns
<1>7. CountsKept(sgNode, sgStack) /\ QueueDriven(sgPending, sgStack)
  BY <1>1, <1>3 DEF CountsKept, QueueDriven
<1> QED
  BY <1>4, <1>5, <1>6, <1>7 DEF SgInv, SgKept, GraphKept

\* What every state of the graph keeps, whatever the program does with its signals.
THEOREM SgInvariance == SgSpec => []SgInv
<1>1. ASSUME SgInv, SgNext
      PROVE  SgInv'
  <2>1. ASSUME NEW s \in Readable, SgRead(s)
        PROVE  SgInv'
    BY <1>1, <2>1, ReadStep
  <2>2. ASSUME NEW s \in Sources, SgWrite(s)
        PROVE  SgInv'
    BY <1>1, <2>2, WriteStep
  <2>3. ASSUME NEW n \in Nodes, SgCreate(n) \/ SgStop(n) \/ SgFlushRun(n)
        PROVE  SgInv'
    BY <1>1, <2>3, CreateStep, StopStep, FlushRunStep
  <2>4. ASSUME SgBatch \/ SgBatchEnds \/ SgRunEnds \/ SgThrows \/ SgFlushEnds
        PROVE  SgInv'
    BY <1>1, <2>4, BatchStep, BatchEndsStep, RunEndsStep, ThrowsStep, FlushEndsStep
  <2> QED
    BY <1>1, <2>1, <2>2, <2>3, <2>4 DEF SgNext
<1>2. ASSUME SgInv, UNCHANGED sgVars
      PROVE  SgInv'
  <2>1. sgNode' = sgNode /\ sgPending' = sgPending /\ sgStack' = sgStack
    BY <1>2 DEF sgVars
  <2> QED
    BY <1>2, <2>1 DEF SgInv
<1> QED
  BY <1>1, <1>2, SgStart, PTL DEF SgSpec

\* The graph, what is pending and the call stack keep their types.
THEOREM SgTypeCorrect == SgSpec => []SgTypeOK
<1>1. SgInv => SgTypeOK
  BY SgInvParts DEF SgTypeOK
<1> QED
  BY <1>1, SgInvariance, PTL

\* Once nothing is under way any more, nothing is queued, and no effect or computed value has
\* an old value: flush() of signal.ts, called wherever it may be, leaves nobody behind.
THEOREM SignalsSettle == SgSpec => []SettledAtRest
<1>1. SgInv => SettledAtRest
  <2> SUFFICES ASSUME SgInv, sgStack = <<>>
               PROVE  sgPending = {} /\ \A n \in Nodes : UpToDate(n)
    BY DEF SettledAtRest
  <2>1. sgPending = {}
    BY SgInvParts DEF QueueDriven
  <2>2. ASSUME NEW n \in Nodes, sgNode[n].state = "live", sgNode[n].sure, sgNode[n].view.stale
        PROVE  FALSE
    <3>1. ViewKept(sgNode[n].view, n, sgNode[n], sgPending)
      BY <2>2, SgInvParts DEF NodeKept, LiveKept
    <3> QED
      BY <2>1, <2>2, <3>1 DEF ViewKept
  <2> QED
    BY <2>1, <2>2 DEF UpToDate
<1> QED
  BY <1>1, SgInvariance, PTL

\* The frame a step pushes, if it pushes one.
Grows(stack, next) == Len(next) > Len(stack)

LEMMA QueuesPushFlush ==
    ASSUME NEW pending, NEW stack \in Seq(Frame), NEW base \in Seq(Frame), Len(stack) <= Len(base),
           Grows(base, Queues(pending, stack))
    PROVE  Queues(pending, stack)[Len(Queues(pending, stack))].call = "flush"
<1> DEFINE next == Append(stack, FlushFrame)
<1>1. FlushFrame \in Frame /\ FlushFrame.call = "flush"
  BY DEF FlushFrame, Frame
<1>2. next \in Seq(Frame) /\ OneMore(stack, next, FlushFrame)
  BY <1>1, Pushed
<1>3. Queues(pending, stack) = stack \/ Queues(pending, stack) = next
  BY DEF Queues
<1>4. Len(stack) \in Nat /\ Len(base) \in Nat
  BY StackShape
<1>5. Queues(pending, stack) = next
  BY <1>3, <1>4 DEF Grows
<1> QED
  BY <1>1, <1>2, <1>5 DEF OneMore

\* A step that has a run begin inside a flush takes it from what is queued, computed values first.
LEMMA FlushedRun ==
    ASSUME SgInv, SgNext, Grows(sgStack, sgStack'), Top'.call = "run", ~Top'.eager
    PROVE  \E n \in NextPending : n = Top'.node /\ RunsAgain(n)
<1>1. sgStack \in Seq(Frame) /\ Len(sgStack) \in Nat
  BY SgInvParts, StackShape
<1>2. \A frame \in Frame : Append(sgStack, frame)[Len(Append(sgStack, frame))] = frame
  BY <1>1, Pushed DEF OneMore
<1>3. sgStack # <<>> => Below(sgStack) \in Seq(Frame) /\ Len(Below(sgStack)) <= Len(sgStack)
                         /\ ~Grows(sgStack, Below(sgStack))
  <2> SUFFICES ASSUME sgStack # <<>>
               PROVE  Below(sgStack) \in Seq(Frame) /\ Len(Below(sgStack)) <= Len(sgStack)
                         /\ ~Grows(sgStack, Below(sgStack))
    OBVIOUS
  <2>1. Below(sgStack) \in Seq(Frame) /\ Len(sgStack) = Len(Below(sgStack)) + 1
    BY <1>1, Popped DEF OneMore
  <2>2. Len(Below(sgStack)) \in Nat
    BY <2>1, StackShape
  <2> QED
    BY <2>1, <2>2 DEF Grows
<1>4. ~Grows(sgStack, sgStack)
  BY <1>1 DEF Grows
<1>5. ASSUME NEW s \in Readable, NEW nodes, NEW stack \in Seq(Frame), Len(stack) <= Len(sgStack),
             Sets(s, nodes, stack)
      PROVE  FALSE
  <2>1. StackAfter(stack, s) \in Seq(Frame) /\ Len(StackAfter(stack, s)) <= Len(sgStack)
    BY <1>5, Restacked
  <2>2. sgStack' = Queues(sgPending', StackAfter(stack, s))
    BY <1>5 DEF Sets
  <2>3. Top'.call = "flush"
    BY <1>1, <2>1, <2>2, QueuesPushFlush DEF Top
  <2> QED
    BY <2>3
<1>6. ASSUME NEW s \in Readable, SgRead(s)
      PROVE  FALSE
  <2>1. Len(sgStack') = Len(sgStack)
    BY <1>6, ReadStep
  <2> QED
    BY <1>1, <2>1 DEF Grows
<1>7. ASSUME NEW n \in Nodes, SgCreate(n) \/ SgStop(n)
      PROVE  FALSE
  <2>1. CASE SgCreate(n)
    <3>1. sgStack' = Append(sgStack, Call(n, TRUE))
      BY <2>1 DEF SgCreate
    <3>2. Call(n, TRUE) \in Frame /\ Call(n, TRUE).eager = TRUE
      BY CallFrame
    <3>3. Top'.eager = TRUE
      BY <1>2, <3>1, <3>2 DEF Top
    <3> QED
      BY <3>3
  <2>2. CASE SgStop(n)
    BY <1>4, <2>2 DEF SgStop
  <2> QED
    BY <1>7, <2>1, <2>2
<1>8. ASSUME NEW n \in Nodes, SgFlushRun(n)
      PROVE  n \in NextPending /\ n = Top'.node /\ RunsAgain(n)
  <2>1. RunsAgain(n)
    BY <1>4, <1>8 DEF SgFlushRun
  <2>2. sgStack' = Append(sgStack, Call(n, FALSE))
    BY <1>8, <2>1 DEF SgFlushRun
  <2>3. Call(n, FALSE) \in Frame /\ Call(n, FALSE).node = n
    BY CallFrame
  <2>4. Top'.node = n
    BY <1>2, <2>2, <2>3 DEF Top
  <2> QED
    BY <1>8, <2>1, <2>4 DEF SgFlushRun
<1>9. ASSUME SgBatch
      PROVE  FALSE
  <2>1. sgStack' = Append(sgStack, BatchFrame) /\ BatchFrame \in Frame /\ BatchFrame.call = "batch"
    BY <1>9 DEF SgBatch, BatchFrame, Frame
  <2>2. Top'.call = "batch"
    BY <1>2, <2>1 DEF Top
  <2> QED
    BY <2>2
<1>10. ASSUME SgBatchEnds
       PROVE  FALSE
  <2>1. sgStack # <<>> /\ sgStack' = Queues(sgPending, Below(sgStack))
    BY <1>10 DEF SgBatchEnds, In
  <2>2. Top'.call = "flush"
    BY <1>1, <1>3, <2>1, QueuesPushFlush DEF Top
  <2> QED
    BY <2>2
<1>11. ASSUME SgRunEnds
       PROVE  FALSE
  <2> DEFINE nodes == [sgNode EXCEPT ![Top.node] = RunEnded(@, Top.node, Top)]
  <2>1. sgStack # <<>>
    BY <1>11 DEF SgRunEnds, In
  <2>2. \/ sgStack' = Below(sgStack)
        \/ Top.node \in Computeds /\ Sets(Top.node, nodes, Below(sgStack))
    BY <1>11 DEF SgRunEnds
  <2> HIDE DEF nodes
  <2> QED
    BY <1>3, <1>5, <2>1, <2>2 DEF Readable
<1>12. ASSUME SgThrows \/ SgFlushEnds
       PROVE  FALSE
  <2>1. sgStack # <<>> /\ sgStack' = Below(sgStack)
    BY <1>12 DEF SgThrows, SgFlushEnds, In
  <2> QED
    BY <1>3, <2>1
<1>13. ASSUME NEW s \in Sources, SgWrite(s)
       PROVE  FALSE
  BY <1>1, <1>5, <1>13 DEF SgWrite, Readable
<1> QED
  BY <1>6, <1>7, <1>8, <1>9, <1>10, <1>11, <1>12, <1>13 DEF SgNext

\* When a flush has an effect run, the computed values are settled; and what it runs was not
\* stopped: the order in which flush() of signal.ts takes what is pending.
THEOREM FlushesSettleFirst == SgSpec => EffectsRunSettled
<1> DEFINE n == Top'.node
<1>1. ASSUME SgInv, SgNext, Len(sgStack') > Len(sgStack), Top'.call = "run", ~Top'.eager
      PROVE  /\ sgNode[n].state = "live"
             /\ n \in Effects => \A c \in Computeds : UpToDate(c)
  <2>1. n \in NextPending /\ RunsAgain(n)
    BY <1>1, FlushedRun DEF Grows
  <2> HIDE DEF n
  <2>2. /\ sgNode \in [Nodes -> Node] /\ sgPending \subseteq Nodes
        /\ \A m \in Nodes : NodeKept(m, sgNode[m], sgPending, sgStack)
    BY <1>1, SgInvParts
  <2>3. n \in sgPending /\ n \in Nodes
    BY <2>1, <2>2 DEF NextPending
  <2>4. sgNode[n].state = "live"
    BY <2>1, <2>2, <2>3 DEF RunsAgain, NodeKept, Node
  <2>5. ASSUME n \in Effects, NEW c \in Computeds, sgNode[c].state = "live", sgNode[c].sure
        PROVE  ~sgNode[c].view.stale
    <3>1. n \notin Computeds
      BY <2>5, SignalsAssumption
    <3>2. c \notin sgPending
      BY <2>1, <3>1 DEF NextPending
    <3>3. ViewKept(sgNode[c].view, c, sgNode[c], sgPending)
      BY <2>2, <2>5 DEF NodeKept, LiveKept, Nodes
    <3> QED
      BY <3>2, <3>3 DEF ViewKept
  <2> QED
    BY <2>4, <2>5 DEF UpToDate
<1>2. SgInv /\ [SgNext]_sgVars =>
        [ Len(sgStack') > Len(sgStack) /\ Top'.call = "run" /\ ~Top'.eager
            => /\ sgNode[n].state = "live"
               /\ n \in Effects => \A c \in Computeds : UpToDate(c) ]_sgVars
  BY <1>1
<1> QED
  BY <1>2, SgInvariance, PTL DEF SgSpec, EffectsRunSettled
=============================================================================
