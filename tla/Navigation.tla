----------------------------- MODULE Navigation -----------------------------
(***************************************************************************)
(* The browser runtime a deployment serves (browserBootstrap in            *)
(* ketjs/src/server/http.ts): enhanced navigation replaces the slots of a  *)
(* document by what the server sends for a URL, keeps the history, and     *)
(* mounts the behaviors that match what is shown.                          *)
(*                                                                         *)
(* What a slot shows is named by the URL it came from; a response has      *)
(* content for every slot.  A navigation waits for its response, for the   *)
(* island modules its content needs, and, once applied, for the behaviors; *)
(* a later one aborts it.  Client-owned history entries, scrolling, focus  *)
(* and the title are left out.                                             *)
(***************************************************************************)
EXTENDS Integers, Sequences, FiniteSets

CONSTANTS
    Urls, Home,
    Slots,
    Behaviors,
    Matching,      \* slot -> url -> the behaviors its content there matches
    Callers,       \* "link": a click, a form, the browser's buttons; "signal": code that may abort;
                   \* "error": code that handles failures; "apply": code that got a response itself.
                   \* The last two may abort as well.
    MaxNavigations \* bound: navigations one after the other or at once, a link's counting 2, others' 3

ASSUME NavigationAssumption ==
    Home \in Urls /\ Matching \in [Slots -> [Urls -> SUBSET Behaviors]] /\ MaxNavigations \in Nat

VARIABLES
    ngHistory, ngAt,      \* the session's entries and the current one
    ngShown,              \* slot -> whose content it shows
    ngTorn,               \* a reconciliation has thrown, and the behaviors are those of before
    ngBusy,               \* aria-busy
    ngActive,             \* the navigation in progress, 0 when there is none
    ngNavs,               \* this document's: [target, mode, caller, phase, aborted, loading]
    ngMounted,            \* behaviors mounted
    ngFailed,             \* behaviors whose module did not load when last tried
    ngMade

ngVars == <<ngHistory, ngAt, ngShown, ngTorn, ngBusy, ngActive, ngNavs, ngMounted, ngFailed, ngMade>>
historyVars == <<ngHistory, ngAt>>
pageVars == <<ngShown, ngTorn, ngMounted, ngFailed>>

Here == ngHistory[ngAt]
Showing(url) == [s \in Slots |-> url]
\* `behaviorMatches`, of what the slots show.
Matches(shown) == UNION {Matching[s][shown[s]] : s \in Slots}
InFlight(n) == ngNavs[n].phase \in {"fetching", "loading", "syncing"}
Nav(n) == ngNavs[n]
Abort(navs, n) == IF n = 0 THEN navs ELSE [navs EXCEPT ![n].aborted = TRUE]

-----------------------------------------------------------------------------
Push(url) == ngHistory' = Append(SubSeq(ngHistory, 1, ngAt), url) /\ ngAt' = ngAt + 1
ReplaceEntry(url) == ngHistory' = [ngHistory EXCEPT ![ngAt] = url] /\ UNCHANGED ngAt

\* `hardNavigate`: a new document, with none of what this one had begun.
HardNavigate(url) ==
    /\ IF url = Here THEN UNCHANGED historyVars ELSE Push(url)
    /\ ngShown' = Showing(url) /\ ngTorn' = FALSE
    /\ ngMounted' = Matches(Showing(url)) /\ ngFailed' = {}
    /\ ngBusy' = FALSE /\ ngActive' = 0 /\ ngNavs' = <<>>

\* Mutant: the mark is taken away whoever is in progress.
EndsForAll(navs, n) ==
    /\ ngNavs' = [navs EXCEPT ![n].phase = "done"]
    /\ ngActive' = (IF ngActive = n THEN 0 ELSE ngActive)
    /\ ngBusy' = FALSE

\* A navigation ends: the marks of one in progress go with it, if it is the last begun.
Ends(navs, n) ==
    /\ ngNavs' = [navs EXCEPT ![n].phase = "done"]
    /\ ngActive' = (IF ngActive = n THEN 0 ELSE ngActive)
    /\ ngBusy' = (ngActive # n /\ ngBusy)

-----------------------------------------------------------------------------
Begun(target, mode, caller, phase) ==
    [target |-> target, mode |-> mode, caller |-> caller, phase |-> phase, aborted |-> FALSE, loading |-> {}]
OneMoreNavigation(caller) ==
    LET made == ngMade + (IF caller = "link" THEN 2 ELSE 3) IN
    made <= MaxNavigations /\ ngMade' = made

\* `navigate`: the one in progress is aborted.
Begin(target, mode, caller) ==
    /\ OneMoreNavigation(caller)
    /\ ngNavs' = Append(Abort(ngNavs, ngActive), Begun(target, mode, caller, "fetching"))
    /\ ngActive' = Len(ngNavs) + 1 /\ ngBusy' = TRUE
    /\ UNCHANGED pageVars

NgNavigate(target, mode, caller) ==
    /\ Begin(target, mode, caller)
    /\ UNCHANGED historyVars

\* Back and forward: the browser has changed the URL already.
NgPop(at) ==
    /\ at # ngAt
    /\ Begin(ngHistory[at], "pop", "link")
    /\ ngAt' = at /\ UNCHANGED ngHistory

\* `navigation.apply` of a response somebody else asked for, of this build.
NgApply(target) ==
    /\ OneMoreNavigation("apply")
    /\ ngNavs' = Append(ngNavs, Begun(target, "apply", "apply", "loading"))
    /\ UNCHANGED <<historyVars, pageVars, ngBusy, ngActive>>

\* Of another one: the caller is told, and the document is loaded all the same.
NgApplyOtherBuild(target) ==
    /\ OneMoreNavigation("apply")
    /\ HardNavigate(target)

\* Code that passed a signal gives up.
NgGivesUp(n) ==
    /\ InFlight(n) /\ Nav(n).caller # "link" /\ ~Nav(n).aborted
    /\ ngNavs' = Abort(ngNavs, n)
    /\ UNCHANGED <<historyVars, pageVars, ngBusy, ngActive, ngMade>>

\* The response is a fragment of this build.
NgFetched(n) ==
    /\ Nav(n).phase = "fetching" /\ ~Nav(n).aborted
    /\ ngNavs' = [ngNavs EXCEPT ![n].phase = "loading"]
    /\ UNCHANGED <<historyVars, pageVars, ngBusy, ngActive, ngMade>>

\* An aborted navigation does nothing more, whatever it waited for.
NgDropped(n) ==
    /\ Nav(n).phase \in {"fetching", "loading"} /\ Nav(n).aborted
    /\ Ends(ngNavs, n)
    /\ UNCHANGED <<historyVars, pageVars, ngMade>>

\* The response is of another build: the document is loaded, whoever asked for it.
NgOtherBuild(n) ==
    /\ Nav(n).phase = "fetching" /\ ~Nav(n).aborted
    /\ HardNavigate(Nav(n).target)
    /\ UNCHANGED ngMade

\* What code that handles failures is told; for others the document is loaded.
Handled(n) == Nav(n).caller \in {"error", "apply"}

\* Refused, unreachable, interrupted, or content that is not taken.
NgFails(n) ==
    /\ Nav(n).phase \in {"fetching", "loading"} /\ ~Nav(n).aborted
    /\ IF Handled(n) THEN Ends(ngNavs, n) /\ UNCHANGED <<historyVars, pageVars>>
       ELSE HardNavigate(Nav(n).target)
    /\ UNCHANGED ngMade

\* The modules of its islands are there: the slots are reconciled, and the behaviors that no
\* longer match are disposed; the modules of those that do are asked for.
NgApplies(n) ==
    LET shown == Showing(Nav(n).target)
        kept == ngMounted \intersect Matches(shown)
    IN
    /\ Nav(n).phase = "loading" /\ ~Nav(n).aborted
    /\ ngShown' = shown /\ ngTorn' = FALSE
    /\ ngMounted' = kept /\ ngFailed' = {}
    /\ ngNavs' = [ngNavs EXCEPT ![n].phase = "syncing", ![n].loading = Matches(shown) \ kept]
    /\ UNCHANGED <<historyVars, ngBusy, ngActive, ngMade>>

\* An island throws in the reconciliation of a slot: that one and those before have the new
\* content, or part of it, the others the old one, and the behaviors are not asked for.  Code
\* that handles failures goes on with this document; for others NgFails loads another.
NgTears(n) ==
    /\ Nav(n).phase = "loading" /\ ~Nav(n).aborted /\ Handled(n)
    /\ \E replaced \in (SUBSET Slots) \ {{}} :
         ngShown' = [s \in Slots |-> IF s \in replaced THEN Nav(n).target ELSE ngShown[s]]
    /\ ngTorn' = TRUE
    /\ Ends(ngNavs, n)
    /\ UNCHANGED <<historyVars, ngMounted, ngFailed, ngMade>>

\* Mutant: it is not asked whether it matches still.
NgBehaviorUnmatched(n, b, loads) ==
    /\ Nav(n).phase = "syncing" /\ b \in Nav(n).loading
    /\ ngNavs' = [ngNavs EXCEPT ![n].loading = @ \ {b}]
    /\ ngMounted' = IF loads THEN ngMounted \union {b} ELSE ngMounted
    /\ ngFailed' = IF loads THEN ngFailed ELSE ngFailed \union {b}
    /\ UNCHANGED <<historyVars, ngShown, ngTorn, ngBusy, ngActive, ngMade>>

\* A behavior's module is there, or is not: it is mounted if it matches still and no other
\* navigation has.
NgBehavior(n, b, loads) ==
    /\ Nav(n).phase = "syncing" /\ b \in Nav(n).loading
    /\ ngNavs' = [ngNavs EXCEPT ![n].loading = @ \ {b}]
    /\ ngMounted' = IF loads /\ b \in Matches(ngShown) THEN ngMounted \union {b} ELSE ngMounted
    /\ ngFailed' = IF loads THEN ngFailed ELSE ngFailed \union {b}
    /\ UNCHANGED <<historyVars, ngShown, ngTorn, ngBusy, ngActive, ngMade>>

\* Mutant: it is not asked whether it was aborted.
NgCommitsOvertaken(n) ==
    /\ Nav(n).phase = "syncing" /\ Nav(n).loading = {}
    /\ IF Nav(n).mode = "push" THEN Push(Nav(n).target) ELSE UNCHANGED historyVars
    /\ Ends(ngNavs, n)
    /\ UNCHANGED <<pageVars, ngMade>>

\* A response that other code applies names its URL in x-ket-location, or none.
Locates(n) == Nav(n).mode = "apply" /\ (ReplaceEntry(Nav(n).target) \/ UNCHANGED historyVars)

\* All are settled: the history is committed, unless the navigation was aborted meanwhile.
NgCommits(n) ==
    /\ Nav(n).phase = "syncing" /\ Nav(n).loading = {}
    /\ \/ Nav(n).aborted /\ UNCHANGED historyVars
       \/ ~Nav(n).aborted /\ Nav(n).mode = "push" /\ Push(Nav(n).target)
       \/ ~Nav(n).aborted /\ Nav(n).mode = "replace" /\ ReplaceEntry(Nav(n).target)
       \/ ~Nav(n).aborted /\ Nav(n).mode = "pop" /\ UNCHANGED historyVars
       \/ ~Nav(n).aborted /\ Locates(n)
    /\ Ends(ngNavs, n)
    /\ UNCHANGED <<pageVars, ngMade>>

NgInit ==
    /\ ngHistory = <<Home>> /\ ngAt = 1 /\ ngShown = Showing(Home) /\ ngTorn = FALSE
    /\ ngBusy = FALSE /\ ngActive = 0 /\ ngNavs = <<>>
    /\ ngMounted = Matches(Showing(Home)) /\ ngFailed = {} /\ ngMade = 0

NgNext ==
    \/ \E target \in Urls, mode \in {"push", "replace"}, caller \in Callers \ {"apply"} : NgNavigate(target, mode, caller)
    \/ \E at \in DOMAIN ngHistory : NgPop(at)
    \/ "apply" \in Callers /\ \E target \in Urls : NgApply(target) \/ NgApplyOtherBuild(target)
    \/ \E n \in DOMAIN ngNavs :
        \/ NgGivesUp(n) \/ NgFetched(n) \/ NgDropped(n) \/ NgOtherBuild(n) \/ NgFails(n) \/ NgTears(n)
        \/ NgApplies(n) \/ NgCommits(n)
        \/ \E b \in Behaviors, loads \in BOOLEAN : NgBehavior(n, b, loads)

NgSpec == NgInit /\ [][NgNext]_ngVars

-----------------------------------------------------------------------------
Settled == \A n \in DOMAIN ngNavs : ~InFlight(n)

NgTypeOK ==
    /\ ngAt \in DOMAIN ngHistory /\ ngShown \in [Slots -> Urls] /\ ngTorn \in BOOLEAN
    /\ ngActive \in 0..Len(ngNavs) /\ ngBusy = (ngActive # 0)
    /\ ngMounted \subseteq Behaviors

\* When nothing is in flight the slots show what the URL names.
SettledShowsUrl == Settled => ngShown = Showing(Here)

\* ... where the document has had none but the user's own navigations (links, forms and the
\* browser's buttons), however they overtake one another.  And whoever navigates, the behaviors
\* mounted are those that match what is shown, but for those that did not load: until a
\* reconciliation throws under code that handles failures, and again from the next on.
PageIsSettled ==
    /\ (\A n \in DOMAIN ngNavs : Nav(n).caller = "link") => SettledShowsUrl
    /\ ~ngTorn =>
        /\ ngMounted \subseteq Matches(ngShown)
        /\ Settled => Matches(ngShown) \subseteq ngMounted \union ngFailed

\* A navigation that was overtaken, or given up, changes neither the slots nor the history; of
\* the behaviors it asked for before that it mounts those that match what is shown by then.
OvertakenIsMute == [][
    \A n \in DOMAIN ngNavs :
        n \in DOMAIN ngNavs' /\ Nav(n).aborted /\ ngNavs'[n] # Nav(n) =>
            UNCHANGED <<ngShown, historyVars>> /\ ngMounted' \subseteq ngMounted \union Matches(ngShown)
    ]_ngVars
=============================================================================
