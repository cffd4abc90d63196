-------------------------------- MODULE Store --------------------------------
(***************************************************************************)
(* One island store of packages/ketjs-view/src/store.ts: its wiring        *)
(* (connect) for one lifetime after another, and a task whose runs answer  *)
(* late.  Calls are synchronous and come from anywhere, from inside a      *)
(* connect() too: there the lifetime may end, the store be disposed, or    *)
(* the next attach() begin.  State, actions, derived values and owned      *)
(* children are ends of one dispose() and are left out; what watches a     *)
(* signal is the module Signals, and does not call the store back here.    *)
(***************************************************************************)
EXTENDS Naturals, Sequences, FiniteSets

CONSTANTS
    Lifetimes,      \* the lifetimes the store is attached to
    Connectors,     \* how many connect() calls the setup made
    TaskRuns,       \* bound: the runs of the task, ended ones included
    NoLifetime, NoRun

ASSUME StoreAssumption ==
    Connectors \in Nat \ {0} /\ NoLifetime \notin Lifetimes /\ NoRun \notin TaskRuns

VARIABLES
    stConcurrency,  \* of the task: exclusive or latest
    stDisposed,     \* disposed
    stAttached,     \* the lifetime of `attachment`
    stEnded,        \* the lifetimes that are aborted
    stAttaching,    \* the calls of attach() under way, the innermost last
    stCleanup,      \* the cleanups each attachment holds, and those that were called
    stRun,          \* the runs of the task
    stTask          \* its closure and signals: current, pending, error

stVars == <<stConcurrency, stDisposed, stAttached, stEnded, stAttaching, stCleanup, stRun, stTask>>

\* at: the connector that is being called.
Attaching == [lifetime : Lifetimes, at : 1 .. Connectors]
Cleanup == [held : SUBSET (1 .. Connectors), made : SUBSET (1 .. Connectors), called : [1 .. Connectors -> Nat]]
NoCleanup == [held |-> {}, made |-> {}, called |-> [i \in 1 .. Connectors |-> 0]]

TaskRun == [at : {"new", "working", "done", "failed", "superseded", "aborted"},
            aborted : BOOLEAN, superseded : BOOLEAN]
NewRun == [at |-> "new", aborted |-> FALSE, superseded |-> FALSE]
Task == [current : TaskRuns \union {NoRun}, pending : BOOLEAN, error : TaskRuns \union {NoRun}]

StInit ==
    /\ stConcurrency \in {"exclusive", "latest"}
    /\ stDisposed = FALSE
    /\ stAttached = NoLifetime
    /\ stEnded = {}
    /\ stAttaching = <<>>
    /\ stCleanup = [l \in Lifetimes |-> NoCleanup]
    /\ stRun = [r \in TaskRuns |-> NewRun]
    /\ stTask = [current |-> NoRun, pending |-> FALSE, error |-> NoRun]

-----------------------------------------------------------------------------
Inside == stAttaching[Len(stAttaching)]
Outside == SubSeq(stAttaching, 1, Len(stAttaching) - 1)
Connecting == stAttaching # <<>>
Working(r) == stRun[r].at = "working"

\* The cleanups in cs of a lifetime's attachment are called.
Calls(c, cs) ==
    [c EXCEPT !.held = @ \ cs, !.called = [i \in 1 .. Connectors |-> IF i \in cs THEN @[i] + 1 ELSE @[i]]]

\* abort() of the run that has the slot.
Freed(task, disposed) == [task EXCEPT !.current = NoRun, !.pending = IF disposed THEN @ ELSE FALSE]

\* Every run in flight is aborted.
AbortsRuns(disposed) ==
    /\ stRun' = [r \in TaskRuns |-> IF Working(r) THEN [stRun[r] EXCEPT !.aborted = TRUE] ELSE stRun[r]]
    /\ stTask' = IF stTask.current = NoRun THEN stTask ELSE Freed(stTask, disposed)

\* detach()
Detaches(disposed) ==
    IF stAttached = NoLifetime THEN UNCHANGED <<stAttached, stCleanup, stRun, stTask>>
    ELSE /\ stAttached' = NoLifetime
         /\ AbortsRuns(disposed)
         /\ stCleanup' = [stCleanup EXCEPT ![stAttached] = Calls(@, @.held)]

StAttach(l) ==
    /\ ~stDisposed /\ stAttached = NoLifetime
    /\ l \notin stEnded /\ stCleanup[l] = NoCleanup
    /\ \A i \in DOMAIN stAttaching : stAttaching[i].lifetime # l
    /\ stAttached' = l
    /\ stAttaching' = Append(stAttaching, [lifetime |-> l, at |-> 1])
    /\ UNCHANGED <<stConcurrency, stDisposed, stEnded, stCleanup, stRun, stTask>>

\* Mutant: the attachment is not looked at again after the call.
StillAttachedAnyhow(l) == TRUE
StillAttached(l) == stAttached = l

\* A connect() returns its cleanup.  Where the attachment ended inside it, the cleanup is
\* called at once and no other connector starts.
StConnects ==
    /\ Connecting
    /\ LET l == Inside.lifetime
           i == Inside.at IN
       IF StillAttached(l)
       THEN /\ stCleanup' = [stCleanup EXCEPT ![l].held = @ \union {i}, ![l].made = @ \union {i}]
            /\ stAttaching' = IF i = Connectors THEN Outside
                              ELSE [stAttaching EXCEPT ![Len(stAttaching)].at = i + 1]
       ELSE /\ stCleanup' = [stCleanup EXCEPT ![l] = Calls([stCleanup[l] EXCEPT !.made = @ \union {i}], {i})]
            /\ stAttaching' = Outside
    /\ UNCHANGED <<stConcurrency, stDisposed, stAttached, stEnded, stRun, stTask>>

\* A connect() throws, and attach() with it.
StConnectThrows ==
    /\ Connecting
    /\ stAttaching' = Outside
    /\ Detaches(stDisposed)
    /\ UNCHANGED <<stConcurrency, stDisposed, stEnded>>

\* The lifetime aborts: its listener is detach, until the attachment is over.
StLifetimeEnds(l) ==
    /\ l \notin stEnded
    /\ stEnded' = stEnded \union {l}
    /\ IF stAttached = l THEN Detaches(stDisposed)
       ELSE UNCHANGED <<stAttached, stCleanup, stRun, stTask>>
    /\ UNCHANGED <<stConcurrency, stDisposed, stAttaching>>

StDispose ==
    /\ ~stDisposed /\ stDisposed' = TRUE
    /\ stAttached' = NoLifetime
    /\ AbortsRuns(TRUE)
    /\ stCleanup' = IF stAttached = NoLifetime THEN stCleanup
                    ELSE [stCleanup EXCEPT ![stAttached] = Calls(@, @.held)]
    /\ UNCHANGED <<stConcurrency, stEnded, stAttaching>>

-----------------------------------------------------------------------------
(* task()                                                                  *)

\* run(), unless it is rejected: the run that has the slot of a latest task is superseded.
StRunTask(r) ==
    /\ ~stDisposed /\ stRun[r].at = "new"
    /\ stTask.current # NoRun => stConcurrency = "latest"
    /\ stRun' = [q \in TaskRuns |->
                   IF q = r THEN [NewRun EXCEPT !.at = "working"]
                   ELSE IF q = stTask.current THEN [stRun[q] EXCEPT !.superseded = TRUE, !.aborted = TRUE]
                   ELSE stRun[q]]
    /\ stTask' = [current |-> r, pending |-> TRUE, error |-> NoRun]
    /\ UNCHANGED <<stConcurrency, stDisposed, stAttached, stEnded, stAttaching, stCleanup>>

OutcomeOf(run, answer) ==
    IF run.superseded THEN "superseded" ELSE IF run.aborted THEN "aborted" ELSE answer

HoldsSlot(r) == stTask.current = r

\* settle(): the work of a run returned or threw.
StSettle(r, answer) ==
    LET outcome == OutcomeOf(stRun[r], answer) IN
    /\ Working(r)
    /\ stRun' = [stRun EXCEPT ![r].at = outcome]
    /\ stTask' = IF HoldsSlot(r)
                 THEN [current |-> NoRun,
                       pending |-> IF stDisposed THEN stTask.pending ELSE FALSE,
                       error |-> IF ~stDisposed /\ outcome = "failed" THEN r ELSE stTask.error]
                 ELSE stTask
    /\ UNCHANGED <<stConcurrency, stDisposed, stAttached, stEnded, stAttaching, stCleanup>>

StNext ==
    \/ \E l \in Lifetimes : StAttach(l) \/ StLifetimeEnds(l)
    \/ StConnects \/ StConnectThrows \/ StDispose
    \/ \E r \in TaskRuns : StRunTask(r) \/ StSettle(r, "done") \/ StSettle(r, "failed")

StSpec == StInit /\ [][StNext]_stVars

-----------------------------------------------------------------------------
StTypeOK ==
    /\ stConcurrency \in {"exclusive", "latest"}
    /\ stDisposed \in BOOLEAN
    /\ stAttached \in Lifetimes \union {NoLifetime}
    /\ stEnded \subseteq Lifetimes
    /\ stAttaching \in Seq(Attaching)
    /\ stCleanup \in [Lifetimes -> Cleanup]
    /\ stRun \in [TaskRuns -> TaskRun]
    /\ stTask \in Task

\* What a connect() began is ended once, whether the lifetime ends later, inside that very call or
\* by a failure of the next one, and whether or not another lifetime has been attached since:
\* cleanups are held for the lifetime that is attached and for no other.
WiringEndsOnce ==
    \A l \in Lifetimes :
        LET c == stCleanup[l] IN
        /\ c.held # {} => stAttached = l /\ l \notin stEnded /\ ~stDisposed
        /\ \A i \in 1 .. Connectors : c.called[i] = (IF i \in c.made \ c.held THEN 1 ELSE 0)

\* One run at a time has the task, and pending() and error() speak of it: a run that was freed by the
\* end of its lifetime, or superseded, and answers while a later one is in flight, takes neither the
\* slot nor the signals from it.
TaskSpeaksOfCurrent ==
    /\ \A r \in TaskRuns : Working(r) /\ ~stRun[r].aborted <=> stTask.current = r
    /\ ~stDisposed => (stTask.pending <=> stTask.current # NoRun)
    /\ stTask.error # NoRun => stRun[stTask.error].at = "failed" /\ stTask.current = NoRun

\* What a store promises its island: both of the above.
StoreKept == WiringEndsOnce /\ TaskSpeaksOfCurrent
=============================================================================
