-------------------------------- MODULE Notify --------------------------------
(***************************************************************************)
(* One channel of the hub of packages/ketjs/src/server/notify.ts: the      *)
(* listeners of a process share one LISTEN of its database, which is       *)
(* started by the first of them and stopped by the last.  What runs        *)
(* between two awaits is a step, and so is each microtask.                 *)
(***************************************************************************)
EXTENDS Naturals, Sequences, FiniteSets

CONSTANTS
    Listeners,      \* the calls of subscribe there can be at a time
    NtEntries       \* bound: the entries made for the channel

ASSUME NotifyAssumption == NtEntries \in Nat \ {0} /\ IsFiniteSet(Listeners)

VARIABLES
    ntShared,       \* whether the database carries notifications
    ntEntries,      \* the entries made for the channel, in order
    ntCurrent,      \* channels.get(channel): the entry there is, or NoChannel
    ntListener      \* each call of subscribe, and the leave it returned

ntVars == <<ntShared, ntEntries, ntCurrent, ntListener>>

NoChannel == 0

\* started: what has become of the subscription at the database.  A rejected one is
\* "rejected" until the channel's catch has run.
NtEntry == [listeners : SUBSET Listeners, ready : BOOLEAN,
            started : {"local", "asked", "listening", "rejected", "failed", "stopped"}]

\* told: onReady was called; queued: a microtask will see to it.
NtListener == [step : {"out", "joining", "joined"}, at : NoChannel .. NtEntries,
               told : BOOLEAN, queued : BOOLEAN]

NtOut == [step |-> "out", at |-> NoChannel, told |-> FALSE, queued |-> FALSE]

NtInit ==
    /\ ntShared \in BOOLEAN
    /\ ntEntries = <<>>
    /\ ntCurrent = NoChannel
    /\ ntListener = [l \in Listeners |-> NtOut]

-----------------------------------------------------------------------------
(* subscribe                                                               *)

\* Joins the channel there is, or makes one and asks the database to listen.
NtSubscribe(l) ==
    /\ ntListener[l] = NtOut
    /\ IF ntCurrent # NoChannel
       THEN /\ ntEntries' = [ntEntries EXCEPT ![ntCurrent].listeners = @ \union {l}]
            /\ UNCHANGED ntCurrent
       ELSE /\ Len(ntEntries) < NtEntries
            /\ ntEntries' = Append(ntEntries, [listeners |-> {l}, ready |-> ~ntShared,
                                               started |-> IF ntShared THEN "asked" ELSE "local"])
            /\ ntCurrent' = Len(ntEntries) + 1
    /\ ntListener' = [ntListener EXCEPT ![l] = [NtOut EXCEPT !.step = "joining", !.at = ntCurrent']]
    /\ UNCHANGED ntShared

\* The database listens, now or again after it was lost: every listener is told.
NtReady(e) ==
    /\ ntEntries[e].started \in {"asked", "listening"}
    /\ ntEntries' = [ntEntries EXCEPT ![e].ready = TRUE]
    /\ ntListener' = [l \in Listeners |->
                        IF l \in ntEntries[e].listeners THEN [ntListener[l] EXCEPT !.told = TRUE]
                        ELSE ntListener[l]]
    /\ UNCHANGED <<ntShared, ntCurrent>>

NtAnswers(e, started) ==
    /\ ntEntries[e].started = "asked"
    /\ ntEntries' = [ntEntries EXCEPT ![e].started = started]
    /\ UNCHANGED <<ntShared, ntCurrent, ntListener>>

\* started.catch: the next subscribe starts anew.
NtForget(e) ==
    /\ ntEntries[e].started = "rejected"
    /\ ntEntries' = [ntEntries EXCEPT ![e].started = "failed"]
    /\ ntCurrent' = IF ntCurrent = e THEN NoChannel ELSE ntCurrent
    /\ UNCHANGED <<ntShared, ntListener>>

\* The ready of a channel joined late has been and gone.
NtTellsLate(l) == ntEntries[ntListener[l].at].ready /\ ~ntListener[l].told

\* `await current.started` answers: the caller is given its leave.
NtJoined(l) ==
    /\ ntListener[l].step = "joining"
    /\ ntEntries[ntListener[l].at].started \in {"local", "listening"}
    /\ ntListener' = [ntListener EXCEPT ![l].step = "joined", ![l].queued = NtTellsLate(l)]
    /\ UNCHANGED <<ntShared, ntEntries, ntCurrent>>

\* .. or throws, which takes the listener off its entry; the catch above ran before.
NtThrows(l) ==
    /\ ntListener[l].step = "joining"
    /\ ntEntries[ntListener[l].at].started = "failed"
    /\ ntEntries' = [ntEntries EXCEPT ![ntListener[l].at].listeners = @ \ {l}]
    /\ ntListener' = [ntListener EXCEPT ![l] = NtOut]
    /\ UNCHANGED <<ntShared, ntCurrent>>

NtMicrotask(l) ==
    /\ ntListener[l].queued
    /\ ntListener' = [ntListener EXCEPT ![l].queued = FALSE, ![l].told = TRUE]
    /\ UNCHANGED <<ntShared, ntEntries, ntCurrent>>

-----------------------------------------------------------------------------
(* The function subscribe returns.                                         *)

\* Mutant: whoever leaves first ends the channel.
NtEndsIt(e, l) == ntCurrent = e
NtIsLast(e, l) == ntEntries[e].listeners = {l} /\ ntCurrent = e

NtLeave(l) ==
    LET e == ntListener[l].at
        ends == NtIsLast(e, l) IN
    /\ ntListener[l].step = "joined"
    /\ ntEntries' = [ntEntries EXCEPT ![e].listeners = @ \ {l},
                        ![e].started = IF ends /\ ntShared THEN "stopped" ELSE @]
    /\ ntCurrent' = IF ends THEN NoChannel ELSE ntCurrent
    /\ ntListener' = [ntListener EXCEPT ![l] = NtOut]
    /\ UNCHANGED ntShared

\* deliverLocally: the listeners a message of this process is given to.
NtReached == IF ntCurrent = NoChannel THEN {} ELSE ntEntries[ntCurrent].listeners

NtNext ==
    \/ \E l \in Listeners : NtSubscribe(l) \/ NtJoined(l) \/ NtThrows(l) \/ NtMicrotask(l) \/ NtLeave(l)
    \/ \E e \in DOMAIN ntEntries :
         NtReady(e) \/ NtAnswers(e, "listening") \/ NtAnswers(e, "rejected") \/ NtForget(e)

NtSpec == NtInit /\ [][NtNext]_ntVars

NtTypeOK ==
    /\ ntShared \in BOOLEAN
    /\ ntEntries \in Seq(NtEntry) /\ Len(ntEntries) <= NtEntries
    /\ ntCurrent \in NoChannel .. Len(ntEntries)
    /\ ntListener \in [Listeners -> NtListener]

\* Whoever joined and has not left hears the channel: its subscription at the database is the
\* one that is current and not stopped, however others join, leave or fail meanwhile; it is
\* told that the channel is ready; and a subscription nobody listens to any more is stopped.
NtHears ==
    /\ \A l \in Listeners : ntListener[l].step = "joined" =>
         LET e == ntListener[l].at IN
         /\ l \in NtReached /\ ntCurrent = e
         /\ ntEntries[e].started \in {"local", "listening"}
         /\ ntEntries[e].ready => ntListener[l].told \/ ntListener[l].queued
    /\ \A e \in DOMAIN ntEntries :
         ntEntries[e].listeners = {} => ntEntries[e].started \in {"local", "failed", "stopped"}
=============================================================================
