------------------------------ MODULE LiveProofs ------------------------------
(*****************************************************************************)
(* What reaches those who listen, on a channel and on a socket.              *)
(*                                                                           *)
(* The hub, for any number of listeners that come and go: whoever has joined *)
(* a channel and not left it hears it. Closures hold on to entries that the  *)
(* map no longer has, so the argument is about every entry there ever was.   *)
(* Only the current one can be alive at the database; it always has a        *)
(* listener; and one that was replaced has none left, except those that      *)
(* still wait for a subscription which failed, and are about to be told so.  *)
(*                                                                           *)
(* A WebSocket, for any messages of a client that may break the protocol:    *)
(* the route is given whole messages in the order they were sent, and of the *)
(* closing handshake one frame is written and nothing after it. Each frame   *)
(* of a message was read, is being put together, or is on its way behind     *)
(* whatever was sent before it (WireOrdered), as long as the server reads at *)
(* all.                                                                      *)
(*                                                                           *)
(* The shutdown of HTTP, for any number of connections: what close() asks,   *)
(* what the grace drops, and that nothing else is left.                      *)
(*****************************************************************************)
EXTENDS Notify, WebSocket, HttpServer, SequenceTheorems, TLAPS

-----------------------------------------------------------------------------
(* The hub of notifications.                                               *)

\* A listener is on the entry its closure holds on to, and on no other.
NtPlaced ==
    \A l \in Listeners :
        /\ ntListener[l].step = "out" => ntListener[l] = NtOut
        /\ ntListener[l].step # "out" => ntListener[l].at \in DOMAIN ntEntries
        /\ \A e \in DOMAIN ntEntries :
             l \in ntEntries[e].listeners <=> ntListener[l].step # "out" /\ ntListener[l].at = e

\* One entry is alive, and an entry that is not has nobody left but those it failed.
NtOneAlive ==
    \A e \in DOMAIN ntEntries :
        /\ ntEntries[e].started = "local" <=> ~ntShared
        /\ ntEntries[e].started \in {"asked", "listening", "rejected"} => e = ntCurrent
        /\ e = ntCurrent => ntEntries[e].started \notin {"failed", "stopped"} /\ ntEntries[e].listeners # {}
        /\ e # ntCurrent => ntEntries[e].started = "failed" \/ ntEntries[e].listeners = {}

\* Who has joined did so on an entry that listened, and knows or will know that it is ready.
NtHeard ==
    \A l \in Listeners : ntListener[l].step = "joined" =>
        /\ ntEntries[ntListener[l].at].started \in {"local", "listening"}
        /\ ntEntries[ntListener[l].at].ready => ntListener[l].told \/ ntListener[l].queued

NtInv == NtTypeOK /\ NtPlaced /\ NtOneAlive /\ NtHeard

-----------------------------------------------------------------------------
(* Entries and listeners.                                                  *)

\* An entry stays one, whoever joins or leaves it and whatever the database answers.
LEMMA NtEntryFields ==
    ASSUME NEW x \in NtEntry, NEW ls \in SUBSET Listeners,
           NEW s \in {"local", "asked", "listening", "rejected", "failed", "stopped"}
    PROVE  LET new == [x EXCEPT !.listeners = ls, !.started = s]
           IN  new \in NtEntry /\ new.listeners = ls /\ new.started = s /\ new.ready = x.ready
  BY DEF NtEntry

LEMMA NtEntryReady ==
    ASSUME NEW x \in NtEntry
    PROVE  LET new == [x EXCEPT !.ready = TRUE]
           IN  new \in NtEntry /\ new.listeners = x.listeners /\ new.started = x.started /\ new.ready
  BY DEF NtEntry

\* A change to one entry changes no other.
LEMMA NtOneEntry ==
    ASSUME ntEntries \in Seq(NtEntry), NEW e \in DOMAIN ntEntries, NEW new \in NtEntry,
           ntEntries' = [ntEntries EXCEPT ![e] = new]
    PROVE  /\ ntEntries' \in Seq(NtEntry) /\ Len(ntEntries') = Len(ntEntries)
           /\ DOMAIN ntEntries' = DOMAIN ntEntries
           /\ ntEntries'[e] = new
           /\ \A f \in DOMAIN ntEntries : f # e => ntEntries'[f] = ntEntries[f]
  <1>1. e \in 1 .. Len(ntEntries) /\ DOMAIN ntEntries = 1 .. Len(ntEntries)
    OBVIOUS
  <1>2. /\ ntEntries' \in Seq(NtEntry) /\ Len(ntEntries') = Len(ntEntries)
        /\ \A j \in 1 .. Len(ntEntries) : ntEntries'[j] = IF j = e THEN new ELSE ntEntries[j]
    BY <1>1, ExceptSeq
  <1>. QED
    BY <1>1, <1>2

\* A call of subscribe that has not begun is one.
LEMMA NtOutListener ==
    /\ NtOut \in NtListener /\ NtOut.step = "out" /\ NtOut.at = 0 /\ ~NtOut.told /\ ~NtOut.queued
  BY NotifyAssumption DEF NtOut, NtListener, NoChannel
\* A change to one listener changes no other.
LEMMA NtOneListener ==
    ASSUME ntListener \in [Listeners -> NtListener], NEW l \in Listeners, NEW new \in NtListener,
           ntListener' = [ntListener EXCEPT ![l] = new]
    PROVE  /\ ntListener' \in [Listeners -> NtListener]
           /\ ntListener'[l] = new
           /\ \A m \in Listeners : m # l => ntListener'[m] = ntListener[m]
  OBVIOUS

\* What can be said of any listener and any entry in a state of the invariant.
LEMMA NtAtHand ==
    ASSUME NtInv
    PROVE  /\ \A l \in Listeners : ntListener[l] \in NtListener
           /\ \A e \in DOMAIN ntEntries : ntEntries[e] \in NtEntry /\ e \in Nat /\ e # NoChannel
           /\ ntEntries \in Seq(NtEntry) /\ ntListener \in [Listeners -> NtListener]
           /\ DOMAIN ntEntries = 1 .. Len(ntEntries) /\ Len(ntEntries) \in Nat /\ Len(ntEntries) <= NtEntries
           /\ ntCurrent # NoChannel => ntCurrent \in DOMAIN ntEntries
           /\ NtEntries \in Nat
  BY NotifyAssumption DEF NtInv, NtTypeOK, NoChannel

-----------------------------------------------------------------------------
(* The invariant, action by action.                                        *)

\* Joining the channel there is.
LEMMA NtJoinsStep ==
    ASSUME NtInv, NEW l \in Listeners, NtSubscribe(l), ntCurrent # NoChannel
    PROVE  NtInv'
  <1>. USE NtAtHand, NtOutListener DEF NtInv
  <1>. DEFINE e == ntCurrent
              new == [ntEntries[e] EXCEPT !.listeners = @ \union {l}]
              mine == [NtOut EXCEPT !.step = "joining", !.at = e]
  <1>1. /\ e \in DOMAIN ntEntries /\ ntEntries' = [ntEntries EXCEPT ![e] = new]
        /\ UNCHANGED <<ntCurrent, ntShared>> /\ ntListener[l] = NtOut
        /\ ntListener' = [ntListener EXCEPT ![l] = mine]
    BY DEF NtSubscribe
  <1>2. /\ new \in NtEntry /\ new.listeners = ntEntries[e].listeners \union {l}
        /\ new.started = ntEntries[e].started /\ new.ready = ntEntries[e].ready
    BY <1>1 DEF NtEntry
  <1>3. /\ mine \in NtListener /\ mine.step = "joining" /\ mine.at = e
    <2>1. e \in NoChannel .. NtEntries
      BY <1>1 DEF NoChannel
    <2>. QED
      BY <2>1 DEF NtListener, NtOut
  <1>. HIDE DEF new, mine
  <1>4. /\ ntEntries' \in Seq(NtEntry) /\ Len(ntEntries') = Len(ntEntries)
        /\ DOMAIN ntEntries' = DOMAIN ntEntries /\ ntEntries'[e] = new
        /\ \A f \in DOMAIN ntEntries : f # e => ntEntries'[f] = ntEntries[f]
    BY <1>1, <1>2, NtOneEntry
  <1>5. /\ ntListener' \in [Listeners -> NtListener] /\ ntListener'[l] = mine
        /\ \A m \in Listeners : m # l => ntListener'[m] = ntListener[m]
    BY <1>1, <1>3, NtOneListener
  <1>6. NtTypeOK'
    BY <1>1, <1>4, <1>5 DEF NtTypeOK
  <1>7. NtPlaced'
    BY <1>1, <1>2, <1>3, <1>4, <1>5 DEF NtPlaced
  <1>8. NtOneAlive'
    BY <1>1, <1>2, <1>4 DEF NtOneAlive
  <1>9. NtHeard'
    BY <1>1, <1>2, <1>3, <1>4, <1>5 DEF NtHeard, NtPlaced
  <1>. QED
    BY <1>6, <1>7, <1>8, <1>9

\* Making a channel where there is none.
LEMMA NtBeginsStep ==
    ASSUME NtInv, NEW l \in Listeners, NtSubscribe(l), ntCurrent = NoChannel
    PROVE  NtInv'
  <1>. USE NtAtHand, NtOutListener DEF NtInv
  <1>. DEFINE e == Len(ntEntries) + 1
              new == [listeners |-> {l}, ready |-> ~ntShared, started |-> IF ntShared THEN "asked" ELSE "local"]
              mine == [NtOut EXCEPT !.step = "joining", !.at = e]
  <1>1. /\ ntEntries' = Append(ntEntries, new) /\ Len(ntEntries) < NtEntries
        /\ ntCurrent' = e /\ ntShared' = ntShared /\ ntListener[l] = NtOut
        /\ ntListener' = [ntListener EXCEPT ![l] = mine]
    BY DEF NtSubscribe
  <1>2. /\ new \in NtEntry /\ new.listeners = {l} /\ new.started \in {"asked", "local"}
        /\ new.started = "local" <=> ~ntShared
    BY DEF NtEntry, NtTypeOK
  <1>3. /\ mine \in NtListener /\ mine.step = "joining" /\ mine.at = e
    <2>1. e \in NoChannel .. NtEntries
      BY <1>1 DEF NoChannel
    <2>. QED
      BY <2>1 DEF NtListener, NtOut
  <1>. HIDE DEF new, mine
  <1>4. /\ ntEntries' \in Seq(NtEntry) /\ Len(ntEntries') = e
        /\ DOMAIN ntEntries' = DOMAIN ntEntries \union {e} /\ e \notin DOMAIN ntEntries
        /\ ntEntries'[e] = new
        /\ \A f \in DOMAIN ntEntries : ntEntries'[f] = ntEntries[f]
    BY <1>1, <1>2
  <1>5. /\ ntListener' \in [Listeners -> NtListener] /\ ntListener'[l] = mine
        /\ \A m \in Listeners : m # l => ntListener'[m] = ntListener[m]
    BY <1>1, <1>3, NtOneListener
  <1>6. NtTypeOK'
    <2>1. e \in NoChannel .. e /\ e <= NtEntries
      BY <1>1 DEF NoChannel
    <2>. QED
      BY <1>1, <1>4, <1>5, <2>1 DEF NtTypeOK
  <1>7. \A f \in DOMAIN ntEntries : f # e /\ f # ntCurrent /\ l \notin ntEntries[f].listeners
    BY <1>1, <1>4 DEF NtPlaced
  <1>8. \A m \in Listeners : m # l /\ ntListener[m].step # "out" => ntListener[m].at # e
    BY <1>4 DEF NtPlaced
  <1>9. NtPlaced'
    BY <1>1, <1>2, <1>3, <1>4, <1>5, <1>7, <1>8 DEF NtPlaced
  <1>10. NtOneAlive'
    <2>. SUFFICES ASSUME NEW f \in DOMAIN ntEntries'
                  PROVE  /\ ntEntries'[f].started = "local" <=> ~ntShared
                         /\ ntEntries'[f].started \in {"asked", "listening", "rejected"} => f = e
                         /\ f = e => ntEntries'[f].started \notin {"failed", "stopped"} /\ ntEntries'[f].listeners # {}
                         /\ f # e => ntEntries'[f].started = "failed" \/ ntEntries'[f].listeners = {}
      BY <1>1 DEF NtOneAlive
    <2>1. CASE f = e
      BY <1>2, <1>4, <2>1
    <2>2. CASE f # e
      BY <1>4, <1>7, <2>2 DEF NtOneAlive
    <2>. QED
      BY <2>1, <2>2
  <1>11. NtHeard'
    BY <1>3, <1>4, <1>5 DEF NtHeard, NtPlaced
  <1>. QED
    BY <1>6, <1>9, <1>10, <1>11

LEMMA NtReadyStep ==
    ASSUME NtInv, NEW e \in DOMAIN ntEntries, NtReady(e)
    PROVE  NtInv'
  <1>. USE NtAtHand DEF NtInv
  <1>. DEFINE new == [ntEntries[e] EXCEPT !.ready = TRUE]
  <1>1. /\ ntEntries' = [ntEntries EXCEPT ![e] = new] /\ UNCHANGED <<ntShared, ntCurrent>>
        /\ ntListener' = [l \in Listeners |-> IF l \in ntEntries[e].listeners THEN [ntListener[l] EXCEPT !.told = TRUE]
                                              ELSE ntListener[l]]
    BY DEF NtReady
  <1>2. /\ new \in NtEntry /\ new.listeners = ntEntries[e].listeners /\ new.started = ntEntries[e].started
    BY NtEntryReady
  <1>. HIDE DEF new
  <1>3. /\ ntEntries' \in Seq(NtEntry) /\ Len(ntEntries') = Len(ntEntries)
        /\ DOMAIN ntEntries' = DOMAIN ntEntries /\ ntEntries'[e] = new
        /\ \A f \in DOMAIN ntEntries : f # e => ntEntries'[f] = ntEntries[f]
    BY <1>1, <1>2, NtOneEntry
  <1>4. \A l \in Listeners : LET told == [ntListener[l] EXCEPT !.told = TRUE]
          IN  told \in NtListener /\ told.told /\ told.step = ntListener[l].step
              /\ told.at = ntListener[l].at /\ told.queued = ntListener[l].queued
    BY DEF NtListener
  <1>5. /\ ntListener' \in [Listeners -> NtListener]
        /\ \A l \in Listeners : /\ ntListener'[l].step = ntListener[l].step /\ ntListener'[l].at = ntListener[l].at
                                /\ ntListener'[l].queued = ntListener[l].queued
                                /\ l \in ntEntries[e].listeners => ntListener'[l].told
                                /\ l \notin ntEntries[e].listeners => ntListener'[l] = ntListener[l]
    BY <1>1, <1>4
  <1>6. NtTypeOK'
    BY <1>1, <1>3, <1>5 DEF NtTypeOK
  <1>7. NtPlaced'
    BY <1>2, <1>3, <1>5 DEF NtPlaced
  <1>8. NtOneAlive'
    BY <1>1, <1>2, <1>3 DEF NtOneAlive
  <1>9. NtHeard'
    BY <1>2, <1>3, <1>5 DEF NtHeard, NtPlaced
  <1>. QED
    BY <1>6, <1>7, <1>8, <1>9

\* The database answers LISTEN, one way or the other, or the channel forgets that it was refused.
LEMMA NtEntryStep ==
    ASSUME NtInv, NEW e \in DOMAIN ntEntries,
           NtAnswers(e, "listening") \/ NtAnswers(e, "rejected") \/ NtForget(e)
    PROVE  NtInv'
  <1>. USE NtAtHand DEF NtInv
  <1>1. PICK started \in {"listening", "rejected", "failed"} :
          /\ ntEntries' = [ntEntries EXCEPT ![e].started = started] /\ UNCHANGED <<ntShared, ntListener>>
          /\ ntCurrent' = IF started = "failed" /\ ntCurrent = e THEN NoChannel ELSE ntCurrent
          /\ ntEntries[e].started = IF started = "failed" THEN "rejected" ELSE "asked"
    BY DEF NtAnswers, NtForget
  <1>. DEFINE new == [ntEntries[e] EXCEPT !.started = started]
  <1>2. /\ new \in NtEntry /\ new.listeners = ntEntries[e].listeners /\ new.started = started
        /\ new.ready = ntEntries[e].ready
    BY DEF NtEntry
  <1>3. ntEntries' = [ntEntries EXCEPT ![e] = new]
    BY <1>1
  <1>. HIDE DEF new
  <1>4. /\ ntEntries' \in Seq(NtEntry) /\ Len(ntEntries') = Len(ntEntries)
        /\ DOMAIN ntEntries' = DOMAIN ntEntries /\ ntEntries'[e] = new
        /\ \A f \in DOMAIN ntEntries : f # e => ntEntries'[f] = ntEntries[f]
    BY <1>2, <1>3, NtOneEntry
  <1>5. e = ntCurrent
    BY <1>1 DEF NtOneAlive
  <1>6. NtTypeOK'
    BY <1>1, <1>4 DEF NtTypeOK, NoChannel
  <1>7. NtPlaced'
    BY <1>1, <1>2, <1>4 DEF NtPlaced
  <1>8. NtOneAlive'
    BY <1>1, <1>2, <1>4, <1>5 DEF NtOneAlive
  <1>9. NtHeard'
    BY <1>1, <1>2, <1>4 DEF NtHeard, NtPlaced
  <1>. QED
    BY <1>6, <1>7, <1>8, <1>9

\* subscribe returns to its caller, or a microtask tells a listener: no entry changes.
LEMMA NtListenerStep ==
    ASSUME NtInv, NEW l \in Listeners, NtJoined(l) \/ NtMicrotask(l)
    PROVE  NtInv'
  <1>. USE NtAtHand DEF NtInv
  <1>1. PICK step \in {"joining", "joined"}, queued \in BOOLEAN, told \in BOOLEAN :
          /\ ntListener' = [ntListener EXCEPT ![l] = [@ EXCEPT !.step = step, !.queued = queued, !.told = told]]
          /\ UNCHANGED <<ntShared, ntEntries, ntCurrent>>
          /\ ntListener[l].step # "out"
          /\ step = "joined" => ntEntries[ntListener[l].at].started \in {"local", "listening"}
          /\ step = "joined" /\ ntEntries[ntListener[l].at].ready => told \/ queued
    <2>1. CASE NtJoined(l)
      <3>1. ntListener[l].told \in BOOLEAN /\ ntEntries[ntListener[l].at].ready \in BOOLEAN
        BY <2>1 DEF NtListener, NtPlaced, NtEntry, NtJoined
      <3>. DEFINE late == NtTellsLate(l)
      <3>2. /\ ntListener' = [ntListener EXCEPT ![l] = [@ EXCEPT !.step = "joined", !.queued = late,
                                                               !.told = ntListener[l].told]]
        BY <2>1 DEF NtJoined, NtListener
      <3>. QED
        BY <2>1, <3>1, <3>2 DEF NtJoined, NtTellsLate
    <2>2. CASE NtMicrotask(l)
      <3>1. /\ ntListener[l] \in NtListener /\ ntListener[l].queued /\ ntListener[l].step # "out"
            /\ UNCHANGED <<ntShared, ntEntries, ntCurrent>>
        BY <2>2, NtOutListener DEF NtMicrotask, NtPlaced
      <3>2. ntListener[l].step \in {"joining", "joined"}
        BY <3>1 DEF NtListener
      <3>3. ntListener' = [ntListener EXCEPT ![l] = [@ EXCEPT !.step = ntListener[l].step, !.queued = FALSE, !.told = TRUE]]
        BY <2>2, <3>1 DEF NtMicrotask, NtListener
      <3>4. ntListener[l].step = "joined" => ntEntries[ntListener[l].at].started \in {"local", "listening"}
        BY DEF NtHeard
      <3>. QED
        BY <3>1, <3>2, <3>3, <3>4
    <2>. QED
      BY <2>1, <2>2
  <1>. DEFINE new == [ntListener[l] EXCEPT !.step = step, !.queued = queued, !.told = told]
  <1>2. /\ new \in NtListener /\ new.step = step /\ new.queued = queued /\ new.told = told
        /\ new.at = ntListener[l].at
    BY DEF NtListener
  <1>3. ntListener' = [ntListener EXCEPT ![l] = new]
    BY <1>1
  <1>. HIDE DEF new
  <1>4. /\ ntListener' \in [Listeners -> NtListener] /\ ntListener'[l] = new
        /\ \A m \in Listeners : m # l => ntListener'[m] = ntListener[m]
    BY <1>2, <1>3, NtOneListener
  <1>5. NtTypeOK'
    BY <1>1, <1>4 DEF NtTypeOK
  <1>6. NtPlaced'
    BY <1>1, <1>2, <1>4 DEF NtPlaced
  <1>7. NtOneAlive'
    BY <1>1 DEF NtOneAlive
  <1>8. NtHeard'
    BY <1>1, <1>2, <1>4 DEF NtHeard
  <1>. QED
    BY <1>5, <1>6, <1>7, <1>8

\* A listener goes: the last one ends the channel, and one that was refused leaves its entry.
LEMMA NtGoesStep ==
    ASSUME NtInv, NEW l \in Listeners, NtThrows(l) \/ NtLeave(l)
    PROVE  NtInv'
  <1>. USE NtAtHand, NtOutListener DEF NtInv
  <1>. DEFINE e == ntListener[l].at
              ends == ntListener[l].step = "joined" /\ NtIsLast(e, l)
              started == IF ends /\ ntShared THEN "stopped" ELSE ntEntries[e].started
              new == [ntEntries[e] EXCEPT !.listeners = @ \ {l}, !.started = started]
  <1>1. /\ e \in DOMAIN ntEntries /\ l \in ntEntries[e].listeners
        /\ ntListener[l].step = "joined" => e = ntCurrent
    BY DEF NtPlaced, NtThrows, NtLeave, NtHeard, NtOneAlive
  <1>2. /\ ntEntries' = [ntEntries EXCEPT ![e] = new]
        /\ ntListener' = [ntListener EXCEPT ![l] = NtOut]
        /\ ntCurrent' = (IF ends THEN NoChannel ELSE ntCurrent) /\ ntShared' = ntShared
        /\ ntListener[l].step = "joined" \/ ntEntries[e].started = "failed"
    <2>1. CASE NtThrows(l)
      <3>1. ~ends /\ ntEntries[e].started = "failed"
        BY <2>1 DEF NtThrows
      <3>2. [ntEntries[e] EXCEPT !.listeners = @ \ {l}] = new
        BY <1>1, <3>1 DEF NtEntry
      <3>. QED
        BY <2>1, <3>1, <3>2 DEF NtThrows
    <2>2. CASE NtLeave(l)
      BY <1>1, <2>2 DEF NtLeave
    <2>. QED
      BY <2>1, <2>2
  <1>3. /\ new \in NtEntry /\ new.listeners = ntEntries[e].listeners \ {l} /\ new.started = started
        /\ new.ready = ntEntries[e].ready
    BY ZenonT(30), <1>1 DEF NtEntry
  <1>4. ends <=> e = ntCurrent /\ ntListener[l].step = "joined" /\ ntEntries[e].listeners = {l}
    BY DEF NtIsLast
  <1>5. started = (IF ends /\ ntShared THEN "stopped" ELSE ntEntries[e].started)
    OBVIOUS
  <1>. HIDE DEF new, ends, started
  <1>6. /\ ntEntries' \in Seq(NtEntry) /\ Len(ntEntries') = Len(ntEntries)
        /\ DOMAIN ntEntries' = DOMAIN ntEntries /\ ntEntries'[e] = new
        /\ \A f \in DOMAIN ntEntries : f # e => ntEntries'[f] = ntEntries[f]
    BY <1>1, <1>2, <1>3, NtOneEntry
  <1>7. /\ ntListener' \in [Listeners -> NtListener] /\ ntListener'[l] = NtOut
        /\ \A m \in Listeners : m # l => ntListener'[m] = ntListener[m]
    BY <1>2, NtOneListener
  <1>8. NtTypeOK'
    BY <1>2, <1>6, <1>7 DEF NtTypeOK, NoChannel
  <1>9. NtPlaced'
    BY SMTT(30), <1>3, <1>6, <1>7 DEF NtPlaced
  <1>10. NtOneAlive'
    <2>. SUFFICES ASSUME NEW f \in DOMAIN ntEntries
                  PROVE  /\ ntEntries'[f].started = "local" <=> ~ntShared
                         /\ ntEntries'[f].started \in {"asked", "listening", "rejected"} => f = ntCurrent'
                         /\ f = ntCurrent' => ntEntries'[f].started \notin {"failed", "stopped"} /\ ntEntries'[f].listeners # {}
                         /\ f # ntCurrent' => ntEntries'[f].started = "failed" \/ ntEntries'[f].listeners = {}
      BY <1>2, <1>6 DEF NtOneAlive
    <2>1. CASE f # e
      BY <1>2, <1>4, <1>6, <2>1 DEF NtOneAlive
    <2>2. CASE f = e /\ ends
      BY <1>2, <1>3, <1>4, <1>5, <1>6, <2>2 DEF NtOneAlive, NtHeard
    <2>3. CASE f = e /\ ~ends
      <3>1. new.started = ntEntries[e].started /\ ntCurrent' = ntCurrent
        BY <1>2, <1>3, <1>5, <2>3
      <3>2. e = ntCurrent => new.listeners # {}
        BY <1>1, <1>2, <1>3, <1>4, <2>3 DEF NtOneAlive
      <3>. QED
        BY <1>3, <1>6, <2>3, <3>1, <3>2 DEF NtOneAlive
    <2>. QED
      BY <2>1, <2>2, <2>3
  <1>11. NtHeard'
    <2>. SUFFICES ASSUME NEW m \in Listeners, ntListener'[m].step = "joined"
                  PROVE  /\ ntEntries'[ntListener'[m].at].started \in {"local", "listening"}
                         /\ ntEntries'[ntListener'[m].at].ready => ntListener'[m].told \/ ntListener'[m].queued
      BY DEF NtHeard
    <2>1. m # l /\ ntListener'[m] = ntListener[m] /\ ntListener[m].at \in DOMAIN ntEntries
      BY <1>7 DEF NtPlaced
    <2>2. CASE ntListener[m].at # e
      BY <1>6, <2>1, <2>2 DEF NtHeard
    <2>3. CASE ntListener[m].at = e
      <3>1. m \in ntEntries[e].listeners
        BY <1>1, <2>1, <2>3 DEF NtPlaced
      <3>2. ~ends
        BY <1>4, <2>1, <3>1
      <3>. QED
        BY <1>3, <1>5, <1>6, <2>1, <2>3, <3>2 DEF NtHeard
    <2>. QED
      BY <2>2, <2>3
  <1>. QED
    BY <1>8, <1>9, <1>10, <1>11

-----------------------------------------------------------------------------
(* The theorems.                                                           *)

LEMMA NtInitInv == NtInit => NtInv
  <1>. SUFFICES ASSUME NtInit PROVE NtInv
    OBVIOUS
  <1>. USE NtOutListener
  <1>1. NtTypeOK
    BY NotifyAssumption DEF NtInit, NtTypeOK, NoChannel
  <1>2. \A l \in Listeners : ntListener[l] = NtOut
    BY DEF NtInit
  <1>3. DOMAIN ntEntries = {}
    BY DEF NtInit
  <1>. QED
    BY <1>1, <1>2, <1>3 DEF NtInv, NtPlaced, NtOneAlive, NtHeard

LEMMA NtNextInv == NtInv /\ [NtNext]_ntVars => NtInv'
  <1>. SUFFICES ASSUME NtInv, [NtNext]_ntVars PROVE NtInv'
    OBVIOUS
  <1>1. ASSUME NEW l \in Listeners, NtSubscribe(l) PROVE NtInv'
    BY <1>1, NtJoinsStep, NtBeginsStep
  <1>2. ASSUME NEW l \in Listeners, NtJoined(l) \/ NtMicrotask(l) PROVE NtInv'
    BY <1>2, NtListenerStep
  <1>3. ASSUME NEW l \in Listeners, NtThrows(l) \/ NtLeave(l) PROVE NtInv'
    BY <1>3, NtGoesStep
  <1>4. ASSUME NEW e \in DOMAIN ntEntries, NtReady(e) PROVE NtInv'
    BY <1>4, NtReadyStep
  <1>5. ASSUME NEW e \in DOMAIN ntEntries, NtAnswers(e, "listening") \/ NtAnswers(e, "rejected") \/ NtForget(e)
        PROVE  NtInv'
    BY <1>5, NtEntryStep
  <1>6. CASE UNCHANGED ntVars
    BY <1>6 DEF ntVars, NtInv, NtTypeOK, NtPlaced, NtOneAlive, NtHeard
  <1>. QED
    BY <1>1, <1>2, <1>3, <1>4, <1>5, <1>6 DEF NtNext

\* The invariant holds of every behaviour of the hub: listeners are where their closures say,
\* one entry is alive, and who joined it has heard or will hear that it is ready.
THEOREM NtInvariance == NtSpec => []NtInv
  BY NtInitInv, NtNextInv, PTL DEF NtSpec

\* The hub of notify.ts keeps its types.
THEOREM NtTypeCorrect == NtSpec => []NtTypeOK
  <1>1. NtInv => NtTypeOK
    BY DEF NtInv
  <1>. QED
    BY <1>1, NtInvariance, PTL

LEMMA InvHears == NtInv => NtHears
  <1>. SUFFICES ASSUME NtInv PROVE NtHears
    OBVIOUS
  <1>. USE NtAtHand DEF NtInv
  <1>1. ASSUME NEW l \in Listeners, ntListener[l].step = "joined"
        PROVE  LET e == ntListener[l].at IN
               /\ l \in NtReached /\ ntCurrent = e
               /\ ntEntries[e].started \in {"local", "listening"}
               /\ ntEntries[e].ready => ntListener[l].told \/ ntListener[l].queued
    <2>. DEFINE e == ntListener[l].at
    <2>1. e \in DOMAIN ntEntries /\ l \in ntEntries[e].listeners
      BY <1>1 DEF NtPlaced
    <2>2. /\ ntEntries[e].started \in {"local", "listening"}
          /\ ntEntries[e].ready => ntListener[l].told \/ ntListener[l].queued
      BY <1>1 DEF NtHeard
    <2>3. ntCurrent = e
      BY <2>1, <2>2 DEF NtOneAlive
    <2>. QED
      BY <2>1, <2>2, <2>3 DEF NtReached
  <1>2. ASSUME NEW e \in DOMAIN ntEntries, ntEntries[e].listeners = {}
        PROVE  ntEntries[e].started \in {"local", "failed", "stopped"}
    BY <1>2 DEF NtOneAlive, NtEntry
  <1>. QED
    BY <1>1, <1>2 DEF NtHears

\* However many listeners join and leave a channel, and however often its database refuses:
\* whoever has joined hears it, and a subscription without listeners is stopped.
THEOREM JoinedHear == NtSpec => []NtHears
  BY NtInvariance, InvHears, PTL

-----------------------------------------------------------------------------
(* A WebSocket.                                                            *)

-----------------------------------------------------------------------------
(* The inductive invariant.                                                *)

\* No close frame is written before the closing handshake has begun, and none after it; a socket
\* that is closed is destroyed, and its end is told once.
ServerKept(w) ==
    /\ w \in Server
    /\ w.state \in {"asked", "refused", "open"} => w.closes = 0
    /\ w.closes <= 1 /\ ~w.afterwards
    /\ w.state = "closed" => w.destroyed
    /\ w.told # << >> => Len(w.told) = 1 /\ w.state = "closed" /\ ~w.timer

IsData(f) == f.op \in {"text", "cont"}

\* The frames of a message are numbered, and none follows the last; the client is in the message
\* it has sent latest.
SentOrdered(sent, msg, part) ==
    /\ \A m \in 1 .. Messages :
        /\ sent[m] = << >> <=> m > msg
        /\ \A p \in 1 .. Len(sent[m]) :
             /\ sent[m][p].msg = m /\ sent[m][p].part = p
             /\ sent[m][p].op = (IF p = 1 THEN "text" ELSE "cont")
             /\ sent[m][p].fin => p = Len(sent[m])
    /\ part # 0 => msg # 0 /\ part = Len(sent[msg]) /\ ~sent[msg][part].fin

\* The messages the route was given are whole, and what is kept of the next is its beginning.
GivenOrdered(delivered, fragments, sent) ==
    /\ Len(delivered) <= Messages
    /\ \A i \in 1 .. Len(delivered) :
        delivered[i] = sent[i] /\ sent[i] # << >> /\ sent[i][Len(sent[i])].fin
    /\ fragments # << >> =>
        /\ Len(delivered) < Messages
        /\ Len(fragments) <= Len(sent[Len(delivered) + 1])
        /\ \A q \in 1 .. Len(fragments) :
             fragments[q] = sent[Len(delivered) + 1][q] /\ ~fragments[q].fin

\* A server that has given d messages and keeps q frames of the next has read the p-th frame of m.
HasRead(m, p, d, q) == m <= d \/ (m = d + 1 /\ p <= q)

\* Frame f is among the first n on their way.
Among(f, n, wire) == \E i \in 1 .. Len(wire) : i <= n /\ wire[i] = f

\* The j-th frame on its way was sent and not read, and whatever was sent before it was read or
\* is before it.
OnItsWay(j, wire, sent, d, q) ==
    LET m == wire[j].msg
        p == wire[j].part IN
    /\ m \in 1 .. Messages /\ p \in 1 .. Len(sent[m]) /\ wire[j] = sent[m][p]
    /\ ~HasRead(m, p, d, q)
    /\ \A i \in 1 .. Len(wire) : IsData(wire[i]) /\ i < j =>
          wire[i].msg < m \/ (wire[i].msg = m /\ wire[i].part < p)
    /\ p > 1 => HasRead(m, p - 1, d, q) \/ Among(sent[m][p - 1], j - 1, wire)
    /\ p = 1 /\ m > 1 =>
          \/ HasRead(m - 1, Len(sent[m - 1]), d, q)
          \/ Among(sent[m - 1][Len(sent[m - 1])], j - 1, wire)

WireOrdered(wire, sent, d, q) ==
    /\ \A j \in 1 .. Len(wire) : IsData(wire[j]) => OnItsWay(j, wire, sent, d, q)
    /\ \A m \in 1 .. Messages : \A p \in 1 .. Len(sent[m]) :
          HasRead(m, p, d, q) \/ Among(sent[m][p], Len(wire), wire)

SentInOrder == SentOrdered(wsSent, wsClient.msg, wsClient.part)
GivenInOrder == GivenOrdered(wsDelivered, wsServer.fragments, wsSent)
WireInOrder == WireOrdered(wsWire, wsSent, Len(wsDelivered), Len(wsServer.fragments))

WsInv ==
    /\ WsTypeOK /\ ServerKept(wsServer)
    /\ SentInOrder /\ GivenInOrder
    /\ ~wsServer.paused => WireInOrder

-----------------------------------------------------------------------------
(* What the functions of the module make of the server.                    *)

\* What neither writing nor closing touches.
Keeps(w, v) ==
    /\ v.fragments = w.fragments /\ v.bytes = w.bytes /\ v.told = w.told /\ v.received = w.received

LEMMA WsCodesAre == NoCode \notin Codes /\ {NormalClosure, GoingAway, ProtocolError, AbnormalClosure, TooLarge, InternalError, Overflow} = Codes
  <1>1. Codes \subseteq Nat
    BY DEF Codes, NormalClosure, GoingAway, ProtocolError, AbnormalClosure, TooLarge, InternalError, Overflow
  <1>. QED
    BY <1>1, WebSocketAssumption DEF Codes

LEMMA WrittenIs ==
    ASSUME NEW w \in Server, NEW kind
    PROVE  /\ Written(w, kind) \in Server /\ Keeps(w, Written(w, kind))
           /\ Written(w, kind).state = w.state /\ Written(w, kind).timer = w.timer
           /\ Written(w, kind).paused = w.paused /\ Written(w, kind).destroyed = w.destroyed
           /\ Written(w, kind).closes \in {w.closes, w.closes + 1}
           /\ kind # "close" => Written(w, kind).closes = w.closes
           /\ Written(w, kind).afterwards => w.afterwards \/ w.closes > 0
  <1>. DEFINE closes == IF kind = "close" THEN w.closes + 1 ELSE w.closes
              afterwards == w.afterwards \/ w.closes > 0
              buffered == IF kind = "data" THEN w.buffered + 1 ELSE w.buffered
              v == [w EXCEPT !.closes = closes, !.afterwards = afterwards, !.buffered = buffered]
  <1>1. Written(w, kind) = IF w.destroyed \/ w.ended THEN w ELSE v
    BY DEF Written
  <1>2. w.closes \in Nat /\ w.buffered \in Nat
    BY DEF Server
  <1>3. closes \in Nat /\ closes \in {w.closes, w.closes + 1} /\ (kind # "close" => closes = w.closes) /\ buffered \in Nat
    BY <1>2
  <1>4. afterwards \in BOOLEAN /\ (afterwards => w.afterwards \/ w.closes > 0)
    OBVIOUS
  <1>. HIDE DEF closes, afterwards, buffered
  <1>5. v \in Server
    BY <1>3, <1>4 DEF Server
  <1>6. /\ v.state = w.state /\ v.timer = w.timer /\ v.paused = w.paused /\ v.destroyed = w.destroyed
        /\ v.fragments = w.fragments /\ v.bytes = w.bytes /\ v.told = w.told /\ v.received = w.received
        /\ v.closes = closes /\ v.afterwards = afterwards
    BY DEF Server
  <1>. HIDE DEF v
  <1>. QED
    BY <1>1, <1>2, <1>3, <1>4, <1>5, <1>6 DEF Keeps

LEMMA WrittenKeeps ==
    ASSUME NEW w, ServerKept(w), NEW kind, w.state = "open", kind # "close"
    PROVE  /\ ServerKept(Written(w, kind)) /\ Keeps(w, Written(w, kind)) /\ Written(w, kind).state = w.state
           /\ Written(w, kind).paused = w.paused /\ Written(w, kind).destroyed = w.destroyed
  <1>. DEFINE v == Written(w, kind)
  <1>1. w \in Server /\ w.closes = 0 /\ ~w.afterwards
    BY DEF ServerKept
  <1>2. /\ v \in Server /\ Keeps(w, v) /\ v.state = w.state /\ v.timer = w.timer
        /\ v.paused = w.paused /\ v.destroyed = w.destroyed /\ v.closes = w.closes
        /\ v.afterwards => w.afterwards \/ w.closes > 0
    BY <1>1, WrittenIs
  <1>. HIDE DEF v
  <1>3. ServerKept(v)
    BY <1>1, <1>2 DEF ServerKept, Keeps
  <1>. QED
    BY <1>2, <1>3 DEF v

LEMMA WrittenWhileOpenKeeps ==
    ASSUME NEW w, ServerKept(w), NEW kind, kind # "close"
    PROVE  /\ ServerKept(WrittenWhileOpen(w, kind)) /\ Keeps(w, WrittenWhileOpen(w, kind))
           /\ WrittenWhileOpen(w, kind).paused = w.paused
  BY WrittenKeeps DEF WrittenWhileOpen, Keeps

\* A close frame is written when the handshake begins.
LEMMA CloseWritten ==
    ASSUME NEW w, ServerKept(w), w.state = "open"
    PROVE  /\ Written(w, "close") \in Server /\ Keeps(w, Written(w, "close"))
           /\ Written(w, "close").paused = w.paused /\ Written(w, "close").destroyed = w.destroyed
           /\ Written(w, "close").closes <= 1 /\ ~Written(w, "close").afterwards
           /\ Written(w, "close").told = << >>
  <1>1. w \in Server /\ w.closes = 0 /\ ~w.afterwards /\ w.told = << >>
    BY DEF ServerKept
  <1>. QED
    BY <1>1, WrittenIs DEF Keeps

LEMMA CloseStartedKeeps ==
    ASSUME NEW w, ServerKept(w), NEW code \in Codes
    PROVE  /\ ServerKept(CloseStarted(w, code)) /\ Keeps(w, CloseStarted(w, code))
           /\ CloseStarted(w, code).paused = w.paused
  <1>1. CASE w.state # "open"
    BY <1>1 DEF CloseStarted, Keeps
  <1>2. CASE w.state = "open"
    <2>. DEFINE u == Written(w, "close")
                v == [u EXCEPT !.state = "closing", !.local = code, !.timer = TRUE]
    <2>1. /\ u \in Server /\ Keeps(w, u) /\ u.paused = w.paused /\ u.closes <= 1 /\ ~u.afterwards /\ u.told = << >>
      BY <1>2, CloseWritten
    <2>2. CloseStarted(w, code) = v
      BY <1>2 DEF CloseStarted
    <2>. HIDE DEF u
    <2>3. v \in Server
      BY <2>1 DEF Server
    <2>4. /\ v.state = "closing" /\ v.paused = u.paused /\ v.closes = u.closes /\ v.told = u.told
          /\ v.fragments = u.fragments /\ v.bytes = u.bytes /\ v.received = u.received /\ v.afterwards = u.afterwards
      BY <2>1 DEF Server
    <2>. HIDE DEF v
    <2>. QED
      BY <2>1, <2>2, <2>3, <2>4 DEF ServerKept, Keeps
  <1>. QED
    BY <1>1, <1>2

LEMMA FailedKeeps ==
    ASSUME NEW w, ServerKept(w), NEW code \in Codes
    PROVE  ServerKept(Failed(w, code)) /\ Keeps(w, Failed(w, code)) /\ Failed(w, code).paused
  <1>. DEFINE u == CloseStarted(w, code)
              v == [u EXCEPT !.paused = TRUE]
  <1>1. ServerKept(u) /\ Keeps(w, u) /\ u \in Server
    BY CloseStartedKeeps DEF ServerKept
  <1>2. Failed(w, code) = v
    BY DEF Failed
  <1>. HIDE DEF u
  <1>3. v \in Server
    BY <1>1 DEF Server
  <1>4. /\ v.state = u.state /\ v.destroyed = u.destroyed /\ v.closes = u.closes /\ v.told = u.told /\ v.timer = u.timer
        /\ v.fragments = u.fragments /\ v.bytes = u.bytes /\ v.received = u.received /\ v.afterwards = u.afterwards
    BY <1>1 DEF Server
  <1>5. v.paused
    BY <1>1 DEF Server
  <1>. HIDE DEF v
  <1>. QED
    BY <1>1, <1>2, <1>3, <1>4, <1>5 DEF ServerKept, Keeps

LEMMA TerminatedKeeps ==
    ASSUME NEW w, ServerKept(w), NEW code \in Codes, w.told = << >>
    PROVE  ServerKept(Terminated(w, code)) /\ Keeps(w, Terminated(w, code)) /\ Terminated(w, code).paused = w.paused
  <1>. DEFINE local == IF w.local = NoCode THEN code ELSE w.local
              v == [w EXCEPT !.local = local, !.state = "closed", !.destroyed = TRUE]
  <1>1. w \in Server
    BY DEF ServerKept
  <1>2. Terminated(w, code) = v /\ local \in Codes \union {NoCode}
    BY <1>1 DEF Terminated, Server
  <1>. HIDE DEF local
  <1>3. v \in Server
    BY <1>1, <1>2 DEF Server
  <1>4. /\ v.state = "closed" /\ v.closes = w.closes /\ v.told = w.told /\ v.timer = w.timer
        /\ v.fragments = w.fragments /\ v.bytes = w.bytes /\ v.received = w.received /\ v.afterwards = w.afterwards
        /\ v.paused = w.paused
    BY <1>1 DEF Server
  <1>5. v.destroyed
    BY <1>1 DEF Server
  <1>. HIDE DEF v
  <1>. QED
    BY <1>2, <1>3, <1>4, <1>5 DEF ServerKept, Keeps

LEMMA EchoedKeeps ==
    ASSUME NEW w, ServerKept(w)
    PROVE  ServerKept(Echoed(w)) /\ Echoed(w).fragments = w.fragments /\ Echoed(w).paused = w.paused
  <1>. DEFINE u == Written(w, "close")
              c == [u EXCEPT !.state = "closing"]
              b == IF w.state = "open" THEN c ELSE w
              v == [b EXCEPT !.received = NormalClosure, !.ended = TRUE]
  <1>1. Echoed(w) = v
    BY DEF Echoed
  <1>2. ServerKept(b) /\ b.fragments = w.fragments /\ b.paused = w.paused
    <2>1. CASE w.state = "open"
      <3>1. /\ u \in Server /\ Keeps(w, u) /\ u.paused = w.paused /\ u.closes <= 1 /\ ~u.afterwards /\ u.told = << >>
        BY <2>1, CloseWritten
      <3>. HIDE DEF u
      <3>2. c \in Server /\ c.state = "closing" /\ c.fragments = u.fragments /\ c.paused = u.paused
            /\ c.closes = u.closes /\ c.told = u.told /\ c.afterwards = u.afterwards
        BY <3>1 DEF Server
      <3>. HIDE DEF c
      <3>. QED
        BY <2>1, <3>1, <3>2 DEF ServerKept, Keeps
    <2>2. CASE w.state # "open"
      BY <2>2
    <2>. QED
      BY <2>1, <2>2
  <1>. HIDE DEF b
  <1>3. b \in Server
    BY <1>2 DEF ServerKept
  <1>4. v \in Server
    BY <1>3 DEF Server
  <1>5. /\ v.state = b.state /\ v.fragments = b.fragments /\ v.paused = b.paused /\ v.closes = b.closes
        /\ v.told = b.told /\ v.timer = b.timer /\ v.destroyed = b.destroyed /\ v.afterwards = b.afterwards
    BY <1>3 DEF Server
  <1>. HIDE DEF v
  <1>. QED
    BY <1>1, <1>2, <1>4, <1>5 DEF ServerKept

\* The frame that arrives counts, unless it is a control frame.
Counting(w, bytes) == [w EXCEPT !.bytes = bytes]

LEMMA CountedKeeps ==
    ASSUME NEW w, ServerKept(w), NEW bytes \in Nat
    PROVE  /\ ServerKept(Counting(w, bytes)) /\ Counting(w, bytes).fragments = w.fragments
           /\ Counting(w, bytes).paused = w.paused
  <1>. DEFINE v == [w EXCEPT !.bytes = bytes]
  <1>1. w \in Server
    BY DEF ServerKept
  <1>2. v \in Server
    BY <1>1 DEF Server
  <1>3. /\ v.state = w.state /\ v.fragments = w.fragments /\ v.paused = w.paused /\ v.closes = w.closes
        /\ v.told = w.told /\ v.timer = w.timer /\ v.destroyed = w.destroyed /\ v.afterwards = w.afterwards
    BY <1>1 DEF Server
  <1>. HIDE DEF v
  <1>4. ServerKept(v)
    BY <1>2, <1>3 DEF ServerKept
  <1>. QED
    BY <1>3, <1>4 DEF v, Counting

Holding(w, fragments, bytes) == [w EXCEPT !.fragments = fragments, !.bytes = bytes]

LEMMA FragmentsKeep ==
    ASSUME NEW w, ServerKept(w), NEW fragments \in Seq(Frame), NEW bytes \in Nat
    PROVE  /\ ServerKept(Holding(w, fragments, bytes))
           /\ Holding(w, fragments, bytes).fragments = fragments
           /\ Holding(w, fragments, bytes).paused = w.paused
  <1>. DEFINE v == [w EXCEPT !.fragments = fragments, !.bytes = bytes]
  <1>1. w \in Server
    BY DEF ServerKept
  <1>2. v \in Server
    BY <1>1 DEF Server
  <1>3. /\ v.state = w.state /\ v.fragments = fragments /\ v.paused = w.paused /\ v.closes = w.closes
        /\ v.told = w.told /\ v.timer = w.timer /\ v.destroyed = w.destroyed /\ v.afterwards = w.afterwards
    BY <1>1 DEF Server
  <1>. HIDE DEF v
  <1>4. ServerKept(v)
    BY <1>2, <1>3 DEF ServerKept
  <1>. QED
    BY <1>3, <1>4 DEF v, Holding

\* A message begins, goes on, or is whole.
JoinsAs(w, f, v) ==
    v.paused = w.paused /\ v.fragments = (IF f.fin THEN << >> ELSE Append(w.fragments, f))

LEMMA JoinedKeeps ==
    ASSUME NEW w, ServerKept(w), NEW f \in Frame, IsData(f), f.op = "text" <=> w.fragments = << >>
    PROVE  ServerKept(Joined(w, f)) /\ JoinsAs(w, f, Joined(w, f))
  <1>1. w \in Server /\ w.fragments \in Seq(Frame) /\ w.bytes \in Nat
    BY DEF ServerKept, Server
  <1>2. w = [w EXCEPT !.bytes = w.bytes]
    BY <1>1 DEF Server
  <1>. DEFINE more == Append(w.fragments, f)
  <1>3. more \in Seq(Frame) /\ << >> \in Seq(Frame) /\ 0 \in Nat /\ <<f>> \in Seq(Frame)
    BY <1>1
  <1>4. f.fin \in BOOLEAN /\ f.op \in {"text", "cont"}
    BY DEF Frame, IsData
  <1>5. CASE f.op = "text" /\ f.fin
    <2>1. Joined(w, f) = w
      BY <1>5 DEF Joined
    <2>. QED
      BY <2>1, <1>5 DEF JoinsAs
  <1>6. CASE f.op = "text" /\ ~f.fin
    <2>1. more = <<f>>
      <3>1. more = Append(<< >>, f)
        BY <1>6
      <3>. QED
        BY <3>1
    <2>2. Joined(w, f) = [w EXCEPT !.fragments = <<f>>]
      BY <1>6 DEF Joined
    <2>. DEFINE v == Holding(w, <<f>>, w.bytes)
    <2>3. Joined(w, f) = v
      BY <1>1, <2>2 DEF Server, Holding
    <2>4. ServerKept(v) /\ v.fragments = <<f>> /\ v.paused = w.paused
      BY <1>1, <1>3, FragmentsKeep
    <2>. HIDE DEF v
    <2>. QED
      BY <1>6, <2>1, <2>3, <2>4 DEF JoinsAs
  <1>7. CASE f.op = "cont" /\ f.fin
    <2>. DEFINE v == Holding(w, << >>, 0)
    <2>1. Joined(w, f) = v
      BY <1>7 DEF Joined, Holding
    <2>2. ServerKept(v) /\ v.fragments = << >> /\ v.paused = w.paused
      BY <1>3, FragmentsKeep
    <2>. HIDE DEF v
    <2>. QED
      BY <1>7, <2>1, <2>2 DEF JoinsAs
  <1>8. CASE f.op = "cont" /\ ~f.fin
    <2>. DEFINE v == Holding(w, more, w.bytes)
    <2>1. Joined(w, f) = [w EXCEPT !.fragments = more]
      BY <1>8 DEF Joined
    <2>2. Joined(w, f) = v
      BY <1>1, <2>1 DEF Server, Holding
    <2>3. ServerKept(v) /\ v.fragments = more /\ v.paused = w.paused
      BY <1>1, <1>3, FragmentsKeep
    <2>. HIDE DEF v
    <2>. QED
      BY <1>8, <2>2, <2>3 DEF JoinsAs
  <1>. QED
    BY <1>4, <1>5, <1>6, <1>7, <1>8

\* What a frame does: the connection fails, or the frame is a control frame, or it is the next of
\* a message.
LEMMA HandledKeeps ==
    ASSUME NEW w, ServerKept(w), NEW f \in Frame
    PROVE  /\ ServerKept(Handled(w, f))
           /\ \/ ~Delivers(w, f) /\ Handled(w, f).fragments = w.fragments
                 /\ (Handled(w, f).paused \/ (~IsData(f) /\ Handled(w, f).paused = w.paused))
              \/ /\ IsData(f) /\ (Delivers(w, f) <=> f.fin) /\ (f.op = "text" <=> w.fragments = << >>)
                 /\ JoinsAs(w, f, Handled(w, f))
  <1>. DEFINE bytes == IF IsControl(f) THEN w.bytes ELSE w.bytes + f.size
              counted == Counting(w, bytes)
  <1>1. w.bytes \in Nat /\ f.size \in Nat /\ f.op \in {"text", "cont", "close", "ping", "pong", "bad"}
    <2>1. w \in Server
      BY DEF ServerKept
    <2>2. w.bytes \in Nat
      BY <2>1 DEF Server
    <2>3. f.size \in Sizes \union {0} /\ f.op \in {"text", "cont", "close", "ping", "pong", "bad"}
      BY DEF Frame
    <2>4. Sizes \subseteq Nat
      BY WebSocketAssumption
    <2>5. Sizes \union {0} \subseteq Nat
      <3>1. 0 \in Nat
        OBVIOUS
      <3>. QED
        BY <2>4, <3>1, Zenon
    <2>6. f.size \in Nat
      BY <2>3, <2>5, Zenon
    <2>. QED
      BY <2>2, <2>3, <2>6
  <1>2. bytes \in Nat
    BY <1>1
  <1>3. ServerKept(counted) /\ counted.fragments = w.fragments /\ counted.paused = w.paused
    BY <1>2, CountedKeeps
  <1>4. Handled(w, f) = CASE f.op = "close" -> Echoed(w)
                          [] f.op = "ping"  -> WrittenWhileOpen(w, "pong")
                          [] f.op = "pong"  -> w
                          [] Oversized(w, f) -> Failed(w, TooLarge)
                          [] OTHER -> IF OutOfTurn(counted, f) THEN Failed(counted, ProtocolError)
                                      ELSE Joined(counted, f)
    BY DEF Handled, Counting
  <1>. HIDE DEF counted
  <1>5. TooLarge \in Codes /\ ProtocolError \in Codes
    BY DEF Codes
  <1>6. OutOfTurn(counted, f) <=> OutOfTurn(w, f)
    BY <1>3 DEF OutOfTurn
  <1>7. CASE f.op = "close"
    <2>1. Handled(w, f) = Echoed(w)
      BY <1>4, <1>7 DEF Oversized, IsControl
    <2>. QED
      BY <1>7, <2>1, EchoedKeeps DEF IsData, Delivers
  <1>8. CASE f.op = "ping"
    <2>1. Handled(w, f) = WrittenWhileOpen(w, "pong")
      BY <1>4, <1>8 DEF Oversized, IsControl
    <2>. QED
      BY <1>8, <2>1, WrittenWhileOpenKeeps DEF IsData, Delivers, Keeps
  <1>9. CASE f.op = "pong"
    <2>1. Handled(w, f) = w
      BY <1>4, <1>9 DEF Oversized, IsControl
    <2>. QED
      BY <1>9, <2>1 DEF IsData, Delivers
  <1>10. CASE ~IsControl(f) /\ Oversized(w, f)
    <2>1. Handled(w, f) = Failed(w, TooLarge)
      BY <1>4, <1>10 DEF IsControl
    <2>. QED
      BY <1>5, <1>10, <2>1, FailedKeeps DEF Delivers, Keeps
  <1>11. CASE ~IsControl(f) /\ ~Oversized(w, f) /\ OutOfTurn(w, f)
    <2>1. Handled(w, f) = Failed(counted, ProtocolError)
      BY <1>4, <1>6, <1>11 DEF IsControl
    <2>. QED
      BY <1>3, <1>5, <1>11, <2>1, FailedKeeps DEF Delivers, Keeps
  <1>12. CASE ~IsControl(f) /\ ~Oversized(w, f) /\ ~OutOfTurn(w, f)
    <2>1. Handled(w, f) = Joined(counted, f)
      BY <1>4, <1>6, <1>12 DEF IsControl
    <2>2. IsData(f) /\ (f.op = "text" <=> w.fragments = << >>)
      BY <1>1, <1>12 DEF IsControl, OutOfTurn, IsData
    <2>3. ServerKept(Joined(counted, f)) /\ JoinsAs(w, f, Joined(counted, f))
      BY <1>3, <2>2, JoinedKeeps DEF JoinsAs
    <2>4. Delivers(w, f) <=> f.fin
      BY <1>12, <2>2 DEF Delivers, IsData
    <2>. QED
      BY <2>1, <2>2, <2>3, <2>4
  <1>. QED
    BY <1>7, <1>8, <1>9, <1>10, <1>11, <1>12 DEF IsControl


-----------------------------------------------------------------------------
(* The frames on their way.                                                *)

SentFrames == [1 .. Messages -> Seq(Frame)]

LEMMA SentIs ==
    ASSUME NEW sent \in SentFrames, NEW m \in 1 .. Messages
    PROVE  /\ sent[m] \in Seq(Frame) /\ Len(sent[m]) \in Nat /\ (sent[m] = << >> <=> Len(sent[m]) = 0)
           /\ m \in Nat /\ Messages \in Nat
           /\ \A p \in 1 .. Len(sent[m]) : sent[m][p] \in Frame /\ p \in Nat
  <1>1. Messages \in Nat
    BY WebSocketAssumption
  <1>2. sent[m] \in Seq(Frame)
    BY DEF SentFrames
  <1>3. Len(sent[m]) \in Nat /\ (sent[m] = << >> <=> Len(sent[m]) = 0)
    BY <1>2
  <1>4. \A p \in 1 .. Len(sent[m]) : sent[m][p] \in Frame /\ p \in Nat
    BY <1>2
  <1>. QED
    BY <1>1, <1>2, <1>3, <1>4

\* A frame that was sent is of its message, its part is its place, and it carries data.
LEMMA SentFrameIs ==
    ASSUME NEW sent \in SentFrames, NEW msg, NEW part, SentOrdered(sent, msg, part),
           NEW m \in 1 .. Messages, NEW p \in 1 .. Len(sent[m])
    PROVE  sent[m][p].msg = m /\ sent[m][p].part = p /\ IsData(sent[m][p])
  BY DEF SentOrdered, IsData

\* The first frame on its way is read.  Whoever was among the first n is among the first n - 1
\* then, or has been read.
LEMMA AmongTail ==
    ASSUME NEW wire \in Seq(Frame), wire # << >>, NEW f, NEW n \in Int, Among(f, n, wire)
    PROVE  f = wire[1] \/ Among(f, n - 1, Tail(wire))
  <1>1. PICK i \in 1 .. Len(wire) : i <= n /\ wire[i] = f
    BY DEF Among
  <1>2. CASE i = 1
    BY <1>1, <1>2
  <1>3. CASE i # 1
    <2>1. i - 1 \in 1 .. Len(Tail(wire)) /\ Tail(wire)[i - 1] = wire[i] /\ i - 1 <= n - 1
      BY <1>1, <1>3
    <2>2. PICK k \in 1 .. Len(Tail(wire)) : Tail(wire)[k] = f /\ k <= n - 1
      BY <1>1, <2>1
    <2>. QED
      BY <2>2, Zenon DEF Among
  <1>. QED
    BY <1>2, <1>3

LEMMA WireTail ==
    ASSUME NEW wire \in Seq(Frame), wire # << >>, NEW sent \in SentFrames,
           NEW msg, NEW part, SentOrdered(sent, msg, part), msg \in Nat,
           NEW d \in Nat, NEW q \in Nat, NEW e \in Nat, NEW r \in Nat,
           WireOrdered(wire, sent, d, q),
           \A m, p \in Nat : HasRead(m, p, d, q) => HasRead(m, p, e, r),
           IsData(wire[1]) => HasRead(wire[1].msg, wire[1].part, e, r),
           \A j \in 1 .. Len(wire) : j # 1 /\ IsData(wire[j]) => ~HasRead(wire[j].msg, wire[j].part, e, r)
    PROVE  WireOrdered(Tail(wire), sent, e, r)
  <1>1. /\ Tail(wire) \in Seq(Frame) /\ Len(Tail(wire)) = Len(wire) - 1 /\ Len(wire) \in Nat
        /\ \A j \in 1 .. Len(Tail(wire)) : j + 1 \in 1 .. Len(wire) /\ Tail(wire)[j] = wire[j + 1]
    OBVIOUS
  <1>2. ASSUME NEW m \in 1 .. Messages, NEW p \in 1 .. Len(sent[m]), NEW n \in Int,
               HasRead(m, p, d, q) \/ Among(sent[m][p], n, wire)
        PROVE  HasRead(m, p, e, r) \/ Among(sent[m][p], n - 1, Tail(wire))
    <2>1. m \in Nat /\ p \in Nat
      BY SentIs
    <2>2. CASE HasRead(m, p, d, q)
      BY <2>1, <2>2
    <2>3. CASE Among(sent[m][p], n, wire)
      <3>1. sent[m][p].msg = m /\ sent[m][p].part = p /\ IsData(sent[m][p])
        BY SentFrameIs
      <3>2. sent[m][p] = wire[1] \/ Among(sent[m][p], n - 1, Tail(wire))
        BY <2>3, AmongTail
      <3>3. CASE sent[m][p] = wire[1]
        BY <3>1, <3>3
      <3>. QED
        BY <3>2, <3>3
    <2>. QED
      BY <1>2, <2>2, <2>3
  <1>3. ASSUME NEW j \in 1 .. Len(Tail(wire)), IsData(Tail(wire)[j])
        PROVE  OnItsWay(j, Tail(wire), sent, e, r)
    <2>1. PICK k \in 1 .. Len(wire) : k = j + 1 /\ Tail(wire)[j] = wire[k] /\ k # 1
      BY <1>1
    <2>2. OnItsWay(k, wire, sent, d, q)
      BY <1>3, <2>1 DEF WireOrdered
    <2>3. PICK m, p : m = wire[k].msg /\ p = wire[k].part
      OBVIOUS
    <2>4. /\ m \in 1 .. Messages /\ p \in 1 .. Len(sent[m]) /\ wire[k] = sent[m][p]
          /\ \A i \in 1 .. Len(wire) : IsData(wire[i]) /\ i < k =>
                wire[i].msg < m \/ (wire[i].msg = m /\ wire[i].part < p)
          /\ p > 1 => HasRead(m, p - 1, d, q) \/ Among(sent[m][p - 1], k - 1, wire)
          /\ p = 1 /\ m > 1 =>
                \/ HasRead(m - 1, Len(sent[m - 1]), d, q)
                \/ Among(sent[m - 1][Len(sent[m - 1])], k - 1, wire)
      BY <2>2, <2>3 DEF OnItsWay
    <2>5. m \in Nat /\ p \in Nat /\ Len(sent[m]) \in Nat /\ k - 1 \in Int /\ k - 1 - 1 = j - 1
      BY <2>1, <2>4, SentIs, SMTT(30)
    <2>6. ~HasRead(m, p, e, r)
      BY <1>3, <2>1, <2>3
    <2>7. \A i \in 1 .. Len(Tail(wire)) : IsData(Tail(wire)[i]) /\ i < j =>
                Tail(wire)[i].msg < m \/ (Tail(wire)[i].msg = m /\ Tail(wire)[i].part < p)
      BY <1>1, <2>1, <2>4
    <2>8. p > 1 => HasRead(m, p - 1, e, r) \/ Among(sent[m][p - 1], j - 1, Tail(wire))
      <3>1. SUFFICES ASSUME p > 1
                     PROVE  HasRead(m, p - 1, e, r) \/ Among(sent[m][p - 1], j - 1, Tail(wire))
        OBVIOUS
      <3>2. p - 1 \in 1 .. Len(sent[m])
        BY <2>4, <2>5, <3>1
      <3>. QED
        BY <1>2, <2>4, <2>5, <3>1, <3>2
    <2>9. p = 1 /\ m > 1 =>
            \/ HasRead(m - 1, Len(sent[m - 1]), e, r)
            \/ Among(sent[m - 1][Len(sent[m - 1])], j - 1, Tail(wire))
      <3>1. SUFFICES ASSUME p = 1, m > 1
                     PROVE  \/ HasRead(m - 1, Len(sent[m - 1]), e, r)
                            \/ Among(sent[m - 1][Len(sent[m - 1])], j - 1, Tail(wire))
        OBVIOUS
      <3>2. PICK b \in 1 .. Messages : b = m - 1
        BY <2>4, <2>5, <3>1, SentIs
      <3>3. sent[m] # << >>
        BY <2>4, <2>5, SentIs
      <3>4. sent[b] # << >>
        BY <2>4, <2>5, <3>2, <3>3 DEF SentOrdered
      <3>5. PICK l \in 1 .. Len(sent[b]) : l = Len(sent[b])
        BY <3>4, SentIs
      <3>6. HasRead(b, l, e, r) \/ Among(sent[b][l], j - 1, Tail(wire))
        BY <1>2, <2>4, <2>5, <3>1, <3>2, <3>5
      <3>. QED
        BY <3>2, <3>5, <3>6
    <2>10. Tail(wire)[j].msg = m /\ Tail(wire)[j].part = p /\ Tail(wire)[j] = sent[m][p]
      BY <2>1, <2>3, <2>4, Zenon
    <2>. QED
      BY <2>4, <2>6, <2>7, <2>8, <2>9, <2>10, Zenon DEF OnItsWay
  <1>4. ASSUME NEW m \in 1 .. Messages, NEW p \in 1 .. Len(sent[m])
        PROVE  HasRead(m, p, e, r) \/ Among(sent[m][p], Len(Tail(wire)), Tail(wire))
    <2>1. HasRead(m, p, d, q) \/ Among(sent[m][p], Len(wire), wire)
      BY DEF WireOrdered
    <2>. QED
      BY <1>1, <1>2, <2>1
  <1>. QED
    BY <1>3, <1>4 DEF WireOrdered

\* A frame is sent: it is the last on its way.
LEMMA AmongAppend ==
    ASSUME NEW wire \in Seq(Frame), NEW f \in Frame
    PROVE  /\ Append(wire, f) \in Seq(Frame) /\ Len(Append(wire, f)) = Len(wire) + 1 /\ Len(wire) \in Nat
           /\ \A i \in 1 .. Len(wire) : Append(wire, f)[i] = wire[i] /\ i \in 1 .. Len(wire) + 1
           /\ Append(wire, f)[Len(wire) + 1] = f
           /\ \A g, n : Among(g, n, wire) => Among(g, n, Append(wire, f))
           /\ \A g : Among(g, Len(wire), wire) => Among(g, Len(wire) + 1, Append(wire, f))
  <1>1. /\ Append(wire, f) \in Seq(Frame) /\ Len(Append(wire, f)) = Len(wire) + 1 /\ Len(wire) \in Nat
        /\ \A i \in 1 .. Len(wire) : Append(wire, f)[i] = wire[i]
        /\ Append(wire, f)[Len(wire) + 1] = f
    OBVIOUS
  <1>2. \A i \in 1 .. Len(wire) : i \in 1 .. Len(wire) + 1 /\ i <= Len(wire) + 1
    BY <1>1
  <1>3. ASSUME NEW g, NEW n, Among(g, n, wire)
        PROVE  Among(g, n, Append(wire, f)) /\ Among(g, Len(wire) + 1, Append(wire, f))
    <2>1. PICK i \in 1 .. Len(wire) : i <= n /\ wire[i] = g
      BY <1>3 DEF Among
    <2>2. i \in 1 .. Len(Append(wire, f)) /\ Append(wire, f)[i] = g /\ i <= Len(wire) + 1
      BY <1>1, <1>2, <2>1
    <2>. QED
      BY <2>1, <2>2, Zenon DEF Among
  <1>. QED
    BY <1>1, <1>2, <1>3

LEMMA WireControl ==
    ASSUME NEW wire \in Seq(Frame), NEW sent \in SentFrames, NEW d, NEW q,
           WireOrdered(wire, sent, d, q), NEW f \in Frame, ~IsData(f)
    PROVE  WireOrdered(Append(wire, f), sent, d, q)
  <1>. DEFINE more == Append(wire, f)
  <1>1. /\ Len(more) = Len(wire) + 1 /\ Len(wire) \in Nat
        /\ \A i \in 1 .. Len(wire) : more[i] = wire[i] /\ i \in 1 .. Len(wire) + 1
        /\ more[Len(wire) + 1] = f
        /\ \A g, n : Among(g, n, wire) => Among(g, n, more)
        /\ \A g : Among(g, Len(wire), wire) => Among(g, Len(wire) + 1, more)
    BY AmongAppend
  <1>. HIDE DEF more
  <1>2. \A j \in 1 .. Len(more) : IsData(more[j]) => j \in 1 .. Len(wire)
    <2>1. \A j \in 1 .. Len(more) : j \in 1 .. Len(wire) \/ j = Len(wire) + 1
      BY <1>1
    <2>. QED
      BY <1>1, <2>1
  <1>3. ASSUME NEW j \in 1 .. Len(more), IsData(more[j])
        PROVE  OnItsWay(j, more, sent, d, q)
    <2>1. j \in 1 .. Len(wire) /\ more[j] = wire[j]
      BY <1>1, <1>2, <1>3
    <2>2. OnItsWay(j, wire, sent, d, q)
      BY <1>3, <2>1 DEF WireOrdered
    <2>3. \A i \in 1 .. Len(more) : IsData(more[i]) => i \in 1 .. Len(wire) /\ more[i] = wire[i]
      BY <1>1, <1>2
    <2>. QED
      BY <1>1, <2>1, <2>2, <2>3 DEF OnItsWay
  <1>4. \A m \in 1 .. Messages : \A p \in 1 .. Len(sent[m]) :
          HasRead(m, p, d, q) \/ Among(sent[m][p], Len(more), more)
    BY <1>1 DEF WireOrdered
  <1>. QED
    BY <1>3, <1>4 DEF WireOrdered, more

\* The client sends the next frame of its message, or the first of the next message.
More(sent, m, f) == [sent EXCEPT ![m] = Append(@, f)]

ComesNext(f, sent, msg, part) ==
    /\ f.msg \in 1 .. Messages /\ f.part = Len(sent[f.msg]) + 1
    /\ \/ f.op = "text" /\ f.msg = msg + 1 /\ f.part = 1
       \/ f.op = "cont" /\ f.msg = msg /\ part # 0 /\ f.part = part + 1

LEMMA MoreIs ==
    ASSUME NEW sent \in SentFrames, NEW m \in 1 .. Messages, NEW f \in Frame
    PROVE  /\ More(sent, m, f) \in SentFrames
           /\ \A k \in 1 .. Messages : k # m => More(sent, m, f)[k] = sent[k]
           /\ Len(More(sent, m, f)[m]) = Len(sent[m]) + 1 /\ Len(sent[m]) \in Nat
           /\ \A p \in 1 .. Len(sent[m]) : More(sent, m, f)[m][p] = sent[m][p]
           /\ More(sent, m, f)[m][Len(sent[m]) + 1] = f
  <1>1. sent[m] \in Seq(Frame)
    BY SentIs
  <1>. DEFINE s == Append(sent[m], f)
  <1>2. /\ s \in Seq(Frame) /\ Len(s) = Len(sent[m]) + 1 /\ Len(sent[m]) \in Nat
        /\ \A p \in 1 .. Len(sent[m]) : s[p] = sent[m][p]
        /\ s[Len(sent[m]) + 1] = f
    BY <1>1
  <1>3. More(sent, m, f) = [sent EXCEPT ![m] = s]
    BY DEF More
  <1>. HIDE DEF s
  <1>4. More(sent, m, f) \in SentFrames /\ More(sent, m, f)[m] = s
        /\ \A k \in 1 .. Messages : k # m => More(sent, m, f)[k] = sent[k]
    BY <1>2, <1>3 DEF SentFrames
  <1>. QED
    BY <1>2, <1>4

LEMMA SentMore ==
    ASSUME NEW sent \in SentFrames, NEW msg \in 0 .. Messages, NEW part \in Nat, SentOrdered(sent, msg, part),
           NEW f \in Frame, ComesNext(f, sent, msg, part)
    PROVE  SentOrdered(More(sent, f.msg, f), f.msg, IF f.fin THEN 0 ELSE f.part)
  <1>1. PICK m \in 1 .. Messages : m = f.msg
    BY DEF ComesNext
  <1>. DEFINE more == More(sent, m, f)
  <1>3. /\ more \in SentFrames
        /\ \A k \in 1 .. Messages : k # m => more[k] = sent[k]
        /\ Len(more[m]) = Len(sent[m]) + 1 /\ Len(sent[m]) \in Nat
        /\ \A p \in 1 .. Len(sent[m]) : more[m][p] = sent[m][p]
        /\ more[m][Len(sent[m]) + 1] = f
    BY MoreIs
  <1>2. more = More(sent, m, f)
    OBVIOUS
  <1>. HIDE DEF more
  <1>4. PICK l \in Nat : l = Len(sent[m])
    BY <1>3
  <1>5. f.part = l + 1 /\ m \in Nat /\ Messages \in Nat
    BY <1>1, <1>4, SentIs DEF ComesNext
  <1>6. m \in {msg, msg + 1}
    BY <1>1 DEF ComesNext
  <1>7. ASSUME NEW k \in 1 .. Messages PROVE more[k] = << >> <=> k > m
    <2>1. k \in Nat /\ (more[k] = << >> <=> Len(more[k]) = 0)
      BY <1>3, SentIs
    <2>2. CASE k = m
      BY <1>3, <1>4, <1>5, <2>1, <2>2
    <2>3. CASE k # m
      <3>1. more[k] = << >> <=> k > msg
        BY <1>3, <2>3 DEF SentOrdered
      <3>. QED
        BY <1>5, <1>6, <2>1, <2>3, <3>1
    <2>. QED
      BY <2>2, <2>3
  <1>8. m # msg + 1 => m = msg /\ part = l /\ part # 0 /\ f.op = "cont" /\ ~sent[m][l].fin
    BY <1>1, <1>4, <1>5 DEF ComesNext, SentOrdered
  <1>9. m = msg + 1 => l = 0 /\ f.op = "text"
    BY <1>1, <1>5 DEF ComesNext
  <1>10. ASSUME NEW k \in 1 .. Messages, NEW p \in 1 .. Len(more[k])
         PROVE  /\ more[k][p].msg = k /\ more[k][p].part = p
                /\ more[k][p].op = (IF p = 1 THEN "text" ELSE "cont")
                /\ more[k][p].fin => p = Len(more[k])
    <2>1. CASE k # m
      BY <1>3, <2>1 DEF SentOrdered
    <2>2. CASE k = m /\ p = l + 1
      <3>1. more[k][p] = f /\ Len(more[k]) = l + 1
        BY <1>3, <1>4, <2>2
      <3>2. f.op = (IF p = 1 THEN "text" ELSE "cont")
        BY <1>4, <1>5, <1>6, <1>8, <1>9, <2>2
      <3>. QED
        BY <1>1, <1>5, <2>2, <3>1, <3>2
    <2>3. CASE k = m /\ p # l + 1
      <3>1. p \in 1 .. Len(sent[m]) /\ l # 0
        BY <1>3, <1>4, <2>3
      <3>2. more[k][p] = sent[m][p]
        BY <1>3, <2>3, <3>1
      <3>3. m = msg /\ ~sent[m][l].fin
        BY <1>6, <1>8, <1>9, <3>1
      <3>. QED
        BY <1>4, <2>3, <3>1, <3>2, <3>3 DEF SentOrdered
    <2>. QED
      BY <2>1, <2>2, <2>3
  <1>11. (IF f.fin THEN 0 ELSE f.part) # 0 =>
            m # 0 /\ f.part = Len(more[m]) /\ ~more[m][f.part].fin
    BY <1>3, <1>4, <1>5
  <1>. QED
    BY <1>1, <1>2, <1>7, <1>10, <1>11 DEF SentOrdered

LEMMA GivenMore ==
    ASSUME NEW sent \in SentFrames, NEW msg \in 0 .. Messages, NEW part \in Nat, SentOrdered(sent, msg, part),
           NEW delivered \in Seq(Seq(Frame)), NEW fragments \in Seq(Frame),
           GivenOrdered(delivered, fragments, sent), NEW f \in Frame, ComesNext(f, sent, msg, part)
    PROVE  /\ GivenOrdered(delivered, fragments, More(sent, f.msg, f))
           /\ ~HasRead(f.msg, f.part, Len(delivered), Len(fragments))
  <1>1. PICK m \in 1 .. Messages : m = f.msg
    BY DEF ComesNext
  <1>. DEFINE more == More(sent, m, f)
  <1>3. /\ more \in SentFrames
        /\ \A k \in 1 .. Messages : k # m => more[k] = sent[k]
        /\ Len(more[m]) = Len(sent[m]) + 1 /\ Len(sent[m]) \in Nat
        /\ \A p \in 1 .. Len(sent[m]) : more[m][p] = sent[m][p]
        /\ more[m][Len(sent[m]) + 1] = f
    BY MoreIs
  <1>2. more = More(sent, m, f)
    OBVIOUS
  <1>. HIDE DEF more
  <1>4. PICK l \in Nat : l = Len(sent[m])
    BY <1>3
  <1>5. f.part = l + 1 /\ m \in Nat /\ Messages \in Nat
    BY <1>1, <1>4, SentIs DEF ComesNext
  <1>6. PICK d \in Nat : d = Len(delivered) /\ d <= Messages
    BY DEF GivenOrdered
  <1>7. PICK q \in Nat : q = Len(fragments) /\ (fragments = << >> <=> q = 0)
    OBVIOUS
  <1>8. m > d
    <2>1. ASSUME m <= d PROVE FALSE
      <3>1. sent[m] # << >> /\ sent[m][l].fin
        BY <1>4, <1>5, <1>6, <2>1 DEF GivenOrdered
      <3>2. ~(m > msg)
        BY <3>1 DEF SentOrdered
      <3>3. m = msg /\ part # 0 /\ part = l
        BY <1>1, <1>5, <3>2 DEF ComesNext
      <3>. QED
        BY <3>1, <3>3 DEF SentOrdered
    <2>. QED
      BY <1>5, <1>6, <2>1
  <1>9. q # 0 => d + 1 \in 1 .. Messages /\ q <= Len(sent[d + 1])
    BY <1>5, <1>6, <1>7 DEF GivenOrdered
  <1>10. ~HasRead(f.msg, f.part, d, q)
    BY <1>1, <1>4, <1>5, <1>8, <1>9 DEF HasRead
  <1>11. \A i \in 1 .. d : delivered[i] = more[i] /\ more[i] # << >> /\ more[i][Len(more[i])].fin
    <2>1. \A i \in 1 .. d : more[i] = sent[i]
      BY <1>3, <1>5, <1>6, <1>8
    <2>. QED
      BY <1>6, <2>1 DEF GivenOrdered
  <1>12. fragments # << >> =>
            /\ d < Messages /\ q <= Len(more[d + 1])
            /\ \A i \in 1 .. q : fragments[i] = more[d + 1][i] /\ ~fragments[i].fin
    <2>1. SUFFICES ASSUME fragments # << >>
                   PROVE  /\ d < Messages /\ q <= Len(more[d + 1])
                          /\ \A i \in 1 .. q : fragments[i] = more[d + 1][i] /\ ~fragments[i].fin
      OBVIOUS
    <2>2. PICK b \in 1 .. Messages : b = d + 1
      BY <1>7, <1>9, <2>1
    <2>3. /\ d < Messages /\ q <= Len(sent[b]) /\ Len(sent[b]) \in Nat
          /\ \A i \in 1 .. q : fragments[i] = sent[b][i] /\ ~fragments[i].fin
      BY <1>6, <1>7, <2>1, <2>2, SentIs DEF GivenOrdered
    <2>4. Len(more[b]) >= Len(sent[b]) /\ \A i \in 1 .. Len(sent[b]) : more[b][i] = sent[b][i]
      <3>1. CASE b = m
        BY <1>3, <3>1
      <3>2. CASE b # m
        BY <1>3, <2>3, <3>2, SMTT(30)
      <3>. QED
        BY <3>1, <3>2
    <2>5. Len(more[b]) \in Nat
      BY <1>3, SentIs
    <2>. QED
      BY <2>2, <2>3, <2>4, <2>5, SMTT(30)
  <1>. QED
    BY <1>1, <1>2, <1>6, <1>7, <1>10, <1>11, <1>12 DEF GivenOrdered

LEMMA WireMore ==
    ASSUME NEW wire \in Seq(Frame), NEW sent \in SentFrames, NEW msg \in 0 .. Messages, NEW part \in Nat,
           SentOrdered(sent, msg, part), NEW d \in Nat, NEW q \in Nat, WireOrdered(wire, sent, d, q),
           NEW f \in Frame, ComesNext(f, sent, msg, part), ~HasRead(f.msg, f.part, d, q)
    PROVE  WireOrdered(Append(wire, f), More(sent, f.msg, f), d, q)
  <1>1. PICK m \in 1 .. Messages : m = f.msg
    BY DEF ComesNext
  <1>. DEFINE more == More(sent, m, f)
  <1>3. /\ more \in SentFrames
        /\ \A k \in 1 .. Messages : k # m => more[k] = sent[k]
        /\ Len(more[m]) = Len(sent[m]) + 1 /\ Len(sent[m]) \in Nat
        /\ \A p \in 1 .. Len(sent[m]) : more[m][p] = sent[m][p]
        /\ more[m][Len(sent[m]) + 1] = f
    BY MoreIs
  <1>2. more = More(sent, m, f)
    OBVIOUS
  <1>. HIDE DEF more
  <1>4. PICK l \in Nat : l = Len(sent[m])
    BY <1>3
  <1>5. f.part = l + 1 /\ m \in Nat /\ Messages \in Nat
    BY <1>1, <1>4, SentIs DEF ComesNext
  <1>6. PICK w : w = Append(wire, f)
    OBVIOUS
  <1>7. /\ Len(w) = Len(wire) + 1 /\ Len(wire) \in Nat
        /\ \A i \in 1 .. Len(wire) : w[i] = wire[i] /\ i \in 1 .. Len(wire) + 1
        /\ w[Len(wire) + 1] = f
        /\ \A g, n : Among(g, n, wire) => Among(g, n, w)
        /\ \A g : Among(g, Len(wire), wire) => Among(g, Len(wire) + 1, w)
    BY <1>6, AmongAppend
  <1>8. ASSUME NEW k \in 1 .. Messages, NEW p \in 1 .. Len(sent[k])
        PROVE  p \in 1 .. Len(more[k]) /\ more[k][p] = sent[k][p]
    <2>1. Len(sent[k]) \in Nat
      BY SentIs
    <2>2. CASE k = m
      BY <1>3, <2>1, <2>2
    <2>3. CASE k # m
      BY <1>3, <2>3
    <2>. QED
      BY <2>2, <2>3
  <1>9. ASSUME NEW j \in 1 .. Len(wire), IsData(w[j])
        PROVE  OnItsWay(j, w, more, d, q)
    <2>1. w[j] = wire[j] /\ OnItsWay(j, wire, sent, d, q) /\ j \in Nat /\ j <= Len(wire)
      BY <1>7, <1>9 DEF WireOrdered
    <2>2. PICK k, p : k = wire[j].msg /\ p = wire[j].part
      OBVIOUS
    <2>3. /\ k \in 1 .. Messages /\ p \in 1 .. Len(sent[k]) /\ wire[j] = sent[k][p]
          /\ ~HasRead(k, p, d, q)
          /\ \A i \in 1 .. Len(wire) : IsData(wire[i]) /\ i < j =>
                wire[i].msg < k \/ (wire[i].msg = k /\ wire[i].part < p)
          /\ p > 1 => HasRead(k, p - 1, d, q) \/ Among(sent[k][p - 1], j - 1, wire)
          /\ p = 1 /\ k > 1 =>
                \/ HasRead(k - 1, Len(sent[k - 1]), d, q)
                \/ Among(sent[k - 1][Len(sent[k - 1])], j - 1, wire)
      BY <2>1, <2>2 DEF OnItsWay
    <2>4. p \in 1 .. Len(more[k]) /\ more[k][p] = sent[k][p] /\ k \in Nat /\ p \in Nat /\ Len(sent[k]) \in Nat
      BY <1>8, <2>3, SentIs
    <2>5. \A i \in 1 .. Len(w) : IsData(w[i]) /\ i < j =>
                w[i].msg < k \/ (w[i].msg = k /\ w[i].part < p)
      <3>1. SUFFICES ASSUME NEW i \in 1 .. Len(w), IsData(w[i]), i < j
                     PROVE  w[i].msg < k \/ (w[i].msg = k /\ w[i].part < p)
        OBVIOUS
      <3>2. i \in 1 .. Len(wire)
        BY <1>7, <2>1, <3>1
      <3>. QED
        BY <1>7, <2>3, <3>1, <3>2
    <2>6. p > 1 => HasRead(k, p - 1, d, q) \/ Among(more[k][p - 1], j - 1, w)
      <3>1. SUFFICES ASSUME p > 1 PROVE HasRead(k, p - 1, d, q) \/ Among(more[k][p - 1], j - 1, w)
        OBVIOUS
      <3>2. p - 1 \in 1 .. Len(sent[k])
        BY <2>3, <2>4, <3>1
      <3>3. more[k][p - 1] = sent[k][p - 1]
        BY <1>8, <2>3, <3>2
      <3>. QED
        BY <1>7, <2>3, <3>1, <3>3
    <2>7. p = 1 /\ k > 1 =>
                \/ HasRead(k - 1, Len(more[k - 1]), d, q)
                \/ Among(more[k - 1][Len(more[k - 1])], j - 1, w)
      <3>1. SUFFICES ASSUME p = 1, k > 1
                     PROVE  \/ HasRead(k - 1, Len(more[k - 1]), d, q)
                            \/ Among(more[k - 1][Len(more[k - 1])], j - 1, w)
        OBVIOUS
      <3>2. PICK b \in 1 .. Messages : b = k - 1 /\ b \in Nat
        BY <1>5, <2>3, <2>4, <3>1, SMTT(30)
      <3>3. sent[k] # << >>
        BY <2>3, <2>4, SentIs
      <3>4. b # m
        <4>1. ~(k > msg)
          BY <2>3, <3>3 DEF SentOrdered
        <4>2. m \in {msg, msg + 1}
          BY <1>1 DEF ComesNext
        <4>. QED
          BY <1>5, <2>4, <3>2, <4>1, <4>2
      <3>5. more[b] = sent[b]
        BY <1>3, <3>4
      <3>. QED
        BY <1>7, <2>3, <3>1, <3>2, <3>5
    <2>8. w[j].msg = k /\ w[j].part = p /\ w[j] = more[k][p]
      BY <2>1, <2>2, <2>3, <2>4, Zenon
    <2>. QED
      BY <2>3, <2>4, <2>5, <2>6, <2>7, <2>8, Zenon DEF OnItsWay
  <1>10. OnItsWay(Len(wire) + 1, w, more, d, q)
    <2>1. PICK j \in Nat : j = Len(wire) + 1
      BY <1>7
    <2>2. PICK p \in Nat : p = f.part /\ p = l + 1
      BY <1>5
    <2>3. w[j] = f /\ p \in 1 .. Len(more[m]) /\ more[m][p] = f /\ j - 1 = Len(wire)
      BY <1>3, <1>4, <1>7, <2>1, <2>2
    <2>4. \A i \in 1 .. Len(w) : IsData(w[i]) /\ i < j => w[i].msg < m \/ (w[i].msg = m /\ w[i].part < p)
      <3>1. SUFFICES ASSUME NEW i \in 1 .. Len(w), IsData(w[i]), i < j
                     PROVE  w[i].msg < m \/ (w[i].msg = m /\ w[i].part < p)
        OBVIOUS
      <3>2. i \in 1 .. Len(wire) /\ w[i] = wire[i]
        BY <1>7, <2>1, <3>1
      <3>3. OnItsWay(i, wire, sent, d, q)
        BY <3>1, <3>2 DEF WireOrdered
      <3>4. PICK k, r : k = wire[i].msg /\ r = wire[i].part
        OBVIOUS
      <3>5. k \in 1 .. Messages /\ r \in 1 .. Len(sent[k])
        BY <3>3, <3>4 DEF OnItsWay
      <3>6. k \in Nat /\ r \in Nat /\ Len(sent[k]) \in Nat /\ sent[k] # << >>
        BY <3>5, SentIs
      <3>7. ~(k > msg)
        BY <3>5, <3>6 DEF SentOrdered
      <3>8. m \in {msg, msg + 1}
        BY <1>1 DEF ComesNext
      <3>9. k < m \/ k = m
        BY <1>5, <3>6, <3>7, <3>8
      <3>10. k = m => r < p
        BY <1>4, <2>2, <3>5, <3>6
      <3>. QED
        BY <3>2, <3>4, <3>9, <3>10
    <2>5. p > 1 => HasRead(m, p - 1, d, q) \/ Among(more[m][p - 1], j - 1, w)
      <3>1. SUFFICES ASSUME p > 1 PROVE HasRead(m, p - 1, d, q) \/ Among(more[m][p - 1], j - 1, w)
        OBVIOUS
      <3>2. p - 1 \in 1 .. Len(sent[m])
        BY <1>4, <2>2, <3>1
      <3>3. HasRead(m, p - 1, d, q) \/ Among(sent[m][p - 1], Len(wire), wire)
        BY <3>2 DEF WireOrdered
      <3>4. more[m][p - 1] = sent[m][p - 1]
        BY <1>3, <3>2
      <3>. QED
        BY <1>7, <2>3, <3>3, <3>4
    <2>6. p = 1 /\ m > 1 =>
                \/ HasRead(m - 1, Len(more[m - 1]), d, q)
                \/ Among(more[m - 1][Len(more[m - 1])], j - 1, w)
      <3>1. SUFFICES ASSUME p = 1, m > 1
                     PROVE  \/ HasRead(m - 1, Len(more[m - 1]), d, q)
                            \/ Among(more[m - 1][Len(more[m - 1])], j - 1, w)
        OBVIOUS
      <3>2. PICK b \in 1 .. Messages : b = m - 1 /\ b \in Nat /\ b # m
        BY <1>5, <3>1
      <3>3. ~(b > msg)
        <4>1. m \in {msg, msg + 1}
          BY <1>1 DEF ComesNext
        <4>. QED
          BY <1>5, <3>2, <4>1
      <3>4. sent[b] # << >>
        BY <3>2, <3>3 DEF SentOrdered
      <3>5. PICK e \in 1 .. Len(sent[b]) : e = Len(sent[b])
        BY <3>4, SentIs
      <3>6. HasRead(b, e, d, q) \/ Among(sent[b][e], Len(wire), wire)
        BY <3>5 DEF WireOrdered
      <3>7. more[b] = sent[b]
        BY <1>3, <3>2
      <3>. QED
        BY <1>7, <2>3, <3>2, <3>5, <3>6, <3>7
    <2>7. ~HasRead(m, p, d, q)
      BY <1>1, <2>2
    <2>. QED
      BY <1>1, <2>1, <2>2, <2>3, <2>4, <2>5, <2>6, <2>7 DEF OnItsWay
  <1>11. \A j \in 1 .. Len(w) : IsData(w[j]) => OnItsWay(j, w, more, d, q)
    <2>1. \A j \in 1 .. Len(w) : j \in 1 .. Len(wire) \/ j = Len(wire) + 1
      BY <1>7
    <2>. QED
      BY <1>9, <1>10, <2>1
  <1>12. ASSUME NEW k \in 1 .. Messages, NEW p \in 1 .. Len(more[k])
         PROVE  HasRead(k, p, d, q) \/ Among(more[k][p], Len(w), w)
    <2>1. CASE p \in 1 .. Len(sent[k])
      <3>1. HasRead(k, p, d, q) \/ Among(sent[k][p], Len(wire), wire)
        BY <2>1 DEF WireOrdered
      <3>2. more[k][p] = sent[k][p]
        BY <1>8, <2>1
      <3>. QED
        BY <1>7, <3>1, <3>2
    <2>2. CASE p \notin 1 .. Len(sent[k])
      <3>1. k = m
        BY <1>3, <2>2
      <3>2. more[k][p] = f
        BY <1>3, <2>2, <3>1
      <3>3. Len(w) \in 1 .. Len(w) /\ w[Len(w)] = f /\ Len(w) <= Len(w)
        BY <1>7
      <3>. QED
        BY <3>2, <3>3 DEF Among
    <2>. QED
      BY <2>1, <2>2
  <1>. QED
    BY <1>1, <1>2, <1>6, <1>11, <1>12 DEF WireOrdered

-----------------------------------------------------------------------------
(* The steps.                                                              *)

LEMMA WsTypesAre ==
    ASSUME WsInv
    PROVE  /\ wsWire \in Seq(Frame) /\ wsSent \in SentFrames /\ Messages \in Nat
           /\ wsDelivered \in Seq(Seq(Frame)) /\ Len(wsDelivered) \in Nat
           /\ wsServer \in Server /\ ServerKept(wsServer)
           /\ wsServer.fragments \in Seq(Frame) /\ Len(wsServer.fragments) \in Nat
           /\ wsClient \in [msg : 0 .. Messages, part : 0 .. Parts - 1, done : BOOLEAN, ended : BOOLEAN]
           /\ wsClient.msg \in 0 .. Messages /\ wsClient.msg \in Nat /\ wsClient.part \in Nat /\ Parts \in Nat
  <1>1. /\ wsWire \in Seq(Frame) /\ wsSent \in SentFrames /\ Messages \in Nat /\ Parts \in Nat
        /\ wsDelivered \in Seq(Seq(Frame)) /\ wsServer \in Server /\ ServerKept(wsServer)
        /\ wsClient \in [msg : 0 .. Messages, part : 0 .. Parts - 1, done : BOOLEAN, ended : BOOLEAN]
    BY WebSocketAssumption DEF WsInv, WsTypeOK, SentFrames
  <1>2. wsServer.fragments \in Seq(Frame)
    BY <1>1 DEF Server
  <1>3. wsClient.msg \in 0 .. Messages /\ wsClient.part \in 0 .. Parts - 1
    BY <1>1
  <1>. QED
    BY <1>1, <1>2, <1>3

\* What neither the route, the timers nor the socket's events change.
LEMMA WsServerMoves ==
    ASSUME WsInv, UNCHANGED <<wsWire, wsSent, wsDelivered>>,
           wsClient'.msg = wsClient.msg, wsClient'.part = wsClient.part,
           wsClient' \in [msg : 0 .. Messages, part : 0 .. Parts - 1, done : BOOLEAN, ended : BOOLEAN],
           ServerKept(wsServer'), wsServer'.fragments = wsServer.fragments, ~wsServer'.paused => ~wsServer.paused
    PROVE  WsInv'
  <1>1. WsTypeOK'
    BY DEF WsInv, WsTypeOK, ServerKept
  <1>2. SentInOrder' /\ GivenInOrder'
    BY DEF WsInv, SentInOrder, GivenInOrder
  <1>3. ~wsServer'.paused => WireInOrder'
    BY DEF WsInv, WireInOrder
  <1>. QED
    BY <1>1, <1>2, <1>3 DEF WsInv

\* The client sends a frame that carries data.
LEMMA DataSent ==
    ASSUME WsInv, NEW f \in Frame, ComesNext(f, wsSent, wsClient.msg, wsClient.part),
           wsWire' = Append(wsWire, f), wsSent' = More(wsSent, f.msg, f),
           wsClient' \in [msg : 0 .. Messages, part : 0 .. Parts - 1, done : BOOLEAN, ended : BOOLEAN],
           wsClient'.msg = f.msg, wsClient'.part = (IF f.fin THEN 0 ELSE f.part),
           UNCHANGED <<wsServer, wsDelivered>>
    PROVE  WsInv'
  <1>. USE WsTypesAre
  <1>1. f.msg \in 1 .. Messages
    BY DEF ComesNext
  <1>2. wsSent' \in SentFrames
    BY <1>1, MoreIs
  <1>3. WsTypeOK'
    <2>1. wsWire' \in Seq(Frame)
      BY AmongAppend
    <2>. QED
      BY <1>2, <2>1 DEF WsInv, WsTypeOK, SentFrames
  <1>4. SentInOrder'
    <2>1. SentOrdered(wsSent, wsClient.msg, wsClient.part)
      BY DEF WsInv, SentInOrder
    <2>. QED
      BY <2>1, SentMore DEF SentInOrder
  <1>5. GivenInOrder' /\ ~HasRead(f.msg, f.part, Len(wsDelivered), Len(wsServer.fragments))
    <2>1. SentOrdered(wsSent, wsClient.msg, wsClient.part) /\ GivenOrdered(wsDelivered, wsServer.fragments, wsSent)
      BY DEF WsInv, SentInOrder, GivenInOrder
    <2>. QED
      BY <2>1, GivenMore DEF GivenInOrder
  <1>6. ~wsServer'.paused => WireInOrder'
    <2>1. SUFFICES ASSUME ~wsServer.paused PROVE WireInOrder'
      OBVIOUS
    <2>2. /\ SentOrdered(wsSent, wsClient.msg, wsClient.part)
          /\ WireOrdered(wsWire, wsSent, Len(wsDelivered), Len(wsServer.fragments))
      BY <2>1 DEF WsInv, SentInOrder, WireInOrder
    <2>. QED
      BY <1>5, <2>2, WireMore DEF WireInOrder
  <1>. QED
    BY <1>3, <1>4, <1>5, <1>6 DEF WsInv

LEMMA MessagesKeep ==
    ASSUME WsInv, NEW size \in Sizes, NEW fin \in BOOLEAN, ClientMessage(size, fin)
    PROVE  WsInv'
  <1>. USE WsTypesAre
  <1>. DEFINE m == wsClient.msg + 1
              f == [op |-> "text", fin |-> fin, size |-> size, msg |-> m, part |-> 1]
              client == [wsClient EXCEPT !.msg = m, !.part = IF fin THEN 0 ELSE 1]
  <1>1. wsClient.msg < Messages /\ (fin \/ Parts > 1) /\ SendFrame(f, client)
    BY DEF ClientMessage
  <1>2. m \in 1 .. Messages /\ m \in 0 .. Messages /\ 1 \in 0 .. Parts
    <2>1. Parts >= 1
      BY WebSocketAssumption
    <2>. QED
      BY <1>1, <2>1
  <1>3. f \in Frame /\ f.op = "text" /\ f.fin = fin /\ f.msg = m /\ f.part = 1
    BY <1>2 DEF Frame
  <1>4. client \in [msg : 0 .. Messages, part : 0 .. Parts - 1, done : BOOLEAN, ended : BOOLEAN]
        /\ client.msg = m /\ client.part = (IF fin THEN 0 ELSE 1)
    <2>1. (IF fin THEN 0 ELSE 1) \in 0 .. Parts - 1
      <3>1. Parts >= 1
        BY WebSocketAssumption
      <3>. QED
        BY <1>1, <3>1
    <2>. QED
      BY <1>2, <2>1
  <1>5. wsSent[m] = << >>
    BY <1>2 DEF WsInv, SentInOrder, SentOrdered
  <1>6. ComesNext(f, wsSent, wsClient.msg, wsClient.part)
    BY <1>2, <1>3, <1>5 DEF ComesNext
  <1>. HIDE DEF f, client, m
  <1>7. /\ wsWire' = Append(wsWire, f) /\ wsSent' = More(wsSent, f.msg, f) /\ wsClient' = client
        /\ UNCHANGED <<wsServer, wsDelivered>>
    BY <1>1, <1>3 DEF SendFrame, More
  <1>. QED
    BY <1>3, <1>4, <1>6, <1>7, DataSent

LEMMA ContinuesKeep ==
    ASSUME WsInv, NEW size \in Sizes, NEW fin \in BOOLEAN, ClientContinue(size, fin)
    PROVE  WsInv'
  <1>. USE WsTypesAre
  <1>. DEFINE m == wsClient.msg
              p == wsClient.part + 1
              f == [op |-> "cont", fin |-> fin, size |-> size, msg |-> m, part |-> p]
              client == [wsClient EXCEPT !.part = IF fin THEN 0 ELSE p]
  <1>1. wsClient.part \in 1 .. Parts - 1 /\ (fin \/ wsClient.part < Parts - 1) /\ SendFrame(f, client)
    BY DEF ClientContinue
  <1>2. wsClient.part # 0
    BY <1>1
  <1>3. m # 0 /\ wsClient.part = Len(wsSent[m])
    BY <1>2 DEF WsInv, SentInOrder, SentOrdered
  <1>4. m \in 1 .. Messages /\ p \in 0 .. Parts
    BY <1>1, <1>3
  <1>5. f \in Frame /\ f.op = "cont" /\ f.fin = fin /\ f.msg = m /\ f.part = p
    BY <1>4 DEF Frame
  <1>6. client \in [msg : 0 .. Messages, part : 0 .. Parts - 1, done : BOOLEAN, ended : BOOLEAN]
        /\ client.msg = m /\ client.part = (IF fin THEN 0 ELSE p)
    <2>1. (IF fin THEN 0 ELSE p) \in 0 .. Parts - 1
      BY <1>1
    <2>. QED
      BY <1>4, <2>1
  <1>7. ComesNext(f, wsSent, wsClient.msg, wsClient.part)
    BY <1>2, <1>3, <1>4, <1>5 DEF ComesNext
  <1>. HIDE DEF f, client
  <1>8. /\ wsWire' = Append(wsWire, f) /\ wsSent' = More(wsSent, f.msg, f) /\ wsClient' = client
        /\ UNCHANGED <<wsServer, wsDelivered>>
    BY <1>1, <1>5 DEF SendFrame, More
  <1>. QED
    BY <1>5, <1>6, <1>7, <1>8, DataSent

\* The client sends a control frame, or what no client may send.
LEMMA ControlSent ==
    ASSUME WsInv, NEW op \in {"close", "ping", "pong", "bad"}, NEW client, SendFrame(Control(op), client),
           client \in [msg : 0 .. Messages, part : 0 .. Parts - 1, done : BOOLEAN, ended : BOOLEAN],
           client.msg = wsClient.msg, client.part = wsClient.part
    PROVE  WsInv'
  <1>. USE WsTypesAre
  <1>1. Control(op) \in Frame /\ Control(op).op = op
    <2>1. 0 \in 0 .. Messages /\ 0 \in 0 .. Parts /\ 0 \in Sizes \union {0} /\ TRUE \in BOOLEAN
      OBVIOUS
    <2>. QED
      BY <2>1 DEF Control, Frame
  <1>2. ~IsData(Control(op))
    BY <1>1 DEF IsData
  <1>3. /\ wsWire' = Append(wsWire, Control(op)) /\ wsSent' = wsSent /\ wsClient' = client
        /\ UNCHANGED <<wsServer, wsDelivered>>
    BY <1>2 DEF SendFrame, IsData
  <1>4. WsTypeOK'
    <2>1. wsWire' \in Seq(Frame)
      BY <1>1, <1>3, AmongAppend
    <2>. QED
      BY <1>3, <2>1 DEF WsInv, WsTypeOK
  <1>5. SentInOrder' /\ GivenInOrder'
    BY <1>3 DEF WsInv, SentInOrder, GivenInOrder
  <1>6. ~wsServer'.paused => WireInOrder'
    BY <1>1, <1>2, <1>3, WireControl DEF WsInv, WireInOrder
  <1>. QED
    BY <1>3, <1>4, <1>5, <1>6 DEF WsInv

\* The first data frame on its way is the next of the message the server is reading, unless it
\* breaks the protocol.
LEMMA HeadIsNext ==
    ASSUME NEW wire \in Seq(Frame), wire # << >>, NEW sent \in SentFrames, NEW msg \in Nat, NEW part,
           SentOrdered(sent, msg, part), NEW d \in Nat, NEW q \in Nat, WireOrdered(wire, sent, d, q),
           IsData(wire[1]), wire[1].op = "text" => q = 0
    PROVE  /\ d + 1 \in 1 .. Messages /\ q + 1 \in 1 .. Len(sent[d + 1]) /\ wire[1] = sent[d + 1][q + 1]
           /\ wire[1].msg = d + 1 /\ wire[1].part = q + 1
  <1>1. OnItsWay(1, wire, sent, d, q)
    <2>1. 1 \in 1 .. Len(wire)
      OBVIOUS
    <2>. QED
      BY <2>1 DEF WireOrdered
  <1>2. PICK m, p : m = wire[1].msg /\ p = wire[1].part
    OBVIOUS
  <1>3. \A f : ~Among(f, 1 - 1, wire)
    BY DEF Among
  <1>4. /\ m \in 1 .. Messages /\ p \in 1 .. Len(sent[m]) /\ wire[1] = sent[m][p]
        /\ ~HasRead(m, p, d, q)
        /\ p > 1 => HasRead(m, p - 1, d, q)
        /\ p = 1 /\ m > 1 => HasRead(m - 1, Len(sent[m - 1]), d, q)
    BY <1>1, <1>2, <1>3, Zenon DEF OnItsWay
  <1>5. m \in Nat /\ p \in Nat /\ p >= 1 /\ m >= 1 /\ Len(sent[m]) \in Nat /\ Messages \in Nat /\ sent[m] # << >>
    BY <1>4, SentIs
  <1>6. m = d + 1 /\ p = q + 1
    <2>1. CASE p > 1
      BY <1>4, <1>5, <2>1 DEF HasRead
    <2>2. CASE p = 1
      <3>1. q = 0
        BY <1>4, <1>5, <2>2 DEF SentOrdered
      <3>2. CASE m = 1
        BY <1>4, <1>5, <2>2, <3>1, <3>2 DEF HasRead
      <3>3. CASE m > 1
        <4>1. PICK b \in 1 .. Messages : b = m - 1 /\ b \in Nat
          BY <1>4, <1>5, <3>3
        <4>2. sent[b] # << >>
          BY <1>4, <1>5, <4>1 DEF SentOrdered
        <4>3. Len(sent[b]) \in Nat /\ Len(sent[b]) # 0
          BY <4>2, SentIs
        <4>4. HasRead(b, Len(sent[b]), d, q) /\ ~HasRead(m, p, d, q)
          BY <1>4, <2>2, <3>3, <4>1
        <4>. QED
          BY <1>5, <2>2, <3>1, <4>1, <4>3, <4>4 DEF HasRead
      <3>. QED
        BY <1>5, <3>2, <3>3
    <2>. QED
      BY <1>5, <2>1, <2>2
  <1>. QED
    BY <1>2, <1>4, <1>6

\* A data frame behind the first is of a later message, or of a later part of the same.
LEMMA BehindHead ==
    ASSUME NEW wire \in Seq(Frame), NEW sent \in SentFrames, NEW d \in Nat, NEW q \in Nat,
           WireOrdered(wire, sent, d, q), NEW j \in 1 .. Len(wire), IsData(wire[j])
    PROVE  /\ ~HasRead(wire[j].msg, wire[j].part, d, q)
           /\ wire[j].msg \in 1 .. Messages /\ wire[j].part \in 1 .. Len(sent[wire[j].msg])
           /\ IsData(wire[1]) /\ j # 1 =>
                wire[1].msg < wire[j].msg \/ (wire[1].msg = wire[j].msg /\ wire[1].part < wire[j].part)
  <1>1. OnItsWay(j, wire, sent, d, q)
    BY DEF WireOrdered
  <1>2. 1 \in 1 .. Len(wire) /\ (j # 1 => 1 < j)
    OBVIOUS
  <1>. QED
    BY <1>1, <1>2, Zenon DEF OnItsWay

LEMMA ReadsKeep ==
    ASSUME WsInv, OnData
    PROVE  WsInv'
  <1>. USE WsTypesAre
  <1>. DEFINE f == wsWire[1]
              w == [wsServer EXCEPT !.alive = TRUE]
              d == Len(wsDelivered)
              q == Len(wsServer.fragments)
  <1>1. /\ wsWire # << >> /\ ~wsServer.paused /\ ~wsServer.destroyed /\ wsServer.state # "closed"
        /\ wsWire' = Tail(wsWire) /\ UNCHANGED <<wsSent, wsClient>>
    BY DEF OnData, ServerKept
  <1>2. Head(wsWire) = f /\ f \in Frame /\ Tail(wsWire) \in Seq(Frame)
    BY <1>1
  <1>3. w \in Server
    BY DEF Server
  <1>4. /\ w.state = wsServer.state /\ w.fragments = wsServer.fragments /\ w.paused = wsServer.paused
        /\ w.closes = wsServer.closes /\ w.told = wsServer.told /\ w.timer = wsServer.timer
        /\ w.destroyed = wsServer.destroyed /\ w.afterwards = wsServer.afterwards
    BY DEF Server
  <1>. HIDE DEF w
  <1>5. ServerKept(w)
    BY <1>3, <1>4 DEF ServerKept
  <1>6. /\ wsServer' = Handled(w, f)
        /\ wsDelivered' = IF Delivers(w, f) THEN Append(wsDelivered, Append(w.fragments, f)) ELSE wsDelivered
    BY <1>1, <1>2, <1>4 DEF OnData, w
  <1>. HIDE DEF f
  <1>7. /\ SentOrdered(wsSent, wsClient.msg, wsClient.part)
        /\ GivenOrdered(wsDelivered, wsServer.fragments, wsSent)
        /\ WireOrdered(wsWire, wsSent, d, q)
    BY <1>1 DEF WsInv, SentInOrder, GivenInOrder, WireInOrder
  <1>8. ServerKept(wsServer') /\ SentInOrder'
    BY <1>1, <1>2, <1>5, <1>6, <1>7, HandledKeeps DEF SentInOrder
  <1>9. ASSUME wsDelivered' \in Seq(Seq(Frame)) PROVE WsTypeOK'
    BY <1>1, <1>2, <1>8, <1>9 DEF WsInv, WsTypeOK, ServerKept
  <1>10. CASE ~Delivers(w, f) /\ Handled(w, f).fragments = w.fragments
              /\ (Handled(w, f).paused \/ (~IsData(f) /\ Handled(w, f).paused = w.paused))
    <2>1. wsDelivered' = wsDelivered /\ wsServer'.fragments = wsServer.fragments
      BY <1>4, <1>6, <1>10
    <2>2. GivenInOrder'
      BY <1>1, <1>7, <2>1 DEF GivenInOrder
    <2>3. ~wsServer'.paused => WireInOrder'
      <3>1. SUFFICES ASSUME ~wsServer'.paused PROVE WireInOrder'
        OBVIOUS
      <3>2. ~IsData(wsWire[1])
        BY <1>6, <1>10, <3>1 DEF f
      <3>3. \A j \in 1 .. Len(wsWire) : IsData(wsWire[j]) => ~HasRead(wsWire[j].msg, wsWire[j].part, d, q)
        BY <1>7, BehindHead
      <3>4. WireOrdered(Tail(wsWire), wsSent, d, q)
        BY <1>1, <1>7, <3>2, <3>3, WireTail
      <3>. QED
        BY <1>1, <2>1, <3>4 DEF WireInOrder
    <2>. QED
      BY <1>8, <1>9, <2>1, <2>2, <2>3 DEF WsInv
  <1>11. CASE /\ IsData(f) /\ (Delivers(w, f) <=> f.fin) /\ (f.op = "text" <=> w.fragments = << >>)
              /\ JoinsAs(w, f, Handled(w, f))
    <2>1. d + 1 \in 1 .. Messages /\ q + 1 \in 1 .. Len(wsSent[d + 1]) /\ f = wsSent[d + 1][q + 1]
          /\ f.msg = d + 1 /\ f.part = q + 1
      <3>1. f.op = "text" => q = 0
        BY <1>4, <1>11
      <3>. QED
        BY <1>1, <1>7, <1>11, <3>1, HeadIsNext, SMTT(30) DEF f
    <2>2. PICK m \in 1 .. Messages : m = d + 1
      BY <2>1
    <2>3. /\ wsSent[m] \in Seq(Frame) /\ Len(wsSent[m]) \in Nat /\ m \in Nat
          /\ q + 1 \in 1 .. Len(wsSent[m]) /\ f = wsSent[m][q + 1]
          /\ f.fin => q + 1 = Len(wsSent[m])
      BY <1>7, <2>1, <2>2, SentIs, SMTT(30) DEF SentOrdered
    <2>4. \A i \in 1 .. q : wsServer.fragments[i] = wsSent[m][i] /\ ~wsServer.fragments[i].fin
      <3>1. CASE wsServer.fragments = << >>
        BY <3>1
      <3>2. CASE wsServer.fragments # << >>
        BY <1>7, <2>2, <3>2 DEF GivenOrdered
      <3>. QED
        BY <3>1, <3>2
    <2>. DEFINE s == Append(wsServer.fragments, f)
    <2>5. /\ s \in Seq(Frame) /\ Len(s) = q + 1
          /\ \A i \in 1 .. q + 1 : s[i] = wsSent[m][i]
      BY <1>2, <2>3, <2>4, SMTT(30)
    <2>6. \A j \in 1 .. Len(wsWire) : j # 1 /\ IsData(wsWire[j]) =>
            /\ wsWire[j].msg \in 1 .. Messages /\ wsWire[j].part \in 1 .. Len(wsSent[wsWire[j].msg])
            /\ m < wsWire[j].msg \/ (m = wsWire[j].msg /\ q + 1 < wsWire[j].part)
      <3>1. IsData(wsWire[1]) /\ wsWire[1].msg = m /\ wsWire[1].part = q + 1
        BY <1>11, <2>1, <2>2 DEF f
      <3>2. SUFFICES ASSUME NEW j \in 1 .. Len(wsWire), j # 1, IsData(wsWire[j])
                     PROVE  /\ wsWire[j].msg \in 1 .. Messages /\ wsWire[j].part \in 1 .. Len(wsSent[wsWire[j].msg])
                            /\ m < wsWire[j].msg \/ (m = wsWire[j].msg /\ q + 1 < wsWire[j].part)
        OBVIOUS
      <3>3. /\ wsWire[j].msg \in 1 .. Messages /\ wsWire[j].part \in 1 .. Len(wsSent[wsWire[j].msg])
            /\ wsWire[1].msg < wsWire[j].msg \/ (wsWire[1].msg = wsWire[j].msg /\ wsWire[1].part < wsWire[j].part)
        BY <1>7, <3>1, <3>2, BehindHead
      <3>. QED
        BY <3>1, <3>3
    <2>7. wsServer'.paused = wsServer.paused
      BY <1>4, <1>6, <1>11 DEF JoinsAs
    <2>8. CASE f.fin
      <3>1. wsDelivered' = Append(wsDelivered, s) /\ wsServer'.fragments = << >>
        BY <1>4, <1>6, <1>11, <2>8 DEF JoinsAs
      <3>2. s = wsSent[m]
        <4>1. Len(s) = Len(wsSent[m]) /\ \A i \in 1 .. Len(s) : s[i] = wsSent[m][i]
          BY <2>3, <2>5, <2>8
        <4>. HIDE DEF s
        <4>. QED
          BY <2>3, <2>5, <4>1, SeqEqual
      <3>. HIDE DEF s
      <3>3. /\ wsDelivered' \in Seq(Seq(Frame)) /\ Len(wsDelivered') = d + 1
            /\ \A i \in 1 .. d : wsDelivered'[i] = wsDelivered[i]
            /\ wsDelivered'[d + 1] = s
        BY <2>5, <3>1
      <3>4. GivenOrdered(wsDelivered', << >>, wsSent)
        <4>1. \A i \in 1 .. d : wsDelivered'[i] = wsSent[i] /\ wsSent[i] # << >> /\ wsSent[i][Len(wsSent[i])].fin
          BY <1>7, <3>3 DEF GivenOrdered
        <4>2. wsDelivered'[m] = wsSent[m] /\ wsSent[m] # << >> /\ wsSent[m][Len(wsSent[m])].fin
          BY <2>2, <2>3, <2>8, <3>2, <3>3, SMTT(30)
        <4>3. \A i \in 1 .. d + 1 : i \in 1 .. d \/ i = m
          BY <2>2
        <4>4. Len(wsDelivered') <= Messages
          BY <2>1, <3>3
        <4>. QED
          BY <3>3, <4>1, <4>2, <4>3, <4>4 DEF GivenOrdered
      <3>5. WireOrdered(Tail(wsWire), wsSent, m, 0)
        <4>1. \A k, p \in Nat : HasRead(k, p, d, q) => HasRead(k, p, m, 0)
          BY <2>2 DEF HasRead
        <4>2. HasRead(wsWire[1].msg, wsWire[1].part, m, 0)
          BY <2>1, <2>2 DEF HasRead, f
        <4>3. ASSUME NEW j \in 1 .. Len(wsWire), j # 1, IsData(wsWire[j])
              PROVE  ~HasRead(wsWire[j].msg, wsWire[j].part, m, 0)
          <5>1. PICK k \in 1 .. Messages : k = wsWire[j].msg /\ wsWire[j].part \in 1 .. Len(wsSent[k])
            BY <2>6, <4>3
          <5>0. PICK p \in 1 .. Len(wsSent[k]) : p = wsWire[j].part
            BY <5>1
          <5>2. k \in Nat /\ p \in Nat /\ p >= 1 /\ Len(wsSent[k]) \in Nat
            BY SentIs
          <5>3. m < k \/ (m = k /\ q + 1 < p)
            BY <2>6, <4>3, <5>0, <5>1
          <5>4. m < k
            BY <2>3, <2>8, <5>2, <5>3
          <5>. QED
            BY <2>3, <5>0, <5>1, <5>2, <5>4, SMTT(30) DEF HasRead
        <4>4. 0 \in Nat
          OBVIOUS
        <4>. QED
          BY <1>1, <1>7, <2>3, <4>1, <4>2, <4>3, <4>4, WireTail
      <3>6. GivenInOrder' /\ WireInOrder'
        <4>1. Len(<< >>) = 0
          OBVIOUS
        <4>. QED
          BY <1>1, <2>2, <3>1, <3>3, <3>4, <3>5, <4>1 DEF GivenInOrder, WireInOrder
      <3>. QED
        BY <1>8, <1>9, <3>3, <3>6 DEF WsInv
    <2>9. CASE ~f.fin
      <3>1. wsDelivered' = wsDelivered /\ wsServer'.fragments = s
        BY <1>4, <1>6, <1>11, <2>9 DEF JoinsAs
      <3>2. s[q + 1] = f /\ \A i \in 1 .. q : s[i] = wsServer.fragments[i]
        BY <1>2
      <3>. HIDE DEF s
      <3>3. GivenOrdered(wsDelivered, s, wsSent)
        <4>1. \A i \in 1 .. q + 1 : s[i] = wsSent[m][i] /\ ~s[i].fin
          <5>1. \A i \in 1 .. q + 1 : i \in 1 .. q \/ i = q + 1
            BY SMTT(30)
          <5>. QED
            BY <2>4, <2>5, <2>9, <3>2, <5>1
        <4>2. d < Messages /\ Len(s) <= Len(wsSent[m])
          BY <2>1, <2>3, <2>5
        <4>. QED
          BY <1>7, <2>2, <2>5, <4>1, <4>2 DEF GivenOrdered
      <3>4. WireOrdered(Tail(wsWire), wsSent, d, q + 1)
        <4>1. \A k, p \in Nat : HasRead(k, p, d, q) => HasRead(k, p, d, q + 1)
          BY DEF HasRead
        <4>2. HasRead(wsWire[1].msg, wsWire[1].part, d, q + 1)
          BY <2>1 DEF HasRead, f
        <4>3. ASSUME NEW j \in 1 .. Len(wsWire), j # 1, IsData(wsWire[j])
              PROVE  ~HasRead(wsWire[j].msg, wsWire[j].part, d, q + 1)
          <5>1. PICK k \in 1 .. Messages : k = wsWire[j].msg /\ wsWire[j].part \in 1 .. Len(wsSent[k])
            BY <2>6, <4>3
          <5>0. PICK p \in 1 .. Len(wsSent[k]) : p = wsWire[j].part
            BY <5>1
          <5>2. k \in Nat /\ p \in Nat /\ p >= 1 /\ Len(wsSent[k]) \in Nat
            BY SentIs
          <5>3. m < k \/ (m = k /\ q + 1 < p)
            BY <2>6, <4>3, <5>0, <5>1
          <5>4. ~HasRead(k, p, d, q + 1)
            BY <2>2, <2>3, <5>2, <5>3, SMTT(30) DEF HasRead
          <5>. QED
            BY <5>0, <5>1, <5>4
        <4>4. q + 1 \in Nat
          OBVIOUS
        <4>. QED
          BY <1>1, <1>7, <4>1, <4>2, <4>3, <4>4, WireTail
      <3>5. GivenInOrder' /\ WireInOrder'
        BY <1>1, <2>5, <3>1, <3>3, <3>4 DEF GivenInOrder, WireInOrder
      <3>. QED
        BY <1>8, <1>9, <3>1, <3>5 DEF WsInv
    <2>. QED
      BY <2>8, <2>9
  <1>. QED
    BY <1>2, <1>5, <1>10, <1>11, HandledKeeps

\* What the route, the timers, the socket and a client that says nothing do.
LEMMA FailsKeep ==
    ASSUME WsInv, HandlerFails PROVE WsInv'
  <1>1. InternalError \in Codes
    BY DEF Codes
  <1>2. ServerKept(wsServer)
    BY WsTypesAre
  <1>3. ServerKept(Failed(wsServer, InternalError)) /\ Failed(wsServer, InternalError).fragments = wsServer.fragments
        /\ Failed(wsServer, InternalError).paused
    BY <1>1, <1>2, FailedKeeps DEF Keeps
  <1>. QED
    BY <1>3, WsTypesAre, WsServerMoves DEF HandlerFails

LEMMA SendsKeep ==
    ASSUME WsInv, PeerSend PROVE WsInv'
  <1>1. Overflow \in Codes
    BY DEF Codes
  <1>2. ServerKept(wsServer) /\ wsServer.state = "open"
    BY WsTypesAre DEF PeerSend
  <1>3. wsServer.told = << >>
    BY <1>2 DEF ServerKept
  <1>4. /\ ServerKept(Terminated(wsServer, Overflow)) /\ Terminated(wsServer, Overflow).fragments = wsServer.fragments
        /\ Terminated(wsServer, Overflow).paused = wsServer.paused
    BY <1>1, <1>2, <1>3, TerminatedKeeps DEF Keeps
  <1>5. /\ ServerKept(Written(wsServer, "data")) /\ Written(wsServer, "data").fragments = wsServer.fragments
        /\ Written(wsServer, "data").paused = wsServer.paused
    BY <1>2, WrittenKeeps DEF Keeps
  <1>6. ServerKept(wsServer') /\ wsServer'.fragments = wsServer.fragments /\ wsServer'.paused = wsServer.paused
    BY <1>4, <1>5 DEF PeerSend
  <1>. QED
    BY <1>6, WsTypesAre, WsServerMoves DEF PeerSend

LEMMA ClosesKeep ==
    ASSUME WsInv, PeerClose PROVE WsInv'
  <1>1. GoingAway \in Codes
    BY DEF Codes
  <1>2. ServerKept(wsServer)
    BY WsTypesAre
  <1>3. ServerKept(wsServer') /\ wsServer'.fragments = wsServer.fragments /\ wsServer'.paused = wsServer.paused
    BY <1>1, <1>2, CloseStartedKeeps DEF PeerClose, Keeps
  <1>. QED
    BY <1>3, WsTypesAre, WsServerMoves DEF PeerClose

LEMMA BeatsKeep ==
    ASSUME WsInv, Heartbeat PROVE WsInv'
  <1>1. AbnormalClosure \in Codes
    BY DEF Codes
  <1>2. ServerKept(wsServer) /\ wsServer \in Server /\ wsServer.told = << >>
    BY WsTypesAre DEF Heartbeat
  <1>3. /\ ServerKept(Terminated(wsServer, AbnormalClosure))
        /\ Terminated(wsServer, AbnormalClosure).fragments = wsServer.fragments
        /\ Terminated(wsServer, AbnormalClosure).paused = wsServer.paused
    BY <1>1, <1>2, TerminatedKeeps DEF Keeps
  <1>. DEFINE w == [wsServer EXCEPT !.alive = FALSE]
  <1>4. /\ w \in Server /\ w.state = wsServer.state /\ w.fragments = wsServer.fragments /\ w.paused = wsServer.paused
        /\ w.closes = wsServer.closes /\ w.told = wsServer.told /\ w.timer = wsServer.timer
        /\ w.destroyed = wsServer.destroyed /\ w.afterwards = wsServer.afterwards
    BY <1>2 DEF Server
  <1>5. wsServer' = IF Silent(wsServer) THEN Terminated(wsServer, AbnormalClosure) ELSE WrittenWhileOpen(w, "ping")
    BY DEF Heartbeat
  <1>. HIDE DEF w
  <1>6. ServerKept(w)
    BY <1>2, <1>4 DEF ServerKept
  <1>7. /\ ServerKept(WrittenWhileOpen(w, "ping")) /\ WrittenWhileOpen(w, "ping").fragments = wsServer.fragments
        /\ WrittenWhileOpen(w, "ping").paused = wsServer.paused
    BY <1>4, <1>6, WrittenWhileOpenKeeps DEF Keeps
  <1>8. ServerKept(wsServer') /\ wsServer'.fragments = wsServer.fragments /\ wsServer'.paused = wsServer.paused
    BY <1>3, <1>5, <1>7
  <1>. QED
    BY <1>8, WsTypesAre, WsServerMoves DEF Heartbeat

\* The fields that change here say nothing of frames.
LEMMA OthersKeep ==
    ASSUME WsInv, WsAccept \/ WsRefuse \/ ClientReads \/ CloseTimeout \/ SocketEnd
    PROVE  WsInv'
  <1>1. ServerKept(wsServer) /\ wsServer \in Server
    BY WsTypesAre
  <1>2. /\ wsServer' \in Server /\ wsServer'.fragments = wsServer.fragments /\ wsServer'.paused = wsServer.paused
        /\ wsServer'.closes = wsServer.closes /\ wsServer'.told = wsServer.told /\ wsServer'.timer = wsServer.timer
        /\ wsServer'.afterwards = wsServer.afterwards
        /\ wsServer.destroyed => wsServer'.destroyed
        /\ wsServer'.state = wsServer.state \/ (wsServer.state = "asked" /\ wsServer'.state \in {"open", "refused"})
    <2>1. CASE WsAccept
      BY <1>1, <2>1 DEF WsAccept, Server
    <2>2. CASE WsRefuse
      BY <1>1, <2>2 DEF WsRefuse, Server
    <2>3. CASE ClientReads
      BY <1>1, <2>3 DEF ClientReads, Server
    <2>4. CASE CloseTimeout
      BY <1>1, <2>4 DEF CloseTimeout, Server
    <2>5. CASE SocketEnd
      BY <1>1, <2>5 DEF SocketEnd, Server
    <2>. QED
      BY <2>1, <2>2, <2>3, <2>4, <2>5
  <1>3. ServerKept(wsServer')
    BY <1>1, <1>2 DEF ServerKept
  <1>4. UNCHANGED <<wsWire, wsSent, wsClient, wsDelivered>>
    BY DEF WsAccept, WsRefuse, ClientReads, CloseTimeout, SocketEnd
  <1>. QED
    BY <1>2, <1>3, <1>4, WsTypesAre, WsServerMoves

LEMMA ClosedKeep ==
    ASSUME WsInv, SocketClosed PROVE WsInv'
  <1>1. ServerKept(wsServer) /\ wsServer \in Server /\ wsServer.told = << >>
    BY WsTypesAre DEF SocketClosed
  <1>2. ToldCode(wsServer) \in Codes
    BY <1>1 DEF ToldCode, Server, Codes
  <1>. DEFINE told == Append(wsServer.told, ToldCode(wsServer))
  <1>3. told \in Seq(Codes) /\ Len(told) = 1
    BY <1>1, <1>2
  <1>4. wsServer' = [wsServer EXCEPT !.state = "closed", !.timer = FALSE, !.destroyed = TRUE, !.told = told]
    BY DEF SocketClosed
  <1>. HIDE DEF told
  <1>5. /\ wsServer' \in Server /\ wsServer'.fragments = wsServer.fragments /\ wsServer'.paused = wsServer.paused
        /\ wsServer'.closes = wsServer.closes /\ wsServer'.told = told /\ wsServer'.state = "closed"
        /\ wsServer'.afterwards = wsServer.afterwards
    BY <1>1, <1>3, <1>4 DEF Server
  <1>6. ~wsServer'.timer /\ wsServer'.destroyed
    BY <1>1, <1>4 DEF Server
  <1>7. ServerKept(wsServer')
    BY <1>1, <1>3, <1>5, <1>6 DEF ServerKept
  <1>. QED
    BY <1>5, <1>7, WsTypesAre, WsServerMoves DEF SocketClosed

LEMMA ClientsKeep ==
    ASSUME WsInv, ClientControl \/ ClientBreaksProtocol \/ ClientCloses \/ ClientEnds \/ ClientVanishes
    PROVE  WsInv'
  <1>. DEFINE Client == [msg : 0 .. Messages, part : 0 .. Parts - 1, done : BOOLEAN, ended : BOOLEAN]
              done == [wsClient EXCEPT !.done = TRUE]
              ended == [wsClient EXCEPT !.done = TRUE, !.ended = TRUE]
  <1>1. wsClient \in Client
    BY WsTypesAre
  <1>2. done \in Client /\ done.msg = wsClient.msg /\ done.part = wsClient.part
    BY <1>1
  <1>3. ended \in Client /\ ended.msg = wsClient.msg /\ ended.part = wsClient.part
    BY <1>1
  <1>4. CASE ClientControl
    BY <1>1, <1>4, ControlSent DEF ClientControl
  <1>5. CASE ClientBreaksProtocol
    <2>1. SendFrame(Control("bad"), done)
      BY <1>5 DEF ClientBreaksProtocol
    <2>. HIDE DEF done
    <2>. QED
      BY <1>2, <2>1, ControlSent
  <1>6. CASE ClientCloses
    <2>1. SendFrame(Control("close"), done)
      BY <1>6 DEF ClientCloses
    <2>. HIDE DEF done
    <2>. QED
      BY <1>2, <2>1, ControlSent
  <1>7. CASE ClientEnds
    <2>1. wsClient' = ended /\ UNCHANGED <<wsServer, wsWire, wsSent, wsDelivered>>
      BY <1>7 DEF ClientEnds
    <2>. HIDE DEF ended
    <2>. QED
      BY <1>3, <2>1, WsTypesAre, WsServerMoves
  <1>8. CASE ClientVanishes
    <2>1. wsClient' = done /\ UNCHANGED <<wsWire, wsSent, wsDelivered>>
      BY <1>8 DEF ClientVanishes
    <2>2. ServerKept(wsServer) /\ wsServer \in Server
      BY WsTypesAre
    <2>3. /\ wsServer' \in Server /\ wsServer'.fragments = wsServer.fragments /\ wsServer'.paused = wsServer.paused
          /\ wsServer'.closes = wsServer.closes /\ wsServer'.told = wsServer.told /\ wsServer'.timer = wsServer.timer
          /\ wsServer'.afterwards = wsServer.afterwards /\ wsServer'.state = wsServer.state
      BY <1>8, <2>2 DEF ClientVanishes, Server
    <2>4. wsServer'.destroyed
      BY <1>8, <2>2 DEF ClientVanishes, Server
    <2>5. ServerKept(wsServer')
      BY <2>2, <2>3, <2>4 DEF ServerKept
    <2>. HIDE DEF done
    <2>. QED
      BY <1>2, <2>1, <2>3, <2>5, WsTypesAre, WsServerMoves
  <1>. QED
    BY <1>4, <1>5, <1>6, <1>7, <1>8

LEMMA WsInitially == WsInit => WsInv
  <1>1. SUFFICES ASSUME WsInit PROVE WsInv
    OBVIOUS
  <1>2. /\ wsWire = << >> /\ wsSent = [m \in 1 .. Messages |-> << >>] /\ wsDelivered = << >>
        /\ wsClient = [msg |-> 0, part |-> 0, done |-> FALSE, ended |-> FALSE]
    BY <1>1 DEF WsInit
  <1>3. Messages \in Nat /\ Parts \in Nat /\ Parts >= 1
    BY WebSocketAssumption
  <1>4. wsServer \in Server
    <2>1. << >> \in Seq(Frame) /\ << >> \in Seq(Codes) /\ NoCode \in {NoCode, NormalClosure}
          /\ NoCode \in Codes \union {NoCode} /\ 0 \in Nat
      OBVIOUS
    <2>. QED
      BY <1>1, <2>1 DEF WsInit, Server
  <1>5. ServerKept(wsServer)
    BY <1>1, <1>4 DEF WsInit, ServerKept
  <1>6. WsTypeOK
    <2>1. << >> \in Seq(Frame) /\ << >> \in Seq(Seq(Frame))
      OBVIOUS
    <2>2. wsClient \in [msg : 0 .. Messages, part : 0 .. Parts - 1, done : BOOLEAN, ended : BOOLEAN]
      <3>1. 0 \in 0 .. Messages /\ 0 \in 0 .. Parts - 1
        BY <1>3
      <3>. QED
        BY <1>2, <3>1
    <2>. QED
      BY <1>2, <1>4, <2>1, <2>2 DEF WsTypeOK
  <1>7. SentInOrder
    BY <1>2, <1>3 DEF SentInOrder, SentOrdered
  <1>8. wsServer.fragments = << >> /\ Len(wsDelivered) = 0
    BY <1>1 DEF WsInit
  <1>9. GivenInOrder
    BY <1>3, <1>8 DEF GivenInOrder, GivenOrdered
  <1>10. WireInOrder
    <2>1. \A m \in 1 .. Messages : Len(wsSent[m]) = 0
      BY <1>2
    <2>2. Len(wsWire) = 0
      BY <1>2
    <2>. QED
      BY <2>1, <2>2 DEF WireInOrder, WireOrdered
  <1>. QED
    BY <1>5, <1>6, <1>7, <1>9, <1>10 DEF WsInv

LEMMA WsKeeps == WsInv /\ [WsNext]_wsVars => WsInv'
  <1>1. SUFFICES ASSUME WsInv, [WsNext]_wsVars PROVE WsInv'
    OBVIOUS
  <1>2. CASE \E size \in Sizes, fin \in BOOLEAN : ClientMessage(size, fin) \/ ClientContinue(size, fin)
    BY <1>1, <1>2, MessagesKeep, ContinuesKeep
  <1>3. CASE ClientControl \/ ClientBreaksProtocol \/ ClientCloses \/ ClientEnds \/ ClientVanishes
    BY <1>1, <1>3, ClientsKeep
  <1>4. CASE WsAccept \/ WsRefuse \/ ClientReads \/ CloseTimeout \/ SocketEnd
    BY <1>1, <1>4, OthersKeep
  <1>5. CASE OnData
    BY <1>1, <1>5, ReadsKeep
  <1>6. CASE HandlerFails \/ PeerSend \/ PeerClose \/ Heartbeat \/ SocketClosed
    BY <1>1, <1>6, FailsKeep, SendsKeep, ClosesKeep, BeatsKeep, ClosedKeep
  <1>7. CASE UNCHANGED wsVars
    BY <1>1, <1>7, WsTypesAre, WsServerMoves DEF wsVars
  <1>. QED
    BY <1>1, <1>2, <1>3, <1>4, <1>5, <1>6, <1>7 DEF WsNext

\* The inductive invariant of a connection: what the server has begun to close, what the client
\* has sent, and which of it was read, is being put together, or is on its way in its order
\* (websocket.ts, acceptWebSocket).
THEOREM WebSocketInvariance == WsSpec => []WsInv
  BY WsInitially, WsKeeps, PTL DEF WsSpec

\* The server's state, the frames and the messages are well typed.
THEOREM WebSocketTypeCorrect == WsSpec => []WsTypeOK
  <1>1. WsInv => WsTypeOK
    BY DEF WsInv
  <1>. QED
    BY <1>1, WebSocketInvariance, PTL

\* The route is given the client's messages, each whole and in the order they were sent; at most
\* one close frame is written and nothing after it, and the route hears of the end once.
THEOREM MessagesWholeOnce == WsSpec => []WsKept
  <1>1. WsInv => WsKept
    <2>1. SUFFICES ASSUME WsInv PROVE WsKept
      OBVIOUS
    <2>2. ServerKept(wsServer) /\ GivenOrdered(wsDelivered, wsServer.fragments, wsSent)
      BY <2>1 DEF WsInv, GivenInOrder
    <2>3. wsServer.told \in Seq(Codes)
      BY <2>1, WsTypesAre DEF Server
    <2>4. WsHandshake
      <3>1. Len(wsServer.told) <= 1
        <4>1. CASE wsServer.told = << >>
          BY <4>1
        <4>2. CASE wsServer.told # << >>
          <5>1. Len(wsServer.told) = 1
            BY <2>2, <4>2, Zenon DEF ServerKept
          <5>. QED
            BY <5>1
        <4>. QED
          BY <4>1, <4>2
      <3>. QED
        BY <2>2, <3>1 DEF ServerKept, WsHandshake
    <2>5. DOMAIN wsDelivered = 1 .. Len(wsDelivered)
      BY <2>1, WsTypesAre
    <2>6. WsInOrder
      BY <2>2, <2>5 DEF GivenOrdered, WsInOrder
    <2>. QED
      BY <2>4, <2>6 DEF WsKept
  <1>. QED
    BY <1>1, WebSocketInvariance, PTL

-----------------------------------------------------------------------------
(* The shutdown of HTTP.                                                   *)

\* The two sets that close() goes through have exactly the connections they are for.
SetsAreConnections ==
    /\ \A c \in Connections : c \in hsPeers <=> hsConn[c] = "socket"
    /\ \A c \in Connections : c \in hsStreams <=> hsConn[c] = "stream"

\* What comes of an upgrade after close() is known to be late, and nothing that the grace drops
\* can begin once it has ended.
ClosingKept ==
    /\ hsPhase = "listening" <=> hsGrace = "none"
    /\ hsPhase # "listening" => \A c \in Connections :
         /\ hsConn[c] \in {"upgrading", "refused"} => c \in hsLate
         /\ hsConn[c] = "socket" => c \in hsAsked \union hsLate
    /\ hsGrace = "fired" => \A c \in Connections : hsConn[c] \notin {"idle", "request", "stream"}
    /\ hsPhase = "closed" =>
         hsGrace # "running" /\ \A c \in Connections : hsConn[c] \in {"none", "gone"}

HsInv == HsTypeOK /\ SetsAreConnections /\ ClosingKept

LEMMA HsInitially == HsInit => HsInv
  BY DEF HsInit, HsInv, HsTypeOK, ConnStates, SetsAreConnections, ClosingKept

\* The steps of one connection that neither begin an upgrade nor end one.
LEMMA RequestsKeep ==
    ASSUME HsInv, NEW c \in Connections,
           Accept(c) \/ Begins(c) \/ Answer(c) \/ TailStream(c) \/ StreamEnds(c)
    PROVE  HsInv'
  <1>1. CASE Accept(c)
    BY <1>1 DEF HsInv, HsTypeOK, ConnStates, SetsAreConnections, ClosingKept, Accept, HsMoves
  <1>2. CASE Begins(c)
    BY <1>2 DEF HsInv, HsTypeOK, ConnStates, SetsAreConnections, ClosingKept, Begins, HsMoves
  <1>3. CASE Answer(c)
    BY <1>3 DEF HsInv, HsTypeOK, ConnStates, SetsAreConnections, ClosingKept, Answer, HsMoves
  <1>4. CASE TailStream(c)
    BY <1>4 DEF HsInv, HsTypeOK, ConnStates, SetsAreConnections, ClosingKept, TailStream, HsMoves
  <1>5. CASE StreamEnds(c)
    BY <1>5 DEF HsInv, HsTypeOK, ConnStates, SetsAreConnections, ClosingKept, StreamEnds, HsMoves
  <1>. QED
    BY <1>1, <1>2, <1>3, <1>4, <1>5

\* An upgrade, what comes of it, and a connection that ends.
LEMMA UpgradesKeep ==
    ASSUME HsInv, NEW c \in Connections,
           \/ BeginsUpgrade(c) \/ AcceptSocket(c) \/ RejectUpgrade(c) \/ SocketLeaves(c) \/ ClientLeaves(c)
    PROVE  HsInv'
  <1>1. CASE BeginsUpgrade(c)
    BY <1>1 DEF HsInv, HsTypeOK, ConnStates, SetsAreConnections, ClosingKept, BeginsUpgrade, HsMoves
  <1>2. CASE AcceptSocket(c)
    BY <1>2 DEF HsInv, HsTypeOK, ConnStates, SetsAreConnections, ClosingKept, AcceptSocket, JoinsPeers, HsMoves
  <1>3. CASE RejectUpgrade(c)
    BY <1>3 DEF HsInv, HsTypeOK, ConnStates, SetsAreConnections, ClosingKept, RejectUpgrade, HsMoves
  <1>4. CASE SocketLeaves(c)
    BY <1>4 DEF HsInv, HsTypeOK, ConnStates, SetsAreConnections, ClosingKept, SocketLeaves, HsMoves
  <1>5. CASE ClientLeaves(c)
    BY <1>5 DEF HsInv, HsTypeOK, ConnStates, SetsAreConnections, ClosingKept, ClientLeaves, HsMoves
  <1>. QED
    BY <1>1, <1>2, <1>3, <1>4, <1>5

\* close() asks the peers there are, which are the sockets; every upgrade it finds is late.
LEMMA CloseKeeps ==
    ASSUME HsInv, Close
    PROVE  HsInv'
  <1>1. \A c \in Connections : hsConn'[c] = IF EndsAtOnce(hsConn[c]) THEN "gone" ELSE hsConn[c]
    BY DEF Close
  <1>2. HsTypeOK'
    BY DEF HsInv, HsTypeOK, ConnStates, Close
  <1>3. SetsAreConnections'
    BY <1>1 DEF HsInv, SetsAreConnections, Close, EndsAtOnce
  <1>4. ClosingKept'
    BY <1>1 DEF HsInv, SetsAreConnections, ClosingKept, Close, EndsAtOnce
  <1>. QED
    BY <1>2, <1>3, <1>4 DEF HsInv

LEMMA GraceKeeps ==
    ASSUME HsInv, GraceEnds
    PROVE  HsInv'
  <1>1. \A c \in Connections : hsConn'[c] = IF Drops(hsConn[c]) THEN "gone" ELSE hsConn[c]
    BY DEF GraceEnds
  <1>2. HsTypeOK'
    BY DEF HsInv, HsTypeOK, ConnStates, GraceEnds
  <1>3. SetsAreConnections'
    BY <1>1 DEF HsInv, SetsAreConnections, GraceEnds, Drops
  <1>4. ClosingKept'
    BY <1>1 DEF HsInv, ClosingKept, GraceEnds, Drops
  <1>. QED
    BY <1>2, <1>3, <1>4 DEF HsInv

LEMMA HsKeeps == HsInv /\ [HsNext]_hsVars => HsInv'
  <1>. SUFFICES ASSUME HsInv, [HsNext]_hsVars PROVE HsInv'
    OBVIOUS
  <1>1. CASE Close
    BY <1>1, CloseKeeps
  <1>2. CASE GraceEnds
    BY <1>2, GraceKeeps
  <1>3. CASE Closed
    BY <1>3 DEF HsInv, HsTypeOK, SetsAreConnections, ClosingKept, Closed
  <1>4. CASE UNCHANGED hsVars
    BY <1>4 DEF HsInv, HsTypeOK, SetsAreConnections, ClosingKept, hsVars
  <1>. QED
    BY <1>1, <1>2, <1>3, <1>4, RequestsKeep, UpgradesKeep DEF HsNext

\* The invariant of the shutdown, for any connections: the sets that close() goes through are
\* those of the connections, and what it cannot reach is known.
THEOREM HttpInvariance == HsSpec => []HsInv
  BY HsInitially, HsKeeps, PTL DEF HsSpec

\* However requests, streams and upgrades meet the shutdown, every WebSocket was told to leave
\* or is of a late upgrade, the grace leaves nothing else, and a closed server has nothing left.
THEOREM ShutdownReaches == HsSpec => []HttpKept
  <1>1. HsInv => HttpKept
    <2>1. SUFFICES ASSUME HsInv PROVE HttpKept
      OBVIOUS
    <2>2. hsPhase # "listening" => \A c \in Connections : hsConn[c] = "socket" => Reached(c)
      BY <2>1 DEF HsInv, ClosingKept, Reached
    <2>3. hsGrace = "fired" => \A c \in Connections : Reached(c)
      BY <2>1 DEF HsInv, HsTypeOK, ConnStates, ClosingKept, Reached
    <2>4. hsPhase = "closed" =>
            /\ \A c \in Connections : hsConn[c] \in {"none", "gone"}
            /\ hsPeers = {} /\ hsStreams = {} /\ hsGrace # "running"
      BY <2>1 DEF HsInv, HsTypeOK, SetsAreConnections, ClosingKept
    <2>. QED
      BY <2>2, <2>3, <2>4 DEF HttpKept
  <1>. QED
    BY <1>1, HttpInvariance, PTL
=============================================================================
