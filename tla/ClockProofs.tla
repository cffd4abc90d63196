----------------------------- MODULE ClockProofs -----------------------------
(*****************************************************************************)
(* What goes by clocks that several processes and requests read.             *)
(*                                                                           *)
(* Sessions, for any number of requests, logins and revocations: a stored    *)
(* session only moves forward, and no request is served with what was out of *)
(* date when it came. The steps of a request lie far apart, so the argument  *)
(* separates what one step may do to the clock, the account and the rows     *)
(* (Forward) from what a request knows of them (Knows). Whatever moves       *)
(* forward under a request leaves true what it knows: a row it has read is   *)
(* older than the row there is, unless the revisions are equal and with them *)
(* the contexts; the account it has resolved is not older than the one it    *)
(* began with; and a session that was over when it came stays over.          *)
(*                                                                           *)
(* Schedules, for any manifest of schedules and any number of replicas with  *)
(* clocks of their own: each tick is fired at most once, and every tick a    *)
(* schedule has gone through is accounted for. Who moves last_tick by the    *)
(* compare-and-set has the tick to itself (SchedApart), in the claims of its *)
(* sweep until it is fired or lost (SchedPlaced), and counts the ticks it    *)
(* skips (SchedCounted).                                                     *)
(*****************************************************************************)
EXTENDS Session, Schedule, FiniteSetTheorems, TLAPS

-----------------------------------------------------------------------------
(* Sessions.                                                               *)

\* The account as it is now is not older than x.
AccountAhead(x) == x.context <= ssAccount.context /\ x.version <= ssAccount.version

\* x is not older than what a request began with.
NotBefore(begun, x) == begun.context <= x.context /\ begun.version <= x.version

Ended(i) == ssRow[i] = Gone \/ (Held(i) /\ Over(ssRow[i]))

\* What a row that was read tells of the row there is.
ReadOf(raw, i) ==
    /\ AccountAhead(raw)
    /\ Held(i) => /\ raw.version = ssRow[i].version /\ raw.revision <= ssRow[i].revision
                  /\ raw.revision = ssRow[i].revision => raw.context = ssRow[i].context

\* What a request on its way knows, at each of its steps.
Knows(q) ==
    /\ ssRow[q.id] # Unused
    /\ AccountAhead(q.begun)
    /\ q.late => q.step = "read" /\ ~q.again /\ Ended(q.id)
    /\ q.raw \in SsRow => ReadOf(q.raw, q.id)
    /\ q.resolved \in Account => AccountAhead(q.resolved) /\ NotBefore(q.begun, q.resolved)
    /\ q.again \/ q.step \in {"update", "reread"} => q.resolved \in Account
    /\ q.step \in {"touch", "resolve", "update"} => q.raw \in SsRow
    /\ q.step = "update" => q.raw.version = q.resolved.version /\ q.raw.context <= q.resolved.context
    /\ q.step = "reread" /\ Held(q.id) => NotBefore(q.begun, ssRow[q.id])
    /\ q.step = "answered" /\ q.served # NoSession => NotBefore(q.begun, q.served)

\* Nothing stored is ahead of the account.
StoredFollows ==
    /\ ssAccount.version <= ssAccount.context
    /\ \A i \in SsIds : Held(i) => AccountAhead(ssRow[i])
    /\ ssLogin \in Account => AccountAhead(ssLogin)

RequestsKnow == \A r \in SsRequests : ssRequest[r] # NoSession => Knows(ssRequest[r])

SsInv == SsTypeOK /\ StoredFollows /\ RequestsKnow

\* What any step does to a row, and to clock, account and rows.
RowForward(i) ==
    /\ ssRow[i] = Gone => ssRow'[i] = Gone
    /\ ssRow[i] # Unused => ssRow'[i] # Unused
    /\ Held(i) /\ ssRow'[i] # Gone =>
         /\ ssRow'[i].version = ssRow[i].version /\ ssRow'[i].context >= ssRow[i].context
         /\ ssRow'[i].created = ssRow[i].created
         /\ ssRow'[i].revision >= ssRow[i].revision
         /\ ssRow'[i].revision = ssRow[i].revision => ssRow'[i].context = ssRow[i].context
         /\ SsExpired(ssRow[i]) => ssRow'[i] = ssRow[i]

Forward ==
    /\ ssClock' >= ssClock
    /\ ssAccount'.context >= ssAccount.context /\ ssAccount'.version >= ssAccount.version
    /\ \A i \in SsIds : RowForward(i)

-----------------------------------------------------------------------------
(* Types.                                                                  *)

LEMMA SsAtHand ==
    ASSUME SsTypeOK
    PROVE  /\ ssClock \in Nat /\ ssAccount \in Account
           /\ ssAccount.context \in Nat /\ ssAccount.version \in Nat
           /\ \A i \in SsIds : Held(i) => ssRow[i] \in SsRow
           /\ \A r \in SsRequests : ssRequest[r] # NoSession => ssRequest[r] \in Request
           /\ \A row \in SsRow : row.context \in Nat /\ row.version \in Nat /\ row.revision \in Nat
                                 /\ row.created \in Nat /\ row.expires \in Nat
           /\ \A a \in Account : a.context \in Nat /\ a.version \in Nat
           /\ AbsoluteTtl \in Nat /\ IdleTtl \in Nat /\ SsChanges \in Nat /\ SsInstants \in Nat
  BY SessionAssumption DEF SsTypeOK, Held, SsRow, Account

\* What a request knows stays true while the rest moves forward.
LEMMA KnowsForward ==
    ASSUME SsTypeOK, SsTypeOK', Forward, NEW q \in Request, Knows(q)
    PROVE  Knows(q)'
  <1>. USE SsAtHand
  <1>1. q.id \in SsIds /\ q.begun \in Account
    BY DEF Request
  <1>2. RowForward(q.id)
    BY <1>1 DEF Forward
  <1>3. \A x : x.context \in Nat /\ x.version \in Nat /\ AccountAhead(x) => AccountAhead(x)'
    BY DEF Forward, AccountAhead, SsTypeOK, Account
  <1>4. ssRow'[q.id] # Unused
    BY <1>2 DEF RowForward, Knows
  <1>5. AccountAhead(q.begun)'
    BY <1>1, <1>3 DEF Knows
  <1>6. Held(q.id)' => Held(q.id) /\ ssRow[q.id] \in SsRow /\ ssRow'[q.id] \in SsRow /\ ssRow'[q.id] # Gone
    BY <1>1, <1>2 DEF RowForward, Held, Knows, SsTypeOK
  <1>7. Ended(q.id) => Ended(q.id)'
    BY <1>1, <1>2, <1>4 DEF RowForward, Ended, Held, Over, SsExpired, Ceiling, Forward, SsTypeOK
  <1>8. q.raw \in SsRow => ReadOf(q.raw, q.id)'
    <2>. SUFFICES ASSUME q.raw \in SsRow PROVE ReadOf(q.raw, q.id)'
      OBVIOUS
    <2>1. ReadOf(q.raw, q.id)
      BY DEF Knows
    <2>2. AccountAhead(q.raw)'
      BY <1>3, <2>1 DEF ReadOf
    <2>3. ASSUME Held(q.id)'
          PROVE  /\ q.raw.version = ssRow'[q.id].version /\ q.raw.revision <= ssRow'[q.id].revision
                 /\ q.raw.revision = ssRow'[q.id].revision => q.raw.context = ssRow'[q.id].context
      <3>1. Held(q.id) /\ ssRow[q.id] \in SsRow /\ ssRow'[q.id] \in SsRow /\ ssRow'[q.id] # Gone
        BY <1>6, <2>3
      <3>. QED
        BY <1>2, <2>1, <3>1 DEF RowForward, ReadOf
    <2>. QED
      BY <2>2, <2>3 DEF ReadOf
  <1>9. q.resolved \in Account => AccountAhead(q.resolved)'
    BY <1>3 DEF Knows
  <1>10. q.step = "reread" /\ Held(q.id)' => NotBefore(q.begun, ssRow'[q.id])
    BY <1>1, <1>2, <1>6 DEF Knows, NotBefore, RowForward
  <1>. QED
    BY <1>4, <1>5, <1>7, <1>8, <1>9, <1>10 DEF Knows

\* The state after a step in which only request r has moved, if at all.
Moved(r) ==
    /\ ssRequest' \in [SsRequests -> Request \union {NoSession}]
    /\ \A o \in SsRequests \ {r} : ssRequest'[o] = ssRequest[o]
    /\ ssRequest'[r] # NoSession => Knows(ssRequest[r])'

LEMMA SsInvKept ==
    ASSUME SsInv, Forward, SsTypeOK', StoredFollows',
           \/ UNCHANGED ssRequest
           \/ \E r \in SsRequests : Moved(r)
    PROVE  SsInv'
  <1>1. SUFFICES ASSUME NEW o \in SsRequests, ssRequest'[o] # NoSession
                 PROVE  Knows(ssRequest[o])'
    BY DEF SsInv, RequestsKnow
  <1>2. CASE ssRequest'[o] = ssRequest[o]
    <2>1. PICK q \in Request : q = ssRequest[o] /\ q = ssRequest'[o]
      BY <1>1, <1>2, SsAtHand DEF SsInv
    <2>2. Knows(q)
      BY <1>1, <2>1 DEF SsInv, RequestsKnow
    <2>3. Knows(q)'
      BY <2>2, KnowsForward DEF SsInv
    <2>. QED
      BY <2>1, <2>3 DEF Knows, AccountAhead, Ended, Held, Over, SsExpired, Ceiling, ReadOf
  <1>3. CASE ssRequest'[o] # ssRequest[o]
    <2>1. PICK r \in SsRequests : Moved(r)
      BY <1>3
    <2>2. r = o
      BY <1>3, <2>1 DEF Moved
    <2>. QED
      BY <1>1, <2>1, <2>2 DEF Moved
  <1>. QED
    BY <1>2, <1>3

\* Whatever leaves clock, account and rows as they are moves forward.
LEMMA StillForward ==
    ASSUME SsTypeOK, UNCHANGED <<ssClock, ssAccount, ssRow>>
    PROVE  Forward
  BY SsAtHand DEF Forward, RowForward, SsExpired

LEMMA StillFollows ==
    ASSUME StoredFollows, UNCHANGED <<ssAccount, ssRow, ssLogin>>
    PROVE  StoredFollows'
  BY DEF StoredFollows, AccountAhead, Held

-----------------------------------------------------------------------------
(* What becomes of a request, once it is one.                              *)

LEMMA ForgetsFields ==
    ASSUME NEW q \in Request,
           NEW step \in {"read", "touch", "destroy", "resolve", "update", "reread", "answered"}
    PROVE  LET new == SsForgets(q, step)
           IN  /\ new \in Request /\ new.step = step /\ new.raw = NoSession /\ new.id = q.id
               /\ new.resolved = q.resolved /\ new.again = q.again /\ new.served = q.served
               /\ new.begun = q.begun /\ new.late = q.late
  BY DEF SsForgets, Request

LEMMA EmptyFields ==
    ASSUME NEW q \in Request
    PROVE  LET new == SsEmptyHanded(q)
           IN  /\ new \in Request /\ new.step = q.step /\ new.raw = q.raw /\ new.id = q.id
               /\ new.resolved = q.resolved /\ new.again = q.again /\ new.served = q.served
               /\ new.begun = NothingYet /\ ~new.late
  <1>1. NothingYet \in Account
    BY SessionAssumption DEF NothingYet, Account
  <1>. QED
    BY <1>1 DEF SsEmptyHanded, Request

\* A request r changes to one that knows what it should.
LEMMA MovesTo ==
    ASSUME SsTypeOK, NEW r \in SsRequests, NEW new \in Request, SsGoes(r, new), Knows(new)'
    PROVE  Moved(r)
  <1>1. /\ ssRequest' \in [SsRequests -> Request \union {NoSession}] /\ ssRequest'[r] = new
        /\ \A o \in SsRequests \ {r} : ssRequest'[o] = ssRequest[o]
    BY DEF SsTypeOK, SsGoes
  <1>2. Knows(ssRequest[r])'
    BY <1>1 DEF Knows, AccountAhead, Ended, Held, Over, SsExpired, Ceiling, ReadOf
  <1>. QED
    BY <1>1, <1>2 DEF Moved

\* An answer serves nothing, or what is not older than what the request began with.
LEMMA AnswersMove ==
    ASSUME SsTypeOK, NEW r \in SsRequests, NEW row \in SsRow \union {NoSession}, Answers(r, row),
           ssRequest[r] # NoSession, ssRow'[ssRequest[r].id] # Unused, ssAccount' = ssAccount,
           AccountAhead(ssRequest[r].begun), ~ssRequest[r].late \/ row = NoSession,
           row # NoSession => NotBefore(ssRequest[r].begun, row)
    PROVE  Moved(r)
  <1>1. PICK q \in Request : q = ssRequest[r]
    BY SsAtHand
  <1>2. PICK s \in Request : /\ s = SsForgets(q, "answered") /\ s.step = "answered" /\ s.raw = NoSession
                             /\ s.id = q.id /\ s.begun = q.begun /\ s.late = q.late
    BY ForgetsFields
  <1>3. PICK a \in Request :
          /\ a = [s EXCEPT !.served = row, !.resolved = NoSession, !.again = FALSE]
          /\ a.step = "answered" /\ a.raw = NoSession /\ a.id = q.id /\ a.begun = q.begun /\ a.late = q.late
          /\ a.served = row /\ a.resolved = NoSession /\ ~a.again
    <2>. DEFINE new == [s EXCEPT !.served = row, !.resolved = NoSession, !.again = FALSE]
    <2>1. /\ new \in Request /\ new.step = s.step /\ new.raw = s.raw /\ new.id = s.id /\ new.begun = s.begun
          /\ new.late = s.late /\ new.served = row /\ new.resolved = NoSession /\ ~new.again
      BY DEF Request
    <2>. QED
      BY <1>2, <2>1
  <1>4. CASE row = NoSession
    <2>. DEFINE e == SsEmptyHanded(a)
    <2>1. /\ e \in Request /\ e.step = a.step /\ e.raw = a.raw /\ e.id = a.id /\ e.begun = NothingYet /\ ~e.late
          /\ e.served = a.served /\ e.resolved = a.resolved /\ e.again = a.again
      BY EmptyFields
    <2>. HIDE DEF e
    <2>2. SsGoes(r, e)
      BY <1>1, <1>2, <1>3, <1>4 DEF Answers, e
    <2>3. Knows(e)'
      BY <1>1, <1>3, <1>4, <2>1, SessionNulls, SsAtHand DEF Knows, AccountAhead, NothingYet
    <2>. QED
      BY <2>1, <2>2, <2>3, MovesTo
  <1>5. CASE row # NoSession
    <2>1. SsGoes(r, a)
      BY <1>1, <1>2, <1>3, <1>5 DEF Answers
    <2>2. Knows(a)'
      BY <1>1, <1>3, <1>5, SessionNulls DEF Knows, AccountAhead
    <2>. QED
      BY <2>1, <2>2, MovesTo
  <1>. QED
    BY <1>4, <1>5

\* What a request that is one knows, and that the step leaves the rest alone.
LEMMA OnlyMoves ==
    ASSUME SsInv, NEW r \in SsRequests, Moved(r),
           UNCHANGED <<ssClock, ssAccount, ssRow, ssLogin, ssRevoked>>
    PROVE  SsInv' /\ Forward
  <1>1. Forward /\ StoredFollows'
    BY StillForward, StillFollows DEF SsInv
  <1>2. SsTypeOK'
    BY DEF SsInv, SsTypeOK, Moved
  <1>. QED
    BY <1>1, <1>2, SsInvKept

LEMMA RequestAt ==
    ASSUME SsInv, NEW r \in SsRequests, ssRequest[r] # NoSession
    PROVE  /\ ssRequest[r] \in Request /\ Knows(ssRequest[r])
           /\ ssRequest[r].id \in SsIds /\ ssRequest[r].begun \in Account
  <1>1. ssRequest[r] \in Request /\ Knows(ssRequest[r])
    BY SsAtHand DEF SsInv, RequestsKnow
  <1>. QED
    BY <1>1 DEF Request

\* A request that has nothing to serve only has its session destroyed.
LEMMA DestroyKnows ==
    ASSUME SsTypeOK, NEW r \in SsRequests, NEW q \in Request,
           SsGoes(r, SsEmptyHanded(SsForgets(q, "destroy"))), Knows(q),
           UNCHANGED <<ssAccount, ssRow>>
    PROVE  Moved(r)
  <1>. DEFINE f == SsForgets(q, "destroy")
              e == SsEmptyHanded(f)
  <1>1. /\ f \in Request /\ f.step = "destroy" /\ f.raw = NoSession /\ f.id = q.id
        /\ f.resolved = q.resolved /\ f.again = q.again
    BY ForgetsFields
  <1>. HIDE DEF f
  <1>2. /\ e \in Request /\ e.step = f.step /\ e.raw = f.raw /\ e.id = f.id /\ e.begun = NothingYet /\ ~e.late
        /\ e.resolved = f.resolved /\ e.again = f.again
    BY <1>1, EmptyFields
  <1>3. SsGoes(r, e)
    BY DEF f
  <1>. HIDE DEF e
  <1>4. e.resolved \in Account => AccountAhead(e.resolved) /\ NotBefore(NothingYet, e.resolved)
    BY <1>1, <1>2, SsAtHand DEF Knows, NotBefore, NothingYet
  <1>5. Knows(e)'
    BY <1>1, <1>2, <1>4, SessionNulls, SsAtHand DEF Knows, AccountAhead, NothingYet
  <1>. QED
    BY <1>2, <1>3, <1>5, MovesTo

\* What follows manager.of, when the row it returns is the one there is.
LEMMA AfterOfMoves ==
    ASSUME SsTypeOK, NEW r \in SsRequests, NEW row \in SsRow, AfterOf(r, row),
           NEW q \in Request, q = ssRequest[r], ssRequest[r] # NoSession, Knows(q), ~q.late,
           ssRow'[q.id] # Unused, ReadOf(row, q.id)', ssAccount' = ssAccount
    PROVE  Moved(r)
  <1>1. CASE q.again
    <2>1. q.resolved \in Account /\ NotBefore(q.begun, q.resolved) /\ AccountAhead(q.begun)
      BY <1>1 DEF Knows
    <2>2. Answers(r, Latest(q, row))
      BY <1>1 DEF AfterOf
    <2>3. SameContext(row, q.resolved) => NotBefore(q.begun, row)
      BY <2>1 DEF SameContext, NotBefore
    <2>4. CASE SameContext(row, q.resolved)
      <3>1. Answers(r, row)
        BY <2>2, <2>4 DEF Latest
      <3>. QED
        BY <2>1, <2>3, <2>4, <3>1, AnswersMove
    <2>5. CASE ~SameContext(row, q.resolved)
      <3>1. Answers(r, NoSession)
        BY <2>2, <2>5 DEF Latest
      <3>. QED
        BY <2>1, <3>1, AnswersMove
    <2>. QED
      BY <2>4, <2>5
  <1>2. CASE ~q.again
    <2>. DEFINE f == SsForgets(q, "resolve")
                new == [f EXCEPT !.raw = row]
    <2>1. /\ f \in Request /\ f.step = "resolve" /\ f.id = q.id /\ f.begun = q.begun /\ f.late = q.late
          /\ f.resolved = q.resolved /\ f.again = q.again
      BY ForgetsFields
    <2>. HIDE DEF f
    <2>2. /\ new \in Request /\ new.step = f.step /\ new.id = f.id /\ new.begun = f.begun /\ new.late = f.late
          /\ new.resolved = f.resolved /\ new.again = f.again /\ new.raw = row
      BY <2>1 DEF Request
    <2>3. SsGoes(r, new)
      BY <1>2 DEF AfterOf, f
    <2>. HIDE DEF new
    <2>4. Knows(new)'
      BY <1>2, <2>1, <2>2 DEF Knows, AccountAhead, ReadOf, Held
    <2>. QED
      BY <2>2, <2>3, <2>4, MovesTo
  <1>. QED
    BY <1>1, <1>2

-----------------------------------------------------------------------------
(* sessionRecordOf, step by step.                                          *)

LEMMA FetchesStep ==
    ASSUME SsInv, NEW r \in SsRequests, Fetches(r)
    PROVE  SsInv' /\ Forward
  <1>. DEFINE next(q) == SsLeast(ssClock + IdleTtl, Ceiling(ssRow[q.id]))
  <1>1. PICK q \in Request :
          /\ q = ssRequest[r] /\ ssRequest[r] # NoSession /\ q.step = "read" /\ Knows(q)
          /\ q.id \in SsIds /\ q.begun \in Account
    BY RequestAt DEF Fetches, At
  <1>2. UNCHANGED <<ssClock, ssAccount, ssRow, ssLogin, ssRevoked>> /\ SsTypeOK
    BY DEF Fetches, SsInv
  <1>3. ssRow[q.id] # Unused /\ AccountAhead(q.begun)
    BY <1>1 DEF Knows
  <1>4. ASSUME ~Held(q.id) PROVE Moved(r)
    <2>1. Answers(r, NoSession)
      BY <1>1, <1>4 DEF Fetches
    <2>. QED
      BY <1>1, <1>2, <1>3, <2>1, AnswersMove
  <1>5. ASSUME Held(q.id), Over(ssRow[q.id]) PROVE Moved(r)
    <2>1. SsGoes(r, SsEmptyHanded(SsForgets(q, "destroy")))
      BY <1>1, <1>5 DEF Fetches
    <2>. QED
      BY <1>1, <1>2, <2>1, DestroyKnows
  <1>6. ASSUME Held(q.id), ~Over(ssRow[q.id]) PROVE Moved(r)
    <2>1. PICK row \in SsRow : row = ssRow[q.id]
      BY <1>1, <1>2, <1>6, SsAtHand
    <2>2. ~q.late
      BY <1>1, <1>6 DEF Knows, Ended, Held
    <2>3. ReadOf(row, q.id) /\ ReadOf(row, q.id)'
      BY <1>1, <1>2, <1>6, <2>1, SsAtHand DEF ReadOf, SsInv, StoredFollows, Held, AccountAhead
    <2>4. CASE next(q) > row.expires
      <3>1. PICK until \in Nat : until = next(q)
        BY <1>2, <2>1, SsAtHand DEF SsLeast, Ceiling
      <3>. DEFINE new == [q EXCEPT !.step = "touch", !.raw = row, !.until = until]
      <3>2. SsGoes(r, new)
        BY <1>1, <1>6, <2>1, <2>4, <3>1 DEF Fetches
      <3>3. /\ new \in Request /\ new.step = "touch" /\ new.raw = row /\ new.id = q.id /\ new.begun = q.begun
            /\ new.late = q.late /\ new.resolved = q.resolved /\ new.again = q.again
        BY DEF Request
      <3>. HIDE DEF new
      <3>4. Knows(new)'
        BY <1>1, <1>2, <2>2, <2>3, <3>3 DEF Knows, AccountAhead, ReadOf, Held
      <3>. QED
        BY <1>2, <3>2, <3>3, <3>4, MovesTo
    <2>5. CASE ~(next(q) > row.expires)
      <3>1. AfterOf(r, row)
        BY <1>1, <1>6, <2>1, <2>5 DEF Fetches
      <3>2. ssRow'[q.id] # Unused
        BY <1>1, <1>2, <1>3
      <3>. QED
        BY <1>1, <1>2, <2>2, <2>3, <3>1, <3>2, AfterOfMoves
    <2>. QED
      BY <2>4, <2>5
  <1>. QED
    BY <1>2, <1>4, <1>5, <1>6, OnlyMoves

LEMMA DestroyStep ==
    ASSUME SsInv, NEW r \in SsRequests, Destroy(r)
    PROVE  SsInv' /\ Forward
  <1>1. PICK q \in Request :
          /\ q = ssRequest[r] /\ ssRequest[r] # NoSession /\ Knows(q) /\ q.id \in SsIds /\ q.begun \in Account
          /\ q.step = "destroy"
    BY RequestAt DEF Destroy, At
  <1>2. /\ UNCHANGED <<ssClock, ssAccount, ssLogin, ssRevoked>> /\ SsTypeOK
        /\ ssRow' = [ssRow EXCEPT ![q.id] = Gone] /\ Answers(r, NoSession)
    BY <1>1 DEF Destroy, Deletes, SsInv
  <1>3. /\ ssRow' \in [SsIds -> SsRow \union {Unused, Gone}] /\ ssRow'[q.id] = Gone
        /\ \A i \in SsIds : i # q.id => ssRow'[i] = ssRow[i]
    BY <1>1, <1>2 DEF SsTypeOK
  <1>4. ssRow[q.id] # Unused /\ AccountAhead(q.begun)
    BY <1>1 DEF Knows
  <1>5. Forward
    BY <1>1, <1>2, <1>3, SsAtHand, SessionNulls DEF Forward, RowForward, Held, SsExpired
  <1>6. StoredFollows'
    BY <1>2, <1>3 DEF SsInv, StoredFollows, Held, AccountAhead
  <1>7. Moved(r)
    BY <1>1, <1>2, <1>3, <1>4, SessionNulls, AnswersMove
  <1>8. SsTypeOK'
    BY <1>2, <1>3, <1>7 DEF SsTypeOK, Moved
  <1>. QED
    BY <1>5, <1>6, <1>7, <1>8, SsInvKept

LEMMA TouchStep ==
    ASSUME SsInv, NEW r \in SsRequests, Touch(r)
    PROVE  SsInv' /\ Forward
  <1>1. PICK q \in Request :
          /\ q = ssRequest[r] /\ ssRequest[r] # NoSession /\ Knows(q) /\ q.id \in SsIds /\ q.begun \in Account
          /\ q.step = "touch"
    BY RequestAt DEF Touch, At
  <1>2. UNCHANGED <<ssClock, ssAccount, ssLogin, ssRevoked>> /\ SsTypeOK
    BY DEF Touch, SsInv
  <1>3. ssRow[q.id] # Unused /\ AccountAhead(q.begun) /\ ~q.late /\ q.raw \in SsRow /\ ReadOf(q.raw, q.id)
    BY <1>1 DEF Knows
  <1>4. CASE Held(q.id) /\ TouchesLive(ssRow[q.id])
    <2>1. PICK row \in SsRow : row = ssRow[q.id]
      BY <1>1, <1>2, <1>4, SsAtHand
    <2>2. PICK raw \in SsRow : raw = q.raw
      BY <1>3
    <2>. DEFINE longer == [row EXCEPT !.expires = q.until]
                shown == [raw EXCEPT !.expires = q.until]
    <2>3. ssRow' = [ssRow EXCEPT ![q.id] = longer] /\ AfterOf(r, shown)
      BY <1>1, <1>4, <2>1, <2>2 DEF Touch
    <2>4. q.until \in Nat
      BY DEF Request
    <2>5. /\ longer \in SsRow /\ longer.context = row.context /\ longer.version = row.version
          /\ longer.revision = row.revision /\ longer.created = row.created
          /\ shown \in SsRow /\ shown.context = raw.context /\ shown.version = raw.version
          /\ shown.revision = raw.revision
      BY <2>4 DEF SsRow
    <2>. HIDE DEF longer, shown
    <2>6. /\ ssRow' \in [SsIds -> SsRow \union {Unused, Gone}] /\ ssRow'[q.id] = longer
          /\ \A i \in SsIds : i # q.id => ssRow'[i] = ssRow[i]
      BY <1>1, <1>2, <2>3, <2>5 DEF SsTypeOK
    <2>7. longer # Unused /\ longer # Gone
      BY <2>5, SessionNulls
    <2>8. Forward
      BY <1>1, <1>2, <1>4, <2>1, <2>5, <2>6, <2>7, SsAtHand
      DEF Forward, RowForward, Held, SsExpired, TouchesLive
    <2>9. StoredFollows'
      BY <1>1, <1>2, <1>4, <2>1, <2>5, <2>6 DEF SsInv, StoredFollows, Held, AccountAhead
    <2>10. ReadOf(shown, q.id)'
      BY <1>1, <1>2, <1>3, <1>4, <2>1, <2>2, <2>5, <2>6 DEF ReadOf, Held, AccountAhead
    <2>11. Moved(r)
      BY <1>1, <1>2, <1>3, <2>3, <2>5, <2>6, <2>7, <2>10, AfterOfMoves
    <2>12. SsTypeOK'
      BY <1>2, <2>6, <2>11 DEF SsTypeOK, Moved
    <2>. QED
      BY <2>8, <2>9, <2>11, <2>12, SsInvKept
  <1>5. CASE ~(Held(q.id) /\ TouchesLive(ssRow[q.id]))
    <2>1. Answers(r, NoSession) /\ UNCHANGED ssRow
      BY <1>1, <1>5 DEF Touch
    <2>2. Moved(r)
      BY <1>1, <1>2, <1>3, <2>1, AnswersMove
    <2>. QED
      BY <1>2, <2>1, <2>2, OnlyMoves
  <1>. QED
    BY <1>4, <1>5

LEMMA ResolveStep ==
    ASSUME SsInv, NEW r \in SsRequests, Resolve(r)
    PROVE  SsInv' /\ Forward
  <1>1. PICK q \in Request :
          /\ q = ssRequest[r] /\ ssRequest[r] # NoSession /\ Knows(q) /\ q.id \in SsIds /\ q.begun \in Account
          /\ q.step = "resolve"
    BY RequestAt DEF Resolve, At
  <1>2. UNCHANGED <<ssClock, ssAccount, ssRow, ssLogin, ssRevoked>> /\ SsTypeOK
    BY DEF Resolve, SsInv
  <1>3. ssRow[q.id] # Unused /\ AccountAhead(q.begun) /\ ~q.late /\ q.raw \in SsRow /\ ReadOf(q.raw, q.id)
    BY <1>1 DEF Knows
  <1>4. ASSUME Revokes(q.raw, ssAccount) PROVE Moved(r)
    <2>1. SsGoes(r, SsEmptyHanded(SsForgets(q, "destroy")))
      BY <1>1, <1>4 DEF Resolve
    <2>. QED
      BY <1>1, <1>2, <2>1, DestroyKnows
  <1>5. ASSUME ~Revokes(q.raw, ssAccount), SameContext(q.raw, ssAccount) PROVE Moved(r)
    <2>1. Answers(r, q.raw)
      BY <1>1, <1>5 DEF Resolve
    <2>2. NotBefore(q.begun, q.raw)
      BY <1>3, <1>5 DEF NotBefore, SameContext, AccountAhead
    <2>. QED
      BY <1>1, <1>2, <1>3, <2>1, <2>2, AnswersMove
  <1>6. ASSUME ~Revokes(q.raw, ssAccount), ~SameContext(q.raw, ssAccount) PROVE Moved(r)
    <2>1. PICK account \in Account : account = ssAccount
      BY <1>2, SsAtHand
    <2>. DEFINE new == [q EXCEPT !.step = "update", !.resolved = account]
    <2>2. SsGoes(r, new)
      BY <1>1, <1>6, <2>1 DEF Resolve
    <2>3. /\ new \in Request /\ new.step = "update" /\ new.raw = q.raw /\ new.id = q.id /\ new.begun = q.begun
          /\ new.late = q.late /\ new.resolved = account /\ new.again = q.again
      BY DEF Request
    <2>. HIDE DEF new
    <2>4. Knows(new)'
      BY <1>1, <1>2, <1>3, <1>6, <2>1, <2>3, SsAtHand
      DEF Knows, AccountAhead, NotBefore, ReadOf, Held, Revokes
    <2>. QED
      BY <1>2, <2>2, <2>3, <2>4, MovesTo
  <1>. QED
    BY <1>2, <1>4, <1>5, <1>6, OnlyMoves

\* manager.of again, for a request that has resolved the account.
LEMMA AgainKnows ==
    ASSUME SsTypeOK, NEW r \in SsRequests, NEW q \in Request, Knows(q), ~q.late, q.resolved \in Account,
           SsGoes(r, [SsForgets(q, "read") EXCEPT !.again = TRUE]), UNCHANGED <<ssAccount, ssRow>>
    PROVE  Moved(r)
  <1>. DEFINE f == SsForgets(q, "read")
              new == [f EXCEPT !.again = TRUE]
  <1>1. /\ f \in Request /\ f.step = "read" /\ f.raw = NoSession /\ f.id = q.id /\ f.begun = q.begun
        /\ f.late = q.late /\ f.resolved = q.resolved
    BY ForgetsFields
  <1>. HIDE DEF f
  <1>2. /\ new \in Request /\ new.step = f.step /\ new.raw = f.raw /\ new.id = f.id /\ new.begun = f.begun
        /\ new.late = f.late /\ new.resolved = f.resolved /\ new.again
    BY <1>1 DEF Request
  <1>3. SsGoes(r, new)
    BY DEF f
  <1>. HIDE DEF new
  <1>4. Knows(new)'
    BY <1>1, <1>2, SessionNulls DEF Knows, AccountAhead
  <1>. QED
    BY <1>2, <1>3, <1>4, MovesTo

LEMMA RowReconciled ==
    ASSUME NEW row \in SsRow, NEW account \in Account
    PROVE  LET newer == [row EXCEPT !.context = account.context, !.version = account.version, !.revision = @ + 1]
           IN  /\ newer \in SsRow /\ newer.context = account.context /\ newer.version = account.version
               /\ newer.revision = row.revision + 1 /\ newer.created = row.created
  <1>. DEFINE n == row.revision + 1
              newer == [row EXCEPT !.context = account.context, !.version = account.version, !.revision = n]
  <1>1. n \in Nat /\ account.context \in 0 .. SsChanges /\ account.version \in 0 .. SsChanges
    BY DEF SsRow, Account
  <1>. HIDE DEF n
  <1>2. /\ newer \in SsRow /\ newer.context = account.context /\ newer.version = account.version
        /\ newer.revision = n /\ newer.created = row.created
    BY <1>1 DEF SsRow
  <1>. QED
    BY <1>2 DEF n

LEMMA UpdateStep ==
    ASSUME SsInv, NEW r \in SsRequests, Update(r)
    PROVE  SsInv' /\ Forward
  <1>1. PICK q \in Request :
          /\ q = ssRequest[r] /\ ssRequest[r] # NoSession /\ Knows(q) /\ q.id \in SsIds /\ q.begun \in Account
          /\ q.step = "update"
    BY RequestAt DEF Update, At
  <1>2. UNCHANGED <<ssClock, ssAccount, ssLogin, ssRevoked>> /\ SsTypeOK
    BY DEF Update, SsInv
  <1>3. /\ ssRow[q.id] # Unused /\ AccountAhead(q.begun) /\ ~q.late
        /\ q.raw \in SsRow /\ ReadOf(q.raw, q.id)
        /\ q.resolved \in Account /\ AccountAhead(q.resolved) /\ NotBefore(q.begun, q.resolved)
        /\ q.raw.version = q.resolved.version /\ q.raw.context <= q.resolved.context
    BY <1>1 DEF Knows
  <1>4. CASE Held(q.id) /\ Updates(ssRow[q.id], q.raw)
    <2>1. PICK row \in SsRow : row = ssRow[q.id]
      BY <1>1, <1>2, <1>4, SsAtHand
    <2>2. PICK account \in Account : account = q.resolved
      BY <1>3
    <2>. DEFINE newer == [row EXCEPT !.context = account.context, !.version = account.version,
                                     !.revision = @ + 1]
                f == SsForgets(q, "reread")
    <2>3. ssRow' = [ssRow EXCEPT ![q.id] = newer] /\ SsGoes(r, f)
      BY <1>1, <1>4, <2>1, <2>2 DEF Update
    <2>4. /\ newer \in SsRow /\ newer.context = account.context /\ newer.version = account.version
          /\ newer.revision = row.revision + 1 /\ newer.created = row.created
      BY RowReconciled
    <2>5. /\ f \in Request /\ f.step = "reread" /\ f.raw = NoSession /\ f.id = q.id /\ f.begun = q.begun
          /\ f.late = q.late /\ f.resolved = q.resolved
      BY ForgetsFields
    <2>. HIDE DEF newer, f
    <2>6. /\ ssRow' \in [SsIds -> SsRow \union {Unused, Gone}] /\ ssRow'[q.id] = newer
          /\ \A i \in SsIds : i # q.id => ssRow'[i] = ssRow[i]
      BY <1>1, <1>2, <2>3, <2>4 DEF SsTypeOK
    <2>7. newer # Unused /\ newer # Gone
      BY <2>4, SessionNulls
    <2>8. row.version = account.version /\ row.context <= account.context
      BY <1>1, <1>3, <1>4, <2>1, <2>2 DEF ReadOf, Updates
    <2>9. RowForward(q.id)
      <3>1. row.revision \in Nat /\ newer.revision > row.revision
        BY <2>4 DEF SsRow
      <3>. QED
        BY <1>1, <1>4, <2>1, <2>4, <2>6, <2>7, <2>8, <3>1
        DEF RowForward, Held, Updates, SsExpired
    <2>10. Forward
      BY <1>1, <1>2, <2>6, <2>9, SsAtHand DEF Forward, RowForward, Held, SsExpired
    <2>11. StoredFollows'
      BY <1>1, <1>2, <1>3, <1>4, <2>2, <2>4, <2>6 DEF SsInv, StoredFollows, Held, AccountAhead
    <2>12. Knows(f)'
      BY <1>1, <1>2, <1>3, <2>2, <2>4, <2>5, <2>6, <2>7, SessionNulls
      DEF Knows, AccountAhead, NotBefore, Held
    <2>13. Moved(r)
      BY <1>2, <2>3, <2>5, <2>12, MovesTo
    <2>14. SsTypeOK'
      BY <1>2, <2>6, <2>13 DEF SsTypeOK, Moved
    <2>. QED
      BY <2>10, <2>11, <2>13, <2>14, SsInvKept
  <1>5. CASE ~(Held(q.id) /\ Updates(ssRow[q.id], q.raw))
    <2>1. SsGoes(r, [SsForgets(q, "read") EXCEPT !.again = TRUE]) /\ UNCHANGED ssRow
      BY <1>1, <1>5 DEF Update
    <2>2. Moved(r)
      BY <1>1, <1>2, <1>3, <2>1, AgainKnows
    <2>. QED
      BY <1>2, <2>1, <2>2, OnlyMoves
  <1>. QED
    BY <1>4, <1>5

LEMMA RereadStep ==
    ASSUME SsInv, NEW r \in SsRequests, Reread(r)
    PROVE  SsInv' /\ Forward
  <1>1. PICK q \in Request :
          /\ q = ssRequest[r] /\ ssRequest[r] # NoSession /\ Knows(q) /\ q.id \in SsIds /\ q.begun \in Account
          /\ q.step = "reread"
    BY RequestAt DEF Reread, At
  <1>2. UNCHANGED <<ssClock, ssAccount, ssRow, ssLogin, ssRevoked>> /\ SsTypeOK
    BY DEF Reread, SsInv
  <1>3. ssRow[q.id] # Unused /\ AccountAhead(q.begun) /\ ~q.late /\ q.resolved \in Account
    BY <1>1 DEF Knows
  <1>4. ASSUME Held(q.id) PROVE Moved(r)
    <2>1. PICK row \in SsRow : row = ssRow[q.id]
      BY <1>1, <1>2, <1>4, SsAtHand
    <2>2. Answers(r, row) /\ NotBefore(q.begun, row)
      BY <1>1, <1>4, <2>1 DEF Reread, Knows
    <2>. QED
      BY <1>1, <1>2, <1>3, <2>2, AnswersMove
  <1>5. ASSUME ~Held(q.id) PROVE Moved(r)
    <2>1. SsGoes(r, [SsForgets(q, "read") EXCEPT !.again = TRUE])
      BY <1>1, <1>5 DEF Reread
    <2>. QED
      BY <1>1, <1>2, <1>3, <2>1, AgainKnows
  <1>. QED
    BY <1>2, <1>4, <1>5, OnlyMoves

LEMMA RequestEndsStep ==
    ASSUME SsInv, NEW r \in SsRequests, RequestEnds(r)
    PROVE  SsInv' /\ Forward
  <1>1. UNCHANGED <<ssClock, ssAccount, ssRow, ssLogin, ssRevoked>>
    BY DEF RequestEnds
  <1>2. Moved(r)
    BY DEF RequestEnds, SsGoes, SsInv, SsTypeOK, Moved
  <1>. QED
    BY <1>1, <1>2, OnlyMoves

LEMMA ArrivesStep ==
    ASSUME SsInv, NEW r \in SsRequests, NEW i \in SsIds, Arrives(r, i)
    PROVE  SsInv' /\ Forward
  <1>1. /\ UNCHANGED <<ssClock, ssAccount, ssRow, ssLogin, ssRevoked>> /\ SsTypeOK
        /\ ssRow[i] # Unused /\ ssAccount \in Account
    BY SsAtHand DEF Arrives, SsInv
  <1>2. PICK ended \in BOOLEAN :
          ended = (~Held(i) \/ SsExpired(ssRow[i]) \/ Ceiling(ssRow[i]) <= ssClock)
    OBVIOUS
  <1>3. PICK begun \in Account : begun = IF ended THEN NothingYet ELSE ssAccount
    <2>1. NothingYet \in Account
      BY SessionAssumption DEF NothingYet, Account
    <2>. QED
      BY <1>1, <2>1
  <1>. DEFINE new == [step |-> "read", id |-> i, raw |-> NoSession, resolved |-> NoSession, until |-> 0,
                      again |-> FALSE, served |-> NoSession, late |-> ended, begun |-> begun]
  <1>4. SsGoes(r, new)
    BY <1>2, <1>3 DEF Arrives
  <1>5. /\ new \in Request /\ new.step = "read" /\ new.id = i /\ new.raw = NoSession
        /\ new.resolved = NoSession /\ ~new.again /\ new.served = NoSession /\ new.late = ended
        /\ new.begun = begun
    BY DEF Request
  <1>. HIDE DEF new
  <1>6. AccountAhead(begun)
    BY <1>1, <1>3, SsAtHand DEF AccountAhead, NothingYet
  <1>7. ended => Ended(i)
    BY <1>1, <1>2 DEF Ended, Held, Over
  <1>8. Knows(new)'
    BY <1>1, <1>5, <1>6, <1>7, SessionNulls
    DEF Knows, AccountAhead, Ended, Held, Over, SsExpired, Ceiling
  <1>9. Moved(r)
    BY <1>1, <1>4, <1>5, <1>8, MovesTo
  <1>. QED
    BY <1>1, <1>9, OnlyMoves

-----------------------------------------------------------------------------
(* Everything else moves the clock, the account or the rows.               *)

LEMMA SsElapseStep ==
    ASSUME SsInv, SsElapse
    PROVE  SsInv' /\ Forward
  <1>1. ssClock' = ssClock + 1 /\ UNCHANGED <<ssAccount, ssRow, ssLogin, ssRevoked, ssRequest>>
    BY DEF SsElapse
  <1>2. SsTypeOK'
    BY <1>1, SsAtHand DEF SsInv, SsTypeOK, SsElapse
  <1>3. Forward
    BY <1>1, SsAtHand DEF SsInv, Forward, RowForward
  <1>4. StoredFollows'
    BY <1>1, StillFollows DEF SsInv
  <1>. QED
    BY <1>1, <1>2, <1>3, <1>4, SsInvKept

LEMMA AccountChangesStep ==
    ASSUME SsInv, NEW version \in {0, 1}, AccountChanges(version)
    PROVE  SsInv' /\ Forward
  <1>1. /\ UNCHANGED <<ssClock, ssRow, ssLogin, ssRevoked, ssRequest>>
        /\ ssAccount'.context = ssAccount.context + 1 /\ ssAccount'.version = ssAccount.version + version
    BY DEF AccountChanges
  <1>2. ssAccount' \in Account
    BY SsAtHand DEF SsInv, StoredFollows, AccountChanges, Account
  <1>3. SsTypeOK'
    BY <1>1, <1>2 DEF SsInv, SsTypeOK
  <1>4. Forward
    BY <1>1, SsAtHand DEF SsInv, Forward, RowForward
  <1>5. StoredFollows'
    BY <1>1, SsAtHand DEF SsInv, StoredFollows, AccountAhead, Held
  <1>. QED
    BY <1>1, <1>3, <1>4, <1>5, SsInvKept

LEMMA LoginReadsStep ==
    ASSUME SsInv, LoginReads
    PROVE  SsInv' /\ Forward
  <1>1. ssLogin' = ssAccount /\ UNCHANGED <<ssClock, ssAccount, ssRow, ssRevoked, ssRequest>>
    BY DEF LoginReads
  <1>2. SsTypeOK' /\ Forward
    BY <1>1, StillForward DEF SsInv, SsTypeOK
  <1>3. StoredFollows'
    BY <1>1, SsAtHand DEF SsInv, StoredFollows, AccountAhead, Held
  <1>. QED
    BY <1>1, <1>2, <1>3, SsInvKept

LEMMA SsStartStep ==
    ASSUME SsInv, NEW i \in SsIds, SsStart(i)
    PROVE  SsInv' /\ Forward
  <1>1. PICK login \in Account : login = ssLogin
    BY DEF SsStart, SsInv, SsTypeOK
  <1>2. PICK until \in Nat, clock \in Nat : until = ssClock + IdleTtl /\ clock = ssClock
    BY SsAtHand DEF SsInv
  <1>. DEFINE new == [context |-> login.context, version |-> login.version, revision |-> 0,
                      created |-> clock, expires |-> until]
  <1>3. /\ ssRow[i] = Unused /\ ssRow' = [ssRow EXCEPT ![i] = new] /\ ssLogin' = NoSession
        /\ UNCHANGED <<ssClock, ssAccount, ssRevoked, ssRequest>> /\ SsTypeOK
    BY <1>1, <1>2 DEF SsStart, SsInv
  <1>4. new \in SsRow /\ new.context = login.context /\ new.version = login.version
    BY DEF SsRow, Account
  <1>. HIDE DEF new
  <1>5. /\ ssRow' \in [SsIds -> SsRow \union {Unused, Gone}] /\ ssRow'[i] = new
        /\ \A o \in SsIds : o # i => ssRow'[o] = ssRow[o]
    BY <1>3, <1>4 DEF SsTypeOK
  <1>6. SsTypeOK'
    BY <1>3, <1>5 DEF SsTypeOK
  <1>7. Forward
    BY <1>3, <1>4, <1>5, SsAtHand, SessionNulls DEF Forward, RowForward, Held, SsExpired
  <1>8. StoredFollows'
    BY <1>1, <1>3, <1>4, <1>5, SessionNulls DEF SsInv, StoredFollows, AccountAhead, Held
  <1>. QED
    BY <1>3, <1>6, <1>7, <1>8, SsInvKept

\* Deleting sessions, whichever they are.
LEMMA DeletionStep ==
    ASSUME SsInv, ssRow' \in [SsIds -> SsRow \union {Unused, Gone}], ssRevoked' \subseteq SsIds,
           \A i \in SsIds : ssRow'[i] = ssRow[i] \/ (Held(i) /\ ssRow'[i] = Gone),
           UNCHANGED <<ssClock, ssAccount, ssLogin, ssRequest>>
    PROVE  SsInv' /\ Forward
  <1>1. SsTypeOK'
    BY DEF SsInv, SsTypeOK
  <1>2. Forward
    BY SsAtHand, SessionNulls DEF SsInv, Forward, RowForward, Held, SsExpired
  <1>3. StoredFollows'
    BY DEF SsInv, StoredFollows, AccountAhead, Held
  <1>. QED
    BY <1>1, <1>2, <1>3, SsInvKept

LEMMA DeletionsStep ==
    ASSUME SsInv, \/ SsSweep
                  \/ EndUser({})
                  \/ \E i \in SsIds : SsEnd(i) \/ EndUser({i}) \/ EndOne(i)
    PROVE  SsInv' /\ Forward
  <1>1. SsTypeOK
    BY DEF SsInv
  <1>2. CASE SsSweep
    BY <1>1, <1>2, DeletionStep DEF SsSweep, SsTypeOK
  <1>3. ASSUME NEW keep \in SUBSET SsIds, EndUser(keep)
        PROVE  SsInv' /\ Forward
    BY <1>1, <1>3, DeletionStep DEF EndUser, SsTypeOK
  <1>4. ASSUME NEW i \in SsIds, SsEnd(i)
        PROVE  SsInv' /\ Forward
    BY <1>1, <1>4, DeletionStep DEF SsEnd, Deletes, SsTypeOK
  <1>5. ASSUME NEW i \in SsIds, EndOne(i)
        PROVE  SsInv' /\ Forward
    BY <1>1, <1>5, DeletionStep DEF EndOne, SsTypeOK
  <1>. QED
    BY <1>2, <1>3, <1>4, <1>5

-----------------------------------------------------------------------------
(* The theorems.                                                           *)

LEMMA SsInit_Inv ==
    SsInit => SsInv
  <1>. SUFFICES ASSUME SsInit PROVE SsInv
    OBVIOUS
  <1>1. NothingYet \in Account
    BY SessionAssumption DEF NothingYet, Account
  <1>2. SsTypeOK
    BY <1>1, SessionAssumption DEF SsInit, SsTypeOK
  <1>3. StoredFollows /\ RequestsKnow
    BY SessionNulls DEF SsInit, StoredFollows, RequestsKnow, Held, NothingYet
  <1>. QED
    BY <1>2, <1>3 DEF SsInv

LEMMA SsNext_Inv ==
    ASSUME SsInv, [SsNext]_ssVars
    PROVE  SsInv' /\ Forward
  <1>1. CASE SsNext
    BY <1>1, SsElapseStep, AccountChangesStep, LoginReadsStep, SsStartStep, DeletionsStep, ArrivesStep,
       FetchesStep, TouchStep, DestroyStep, ResolveStep, UpdateStep, RereadStep, RequestEndsStep
    DEF SsNext
  <1>2. CASE UNCHANGED ssVars
    <2>1. SsTypeOK' /\ StoredFollows' /\ Forward
      BY <1>2, StillForward, StillFollows DEF ssVars, SsInv, SsTypeOK
    <2>. QED
      BY <1>2, <2>1, SsInvKept DEF ssVars
  <1>. QED
    BY <1>1, <1>2

\* The invariant holds in every state of the sessions.
THEOREM SessionInvariance == SsSpec => []SsInv
  <1>. QED
    BY SsInit_Inv, SsNext_Inv, PTL DEF SsSpec

\* The variables of the sessions have their types; with the bounds of the model.
THEOREM SsTypeCorrect == SsSpec => []SsTypeOK
  <1>1. SsInv => SsTypeOK
    BY DEF SsInv
  <1>. QED
    BY <1>1, SessionInvariance, PTL

\* No request is served with a session that had ended when it came, or with companies or a
\* security version older than the account's were then: sessionRecordOf, whatever runs beside it.
THEOREM ServedCurrent == SsSpec => []ServedIsCurrent
  <1>1. SsInv => ServedIsCurrent
    <2>. SUFFICES ASSUME SsInv, NEW r \in SsRequests, At(r, "answered"), ssRequest[r].served # NoSession
                  PROVE  /\ ~ssRequest[r].late
                         /\ ssRequest[r].served.version >= ssRequest[r].begun.version
                         /\ ssRequest[r].served.context >= ssRequest[r].begun.context
      BY DEF ServedIsCurrent
    <2>1. Knows(ssRequest[r]) /\ ssRequest[r].step = "answered"
      BY RequestAt DEF At
    <2>2. ssRequest[r].served \in SsRow /\ ssRequest[r].begun \in Account
      BY RequestAt DEF At, Request
    <2>. QED
      BY <2>1, <2>2, SsAtHand DEF Knows, NotBefore, SsInv
  <1>. QED
    BY <1>1, SessionInvariance, PTL

\* A stored session only moves forward: what has expired or was destroyed is never revived, and
\* no request writes an older context over a newer one.
THEOREM SessionsMoveForward == SsSpec => SessionMovesForward
  <1>1. SsInv /\ [SsNext]_ssVars =>
          [ \A i \in SsIds :
              /\ ssRow[i] = Gone => ssRow'[i] = Gone
              /\ Held(i) /\ ssRow'[i] # Gone =>
                   /\ ssRow'[i].version = ssRow[i].version /\ ssRow'[i].context >= ssRow[i].context
                   /\ SsExpired(ssRow[i]) => ssRow'[i] = ssRow[i] ]_ssRow
    BY SsNext_Inv DEF Forward, RowForward
  <1>. QED
    BY <1>1, SessionInvariance, PTL DEF SsSpec, SessionMovesForward

-----------------------------------------------------------------------------
(* Recurring schedules.                                                    *)

-----------------------------------------------------------------------------
(* Ticks of a period.                                                      *)

\* Division with remainder.
LEMMA SchedDivision ==
    ASSUME NEW p \in Nat \ {0}, NEW x \in Nat
    PROVE  /\ x \div p \in Nat /\ x % p \in 0 .. p - 1
           /\ x = p * (x \div p) + (x % p)
  OBVIOUS

\* The quotient is the only number there is for what it has to satisfy.
LEMMA SchedQuotient ==
    ASSUME NEW p \in Nat \ {0}, NEW q \in Nat
    PROVE  (p * q) % p = 0 /\ (p * q) \div p = q
  <1>. DEFINE d == (p * q) \div p
              m == (p * q) % p
  <1>1. p * q \in Nat
    OBVIOUS
  <1>2. d \in Nat /\ m \in 0 .. p - 1 /\ p * q = p * d + m
    BY <1>1, SchedDivision
  <1>. HIDE DEF d, m
  <1>3. p * (q - d) = m
    BY <1>2
  <1>4. CASE q - d >= 1
    <2>1. p * (q - d) >= p
      BY <1>2, <1>4
    <2>. QED
      BY <2>1, <1>2, <1>3
  <1>5. CASE q - d <= -1
    <2>1. p * (d - q) >= p
      BY <1>2, <1>5
    <2>2. p * (d - q) = -m
      BY <1>3, <1>2
    <2>. QED
      BY <2>1, <2>2, <1>2
  <1>6. CASE q - d = 0
    <2>1. d = q /\ m = 0
      BY <1>2, <1>3, <1>6
    <2>. QED
      BY <2>1 DEF d, m
  <1>. QED
    BY <1>2, <1>4, <1>5, <1>6

\* A tick lies on its period, at or before the instant it is of.
LEMMA SchedTickAt ==
    ASSUME NEW p \in Nat \ {0}, NEW at \in Nat
    PROVE  /\ at - (at % p) \in Nat /\ at - (at % p) <= at
           /\ (at - (at % p)) % p = 0
  <1>1. /\ at \div p \in Nat /\ at % p \in 0 .. p - 1
        /\ at = p * (at \div p) + (at % p)
    BY SchedDivision
  <1>2. at - (at % p) = p * (at \div p)
    BY <1>1
  <1>3. (p * (at \div p)) % p = 0
    BY <1>1, SchedQuotient, Zenon
  <1>. QED
    BY <1>1, <1>2, <1>3

\* From one tick to a later one is a whole number of periods, and at least one.
LEMMA SchedPeriods ==
    ASSUME NEW p \in Nat \ {0}, NEW from \in Nat, NEW to \in Nat,
           from % p = 0, to % p = 0, from < to
    PROVE  /\ (to - from) \div p \in Nat /\ (to - from) \div p >= 1
           /\ to = from + p * ((to - from) \div p)
  <1>. DEFINE a == from \div p
              b == to \div p
  <1>1. a \in Nat /\ b \in Nat /\ from = p * a /\ to = p * b
    BY SchedDivision
  <1>. HIDE DEF a, b
  <1>2. to - from = p * (b - a)
    BY <1>1
  <1>3. b - a >= 1
    <2>1. CASE b <= a
      <3>1. p * (a - b) >= 0
        BY <1>1, <2>1
      <3>2. p * (a - b) = from - to
        BY <1>1
      <3>. QED
        BY <3>1, <3>2
    <2>. QED
      BY <2>1, <1>1
  <1>4. b - a \in Nat
    BY <1>1, <1>3
  <1>5. (to - from) \div p = b - a
    BY <1>2, <1>4, SchedQuotient
  <1>. QED
    BY <1>1, <1>2, <1>3, <1>4, <1>5

-----------------------------------------------------------------------------
(* The inductive invariant.                                                *)

\* The ticks that wait in a sweep, and all there are that were ever claimed.
SchedPending == UNION { Claims(s) : s \in sweeps }
SchedClaimed == { t \in Tick : fired[t] = 1 \/ t \in lost \/ t \in SchedPending }
SchedClaimedOf(j) == { t \in SchedClaimed : t.job = j }

\* A sweep claims each schedule at most once, and what it is about to write is later
\* than what it has read.
SchedSweepOK(s) ==
    /\ Len(s.claims) <= Len(Jobs)
    /\ s.step # "enqueue" => s.next \in DOMAIN Jobs /\ Len(s.claims) < s.next
    /\ s.step \in {"select", "update"} => lastTick[Jobs[s.next]] # NoTick
    /\ s.step = "update" => s.read \in Instants /\ s.read < TickAt(Jobs[s.next], s.at)
    /\ \A i, k \in DOMAIN s.claims : s.claims[i] = s.claims[k] => i = k

\* No two sweeps hold the same claim.
SchedApart ==
    \A s, t \in sweeps : s # t =>
        /\ s.replica # t.replica \/ s.slot # t.slot
        /\ Claims(s) \intersect Claims(t) = {}

\* A tick is in one place, and within what its schedule has gone through.
SchedPlaced ==
    \A t \in Tick :
        /\ fired[t] <= 1
        /\ t \in live => fired[t] = 1
        /\ t \in lost => fired[t] = 0
        /\ t \in SchedPending => fired[t] = 0 /\ t \notin lost
        /\ t \in SchedClaimed =>
             /\ lastTick[t.job] # NoTick
             /\ first[t.job] < t.at /\ t.at <= lastTick[t.job]
             /\ t.at % Period[t.job] = 0

\* How far a schedule has gone is how many ticks were claimed and passed over.
SchedCounted(j) ==
    /\ lastTick[j] = NoTick <=> first[j] = NoTick
    /\ lastTick[j] = NoTick => skipped[j] = 0
    /\ lastTick[j] # NoTick =>
         /\ first[j] <= lastTick[j]
         /\ first[j] % Period[j] = 0 /\ lastTick[j] % Period[j] = 0
         /\ lastTick[j] = first[j] + Period[j] * (Cardinality(SchedClaimedOf(j)) + skipped[j])

SchedInv ==
    /\ SchedTypeOK
    /\ \A s \in sweeps : SchedSweepOK(s)
    /\ SchedApart
    /\ SchedPlaced
    /\ \A j \in Names : SchedCounted(j)

-----------------------------------------------------------------------------
(* Names, ticks and sweeps.                                                *)

LEMMA SchedConstants ==
    /\ Len(Jobs) \in Nat /\ Len(Jobs) >= 1 /\ DOMAIN Jobs = 1 .. Len(Jobs)
    /\ \A i \in DOMAIN Jobs : Jobs[i] \in Names
    /\ \A j \in Names : Period[j] \in Nat \ {0}
    /\ LastInstant \in Nat /\ Instants \subseteq Nat /\ NoTick \notin Instants
  BY ScheduleAssumption DEF Names, Instants

\* There are finitely many ticks.
LEMMA SchedTicksFinite == IsFiniteSet(Tick)
  <1>1. IsFiniteSet(Names)
    <2>. DEFINE f == [i \in 1 .. Len(Jobs) |-> Jobs[i]]
    <2>1. f \in Surjection(1 .. Len(Jobs), Names)
      BY SchedConstants DEF Surjection, Names
    <2>2. IsFiniteSet(1 .. Len(Jobs))
      BY SchedConstants, FS_Interval
    <2>. QED
      BY <2>1, <2>2, FS_Surjection
  <1>2. IsFiniteSet(Instants)
    BY SchedConstants, FS_Interval DEF Instants
  <1>3. IsFiniteSet(Names \X Instants)
    BY <1>1, <1>2, FS_Product
  <1>. DEFINE g == [p \in Names \X Instants |-> [job |-> p[1], at |-> p[2]]]
  <1>4. g \in Surjection(Names \X Instants, Tick)
    <2>1. ASSUME NEW t \in Tick
          PROVE  \E p \in Names \X Instants : g[p] = t
      <3>1. <<t.job, t.at>> \in Names \X Instants /\ t = [job |-> t.job, at |-> t.at]
        BY DEF Tick
      <3>. QED
        BY <3>1
    <2>2. g \in [Names \X Instants -> Tick]
      BY DEF Tick
    <2>. QED
      BY <2>1, <2>2 DEF Surjection
  <1>. QED
    BY <1>3, <1>4, FS_Surjection

LEMMA SchedTickAtOf ==
    ASSUME NEW j \in Names, NEW at \in Instants
    PROVE  /\ TickAt(j, at) \in Instants
           /\ TickAt(j, at) % Period[j] = 0
  <1>1. at \in Nat /\ at <= LastInstant /\ Period[j] \in Nat \ {0}
    BY SchedConstants DEF Instants
  <1>2. /\ at - (at % Period[j]) \in Nat /\ at - (at % Period[j]) <= at
        /\ (at - (at % Period[j])) % Period[j] = 0
    BY <1>1, SchedTickAt
  <1>. QED
    BY <1>1, <1>2, SchedConstants DEF TickAt, Instants

LEMMA SchedOnwardIs ==
    ASSUME NEW s \in Sweep, s.next \in DOMAIN Jobs
    PROVE  /\ Onward(s) \in Sweep
           /\ Onward(s).replica = s.replica /\ Onward(s).slot = s.slot
           /\ Onward(s).claims = s.claims /\ Onward(s).at = s.at
           /\ Onward(s).next = s.next + 1
           /\ Onward(s).step = IF s.next = Len(Jobs) THEN "enqueue" ELSE "insert"
  <1>. DEFINE st == IF s.next = Len(Jobs) THEN "enqueue" ELSE "insert"
              n == s.next + 1
  <1>1. /\ st \in {"insert", "select", "update", "enqueue"} /\ n \in 1 .. Len(Jobs) + 1
        /\ NoTick \in Instants \union {NoTick}
    BY SchedConstants
  <1>2. Onward(s) = [s EXCEPT !.next = n, !.read = NoTick, !.step = st]
    BY DEF Onward
  <1>. HIDE DEF n, st
  <1>3. LET new == [s EXCEPT !.next = n, !.read = NoTick, !.step = st]
        IN  /\ new \in Sweep
            /\ new.replica = s.replica /\ new.slot = s.slot /\ new.claims = s.claims
            /\ new.at = s.at /\ new.next = n /\ new.read = NoTick /\ new.step = st
    BY <1>1 DEF Sweep
  <1>. QED
    BY <1>2, <1>3 DEF n, st

\* A sweep moves on with the claims it has.
LEMMA SchedSweepMoves ==
    ASSUME SchedInv, NEW s \in sweeps, NEW t \in Sweep,
           t.replica = s.replica, t.slot = s.slot, t.claims = s.claims,
           sweeps' = Replace(s, t)
    PROVE  /\ sweeps' \subseteq Sweep /\ SchedApart' /\ SchedPending' = SchedPending
           /\ \A x \in sweeps' : x = t \/ x \in sweeps
  <1>1. sweeps \subseteq Sweep /\ SchedApart /\ Claims(t) = Claims(s)
    BY DEF SchedInv, SchedTypeOK, Claims
  <1>2. \A x \in sweeps' : x = t \/ (x \in sweeps /\ x # s)
    BY DEF Replace
  <1>3. t \in sweeps' /\ \A x \in sweeps : x # s => x \in sweeps'
    BY DEF Replace
  <1>4. SchedPending' = SchedPending
    BY <1>1, <1>2, <1>3 DEF SchedPending, Claims
  <1>5. SchedApart'
    BY <1>1, <1>2, SMTT(30) DEF SchedApart, Claims
  <1>. QED
    BY <1>1, <1>2, <1>4, <1>5

\* What follows for ticks and schedules when a step changes neither.
LEMMA SchedSameTicks ==
    ASSUME SchedInv, UNCHANGED <<lastTick, first, skipped, fired, lost>>, SchedPending' = SchedPending,
           live' \subseteq live
    PROVE  SchedPlaced' /\ \A j \in Names : SchedCounted(j)'
  <1>1. SchedClaimed' = SchedClaimed
    BY DEF SchedClaimed
  <1>2. SchedPlaced'
    BY <1>1 DEF SchedInv, SchedPlaced
  <1>3. ASSUME NEW j \in Names PROVE SchedCounted(j)'
    <2>1. SchedClaimedOf(j)' = SchedClaimedOf(j)
      BY <1>1 DEF SchedClaimedOf
    <2>. QED
      BY <2>1 DEF SchedInv, SchedCounted
  <1>. QED
    BY <1>2, <1>3

-----------------------------------------------------------------------------
(* The invariant, action by action.                                        *)

LEMMA SchedInitStep == SchedInit => SchedInv
  <1>. SUFFICES ASSUME SchedInit PROVE SchedInv
    OBVIOUS
  <1>. USE SchedConstants DEF SchedInit
  <1>1. SchedTypeOK
    BY DEF SchedTypeOK, Instants
  <1>2. SchedPending = {} /\ SchedClaimed = {}
    BY DEF SchedPending, SchedClaimed
  <1>3. SchedPlaced
    BY <1>2 DEF SchedPlaced
  <1>. QED
    BY <1>1, <1>3 DEF SchedInv, SchedApart, SchedCounted

LEMMA SchedStartStep ==
    ASSUME SchedInv, NEW r \in Replicas, NEW slot \in Slots, StartSweep(r, slot)
    PROVE  SchedInv'
  <1>. USE SchedConstants
  <1>1. PICK at \in Instants :
          sweeps' = sweeps \union
            {[ replica |-> r, slot |-> slot, step |-> "insert", at |-> at,
               next |-> 1, read |-> NoTick, claims |-> << >> ]}
    BY DEF StartSweep
  <1>. DEFINE new == [ replica |-> r, slot |-> slot, step |-> "insert", at |-> at,
                       next |-> 1, read |-> NoTick, claims |-> << >> ]
  <1>2. /\ new \in Sweep /\ new.replica = r /\ new.slot = slot /\ new.claims = << >>
        /\ new.step = "insert" /\ new.next = 1
    BY DEF Sweep
  <1>3. sweeps' = sweeps \union {new}
    BY <1>1
  <1>. HIDE DEF new
  <1>4. Claims(new) = {}
    BY <1>2 DEF Claims
  <1>5. SchedPending' = SchedPending
    <2>1. SchedPending' = UNION { Claims(s) : s \in sweeps' }
      BY DEF SchedPending, Claims
    <2>. QED
      BY <2>1, <1>3, <1>4 DEF SchedPending
  <1>6. UNCHANGED <<now, process, live, fired, lost, lastTick, first, skipped>>
    BY DEF StartSweep, Queue, Table
  <1>7. SchedTypeOK'
    <2>1. sweeping' \in [Replicas -> Slots \union {NoSweep}]
      BY DEF StartSweep, SchedInv, SchedTypeOK
    <2>. QED
      BY <2>1, <1>2, <1>3, <1>6 DEF SchedInv, SchedTypeOK
  <1>8. SchedApart'
    <2>1. \A s \in sweeps : s.replica # r \/ s.slot # slot
      BY DEF StartSweep, SweepsOf
    <2>2. \A x \in sweeps' : x = new \/ x \in sweeps
      BY <1>3
    <2>. QED
      BY <2>1, <2>2, <1>2, <1>4 DEF SchedInv, SchedApart, Claims
  <1>9. ASSUME NEW s \in sweeps' PROVE SchedSweepOK(s)'
    <2>1. CASE s = new
      BY <2>1, <1>2, <1>6 DEF SchedSweepOK
    <2>2. CASE s \in sweeps
      BY <2>2, <1>6 DEF SchedInv, SchedSweepOK, TickAt
    <2>. QED
      BY <2>1, <2>2, <1>3
  <1>10. SchedPlaced' /\ \A j \in Names : SchedCounted(j)'
    BY <1>5, <1>6, SchedSameTicks
  <1>. QED
    BY <1>7, <1>8, <1>9, <1>10 DEF SchedInv

\* A sweep that moves on and claims nothing, where no row changes.
LEMMA SchedMovesOn ==
    ASSUME SchedInv, NEW s \in sweeps, NEW t \in Sweep,
           t.replica = s.replica, t.slot = s.slot, t.claims = s.claims,
           sweeps' = Replace(s, t),
           UNCHANGED <<now, sweeping, process, live, fired, lost, lastTick, first, skipped>>,
           SchedSweepOK(t)
    PROVE  SchedInv'
  <1>1. /\ sweeps' \subseteq Sweep /\ SchedApart' /\ SchedPending' = SchedPending
        /\ \A x \in sweeps' : x = t \/ x \in sweeps
    BY SchedSweepMoves
  <1>2. SchedPlaced' /\ \A j \in Names : SchedCounted(j)'
    BY <1>1, SchedSameTicks
  <1>3. ASSUME NEW x \in sweeps' PROVE SchedSweepOK(x)'
    <2>1. SchedSweepOK(x)
      BY <1>1 DEF SchedInv
    <2>. QED
      BY <2>1 DEF SchedSweepOK, TickAt
  <1>4. SchedTypeOK'
    <2>1. \A x \in sweeps' : x.step # "enqueue" => x.next \in DOMAIN Jobs
      BY <1>3 DEF SchedSweepOK
    <2>. QED
      BY <1>1, <2>1 DEF SchedInv, SchedTypeOK
  <1>. QED
    BY <1>1, <1>2, <1>3, <1>4 DEF SchedInv

\* The next schedule is as good a place to be at as any.
LEMMA SchedOnwardOK ==
    ASSUME SchedInv, NEW s \in sweeps, s.next \in DOMAIN Jobs, s.step # "enqueue"
    PROVE  /\ Onward(s) \in Sweep /\ SchedSweepOK(Onward(s))
           /\ Onward(s).replica = s.replica /\ Onward(s).slot = s.slot /\ Onward(s).claims = s.claims
  <1>1. s \in Sweep /\ SchedSweepOK(s)
    BY DEF SchedInv, SchedTypeOK
  <1>2. /\ Onward(s) \in Sweep
        /\ Onward(s).replica = s.replica /\ Onward(s).slot = s.slot
        /\ Onward(s).claims = s.claims /\ Onward(s).at = s.at
        /\ Onward(s).next = s.next + 1
        /\ Onward(s).step = IF s.next = Len(Jobs) THEN "enqueue" ELSE "insert"
    BY <1>1, SchedOnwardIs
  <1>3. Len(s.claims) \in Nat /\ s.next \in Nat
    BY <1>1, SchedConstants DEF Sweep
  <1>4. SchedSweepOK(Onward(s))
    BY <1>1, <1>2, <1>3, SchedConstants DEF SchedSweepOK
  <1>. QED
    BY <1>2, <1>4

LEMMA SchedInsertStep ==
    ASSUME SchedInv, NEW s \in sweeps, InsertFirst(s)
    PROVE  SchedInv'
  <1>. USE SchedConstants
  <1>. DEFINE j == Jobs[s.next]
  <1>1. /\ s \in Sweep /\ s.step = "insert" /\ s.next \in DOMAIN Jobs /\ SchedSweepOK(s)
        /\ s.at \in Instants /\ j \in Names
    BY DEF InsertFirst, SchedInv, SchedTypeOK, Sweep
  <1>2. UNCHANGED <<now, sweeping, process, live, fired, lost, skipped>>
    BY DEF InsertFirst, Queue
  <1>3. CASE lastTick[j] = NoTick
    <2>. DEFINE tick == TickAt(j, s.at)
    <2>1. /\ lastTick' = [lastTick EXCEPT ![j] = tick]
          /\ first' = [first EXCEPT ![j] = tick]
          /\ sweeps' = Replace(s, Onward(s))
      BY <1>3 DEF InsertFirst
    <2>2. tick \in Instants /\ tick % Period[j] = 0
      BY <1>1, SchedTickAtOf
    <2>. HIDE DEF tick, j
    <2>3. /\ lastTick \in [Names -> Instants \union {NoTick}]
          /\ first \in [Names -> Instants \union {NoTick}]
      BY DEF SchedInv, SchedTypeOK
    <2>4. /\ lastTick' \in [Names -> Instants \union {NoTick}] /\ lastTick'[j] = tick
          /\ first' \in [Names -> Instants \union {NoTick}] /\ first'[j] = tick
          /\ \A k \in Names : k # j => lastTick'[k] = lastTick[k] /\ first'[k] = first[k]
      BY <1>1, <2>1, <2>2, <2>3
    <2>5. /\ Onward(s) \in Sweep /\ SchedSweepOK(Onward(s))
          /\ Onward(s).replica = s.replica /\ Onward(s).slot = s.slot /\ Onward(s).claims = s.claims
      BY <1>1, SchedOnwardOK
    <2>6. /\ sweeps' \subseteq Sweep /\ SchedApart' /\ SchedPending' = SchedPending
          /\ \A x \in sweeps' : x = Onward(s) \/ x \in sweeps
      BY <2>1, <2>5, SchedSweepMoves
    <2>7. SchedClaimed' = SchedClaimed
      BY <1>2, <2>6 DEF SchedClaimed
    <2>8. \A t \in SchedClaimed : t \in Tick /\ t.job \in Names /\ t.job # j
      BY <1>3 DEF SchedInv, SchedPlaced, SchedClaimed, Tick
    <2>9. SchedPlaced'
      BY <1>2, <2>4, <2>6, <2>7, <2>8 DEF SchedInv, SchedPlaced
    <2>10. ASSUME NEW x \in sweeps' PROVE SchedSweepOK(x)'
      <3>1. SchedSweepOK(x)
        BY <2>5, <2>6 DEF SchedInv
      <3>2. x \in Sweep /\ NoTick # tick
        BY <2>6, <2>2
      <3>3. x.step # "enqueue" => Jobs[x.next] \in Names
        BY <3>1 DEF SchedSweepOK
      <3>. QED
        BY <3>1, <3>2, <3>3, <2>4 DEF SchedSweepOK, TickAt
    <2>11. SchedTypeOK'
      <3>1. \A x \in sweeps' : x.step # "enqueue" => x.next \in DOMAIN Jobs
        BY <2>10 DEF SchedSweepOK
      <3>. QED
        BY <1>2, <2>4, <2>6, <3>1 DEF SchedInv, SchedTypeOK
    <2>12. ASSUME NEW k \in Names PROVE SchedCounted(k)'
      <3>1. SchedClaimedOf(k)' = SchedClaimedOf(k) /\ SchedCounted(k)
        BY <2>7 DEF SchedClaimedOf, SchedInv
      <3>2. CASE k # j
        BY <3>1, <3>2, <2>4, <1>2 DEF SchedCounted
      <3>3. CASE k = j
        <4>1. SchedClaimedOf(k) = {} /\ skipped[k] = 0
          BY <3>1, <3>3, <1>3, <2>8 DEF SchedClaimedOf, SchedCounted
        <4>2. Cardinality(SchedClaimedOf(k)') = 0 /\ skipped'[k] = 0
          BY <4>1, <3>1, <1>2, FS_EmptySet
        <4>3. tick \in Nat /\ tick # NoTick /\ Period[k] \in Nat
          BY <2>2
        <4>. QED
          BY <4>2, <4>3, <2>2, <2>4, <3>3 DEF SchedCounted
      <3>. QED
        BY <3>2, <3>3
    <2>. QED
      BY <2>6, <2>9, <2>10, <2>11, <2>12 DEF SchedInv
  <1>4. CASE lastTick[j] # NoTick
    <2>. DEFINE t == [s EXCEPT !.step = "select"]
    <2>1. sweeps' = Replace(s, t) /\ UNCHANGED <<lastTick, first>>
      BY <1>4 DEF InsertFirst
    <2>2. /\ t \in Sweep /\ t.replica = s.replica /\ t.slot = s.slot /\ t.claims = s.claims
          /\ t.step = "select" /\ t.next = s.next
      BY <1>1 DEF Sweep
    <2>. HIDE DEF t
    <2>3. SchedSweepOK(t)
      BY <1>1, <1>4, <2>2 DEF SchedSweepOK
    <2>. QED
      BY <1>2, <2>1, <2>2, <2>3, SchedMovesOn
  <1>. QED
    BY <1>3, <1>4

LEMMA SchedSelectStep ==
    ASSUME SchedInv, NEW s \in sweeps, Select(s)
    PROVE  SchedInv'
  <1>. USE SchedConstants
  <1>. DEFINE j == Jobs[s.next]
              t == [s EXCEPT !.step = "update", !.read = lastTick[j]]
  <1>1. /\ s \in Sweep /\ s.step = "select" /\ s.next \in DOMAIN Jobs /\ SchedSweepOK(s)
        /\ s.at \in Instants /\ j \in Names
    BY DEF Select, SchedInv, SchedTypeOK, Sweep
  <1>2. UNCHANGED <<now, sweeping, process, live, fired, lost, lastTick, first, skipped>>
    BY DEF Select, Queue, Table
  <1>3. CASE Behind(s, j)
    <2>1. sweeps' = Replace(s, t)
      BY <1>3 DEF Select
    <2>2. lastTick[j] \in Instants
      BY <1>1 DEF SchedInv, SchedTypeOK, SchedSweepOK
    <2>3. /\ t \in Sweep /\ t.replica = s.replica /\ t.slot = s.slot /\ t.claims = s.claims
          /\ t.step = "update" /\ t.next = s.next /\ t.at = s.at /\ t.read = lastTick[j]
      BY <1>1, <2>2 DEF Sweep
    <2>. HIDE DEF t
    <2>4. SchedSweepOK(t)
      BY <1>1, <1>3, <2>2, <2>3 DEF SchedSweepOK, Behind
    <2>. QED
      BY <1>2, <2>1, <2>3, <2>4, SchedMovesOn
  <1>4. CASE ~Behind(s, j)
    <2>1. sweeps' = Replace(s, Onward(s))
      BY <1>4 DEF Select
    <2>2. /\ Onward(s) \in Sweep /\ SchedSweepOK(Onward(s))
          /\ Onward(s).replica = s.replica /\ Onward(s).slot = s.slot /\ Onward(s).claims = s.claims
      BY <1>1, SchedOnwardOK
    <2>. QED
      BY <1>2, <2>1, <2>2, SchedMovesOn
  <1>. QED
    BY <1>3, <1>4

\* A tick that was not claimed before is: one of its schedule's, later than all the others.
LEMMA SchedClaimStep ==
    ASSUME SchedInv, NEW s \in sweeps, MoveForward(s), Moves(s, Jobs[s.next])
    PROVE  SchedInv'
  <1>. USE SchedConstants
  <1>. DEFINE j == Jobs[s.next]
              tick == TickAt(j, s.at)
              x == [job |-> j, at |-> tick]
              t == [Onward(s) EXCEPT !.claims = Append(s.claims, x)]
  <1>1. /\ s \in Sweep /\ s.step = "update" /\ s.next \in DOMAIN Jobs /\ SchedSweepOK(s)
        /\ s.at \in Instants /\ j \in Names /\ s.claims \in Seq(Tick)
    BY DEF MoveForward, SchedInv, SchedTypeOK, Sweep
  <1>2. UNCHANGED <<now, sweeping, process, live, fired, lost, first>>
    BY DEF MoveForward, Queue
  <1>3. /\ lastTick' = [lastTick EXCEPT ![j] = tick]
        /\ skipped' = [skipped EXCEPT ![j] = @ + TicksBetween(j, s.read, tick)]
        /\ sweeps' = Replace(s, t)
    BY DEF MoveForward
  <1>4. /\ tick \in Instants /\ tick % Period[j] = 0 /\ tick \in Nat
        /\ s.read \in Instants /\ s.read \in Nat /\ s.read < tick /\ s.read = lastTick[j]
    <2>1. tick \in Instants /\ tick % Period[j] = 0
      BY <1>1, SchedTickAtOf
    <2>. QED
      BY <2>1, <1>1 DEF SchedSweepOK, Moves
  <1>5. x \in Tick /\ x.job = j /\ x.at = tick
    BY <1>1, <1>4 DEF Tick
  <1>6. /\ Onward(s) \in Sweep /\ SchedSweepOK(Onward(s))
        /\ Onward(s).replica = s.replica /\ Onward(s).slot = s.slot /\ Onward(s).claims = s.claims
        /\ Onward(s).next = s.next + 1
        /\ Onward(s).step = IF s.next = Len(Jobs) THEN "enqueue" ELSE "insert"
    BY <1>1, SchedOnwardOK, SchedOnwardIs
  <1>7. /\ Append(s.claims, x) \in Seq(Tick) /\ Len(Append(s.claims, x)) = Len(s.claims) + 1
        /\ Len(s.claims) \in Nat
        /\ DOMAIN Append(s.claims, x) = 1 .. Len(s.claims) + 1 /\ DOMAIN s.claims = 1 .. Len(s.claims)
        /\ \A i \in DOMAIN s.claims : Append(s.claims, x)[i] = s.claims[i]
        /\ Append(s.claims, x)[Len(s.claims) + 1] = x
    BY <1>1, <1>5
  <1>. HIDE DEF x
  <1>8. /\ t \in Sweep /\ t.replica = s.replica /\ t.slot = s.slot /\ t.claims = Append(s.claims, x)
        /\ t.next = s.next + 1 /\ t.step = IF s.next = Len(Jobs) THEN "enqueue" ELSE "insert"
    <2>1. t \in Sweep /\ t.claims = Append(s.claims, x)
      BY <1>6, <1>7 DEF Sweep
    <2>2. /\ t.replica = Onward(s).replica /\ t.slot = Onward(s).slot
          /\ t.next = Onward(s).next /\ t.step = Onward(s).step
      BY <1>6 DEF Sweep
    <2>. QED
      BY <2>1, <2>2, <1>6
  <1>. HIDE DEF t, tick, j
  <1>9. Claims(t) = Claims(s) \union {x}
    BY <1>7, <1>8 DEF Claims
  <1>10. /\ \A y \in sweeps' : y = t \/ (y \in sweeps /\ y # s)
         /\ t \in sweeps' /\ \A y \in sweeps : y # s => y \in sweeps'
    BY <1>3 DEF Replace
  <1>11. SchedPending' = SchedPending \union {x}
    <2>1. SchedPending' = UNION { Claims(y) : y \in sweeps' }
      BY DEF SchedPending, Claims
    <2>. QED
      BY <2>1, <1>9, <1>10 DEF SchedPending
  <1>12. SchedClaimed' = SchedClaimed \union {x}
    BY <1>2, <1>5, <1>11 DEF SchedClaimed
  <1>13. x \notin SchedClaimed
    BY <1>4, <1>5 DEF SchedInv, SchedPlaced, SchedTypeOK
  <1>14. x \notin SchedPending /\ x \notin lost /\ fired[x] = 0 /\ x \notin live
    <2>1. fired[x] \in Nat /\ fired[x] <= 1
      BY <1>5 DEF SchedInv, SchedTypeOK, SchedPlaced
    <2>. QED
      BY <1>5, <1>13, <2>1 DEF SchedClaimed, SchedInv, SchedPlaced
  <1>15. SchedApart'
    <2>1. \A y \in sweeps : x \notin Claims(y)
      BY <1>14 DEF SchedPending
    <2>2. \A y, z \in sweeps : y # z => (y.replica # z.replica \/ y.slot # z.slot) /\ Claims(y) \intersect Claims(z) = {}
      BY DEF SchedInv, SchedApart
    <2>3. \A y, z \in sweeps' : y # z => (y.replica # z.replica \/ y.slot # z.slot) /\ Claims(y) \intersect Claims(z) = {}
      BY <2>1, <2>2, <1>8, <1>9, <1>10
    <2>. QED
      BY <2>3 DEF SchedApart, Claims
  <1>16. /\ lastTick \in [Names -> Instants \union {NoTick}]
         /\ lastTick' \in [Names -> Instants \union {NoTick}] /\ lastTick'[j] = tick
         /\ \A k \in Names : k # j => lastTick'[k] = lastTick[k]
    BY <1>1, <1>3, <1>4 DEF SchedInv, SchedTypeOK, j
  <1>17. first[j] \in Nat /\ first[j] # NoTick /\ first[j] <= lastTick[j] /\ first[j] % Period[j] = 0
         /\ lastTick[j] % Period[j] = 0
    <2>1. SchedCounted(j) /\ lastTick[j] # NoTick /\ first[j] \in Instants \union {NoTick}
      BY <1>1, <1>4 DEF SchedInv, SchedTypeOK, j
    <2>. QED
      BY <2>1 DEF SchedCounted
  <1>18. SchedPlaced'
    <2>1. ASSUME NEW y \in Tick
          PROVE  /\ fired'[y] <= 1
                 /\ y \in live' => fired'[y] = 1
                 /\ y \in lost' => fired'[y] = 0
                 /\ y \in SchedPending' => fired'[y] = 0 /\ y \notin lost'
      BY <1>2, <1>11, <1>14 DEF SchedInv, SchedPlaced
    <2>2. ASSUME NEW y \in Tick, y \in SchedClaimed'
          PROVE  /\ lastTick'[y.job] # NoTick
                 /\ first'[y.job] < y.at /\ y.at <= lastTick'[y.job]
                 /\ y.at % Period[y.job] = 0
      <3>1. CASE y = x
        BY <3>1, <1>2, <1>4, <1>5, <1>16, <1>17
      <3>2. CASE y \in SchedClaimed
        <4>1. /\ lastTick[y.job] # NoTick /\ y.job \in Names /\ y.at \in Nat
              /\ first[y.job] < y.at /\ y.at <= lastTick[y.job] /\ y.at % Period[y.job] = 0
          BY <3>2 DEF SchedInv, SchedPlaced, Tick
        <4>. QED
          BY <4>1, <1>2, <1>4, <1>16
      <3>. QED
        BY <2>2, <3>1, <3>2, <1>12
    <2>. QED
      BY <2>1, <2>2 DEF SchedPlaced
  <1>19. ASSUME NEW y \in sweeps' PROVE SchedSweepOK(y)'
    <2>1. CASE y = t
      <3>1. Len(t.claims) <= Len(Jobs)
        BY <1>1, <1>7, <1>8 DEF SchedSweepOK
      <3>2. t.step # "enqueue" => t.next \in DOMAIN Jobs /\ Len(t.claims) < t.next
        BY <1>1, <1>7, <1>8 DEF SchedSweepOK
      <3>3. \A i \in DOMAIN s.claims : s.claims[i] # x
        BY <1>14 DEF SchedPending, Claims
      <3>4. \A i, k \in DOMAIN t.claims : t.claims[i] = t.claims[k] => i = k
        <4>1. \A i, k \in DOMAIN s.claims : s.claims[i] = s.claims[k] => i = k
          BY <1>1 DEF SchedSweepOK
        <4>. QED
          BY <4>1, <3>3, <1>7, <1>8
      <3>5. t.step \notin {"select", "update"}
        BY <1>8
      <3>. QED
        BY <2>1, <3>1, <3>2, <3>4, <3>5 DEF SchedSweepOK
    <2>2. CASE y \in sweeps
      <3>1. SchedSweepOK(y) /\ tick # NoTick
        BY <2>2, <1>4 DEF SchedInv
      <3>2. y.step # "enqueue" => Jobs[y.next] \in Names
        BY <3>1 DEF SchedSweepOK
      <3>. QED
        BY <3>1, <3>2, <1>16 DEF SchedSweepOK, TickAt
    <2>. QED
      BY <2>1, <2>2, <1>10
  <1>20. TicksBetween(j, s.read, tick) = ((tick - s.read) \div Period[j]) - 1
    BY <1>4 DEF TicksBetween
  <1>21. /\ (tick - s.read) \div Period[j] \in Nat /\ (tick - s.read) \div Period[j] >= 1
         /\ tick = s.read + Period[j] * ((tick - s.read) \div Period[j])
    <2>1. Period[j] \in Nat \ {0} /\ s.read % Period[j] = 0
      BY <1>1, <1>4, <1>17 DEF j
    <2>. QED
      BY <2>1, <1>4, SchedPeriods
  <1>22. /\ skipped \in [Names -> Nat] /\ skipped' \in [Names -> Nat]
         /\ skipped'[j] = skipped[j] + ((tick - s.read) \div Period[j]) - 1
         /\ \A k \in Names : k # j => skipped'[k] = skipped[k]
    <2>1. skipped \in [Names -> Nat] /\ j \in Names
      BY <1>1 DEF SchedInv, SchedTypeOK, j
    <2>2. skipped' = [skipped EXCEPT ![j] = skipped[j] + TicksBetween(j, s.read, tick)]
      BY <1>3
    <2>3. skipped[j] + TicksBetween(j, s.read, tick) \in Nat
      BY <2>1, <1>20, <1>21
    <2>4. skipped' \in [Names -> Nat] /\ skipped'[j] = skipped[j] + TicksBetween(j, s.read, tick)
          /\ \A k \in Names : k # j => skipped'[k] = skipped[k]
      BY <2>1, <2>2, <2>3
    <2>. QED
      BY <2>1, <2>4, <1>20, <1>21
  <1>23. ASSUME NEW k \in Names PROVE SchedCounted(k)'
    <2>1. SchedCounted(k)
      BY DEF SchedInv
    <2>2. CASE k # j
      <3>1. SchedClaimedOf(k)' = SchedClaimedOf(k)
        BY <2>2, <1>5, <1>12 DEF SchedClaimedOf
      <3>. QED
        BY <2>1, <2>2, <3>1, <1>2, <1>16, <1>22 DEF SchedCounted
    <2>3. CASE k = j
      <3>1. SchedClaimedOf(j)' = SchedClaimedOf(j) \union {x} /\ x \notin SchedClaimedOf(j)
        BY <1>5, <1>12, <1>13 DEF SchedClaimedOf
      <3>2. IsFiniteSet(SchedClaimedOf(j))
        BY SchedTicksFinite, FS_Subset DEF SchedClaimedOf, SchedClaimed
      <3>3. /\ Cardinality(SchedClaimedOf(j)) \in Nat
            /\ Cardinality(SchedClaimedOf(j)') = Cardinality(SchedClaimedOf(j)) + 1
        BY <3>1, <3>2, FS_AddElement, FS_CardinalityType
      <3>. DEFINE d == (tick - s.read) \div Period[j]
                  n == Cardinality(SchedClaimedOf(j))
                  p == Period[j]
      <3>4. lastTick[j] = first[j] + p * (n + skipped[j])
        BY <2>1, <2>3, <1>4 DEF SchedCounted
      <3>5. /\ p \in Nat /\ n \in Nat /\ d \in Nat /\ skipped[j] \in Nat
            /\ tick = lastTick[j] + p * d /\ tick \in Nat /\ lastTick[j] \in Nat
            /\ skipped'[j] = skipped[j] + d - 1
            /\ Cardinality(SchedClaimedOf(j)') = n + 1
        BY <3>3, <1>1, <1>4, <1>21, <1>22 DEF j
      <3>. HIDE DEF d, n, p
      <3>6. tick = first[j] + p * ((n + 1) + (skipped[j] + d - 1))
        <4>. DEFINE a == first[j]
                    z == skipped[j]
                    l == lastTick[j]
        <4>1. a \in Nat /\ z \in Nat /\ l \in Nat /\ l = a + p * (n + z)
          BY <3>4, <3>5, <1>17
        <4>2. tick = l + p * d
          BY <3>5
        <4>3. p \in Nat /\ n \in Nat /\ d \in Nat
          BY <3>5
        <4>. HIDE DEF a, z, l
        <4>4. l + p * d = a + p * ((n + 1) + (z + d - 1))
          <5>1. (n + 1) + (z + d - 1) = (n + z) + d
            BY <4>1, <4>3
          <5>2. p * ((n + z) + d) = p * (n + z) + p * d
            BY <4>1, <4>3
          <5>3. p * (n + z) \in Nat /\ p * d \in Nat
            BY <4>1, <4>3
          <5>4. l + p * d = a + (p * (n + z) + p * d)
            BY <4>1, <5>3
          <5>. QED
            BY <5>1, <5>2, <5>4
        <4>. QED
          BY <4>2, <4>4 DEF a, z
      <3>7. lastTick'[j] = first'[j] + Period[j] * (Cardinality(SchedClaimedOf(j)') + skipped'[j])
        BY <3>5, <3>6, <1>2, <1>16 DEF p
      <3>8. first'[j] <= lastTick'[j] /\ tick # NoTick
        BY <1>2, <1>4, <1>16, <1>17
      <3>. QED
        BY <2>3, <3>7, <3>8, <1>2, <1>4, <1>16, <1>17 DEF SchedCounted
    <2>. QED
      BY <2>2, <2>3
  <1>24. SchedTypeOK'
    <2>1. \A y \in sweeps' : y.step # "enqueue" => y.next \in DOMAIN Jobs
      BY <1>19 DEF SchedSweepOK
    <2>2. sweeps' \subseteq Sweep
      BY <1>8, <1>10 DEF SchedInv, SchedTypeOK
    <2>. QED
      BY <1>2, <1>16, <1>22, <2>1, <2>2 DEF SchedInv, SchedTypeOK
  <1>. QED
    BY <1>15, <1>18, <1>19, <1>23, <1>24 DEF SchedInv

LEMMA SchedMoveStep ==
    ASSUME SchedInv, NEW s \in sweeps, MoveForward(s)
    PROVE  SchedInv'
  <1>1. CASE Moves(s, Jobs[s.next])
    BY <1>1, SchedClaimStep
  <1>2. CASE ~Moves(s, Jobs[s.next])
    <2>1. s.next \in DOMAIN Jobs /\ s.step # "enqueue"
      BY DEF MoveForward, SchedInv, SchedTypeOK
    <2>2. sweeps' = Replace(s, Onward(s)) /\ UNCHANGED <<lastTick, skipped>>
      BY <1>2 DEF MoveForward
    <2>3. UNCHANGED <<now, sweeping, process, live, fired, lost, first>>
      BY DEF MoveForward, Queue
    <2>4. /\ Onward(s) \in Sweep /\ SchedSweepOK(Onward(s))
          /\ Onward(s).replica = s.replica /\ Onward(s).slot = s.slot /\ Onward(s).claims = s.claims
      BY <2>1, SchedOnwardOK
    <2>. QED
      BY <2>2, <2>3, <2>4, SchedMovesOn
  <1>. QED
    BY <1>1, <1>2

\* The first of a sweep's claims becomes a job.
LEMMA SchedEnqueueStep ==
    ASSUME SchedInv, NEW s \in sweeps, EnqueueClaim(s)
    PROVE  SchedInv'
  <1>. USE SchedConstants
  <1>. DEFINE tick == Head(s.claims)
              t == [s EXCEPT !.claims = Tail(s.claims)]
  <1>1. /\ s \in Sweep /\ s.step = "enqueue" /\ SchedSweepOK(s)
        /\ s.claims \in Seq(Tick) /\ s.claims # << >>
    BY DEF EnqueueClaim, SchedInv, SchedTypeOK, Sweep
  <1>2. /\ UNCHANGED <<now, sweeping, process, lost, lastTick, first, skipped>>
        /\ live' = live \union {tick}
        /\ fired' = [fired EXCEPT ![tick] = IF tick \in live THEN fired[tick] ELSE fired[tick] + 1]
        /\ sweeps' = Replace(s, t)
    BY DEF EnqueueClaim, Table
  <1>3. /\ Tail(s.claims) \in Seq(Tick) /\ Len(Tail(s.claims)) = Len(s.claims) - 1
        /\ Len(s.claims) \in Nat /\ Len(s.claims) >= 1 /\ DOMAIN s.claims = 1 .. Len(s.claims)
        /\ DOMAIN Tail(s.claims) = 1 .. Len(s.claims) - 1
        /\ \A i \in 1 .. Len(s.claims) - 1 : Tail(s.claims)[i] = s.claims[i + 1]
        /\ tick = s.claims[1] /\ tick \in Tick
    BY <1>1
  <1>4. /\ t \in Sweep /\ t.replica = s.replica /\ t.slot = s.slot /\ t.step = "enqueue"
        /\ t.claims = Tail(s.claims)
    BY <1>1, <1>3 DEF Sweep
  <1>. HIDE DEF t, tick
  <1>5. Claims(t) = Claims(s) \ {tick} /\ tick \in Claims(s)
    <2>1. \A i, k \in DOMAIN s.claims : s.claims[i] = s.claims[k] => i = k
      BY <1>1 DEF SchedSweepOK
    <2>2. tick \notin Claims(t)
      <3>1. ASSUME NEW i \in DOMAIN t.claims PROVE t.claims[i] # tick
        <4>1. i \in Nat /\ i >= 1 /\ i <= Len(s.claims) - 1
          BY <1>3, <1>4
        <4>2. t.claims[i] = s.claims[i + 1]
          BY <1>3, <1>4, <4>1
        <4>3. 1 \in DOMAIN s.claims /\ i + 1 \in DOMAIN s.claims /\ i + 1 # 1
          BY <1>3, <4>1
        <4>. QED
          BY <2>1, <4>2, <4>3, <1>3
      <3>. QED
        BY <3>1 DEF Claims
    <2>3. Claims(t) \subseteq Claims(s) /\ tick \in Claims(s)
      BY <1>3, <1>4 DEF Claims
    <2>4. \A y \in Claims(s) : y # tick => y \in Claims(t)
      <3>1. ASSUME NEW i \in DOMAIN s.claims, s.claims[i] # tick
            PROVE  s.claims[i] \in Claims(t)
        <4>1. i - 1 \in 1 .. Len(s.claims) - 1 /\ s.claims[i] = Tail(s.claims)[i - 1]
          BY <3>1, <1>3
        <4>. QED
          BY <4>1, <1>3, <1>4 DEF Claims
      <3>. QED
        BY <3>1 DEF Claims
    <2>. QED
      BY <2>2, <2>3, <2>4
  <1>6. /\ \A y \in sweeps' : y = t \/ (y \in sweeps /\ y # s)
        /\ t \in sweeps' /\ \A y \in sweeps : y # s => y \in sweeps'
    BY <1>2 DEF Replace
  <1>7. \A y, z \in sweeps : y # z => (y.replica # z.replica \/ y.slot # z.slot) /\ Claims(y) \intersect Claims(z) = {}
    BY DEF SchedInv, SchedApart
  <1>8. SchedApart'
    <2>1. \A y, z \in sweeps' : y # z => (y.replica # z.replica \/ y.slot # z.slot) /\ Claims(y) \intersect Claims(z) = {}
      BY <1>4, <1>5, <1>6, <1>7
    <2>. QED
      BY <2>1 DEF SchedApart, Claims
  <1>9. SchedPending' = SchedPending \ {tick} /\ tick \in SchedPending
    <2>1. SchedPending' = UNION { Claims(y) : y \in sweeps' }
      BY DEF SchedPending, Claims
    <2>2. \A y \in sweeps : y # s => tick \notin Claims(y)
      BY <1>5, <1>7
    <2>3. \A e : e \in SchedPending' <=> \E y \in sweeps' : e \in Claims(y)
      BY <2>1
    <2>4. \A e : e \in SchedPending <=> \E y \in sweeps : e \in Claims(y)
      BY DEF SchedPending
    <2>. QED
      BY <2>2, <2>3, <2>4, <1>5, <1>6
  <1>10. /\ fired \in [Tick -> Nat] /\ fired[tick] = 0 /\ tick \notin lost /\ tick \notin live
    BY <1>3, <1>9 DEF SchedInv, SchedTypeOK, SchedPlaced
  <1>11. /\ fired' \in [Tick -> Nat] /\ fired'[tick] = 1
         /\ \A y \in Tick : y # tick => fired'[y] = fired[y]
    BY <1>2, <1>3, <1>10
  <1>12. SchedClaimed' = SchedClaimed
    BY <1>2, <1>3, <1>9, <1>11 DEF SchedClaimed
  <1>13. SchedPlaced'
    BY <1>2, <1>3, <1>9, <1>10, <1>11, <1>12 DEF SchedInv, SchedPlaced
  <1>14. ASSUME NEW k \in Names PROVE SchedCounted(k)'
    <2>1. SchedClaimedOf(k)' = SchedClaimedOf(k)
      BY <1>12 DEF SchedClaimedOf
    <2>. QED
      BY <2>1, <1>2 DEF SchedInv, SchedCounted
  <1>15. ASSUME NEW y \in sweeps' PROVE SchedSweepOK(y)'
    <2>1. CASE y = t
      <3>1. Len(t.claims) <= Len(Jobs)
        BY <1>1, <1>3, <1>4 DEF SchedSweepOK
      <3>2. \A i, k \in DOMAIN t.claims : t.claims[i] = t.claims[k] => i = k
        <4>1. \A i, k \in DOMAIN s.claims : s.claims[i] = s.claims[k] => i = k
          BY <1>1 DEF SchedSweepOK
        <4>2. \A i \in DOMAIN t.claims : i + 1 \in DOMAIN s.claims /\ t.claims[i] = s.claims[i + 1] /\ i \in Nat
          BY <1>3, <1>4
        <4>3. ASSUME NEW i \in DOMAIN t.claims, NEW k \in DOMAIN t.claims, t.claims[i] = t.claims[k]
              PROVE  i = k
          <5>1. i + 1 = k + 1
            BY <4>1, <4>2, <4>3
          <5>. QED
            BY <5>1, <4>2
        <4>. QED
          BY <4>3
      <3>. QED
        BY <2>1, <3>1, <3>2, <1>4 DEF SchedSweepOK
    <2>2. CASE y \in sweeps
      BY <2>2, <1>2 DEF SchedInv, SchedSweepOK, TickAt
    <2>. QED
      BY <2>1, <2>2, <1>6
  <1>16. SchedTypeOK'
    <2>1. \A y \in sweeps' : y.step # "enqueue" => y.next \in DOMAIN Jobs
      BY <1>15 DEF SchedSweepOK
    <2>2. sweeps' \subseteq Sweep
      BY <1>4, <1>6 DEF SchedInv, SchedTypeOK
    <2>. QED
      BY <1>2, <1>3, <1>11, <2>1, <2>2 DEF SchedInv, SchedTypeOK
  <1>. QED
    BY <1>8, <1>13, <1>14, <1>15, <1>16 DEF SchedInv

\* Sweeps end, and what they had claimed and not enqueued is lost.
LEMMA SchedDropStep ==
    ASSUME SchedInv, NEW R \in SUBSET sweeps, sweeps' = sweeps \ R,
           lost' = lost \union UNION { Claims(s) : s \in R },
           UNCHANGED <<now, live, fired, lastTick, first, skipped>>,
           sweeping' \in [Replicas -> Slots \union {NoSweep}],
           process' \in [Replicas -> {"up", "closing", "awaiting", "closed", "crashed"}]
    PROVE  SchedInv'
  <1>. DEFINE dropped == UNION { Claims(s) : s \in R }
  <1>1. \A y, z \in sweeps : y # z => (y.replica # z.replica \/ y.slot # z.slot) /\ Claims(y) \intersect Claims(z) = {}
    BY DEF SchedInv, SchedApart
  <1>2. SchedPending' = SchedPending \ dropped /\ dropped \subseteq SchedPending
    <2>1. SchedPending' = UNION { Claims(y) : y \in sweeps' }
      BY DEF SchedPending, Claims
    <2>2. \A e : e \in SchedPending' <=> \E y \in sweeps' : e \in Claims(y)
      BY <2>1
    <2>3. \A e : e \in SchedPending <=> \E y \in sweeps : e \in Claims(y)
      BY DEF SchedPending
    <2>4. \A e : e \in dropped <=> \E y \in R : e \in Claims(y)
      OBVIOUS
    <2>. HIDE DEF dropped
    <2>. QED
      BY <2>2, <2>3, <2>4, <1>1
  <1>3. dropped \subseteq Tick
    <2>1. \A s \in sweeps : Claims(s) \subseteq Tick
      BY DEF SchedInv, SchedTypeOK, Sweep, Claims
    <2>. QED
      BY <2>1
  <1>. HIDE DEF dropped
  <1>4. lost' = lost \union dropped
    BY DEF dropped
  <1>5. SchedClaimed' = SchedClaimed
    BY <1>2, <1>4 DEF SchedClaimed
  <1>6. SchedPlaced'
    BY <1>2, <1>3, <1>4, <1>5 DEF SchedInv, SchedPlaced
  <1>7. ASSUME NEW k \in Names PROVE SchedCounted(k)'
    <2>1. SchedClaimedOf(k)' = SchedClaimedOf(k)
      BY <1>5 DEF SchedClaimedOf
    <2>. QED
      BY <2>1 DEF SchedInv, SchedCounted
  <1>8. SchedApart'
    BY <1>1 DEF SchedApart, Claims
  <1>9. \A y \in sweeps' : SchedSweepOK(y)'
    BY DEF SchedInv, SchedSweepOK, TickAt
  <1>10. SchedTypeOK'
    BY <1>3, <1>4 DEF SchedInv, SchedTypeOK
  <1>. QED
    BY <1>6, <1>7, <1>8, <1>9, <1>10 DEF SchedInv

LEMMA SchedSettled ==
    ASSUME SchedInv, NEW s \in sweeps, Settles(s)
    PROVE  /\ sweeps' = sweeps \ {s}
           /\ sweeping' \in [Replicas -> Slots \union {NoSweep}]
  BY DEF SchedInv, SchedTypeOK, Settles

LEMMA SchedFinishStep ==
    ASSUME SchedInv, NEW s \in sweeps, Finish(s)
    PROVE  SchedInv'
  <1>1. Claims(s) = {}
    BY DEF Finish, Claims
  <1>2. lost' = lost \union UNION { Claims(x) : x \in {s} }
    BY <1>1 DEF Finish, Queue
  <1>3. /\ UNCHANGED <<now, live, fired, lastTick, first, skipped>>
        /\ process' \in [Replicas -> {"up", "closing", "awaiting", "closed", "crashed"}]
    BY DEF Finish, Queue, Table, SchedInv, SchedTypeOK
  <1>4. sweeps' = sweeps \ {s} /\ sweeping' \in [Replicas -> Slots \union {NoSweep}]
    BY SchedSettled DEF Finish
  <1>. QED
    BY <1>2, <1>3, <1>4, SchedDropStep

LEMMA SchedThrowStep ==
    ASSUME SchedInv, NEW s \in sweeps, Throws(s)
    PROVE  SchedInv'
  <1>1. lost' = lost \union UNION { Claims(x) : x \in {s} }
    BY DEF Throws
  <1>2. /\ UNCHANGED <<now, live, fired, lastTick, first, skipped>>
        /\ process' \in [Replicas -> {"up", "closing", "awaiting", "closed", "crashed"}]
    BY DEF Throws, Queue, Table, SchedInv, SchedTypeOK
  <1>3. sweeps' = sweeps \ {s} /\ sweeping' \in [Replicas -> Slots \union {NoSweep}]
    BY SchedSettled DEF Throws
  <1>. QED
    BY <1>1, <1>2, <1>3, SchedDropStep

LEMMA SchedCrashStep ==
    ASSUME SchedInv, NEW r \in Replicas, Crash(r)
    PROVE  SchedInv'
  <1>1. SweepsOf(r) \in SUBSET sweeps
    BY DEF SweepsOf
  <1>2. /\ sweeps' = sweeps \ SweepsOf(r)
        /\ lost' = lost \union UNION { Claims(s) : s \in SweepsOf(r) }
        /\ UNCHANGED <<now, live, fired, lastTick, first, skipped>>
        /\ sweeping' \in [Replicas -> Slots \union {NoSweep}]
        /\ process' \in [Replicas -> {"up", "closing", "awaiting", "closed", "crashed"}]
    BY DEF Crash, Table, SchedInv, SchedTypeOK
  <1>. QED
    BY <1>1, <1>2, SchedDropStep

\* What changes no sweep, no row and no claim.
LEMMA SchedAsideStep ==
    ASSUME SchedInv, UNCHANGED <<sweeps, lastTick, first, skipped, fired, lost>>,
           live' \subseteq live, now' \in Instants,
           sweeping' \in [Replicas -> Slots \union {NoSweep}],
           process' \in [Replicas -> {"up", "closing", "awaiting", "closed", "crashed"}]
    PROVE  SchedInv'
  <1>1. SchedPending' = SchedPending
    BY DEF SchedPending, Claims
  <1>2. SchedPlaced' /\ \A j \in Names : SchedCounted(j)'
    BY <1>1, SchedSameTicks
  <1>. QED
    BY <1>2 DEF SchedInv, SchedTypeOK, SchedApart, Claims, SchedSweepOK, TickAt

LEMMA SchedStep == SchedInv /\ [SchedNext]_schedVars => SchedInv'
  <1>. SUFFICES ASSUME SchedInv, [SchedNext]_schedVars PROVE SchedInv'
    OBVIOUS
  <1>1. ASSUME NEW r \in Replicas, NEW slot \in Slots, StartSweep(r, slot) PROVE SchedInv'
    BY <1>1, SchedStartStep
  <1>2. ASSUME NEW r \in Replicas, BeginClose(r) \/ FireWhileClosing(r) \/ AwaitSweep(r) \/ EndClose(r)
        PROVE  SchedInv'
    <2>1. /\ UNCHANGED <<sweeps, lastTick, first, skipped, fired, lost, live, now>>
          /\ sweeping' \in [Replicas -> Slots \union {NoSweep}]
          /\ process' \in [Replicas -> {"up", "closing", "awaiting", "closed", "crashed"}]
      BY <1>2 DEF BeginClose, FireWhileClosing, AwaitSweep, EndClose, Queue, Table, SchedInv, SchedTypeOK
    <2>2. now' \in Instants
      BY <2>1 DEF SchedInv, SchedTypeOK
    <2>. QED
      BY <2>1, <2>2, SchedAsideStep
  <1>3. ASSUME NEW r \in Replicas, Crash(r) PROVE SchedInv'
    BY <1>3, SchedCrashStep
  <1>4. ASSUME NEW s \in sweeps, Advances(s) PROVE SchedInv'
    BY <1>4, SchedInsertStep, SchedSelectStep, SchedMoveStep, SchedEnqueueStep, SchedFinishStep DEF Advances
  <1>5. ASSUME NEW s \in sweeps, Throws(s) PROVE SchedInv'
    BY <1>5, SchedThrowStep
  <1>6. ASSUME NEW t \in live, JobEnds(t) PROVE SchedInv'
    BY <1>6, SchedAsideStep DEF JobEnds, Table, SchedInv, SchedTypeOK
  <1>7. CASE Elapse
    <2>1. now' \in Instants
      BY <1>7, SchedConstants DEF Elapse, SchedInv, SchedTypeOK, Instants
    <2>. QED
      BY <1>7, <2>1, SchedAsideStep DEF Elapse, Queue, Table, SchedInv, SchedTypeOK
  <1>8. CASE UNCHANGED schedVars
    BY <1>8, SchedAsideStep DEF schedVars, SchedInv, SchedTypeOK
  <1>. QED
    BY <1>1, <1>2, <1>3, <1>4, <1>5, <1>6, <1>7, <1>8 DEF SchedNext

-----------------------------------------------------------------------------
(* What it means for the ticks.                                            *)

\* As many claims of a schedule wait in sweeps as there are ticks of it that wait.
LEMMA SchedPendingCount ==
    ASSUME SchedInv, NEW j \in Names
    PROVE  Cardinality(PendingOf(j)) = Cardinality({ t \in SchedPending : t.job = j })
  <1>. DEFINE P == PendingOf(j)
              T == { t \in SchedPending : t.job = j }
              f == [p \in P |-> p[1].claims[p[2]]]
  <1>1. sweeps \subseteq Sweep /\ \A s \in sweeps : SchedSweepOK(s)
    BY DEF SchedInv, SchedTypeOK
  <1>2. \A s \in sweeps : s.claims \in Seq(Tick) /\ DOMAIN s.claims = 1 .. Len(s.claims)
    BY <1>1 DEF Sweep
  <1>3. IsFiniteSet(T)
    <2>1. T \subseteq Tick
      BY <1>2 DEF SchedPending, Claims
    <2>. QED
      BY <2>1, SchedTicksFinite, FS_Subset
  <1>4. \A p \in P : /\ p[1] \in sweeps /\ p[2] \in DOMAIN p[1].claims
                     /\ p = <<p[1], p[2]>> /\ p[1].claims[p[2]].job = j
    BY DEF PendingOf
  <1>5. \A p \in P : p[1].claims[p[2]] \in Claims(p[1]) /\ p[1].claims[p[2]] \in T
    BY <1>4 DEF Claims, SchedPending
  <1>6. f \in [P -> T]
    BY <1>5
  <1>7. ASSUME NEW p \in P, NEW q \in P, f[p] = f[q]
        PROVE  p = q
    <2>1. p[1].claims[p[2]] = q[1].claims[q[2]]
      BY <1>7
    <2>2. p[1] = q[1]
      BY <2>1, <1>4, <1>5 DEF SchedInv, SchedApart
    <2>3. p[2] = q[2]
      BY <2>1, <2>2, <1>1, <1>4 DEF SchedSweepOK
    <2>. QED
      BY <2>2, <2>3, <1>4
  <1>8. ASSUME NEW t \in T
        PROVE  \E p \in P : f[p] = t
    <2>1. t.job = j /\ \E s \in sweeps : t \in Claims(s)
      BY DEF SchedPending
    <2>2. PICK s \in sweeps : \E i \in DOMAIN s.claims : t = s.claims[i]
      BY <2>1 DEF Claims
    <2>3. PICK i \in DOMAIN s.claims : t = s.claims[i]
      BY <2>2
    <2>4. i \in 1 .. Len(Jobs)
      <3>1. Len(s.claims) \in Nat /\ Len(s.claims) <= Len(Jobs) /\ i \in 1 .. Len(s.claims)
        BY <1>1, <1>2 DEF SchedSweepOK
      <3>. QED
        BY <3>1, SchedConstants
    <2>5. <<s, i>> \in P
      BY <2>1, <2>3, <2>4 DEF PendingOf
    <2>. QED
      BY <2>3, <2>5
  <1>9. f \in Injection(P, T) /\ f \in Surjection(P, T)
    <2>. HIDE DEF P, T, f
    <2>. QED
      BY <1>6, <1>7, <1>8 DEF Injection, Surjection, IsInjective
  <1>. HIDE DEF P, T, f
  <1>10. Cardinality(P) = Cardinality(T)
    BY <1>3, <1>9, FS_Injection
  <1>. QED
    BY <1>10 DEF P, T

\* The ticks of a schedule that were claimed are those that were fired, those that were
\* lost and those that wait, each of them once.
LEMMA SchedClaimedCount ==
    ASSUME SchedInv, NEW j \in Names
    PROVE  Cardinality(SchedClaimedOf(j)) =
             TicksOf({ t \in Tick : fired[t] = 1 }, j) + TicksOf(lost, j) + Cardinality(PendingOf(j))
  <1>. DEFINE F == { t \in { u \in Tick : fired[u] = 1 } : t.job = j }
              L == { t \in lost : t.job = j }
              P == { t \in SchedPending : t.job = j }
  <1>1. lost \subseteq Tick /\ SchedPending \subseteq Tick
    BY DEF SchedInv, SchedTypeOK, SchedPending, Claims, Sweep
  <1>2. SchedClaimedOf(j) = (F \union L) \union P
    BY <1>1 DEF SchedClaimedOf, SchedClaimed
  <1>3. F \intersect L = {} /\ (F \union L) \intersect P = {}
    BY <1>1 DEF SchedInv, SchedPlaced
  <1>4. IsFiniteSet(F) /\ IsFiniteSet(L) /\ IsFiniteSet(P)
    BY <1>1, SchedTicksFinite, FS_Subset
  <1>5. Cardinality(P) = Cardinality(PendingOf(j))
    BY SchedPendingCount
  <1>6. Cardinality(F) = TicksOf({ t \in Tick : fired[t] = 1 }, j) /\ Cardinality(L) = TicksOf(lost, j)
    BY DEF TicksOf
  <1>. HIDE DEF F, L, P
  <1>7. Cardinality({}) = 0
    BY FS_EmptySet
  <1>8. IsFiniteSet(F \union L) /\ Cardinality(F \union L) = Cardinality(F) + Cardinality(L) - 0
    BY <1>3, <1>4, <1>7, FS_Union
  <1>9. Cardinality((F \union L) \union P) = Cardinality(F \union L) + Cardinality(P) - 0
    BY <1>3, <1>4, <1>7, <1>8, FS_Union
  <1>10. Cardinality(F) \in Nat /\ Cardinality(L) \in Nat /\ Cardinality(P) \in Nat
    BY <1>4, FS_CardinalityType
  <1>. QED
    BY <1>2, <1>5, <1>6, <1>8, <1>9, <1>10

LEMMA SchedTicksKept == SchedInv => TicksKept
  <1>. SUFFICES ASSUME SchedInv PROVE TicksKept
    OBVIOUS
  <1>1. TickFiresOnce
    BY DEF TickFiresOnce, SchedInv, SchedTypeOK, SchedPlaced, SchedClaimed, Tick, Instants
  <1>2. ASSUME NEW j \in Names, lastTick[j] # NoTick
        PROVE  lastTick[j] = first[j] + Period[j] *
                 ( TicksOf({ t \in Tick : fired[t] = 1 }, j) + TicksOf(lost, j)
                   + Cardinality(PendingOf(j)) + skipped[j] )
    <2>1. lastTick[j] = first[j] + Period[j] * (Cardinality(SchedClaimedOf(j)) + skipped[j])
      BY <1>2 DEF SchedInv, SchedCounted
    <2>. QED
      BY <2>1, SchedClaimedCount
  <1>. QED
    BY <1>1, <1>2 DEF TicksKept, EveryTickAccounted

\* From wherever the code can get to, claims, rows and jobs stay as they must.
THEOREM SchedInvariance == SchedSpec => []SchedInv
  <1>. QED
    BY SchedInitStep, SchedStep, PTL DEF SchedSpec

\* Rows, sweeps and replicas only ever hold what they are declared to hold (SchedTypeOK),
\* for every manifest of schedules and every number of replicas.
THEOREM SchedTypeCorrect == SchedSpec => []SchedTypeOK
  <1>1. SchedInv => SchedTypeOK
    BY DEF SchedInv
  <1>. QED
    BY <1>1, SchedInvariance, PTL

\* Each tick is fired at most once, none before or in the one its schedule was installed in,
\* and every tick a schedule has gone through was fired, waits in one sweep, was lost to a
\* crash or a throw, or is among those reported as skipped (claimDue's compare-and-set).
THEOREM TicksAreKept == SchedSpec => []TicksKept
  BY SchedInvariance, SchedTicksKept, PTL

LEMMA SchedForward ==
    SchedInv /\ [SchedNext]_schedVars =>
      [ \A j \in Names : lastTick[j] # NoTick /\ lastTick'[j] # lastTick[j] =>
          lastTick'[j] > lastTick[j] ]_lastTick
  <1>. SUFFICES ASSUME SchedInv, [SchedNext]_schedVars, NEW j \in Names,
                       lastTick[j] # NoTick, lastTick'[j] # lastTick[j]
                PROVE  lastTick'[j] > lastTick[j]
    OBVIOUS
  <1>1. lastTick \in [Names -> Instants \union {NoTick}] /\ lastTick' # lastTick
    BY DEF SchedInv, SchedTypeOK
  <1>2. PICK s \in sweeps : InsertFirst(s) \/ MoveForward(s)
    BY <1>1 DEF SchedNext, schedVars, StartSweep, BeginClose, FireWhileClosing, AwaitSweep, EndClose,
                Crash, Advances, Select, EnqueueClaim, Finish, Throws, JobEnds, Elapse, Table
  <1>3. CASE InsertFirst(s)
    BY <1>1, <1>3 DEF InsertFirst
  <1>4. CASE MoveForward(s)
    <2>1. s.step = "update" /\ s.read \in Instants /\ s.read < TickAt(Jobs[s.next], s.at)
      BY <1>4 DEF MoveForward, SchedInv, SchedSweepOK
    <2>2. /\ lastTick' = [lastTick EXCEPT ![Jobs[s.next]] = TickAt(Jobs[s.next], s.at)]
          /\ lastTick[Jobs[s.next]] = s.read
      BY <1>1, <1>4 DEF MoveForward, Moves
    <2>. QED
      BY <1>1, <2>1, <2>2
  <1>. QED
    BY <1>2, <1>3, <1>4

\* Whatever their clocks say and whatever they read before, no sweep takes a schedule back.
THEOREM TicksMoveForward == SchedSpec => LastTickMovesForward
  <1>. QED
    BY SchedInvariance, SchedForward, PTL DEF SchedSpec, LastTickMovesForward
=============================================================================
