------------------------------ MODULE CallProofs ------------------------------
(*****************************************************************************)
(* What the statements of concurrent callers keep in a tenant's tables, for  *)
(* any number of calls, keys, documents, callers, writers and readers: a     *)
(* claim of a key has one holder, a transactional function has a receipt for *)
(* each of its documents, and every number that was taken is accounted for   *)
(* (FnCall); a rate window grants no more than its limit, and a window's     *)
(* length anywhere no more than the limits of those it can meet (RateLimit); *)
(* and the log of a stream is what its writers wrote, for whoever reads it   *)
(* (Stream).                                                                 *)
(*                                                                           *)
(* A transactional call holds its key by the lock of the row it inserted,    *)
(* and the sequence by the lock of the row it moved; a plain call holds its  *)
(* key by a pending row that nobody may take over before it has aged. That a *)
(* document gets a number nobody else has follows from where numbers can be: *)
(* not yet taken, in one plain call's hands, on one document, or dropped.    *)
(*                                                                           *)
(* The row of a rate limit counts the slots granted in its window, each by   *)
(* one compare-and-set. What a caller with a late clock may do to the count  *)
(* across a boundary follows from where windows may begin: a window's length *)
(* apart if the row outlives its window, and each slot close to the window   *)
(* it was granted in.                                                        *)
(*                                                                           *)
(* A stream, for any number of writers and readers, of chunks and of         *)
(* failures: what is durable is a beginning of what each writer wrote,       *)
(* without a hole, and a reader has all of it up to its cursor, wherever its *)
(* connection was cut. The batches a writer has made and not yet appended    *)
(* are in its chain, in order, and a chain that has failed appends nothing   *)
(* any more (WriterKept); the rows of the log are its first numbers, and     *)
(* each batch of a writer goes on where the one before it ended              *)
(* (RowsInOrder); a reader has or holds every chunk before its cursor        *)
(* (ReaderKept).                                                             *)
(*****************************************************************************)
EXTENDS FnCall, RateLimit, Stream, FiniteSetTheorems, SequenceTheorems, TLAPS

-----------------------------------------------------------------------------
(* Calls under keys.                                                       *)

HoldingSteps == {"next", "move", "work", "wrote", "failed"}

\* A lock on a key is that of a transaction that has claimed it, and all of those have one.
LockKeys ==
    /\ \A k \in IdemKeys, c \in FnCalls : keyLock[k] = c <=> k \in TxKeys /\ Holds(c) /\ Key(c) = k
    /\ \A c \in FnCalls : Holds(c) /\ Tx(c) => calls[c].step \in {"next", "move", "work"}

LockNumber == \A c \in FnCalls : numberLock = c <=> In(c, "work") /\ Tx(c)

\* A transaction's row is committed with its receipt; none is there while its key is locked.
TxRows == \A k \in TxKeys :
    /\ keyLock[k] # NoCall => rows[k] = NoRow
    /\ rows[k] # NoRow => rows[k].state = "done" /\ rows[k].of = rows[k].digest

\* A plain call whose claim nobody could call abandoned is the only one, and its row is pending.
PlainClaims ==
    /\ \A k \in IdemKeys : rows[k] # NoRow /\ rows[k].state = "pending" /\ rows[k].stale => k \in aged
    /\ \A c \in FnCalls : Holds(c) /\ ~Tx(c) /\ Key(c) \notin aged =>
         /\ rows[Key(c)] # NoRow /\ rows[Key(c)].state = "pending"
         /\ \A d \in FnCalls : Holds(d) /\ Key(d) = Key(c) => d = c

\* The numbers calls have: a transaction's is the next one still, for it has locked it.
InHands ==
    /\ \A c \in FnCalls : calls[c].step \in {"move", "work"} => calls[c].number \in Numbers
    /\ \A c \in FnCalls : In(c, "work") =>
         IF Tx(c) THEN calls[c].number = nextNumber ELSE calls[c].number < nextNumber
    /\ \A c, d \in FnCalls :
         /\ In(c, "work") /\ ~Tx(c) /\ In(d, "work") /\ ~Tx(d) /\ calls[c].number = calls[d].number
         => c = d

\* Where a number is.
OnDocument(n) == \E k \in IdemKeys : written[k][n] = 1

Whereabouts == \A n \in Numbers :
    /\ \A k \in IdemKeys : written[k][n] \in {0, 1}
    /\ \A k, l \in IdemKeys : written[k][n] = 1 /\ written[l][n] = 1 => k = l
    /\ ~(OnDocument(n) /\ InHand(n)) /\ ~(OnDocument(n) /\ n \in dropped) /\ ~(InHand(n) /\ n \in dropped)
    /\ n < nextNumber <=> OnDocument(n) \/ InHand(n) \/ n \in dropped

CallInv ==
    /\ CallTypeOK /\ LockKeys /\ LockNumber /\ TxRows /\ PlainClaims
    /\ ReceiptAnswersRequest /\ InHands /\ Whereabouts /\ ReceiptPerDocument

-----------------------------------------------------------------------------
(* Calls and rows.                                                         *)

\* A call that is at rest is in no step.
LEMMA CallAtHand ==
    ASSUME CallTypeOK
    PROVE  /\ \A c \in FnCalls : calls[c] = AtRest \/ calls[c] \in CallState
           /\ \A c \in FnCalls : calls[c].step # "rest" => calls[c] \in CallState
           /\ \A c \in FnCalls : calls[c] \in CallState => Key(c) \in IdemKeys
           /\ AtRest.step = "rest" /\ AtRest \notin CallState
           /\ \A x \in CallState : x.step \in CallSteps /\ x.key \in IdemKeys /\ x.digest \in Digests
           /\ \A k \in IdemKeys : rows[k] = NoRow \/ rows[k] \in IdemRow
           /\ NoRow \notin IdemRow /\ NoCall \notin FnCalls /\ TxKeys \subseteq IdemKeys
           /\ LastNumber \in Nat /\ "rest" \notin CallSteps
  BY FnCallAssumption DEF CallTypeOK, CallState, CallSteps, AtRest, IdemRow, NoRow, Key

\* A call's record with another step.
LEMMA StepFields ==
    ASSUME NEW x \in CallState, NEW s \in CallSteps
    PROVE  LET new == [x EXCEPT !.step = s]
           IN  /\ new \in CallState /\ new.step = s
               /\ new.key = x.key /\ new.digest = x.digest /\ new.number = x.number
  BY DEF CallState

\* What becomes of a call, when nothing becomes of the others.
Becomes(c, new) ==
    /\ calls' \in [FnCalls -> CallState \union {AtRest}]
    /\ calls'[c] = new
    /\ \A d \in FnCalls : d # c => calls'[d] = calls[d]

LEMMA CallBecomes ==
    ASSUME CallTypeOK, NEW c \in FnCalls, NEW new \in CallState \union {AtRest},
           calls' = [calls EXCEPT ![c] = new]
    PROVE  Becomes(c, new)
  BY DEF CallTypeOK, Becomes

LEMMA CallGoesOn ==
    ASSUME CallTypeOK, NEW c \in FnCalls, calls[c] \in CallState, NEW s \in CallSteps, CallGoes(c, s)
    PROVE  \E new \in CallState :
             /\ new.step = s /\ new.key = calls[c].key /\ new.digest = calls[c].digest
             /\ new.number = calls[c].number /\ Becomes(c, new)
  <1>1. PICK x \in CallState : x = calls[c]
    OBVIOUS
  <1>. DEFINE new == [x EXCEPT !.step = s]
  <1>2. /\ new \in CallState /\ new.step = s /\ new.key = x.key /\ new.digest = x.digest
        /\ new.number = x.number
    BY StepFields
  <1>3. calls' = [calls EXCEPT ![c] = new]
    BY <1>1 DEF CallGoes, CallTypeOK
  <1>. HIDE DEF new
  <1>4. Becomes(c, new)
    BY <1>2, <1>3, CallBecomes
  <1>. QED
    BY <1>1, <1>2, <1>4

\* A call that holds nothing, before and after, leaves all but the answers as it is.
LEMMA OutsideStep ==
    ASSUME CallInv, NEW c \in FnCalls, NEW new \in CallState \union {AtRest}, Becomes(c, new),
           ~Holds(c), new.step \notin HoldingSteps,
           UNCHANGED <<rows, nextNumber, keyLock, numberLock, written, dropped, swept, aged>>
    PROVE  /\ LockKeys' /\ LockNumber' /\ TxRows' /\ PlainClaims'
           /\ InHands' /\ Whereabouts' /\ ReceiptPerDocument'
  <1>. USE CallAtHand DEF CallInv, Becomes, HoldingSteps
  <1>1. /\ \A d \in FnCalls : Holds(d)' <=> Holds(d)
        /\ \A d \in FnCalls : Holds(d) => Key(d)' = Key(d) /\ calls'[d] = calls[d]
        /\ \A d \in FnCalls : calls'[d].step \in HoldingSteps => calls'[d] = calls[d] /\ Holds(d)
    BY DEF Holds, Key
  <1>2. LockKeys'
    BY <1>1 DEF LockKeys, Tx
  <1>3. LockNumber'
    BY <1>1 DEF LockNumber, In, Tx, Holds, Key
  <1>4. TxRows'
    BY DEF TxRows
  <1>5. PlainClaims'
    BY <1>1 DEF PlainClaims, Tx
  <1>6. InHands'
    BY <1>1 DEF InHands, In, Tx, Key
  <1>7. \A n \in Numbers : InHand(n)' <=> InHand(n)
    BY <1>1 DEF InHand, Holds, Tx, Key
  <1>8. Whereabouts'
    BY <1>7 DEF Whereabouts, OnDocument
  <1>9. ReceiptPerDocument'
    BY DEF ReceiptPerDocument, DocumentsOf, Receipts
  <1>. QED
    BY <1>2, <1>3, <1>4, <1>5, <1>6, <1>8, <1>9

\* Nor does a holder that goes on with its key, with no number in its hands before or after.
LEMMA HolderStep ==
    ASSUME CallInv, NEW c \in FnCalls, NEW new \in CallState, Becomes(c, new),
           Holds(c), new.step \in HoldingSteps, new.key = calls[c].key,
           calls[c].step # "work", new.step # "work",
           Tx(c) => new.step \in {"next", "move"},
           new.step = "move" => new.number \in Numbers,
           UNCHANGED <<rows, nextNumber, keyLock, numberLock, written, dropped, swept, aged>>
    PROVE  /\ LockKeys' /\ LockNumber' /\ TxRows' /\ PlainClaims'
           /\ InHands' /\ Whereabouts' /\ ReceiptPerDocument'
  <1>. USE CallAtHand DEF CallInv, Becomes, HoldingSteps
  <1>1. /\ \A d \in FnCalls : Holds(d)' <=> Holds(d)
        /\ \A d \in FnCalls : Holds(d) => Key(d)' = Key(d)
        /\ \A d \in FnCalls : In(d, "work") => calls'[d] = calls[d]
        /\ \A d \in FnCalls : calls'[d].step = "work" => calls'[d] = calls[d]
    BY DEF Holds, Key, In
  <1>2. LockKeys'
    BY <1>1 DEF LockKeys, Tx, Holds, Key
  <1>3. LockNumber'
    BY <1>1 DEF LockNumber, In, Tx, Key
  <1>4. TxRows'
    BY DEF TxRows
  <1>5. PlainClaims'
    BY <1>1 DEF PlainClaims, Tx
  <1>6. InHands'
    BY <1>1 DEF InHands, In, Tx, Key
  <1>7. \A n \in Numbers : InHand(n)' <=> InHand(n)
    BY <1>1 DEF InHand, In, Tx, Key
  <1>8. Whereabouts'
    BY <1>7 DEF Whereabouts, OnDocument
  <1>9. ReceiptPerDocument'
    BY DEF ReceiptPerDocument, DocumentsOf, Receipts
  <1>. QED
    BY <1>2, <1>3, <1>4, <1>5, <1>6, <1>8, <1>9

-----------------------------------------------------------------------------
(* One lemma for each action: what it leaves of the invariant.             *)

\* All of the invariant but the types and the answers, which one action gives.
Books ==
    /\ LockKeys /\ LockNumber /\ TxRows /\ PlainClaims
    /\ InHands /\ Whereabouts /\ ReceiptPerDocument

LEMMA StartCallStep ==
    ASSUME CallInv, NEW c \in FnCalls, NEW k \in IdemKeys, NEW d \in Digests, StartCall(c, k, d)
    PROVE  CallTypeOK' /\ Books'
  <1>. DEFINE new == [step |-> "insert", key |-> k, digest |-> d, number |-> 0]
  <1>1. new \in CallState
    BY CallAtHand DEF CallInv, CallState, CallSteps
  <1>2. new.step = "insert"
    OBVIOUS
  <1>3. calls' = [calls EXCEPT ![c] = new] /\ ~Holds(c)
    BY CallAtHand DEF CallInv, StartCall, Holds, AtRest
  <1>. HIDE DEF new
  <1>4. Becomes(c, new)
    BY <1>1, <1>3, CallBecomes DEF CallInv
  <1>5. UNCHANGED <<rows, nextNumber, keyLock, numberLock, written, dropped, swept, replays, aged>>
    BY DEF StartCall, Locks, History
  <1>6. Books'
    BY <1>1, <1>2, <1>3, <1>4, <1>5, OutsideStep DEF Books, HoldingSteps
  <1>7. CallTypeOK'
    BY <1>4, <1>5 DEF CallInv, CallTypeOK, Becomes
  <1>. QED
    BY <1>6, <1>7

LEMMA LookStep ==
    ASSUME CallInv, NEW c \in FnCalls, Look(c)
    PROVE  CallTypeOK' /\ Books'
  <1>1. calls[c] \in CallState /\ ~Holds(c)
    BY CallAtHand DEF CallInv, Look, In, Holds
  <1>2. UNCHANGED <<rows, nextNumber, keyLock, numberLock, written, dropped, swept, replays, aged>>
    BY DEF Look, Locks, History
  <1>3. PICK s \in {"read", "take"} : CallGoes(c, s)
    BY DEF Look
  <1>4. s \in CallSteps /\ s \notin HoldingSteps
    BY DEF CallSteps, HoldingSteps
  <1>5. PICK new \in CallState : new.step = s /\ Becomes(c, new)
    BY <1>1, <1>3, <1>4, CallGoesOn DEF CallInv
  <1>6. Books'
    BY <1>1, <1>2, <1>4, <1>5, OutsideStep DEF Books
  <1>7. CallTypeOK'
    BY <1>2, <1>5 DEF CallInv, CallTypeOK, Becomes
  <1>. QED
    BY <1>6, <1>7

LEMMA AnswerStoredStep ==
    ASSUME CallInv, NEW c \in FnCalls, AnswerStored(c)
    PROVE  CallTypeOK' /\ Books' /\ ReceiptAnswersRequest'
  <1>1. calls[c] \in CallState /\ ~Holds(c)
    BY CallAtHand DEF CallInv, AnswerStored, In, Holds
  <1>2. UNCHANGED <<rows, nextNumber, keyLock, numberLock, written, dropped, swept, aged>>
    BY DEF AnswerStored, Locks
  <1>3. calls' = [calls EXCEPT ![c] = AtRest] /\ AtRest.step \notin HoldingSteps
    BY CallAtHand DEF CallInv, AnswerStored, HoldingSteps
  <1>4. Becomes(c, AtRest)
    BY <1>3, CallBecomes DEF CallInv
  <1>5. Books'
    BY <1>1, <1>2, <1>3, <1>4, OutsideStep DEF Books
  <1>6. Key(c) \in IdemKeys /\ calls[c].digest \in Digests
    BY <1>1, CallAtHand DEF CallInv
  <1>7. ASSUME Replays(c)
        PROVE  /\ IdemRowAt(c) \in IdemRow
               /\ Key(c) \in TxKeys => calls[c].digest = IdemRowAt(c).of
    BY <1>6, <1>7, CallAtHand DEF CallInv, Replays, IdemRowAt, TxRows
  <1>8. CASE Replays(c)
    <2>. DEFINE r == [key |-> Key(c), asked |-> calls[c].digest, of |-> IdemRowAt(c).of]
    <2>1. replays' = replays \union {r}
      BY <1>8 DEF AnswerStored
    <2>2. r \in [key : IdemKeys, asked : Digests, of : Digests]
      BY <1>6, <1>7, <1>8 DEF IdemRow
    <2>3. r.key \in TxKeys => r.asked = r.of
      BY <1>7, <1>8
    <2>. HIDE DEF r
    <2>4. ReceiptAnswersRequest'
      BY <2>1, <2>3 DEF ReceiptAnswersRequest, CallInv
    <2>5. CallTypeOK'
      BY <2>1, <2>2, <1>2, <1>4 DEF CallInv, CallTypeOK, Becomes
    <2>. QED
      BY <2>4, <2>5, <1>5
  <1>9. CASE ~Replays(c)
    <2>1. replays' = replays
      BY <1>9 DEF AnswerStored
    <2>. QED
      BY <2>1, <1>2, <1>4, <1>5 DEF CallInv, CallTypeOK, Becomes, ReceiptAnswersRequest
  <1>. QED
    BY <1>8, <1>9

LEMMA ReadNextStep ==
    ASSUME CallInv, NEW c \in FnCalls, ReadNext(c)
    PROVE  CallTypeOK' /\ Books'
  <1>1. calls[c] \in CallState /\ Holds(c) /\ calls[c].step # "work"
    BY CallAtHand DEF CallInv, ReadNext, In, Holds
  <1>2. UNCHANGED <<rows, nextNumber, keyLock, numberLock, written, dropped, swept, replays, aged>>
    BY DEF ReadNext, Locks, History
  <1>3. nextNumber \in Numbers
    BY FnCallAssumption DEF ReadNext, CallInv, CallTypeOK, Numbers
  <1>4. PICK x \in CallState : x = calls[c]
    BY <1>1
  <1>. DEFINE new == [x EXCEPT !.step = "move", !.number = nextNumber]
  <1>5. new \in CallState /\ new.step = "move" /\ new.key = x.key /\ new.number = nextNumber
    <2>1. nextNumber \in 0 .. LastNumber + 1 /\ "move" \in CallSteps
      BY <1>3, FnCallAssumption DEF Numbers, CallSteps
    <2>. QED
      BY <2>1 DEF CallState
  <1>6. calls' = [calls EXCEPT ![c] = new]
    BY <1>4 DEF ReadNext, CallInv, CallTypeOK
  <1>. HIDE DEF new
  <1>7. Becomes(c, new)
    BY <1>5, <1>6, CallBecomes DEF CallInv
  <1>8. Books'
    BY <1>1, <1>2, <1>3, <1>4, <1>5, <1>7, HolderStep DEF Books, HoldingSteps
  <1>9. CallTypeOK'
    BY <1>2, <1>7 DEF CallInv, CallTypeOK, Becomes
  <1>. QED
    BY <1>8, <1>9

LEMMA RowDone ==
    ASSUME NEW row \in IdemRow, NEW d \in Digests
    PROVE  LET new == [row EXCEPT !.state = "done", !.of = d]
           IN  new \in IdemRow /\ new.state = "done"
  BY DEF IdemRow

LEMMA RowAged ==
    ASSUME NEW row \in IdemRow
    PROVE  LET new == [row EXCEPT !.stale = TRUE]
           IN  /\ new \in IdemRow /\ new.state = row.state /\ new.of = row.of
               /\ new.digest = row.digest /\ new.stale
  BY DEF IdemRow

\* What becomes of a row.
RowBecomes(k, row) ==
    /\ rows' \in [IdemKeys -> IdemRow \union {NoRow}]
    /\ rows'[k] = row
    /\ \A l \in IdemKeys : l # k => rows'[l] = rows[l]

LEMMA RowSet ==
    ASSUME CallTypeOK, NEW k \in IdemKeys, NEW row \in IdemRow \union {NoRow},
           rows' = [rows EXCEPT ![k] = row]
    PROVE  RowBecomes(k, row)
  BY DEF CallTypeOK, RowBecomes

\* A plain call's row may change once its key has aged, or before anybody claims it,
\* or when its only holder has let go of it.
LEMMA PlainRow ==
    ASSUME CallInv, NEW k \in IdemKeys \ TxKeys, NEW row \in IdemRow \union {NoRow}, RowBecomes(k, row),
           UNCHANGED <<keyLock, written, swept>>
    PROVE  TxRows' /\ ReceiptPerDocument'
  <1>. USE CallAtHand DEF CallInv, RowBecomes
  <1>1. \A l \in TxKeys : l # k /\ rows'[l] = rows[l]
    BY DEF RowBecomes
  <1>2. TxRows'
    BY <1>1 DEF TxRows
  <1>3. ReceiptPerDocument'
    BY <1>1 DEF ReceiptPerDocument, DocumentsOf, Receipts
  <1>. QED
    BY <1>2, <1>3

LEMMA ClaimStep ==
    ASSUME CallInv, NEW c \in FnCalls, Claim(c)
    PROVE  CallTypeOK' /\ Books'
  <1>. USE CallAtHand DEF CallInv
  <1>1. /\ calls[c] \in CallState /\ ~Holds(c) /\ Key(c) \in IdemKeys
        /\ keyLock[Key(c)] = NoCall
    BY DEF Claim, In, Holds
  <1>2. UNCHANGED <<nextNumber, numberLock, written, dropped, swept, replays, aged>>
    BY DEF Claim, History
  <1>3. CASE IdemRowAt(c) # NoRow
    <2>1. CallGoes(c, "look") /\ UNCHANGED <<rows, keyLock>>
      BY <1>3 DEF Claim
    <2>2. "look" \in CallSteps /\ "look" \notin HoldingSteps
      BY DEF CallSteps, HoldingSteps
    <2>3. PICK new \in CallState : new.step = "look" /\ Becomes(c, new)
      BY <1>1, <2>1, <2>2, CallGoesOn
    <2>4. Books'
      BY <1>1, <1>2, <2>1, <2>2, <2>3, OutsideStep DEF Books
    <2>5. CallTypeOK'
      BY <1>2, <2>1, <2>3 DEF CallTypeOK, Becomes
    <2>. QED
      BY <2>4, <2>5
  <1>4. CASE IdemRowAt(c) = NoRow
    <2>1. CallGoes(c, "next") /\ rows[Key(c)] = NoRow
      BY <1>4 DEF Claim, IdemRowAt
    <2>2. PICK new \in CallState :
            new.step = "next" /\ new.key = Key(c) /\ Becomes(c, new)
      BY <1>1, <2>1, CallGoesOn DEF CallSteps, Key
    <2>3. /\ Holds(c)' /\ Key(c)' = Key(c)
          /\ \A d \in FnCalls : d # c => (Holds(d)' <=> Holds(d)) /\ Key(d)' = Key(d) /\ calls'[d] = calls[d]
          /\ \A d \in FnCalls, s \in {"move", "work"} : calls'[d].step = s <=> calls[d].step = s
      BY <1>1, <2>2 DEF Becomes, Holds, Key
    <2>4. \A d \in FnCalls, s \in {"move", "work"} : calls[d].step = s => calls'[d] = calls[d]
      BY <1>1, <2>2 DEF Becomes, Holds
    <2>5. InHands'
      BY <1>2, <2>3, <2>4 DEF InHands, In, Tx, Key
    <2>6. \A n \in Numbers : InHand(n)' <=> InHand(n)
      BY <2>3, <2>4 DEF InHand, Tx, Key
    <2>7. Whereabouts'
      BY <1>2, <2>6 DEF Whereabouts, OnDocument
    <2>8. LockNumber'
      BY <1>2, <2>3, <2>4 DEF LockNumber, In, Tx, Key
    <2>9. CASE Tx(c)
      <3>1. keyLock' = [keyLock EXCEPT ![Key(c)] = c] /\ UNCHANGED rows
        BY <1>4, <2>9 DEF Claim
      <3>2. /\ keyLock' \in [IdemKeys -> FnCalls \union {NoCall}] /\ keyLock'[Key(c)] = c
            /\ \A k \in IdemKeys : k # Key(c) => keyLock'[k] = keyLock[k]
        BY <1>1, <3>1 DEF CallTypeOK
      <3>3. LockKeys'
        BY <1>1, <2>2, <2>3, <2>9, <3>2 DEF LockKeys, Tx, Becomes
      <3>4. TxRows'
        BY <2>1, <3>1, <3>2 DEF TxRows
      <3>5. PlainClaims'
        BY <1>2, <2>3, <2>9, <3>1 DEF PlainClaims, Tx
      <3>6. ReceiptPerDocument'
        BY <1>2, <3>1 DEF ReceiptPerDocument, DocumentsOf, Receipts
      <3>7. CallTypeOK'
        BY <1>2, <2>2, <3>1, <3>2 DEF CallTypeOK, Becomes
      <3>. QED
        BY <2>5, <2>7, <2>8, <3>3, <3>4, <3>5, <3>6, <3>7 DEF Books
    <2>10. CASE ~Tx(c)
      <3>. DEFINE row == [ state |-> "pending", digest |-> calls[c].digest,
                           of |-> calls[c].digest, stale |-> FALSE ]
      <3>1. rows' = [rows EXCEPT ![Key(c)] = row] /\ UNCHANGED keyLock
        BY <1>4, <2>10 DEF Claim
      <3>2. row \in IdemRow /\ row.state = "pending" /\ ~row.stale
        BY <1>1 DEF IdemRow
      <3>. HIDE DEF row
      <3>3. RowBecomes(Key(c), row) /\ row # NoRow
        BY <1>1, <3>1, <3>2, RowSet
      <3>4. TxRows' /\ ReceiptPerDocument'
        BY <1>1, <1>2, <2>10, <3>1, <3>2, <3>3, PlainRow DEF Tx
      <3>5. LockKeys'
        BY <1>1, <2>2, <2>3, <2>10, <3>1 DEF LockKeys, Tx, Becomes
      <3>6. PlainClaims'
        <4>1. \A k \in IdemKeys : (rows[k] # NoRow /\ rows[k].state = "pending" /\ rows[k].stale => k \in aged)'
          BY <1>2, <3>2, <3>3 DEF PlainClaims, RowBecomes
        <4>2. \A d \in FnCalls : Holds(d) /\ ~Tx(d) /\ Key(d) \notin aged => Key(d) # Key(c)
          BY <2>1 DEF PlainClaims
        <4>3. \A d \in FnCalls : Holds(d) => Key(d) \in IdemKeys
          BY DEF Holds
        <4>. QED
          BY <1>1, <1>2, <2>3, <2>10, <3>2, <3>3, <4>1, <4>2, <4>3 DEF PlainClaims, RowBecomes, Tx
      <3>7. CallTypeOK'
        BY <1>2, <2>2, <3>1, <3>3 DEF CallTypeOK, Becomes, RowBecomes
      <3>. QED
        BY <2>5, <2>7, <2>8, <3>4, <3>5, <3>6, <3>7 DEF Books
    <2>. QED
      BY <2>9, <2>10
  <1>. QED
    BY <1>3, <1>4

LEMMA TakeOverStep ==
    ASSUME CallInv, NEW c \in FnCalls, TakeOver(c)
    PROVE  CallTypeOK' /\ Books'
  <1>. USE CallAtHand DEF CallInv
  <1>1. calls[c] \in CallState /\ ~Holds(c) /\ Key(c) \in IdemKeys
    BY DEF TakeOver, In, Holds
  <1>2. UNCHANGED <<nextNumber, keyLock, numberLock, written, dropped, swept, replays, aged>>
    BY DEF TakeOver, Locks, History
  <1>3. CASE ~AbandonedRow(IdemRowAt(c))
    <2>1. CallGoes(c, "read") /\ UNCHANGED rows
      BY <1>3 DEF TakeOver
    <2>2. "read" \in CallSteps /\ "read" \notin HoldingSteps
      BY DEF CallSteps, HoldingSteps
    <2>3. PICK new \in CallState : new.step = "read" /\ Becomes(c, new)
      BY <1>1, <2>1, <2>2, CallGoesOn
    <2>4. Books'
      BY <1>1, <1>2, <2>1, <2>2, <2>3, OutsideStep DEF Books
    <2>5. CallTypeOK'
      BY <1>2, <2>1, <2>3 DEF CallTypeOK, Becomes
    <2>. QED
      BY <2>4, <2>5
  <1>4. CASE AbandonedRow(IdemRowAt(c))
    <2>1. /\ CallGoes(c, "next") /\ rows[Key(c)] # NoRow /\ rows[Key(c)] \in IdemRow
          /\ rows[Key(c)].state = "pending" /\ Key(c) \in aged /\ ~Tx(c)
      BY <1>1, <1>4 DEF TakeOver, IdemRowAt, AbandonedRow, PlainClaims, TxRows, Tx
    <2>2. PICK new \in CallState :
            new.step = "next" /\ new.key = Key(c) /\ Becomes(c, new)
      BY <1>1, <2>1, CallGoesOn DEF CallSteps, Key
    <2>3. /\ Holds(c)' /\ Key(c)' = Key(c)
          /\ \A d \in FnCalls : d # c => (Holds(d)' <=> Holds(d)) /\ Key(d)' = Key(d) /\ calls'[d] = calls[d]
          /\ \A d \in FnCalls, s \in {"move", "work"} : calls'[d].step = s <=> calls[d].step = s
      BY <1>1, <2>2 DEF Becomes, Holds, Key
    <2>4. \A d \in FnCalls, s \in {"move", "work"} : calls[d].step = s => calls'[d] = calls[d]
      BY <1>1, <2>2 DEF Becomes, Holds
    <2>5. InHands'
      BY <1>2, <2>3, <2>4 DEF InHands, In, Tx, Key
    <2>6. \A n \in Numbers : InHand(n)' <=> InHand(n)
      BY <2>3, <2>4 DEF InHand, Tx, Key
    <2>7. Whereabouts'
      BY <1>2, <2>6 DEF Whereabouts, OnDocument
    <2>8. LockNumber'
      BY <1>2, <2>3, <2>4 DEF LockNumber, In, Tx, Key
    <2>9. LockKeys'
      BY <1>1, <1>2, <2>1, <2>2, <2>3 DEF LockKeys, Tx, Becomes
    <2>10. PICK row \in IdemRow : row = rows[Key(c)]
      BY <2>1
    <2>11. PICK digest \in Digests : digest = calls[c].digest
      BY <1>1
    <2>. DEFINE taken == [row EXCEPT !.digest = digest, !.stale = FALSE]
    <2>12. taken \in IdemRow /\ taken.state = row.state /\ taken.stale = FALSE
      BY DEF IdemRow
    <2>13. rows' = [rows EXCEPT ![Key(c)] = taken]
      BY <1>1, <1>4, <2>10, <2>11 DEF TakeOver, CallTypeOK, IdemRowAt
    <2>. HIDE DEF taken
    <2>14. RowBecomes(Key(c), taken)
      BY <1>1, <2>12, <2>13, RowSet
    <2>15. TxRows' /\ ReceiptPerDocument'
      BY <1>1, <1>2, <2>1, <2>12, <2>14, PlainRow DEF Tx
    <2>16. PlainClaims'
      <3>1. \A k \in IdemKeys : (rows[k] # NoRow /\ rows[k].state = "pending" /\ rows[k].stale => k \in aged)'
        BY <1>2, <2>12, <2>14 DEF PlainClaims, RowBecomes
      <3>2. \A d \in FnCalls : Holds(d)' => Key(d)' \in IdemKeys
        BY <1>1, <2>3 DEF Holds
      <3>. QED
        BY <1>1, <1>2, <2>1, <2>3, <2>14, <3>1, <3>2 DEF PlainClaims, RowBecomes, Tx
    <2>17. CallTypeOK'
      BY <1>2, <2>2, <2>14 DEF CallTypeOK, Becomes, RowBecomes
    <2>. QED
      BY <2>5, <2>7, <2>8, <2>9, <2>15, <2>16, <2>17 DEF Books
  <1>. QED
    BY <1>3, <1>4

\* Keys are held as before when calls hold what they held, whatever they do with it.
LEMMA SameHolders ==
    ASSUME CallInv, UNCHANGED <<rows, keyLock, aged>>,
           \A d \in FnCalls : (Holds(d)' <=> Holds(d)) /\ (Holds(d) => Key(d)' = Key(d)),
           \A d \in FnCalls : Holds(d)' /\ Tx(d)' => calls'[d].step \in {"next", "move", "work"}
    PROVE  LockKeys' /\ TxRows' /\ PlainClaims'
  <1>. USE CallAtHand DEF CallInv
  <1>1. LockKeys'
    BY DEF LockKeys, Tx
  <1>2. TxRows'
    BY DEF TxRows
  <1>3. PlainClaims'
    BY DEF PlainClaims, Tx
  <1>. QED
    BY <1>1, <1>2, <1>3

LEMMA MoveNextStep ==
    ASSUME CallInv, NEW c \in FnCalls, MoveNext(c)
    PROVE  CallTypeOK' /\ Books'
  <1>. USE CallAtHand DEF CallInv
  <1>1. /\ calls[c] \in CallState /\ Holds(c) /\ calls[c].step = "move" /\ Key(c) \in IdemKeys
        /\ numberLock = NoCall /\ calls[c].number \in Numbers
    BY DEF MoveNext, In, Holds, InHands
  <1>2. UNCHANGED <<rows, keyLock, written, dropped, swept, replays, aged>>
    BY DEF MoveNext, History
  <1>3. CASE ~MovesNumber(c)
    <2>1. CallGoes(c, "next") /\ UNCHANGED <<nextNumber, numberLock>>
      BY <1>3 DEF MoveNext
    <2>2. PICK new \in CallState : new.step = "next" /\ new.key = calls[c].key /\ Becomes(c, new)
      BY <1>1, <2>1, CallGoesOn DEF CallSteps
    <2>3. Books'
      BY <1>1, <1>2, <2>1, <2>2, HolderStep DEF Books, HoldingSteps
    <2>4. CallTypeOK'
      BY <1>2, <2>1, <2>2 DEF CallTypeOK, Becomes
    <2>. QED
      BY <2>3, <2>4
  <1>4. CASE MovesNumber(c)
    <2>1. CallGoes(c, "work") /\ calls[c].number = nextNumber
      BY <1>4 DEF MoveNext, MovesNumber
    <2>2. PICK new \in CallState : /\ new.step = "work" /\ new.key = calls[c].key
                                   /\ new.number = nextNumber /\ Becomes(c, new)
      BY <1>1, <2>1, CallGoesOn DEF CallSteps
    <2>3. /\ \A d \in FnCalls : Holds(d)' <=> Holds(d)
          /\ \A d \in FnCalls : Key(d)' = Key(d)
          /\ \A d \in FnCalls : d # c => calls'[d] = calls[d]
          /\ calls'[c].step = "work" /\ calls'[c].number = nextNumber
      BY <1>1, <2>2 DEF Holds, Key, Becomes
    <2>4. LockKeys' /\ TxRows' /\ PlainClaims'
      <3>1. \A d \in FnCalls : Holds(d)' /\ Tx(d)' => calls'[d].step \in {"next", "move", "work"}
        BY <2>3 DEF LockKeys, Tx
      <3>. QED
        BY <1>2, <2>3, <3>1, SameHolders
    <2>5. ReceiptPerDocument'
      BY <1>2 DEF ReceiptPerDocument, DocumentsOf, Receipts
    <2>6. \A d \in FnCalls : In(d, "work") => ~Tx(d)
      BY <1>1 DEF LockNumber
    <2>7. nextNumber \in Nat /\ nextNumber \in Numbers
      BY <1>1, <2>1 DEF Numbers
    <2>8. CASE Tx(c)
      <3>1. numberLock' = c /\ nextNumber' = nextNumber
        BY <1>4, <2>8 DEF MoveNext
      <3>2. LockNumber'
        BY <1>1, <2>3, <2>6, <2>8, <3>1 DEF LockNumber, In, Tx
      <3>3. InHands'
        BY <2>3, <2>7, <2>8, <3>1 DEF InHands, In, Tx
      <3>4. \A n \in Numbers : InHand(n)' <=> InHand(n)
        BY <1>1, <2>3, <2>8 DEF InHand, Tx
      <3>5. Whereabouts'
        BY <1>2, <3>1, <3>4 DEF Whereabouts, OnDocument
      <3>6. CallTypeOK'
        BY <1>2, <2>2, <3>1 DEF CallTypeOK, Becomes
      <3>. QED
        BY <2>4, <2>5, <3>2, <3>3, <3>5, <3>6 DEF Books
    <2>9. CASE ~Tx(c)
      <3>1. nextNumber' = nextNumber + 1 /\ numberLock' = numberLock
        BY <1>4, <2>1, <2>9 DEF MoveNext
      <3>2. LockNumber'
        BY <1>1, <2>3, <2>9, <3>1 DEF LockNumber, In, Tx
      <3>3. \A d \in FnCalls : In(d, "work") => calls[d].number \in Numbers /\ calls[d].number < nextNumber
        BY <2>6 DEF InHands, In
      <3>4. \A d \in FnCalls : In(d, "work") => calls[d].number \in Nat
        BY <3>3 DEF Numbers
      <3>5. InHands'
        <4>1. \A d \in FnCalls : (calls[d].step \in {"move", "work"} => calls[d].number \in Numbers)'
          BY <2>3, <2>7 DEF InHands
        <4>2. \A d \in FnCalls : In(d, "work")' => calls'[d].number < nextNumber' /\ ~Tx(d)'
          BY <2>3, <2>6, <2>7, <2>9, <3>1, <3>3, <3>4 DEF In, Tx
        <4>3. \A d, e \in FnCalls :
                In(d, "work")' /\ In(e, "work")' /\ calls'[d].number = calls'[e].number => d = e
          BY <2>3, <2>6, <2>7, <3>3, <3>4 DEF In, InHands
        <4>. QED
          BY <4>1, <4>2, <4>3 DEF InHands
      <3>6. \A n \in Numbers : InHand(n)' <=> InHand(n) \/ n = nextNumber
        BY <1>1, <2>3, <2>9 DEF InHand, Tx
      <3>7. \A n \in Numbers : n < nextNumber' <=> n < nextNumber \/ n = nextNumber
        BY <2>7, <3>1 DEF Numbers
      <3>8. ~(nextNumber < nextNumber)
        BY <2>7
      <3>9. Whereabouts'
        BY <1>2, <2>7, <3>6, <3>7, <3>8 DEF Whereabouts, OnDocument
      <3>10. CallTypeOK'
        <4>1. nextNumber' \in 1 .. LastNumber + 1
          BY <2>7, <3>1 DEF Numbers
        <4>. QED
          BY <1>2, <2>2, <3>1, <4>1 DEF CallTypeOK, Becomes
      <3>. QED
        BY <2>4, <2>5, <3>2, <3>5, <3>9, <3>10 DEF Books
    <2>. QED
      BY <2>8, <2>9
  <1>. QED
    BY <1>3, <1>4

\* The number of a plain call leaves its hands.
LEMMA HandsEmptied ==
    ASSUME CallInv, NEW c \in FnCalls, In(c, "work"), ~Tx(c),
           \A d \in FnCalls : d # c => calls'[d] = calls[d],
           calls'[c].step # "work"
    PROVE  /\ calls[c].number \in Numbers /\ InHand(calls[c].number)
           /\ \A n \in Numbers : InHand(n)' <=> InHand(n) /\ n # calls[c].number
  <1>1. calls[c].number \in Numbers /\ InHand(calls[c].number)
    BY DEF CallInv, InHands, In, InHand
  <1>2. \A n \in Numbers : InHand(n)' => InHand(n)
    BY DEF InHand, Tx, Key
  <1>3. \A n \in Numbers : InHand(n)' => n # calls[c].number
    BY DEF CallInv, InHands, InHand, In, Tx, Key
  <1>4. \A n \in Numbers : InHand(n) /\ n # calls[c].number => InHand(n)'
    BY DEF InHand, Tx, Key
  <1>. QED
    BY <1>1, <1>2, <1>3, <1>4

LEMMA NumberDropped ==
    ASSUME CallInv, NEW c \in FnCalls, In(c, "work"), ~Tx(c),
           \A d \in FnCalls : d # c => calls'[d] = calls[d],
           calls'[c].step # "work",
           dropped' = dropped \union {calls[c].number}, UNCHANGED <<written, nextNumber>>
    PROVE  Whereabouts' /\ dropped' \subseteq Numbers
  <1>1. \A n \in Numbers : OnDocument(n)' <=> OnDocument(n)
    BY DEF OnDocument
  <1>. QED
    BY <1>1, HandsEmptied DEF CallInv, CallTypeOK, Whereabouts

LEMMA ThrowStep ==
    ASSUME CallInv, NEW c \in FnCalls, Throw(c)
    PROVE  CallTypeOK' /\ Books'
  <1>. USE CallAtHand DEF CallInv
  <1>1. /\ calls[c] \in CallState /\ Holds(c) /\ ~Tx(c)
        /\ CallGoes(c, "failed") /\ dropped' = DropsNumber(c)
    BY DEF Throw, Holds
  <1>2. UNCHANGED <<rows, nextNumber, keyLock, numberLock, written, swept, replays, aged>>
    BY DEF Throw, Locks
  <1>3. PICK new \in CallState : new.step = "failed" /\ new.key = calls[c].key /\ Becomes(c, new)
    BY <1>1, CallGoesOn DEF CallSteps
  <1>4. CASE ~In(c, "work")
    <2>1. dropped' = dropped
      BY <1>1, <1>4 DEF DropsNumber
    <2>2. Books'
      BY <1>1, <1>2, <1>3, <1>4, <2>1, HolderStep DEF Books, HoldingSteps, In
    <2>3. CallTypeOK'
      BY <1>2, <1>3, <2>1 DEF CallTypeOK, Becomes
    <2>. QED
      BY <2>2, <2>3
  <1>5. CASE In(c, "work")
    <2>1. dropped' = dropped \union {calls[c].number}
      BY <1>1, <1>5 DEF DropsNumber
    <2>2. /\ \A d \in FnCalls : Holds(d)' <=> Holds(d)
          /\ \A d \in FnCalls : Key(d)' = Key(d)
          /\ \A d \in FnCalls : d # c => calls'[d] = calls[d]
          /\ calls'[c].step = "failed"
      BY <1>1, <1>3 DEF Holds, Key, Becomes
    <2>3. LockKeys' /\ TxRows' /\ PlainClaims'
      <3>1. \A d \in FnCalls : Holds(d)' /\ Tx(d)' => calls'[d].step \in {"next", "move", "work"}
        BY <1>1, <2>2 DEF LockKeys, Tx
      <3>. QED
        BY <1>2, <2>2, <3>1, SameHolders
    <2>4. ReceiptPerDocument'
      BY <1>2 DEF ReceiptPerDocument, DocumentsOf, Receipts
    <2>5. Whereabouts' /\ dropped' \subseteq Numbers
      BY <1>1, <1>2, <1>5, <2>1, <2>2, NumberDropped
    <2>6. LockNumber'
      BY <1>1, <1>2, <2>2 DEF LockNumber, In, Tx
    <2>7. InHands'
      BY <1>2, <2>2 DEF InHands, In, Tx
    <2>8. CallTypeOK'
      BY <1>2, <1>3, <2>5 DEF CallTypeOK, Becomes
    <2>. QED
      BY <2>3, <2>4, <2>5, <2>6, <2>7, <2>8 DEF Books
  <1>. QED
    BY <1>4, <1>5

\* One document more.
LEMMA DocumentWritten ==
    ASSUME CallTypeOK, NEW c \in FnCalls, NEW k \in IdemKeys, NEW n \in Numbers,
           Key(c) = k, calls[c].number = n, written' = Documents(c)
    PROVE  /\ written' \in [IdemKeys -> [Numbers -> Nat]]
           /\ written'[k][n] = written[k][n] + 1
           /\ \A l \in IdemKeys, m \in Numbers : l # k \/ m # n => written'[l][m] = written[l][m]
  <1>1. written \in [IdemKeys -> [Numbers -> Nat]]
    BY DEF CallTypeOK
  <1>2. written' = [written EXCEPT ![k] = [written[k] EXCEPT ![n] = written[k][n] + 1]]
    BY <1>1 DEF Documents
  <1>3. PICK f \in [Numbers -> Nat] : f = [written[k] EXCEPT ![n] = written[k][n] + 1]
    <2>1. PICK g \in [Numbers -> Nat] : g = written[k]
      BY <1>1
    <2>2. [g EXCEPT ![n] = g[n] + 1] \in [Numbers -> Nat]
      OBVIOUS
    <2>. QED
      BY <2>1, <2>2
  <1>4. written'[k] = f /\ \A l \in IdemKeys : l # k => written'[l] = written[l]
    BY <1>1, <1>2, <1>3
  <1>5. f[n] = written[k][n] + 1 /\ \A m \in Numbers : m # n => f[m] = written[k][m]
    BY <1>1, <1>3
  <1>6. written' \in [IdemKeys -> [Numbers -> Nat]]
    BY <1>1, <1>2, <1>3
  <1>. QED
    BY <1>4, <1>5, <1>6

\* A number that was on no document is on this one.
LEMMA NumberWritten ==
    ASSUME CallInv, NEW c \in FnCalls, NEW k \in IdemKeys, NEW n \in Numbers,
           Key(c) = k, calls[c].number = n, written' = Documents(c), ~OnDocument(n)
    PROVE  /\ \A m \in Numbers : OnDocument(m)' <=> OnDocument(m) \/ m = n
           /\ \A m \in Numbers, l \in IdemKeys : written'[l][m] \in {0, 1}
           /\ \A m \in Numbers, l, j \in IdemKeys : written'[l][m] = 1 /\ written'[j][m] = 1 => l = j
           /\ written'[k][n] = 1 /\ written[k][n] = 0
  <1>1. \A l \in IdemKeys : written[l][n] = 0
    BY DEF CallInv, Whereabouts, OnDocument
  <1>2. /\ written'[k][n] = 1
        /\ \A l \in IdemKeys, m \in Numbers : l # k \/ m # n => written'[l][m] = written[l][m]
    BY <1>1, DocumentWritten DEF CallInv
  <1>3. \A m \in Numbers : OnDocument(m)' <=> OnDocument(m) \/ m = n
    BY <1>1, <1>2 DEF OnDocument
  <1>4. \A m \in Numbers, l \in IdemKeys : written'[l][m] \in {0, 1}
    BY <1>2 DEF CallInv, Whereabouts
  <1>5. \A m \in Numbers, l, j \in IdemKeys : written'[l][m] = 1 /\ written'[j][m] = 1 => l = j
    BY <1>1, <1>2 DEF CallInv, Whereabouts
  <1>. QED
    BY <1>1, <1>2, <1>3, <1>4, <1>5

LEMMA WriteDocumentStep ==
    ASSUME CallInv, NEW c \in FnCalls, WriteDocument(c)
    PROVE  CallTypeOK' /\ Books'
  <1>. USE CallAtHand DEF CallInv
  <1>1. /\ calls[c] \in CallState /\ Holds(c) /\ ~Tx(c) /\ In(c, "work") /\ Key(c) \in IdemKeys
        /\ CallGoes(c, "wrote") /\ written' = Documents(c)
    BY DEF WriteDocument, Holds, In
  <1>2. UNCHANGED <<rows, nextNumber, keyLock, numberLock, dropped, swept, replays, aged>>
    BY DEF WriteDocument, Locks
  <1>3. PICK new \in CallState : new.step = "wrote" /\ new.key = calls[c].key /\ Becomes(c, new)
    BY <1>1, CallGoesOn DEF CallSteps
  <1>4. /\ \A d \in FnCalls : Holds(d)' <=> Holds(d)
        /\ \A d \in FnCalls : Key(d)' = Key(d)
        /\ \A d \in FnCalls : d # c => calls'[d] = calls[d]
        /\ calls'[c].step = "wrote"
    BY <1>1, <1>3 DEF Holds, Key, Becomes
  <1>5. LockKeys' /\ TxRows' /\ PlainClaims'
    <2>1. \A d \in FnCalls : Holds(d)' /\ Tx(d)' => calls'[d].step \in {"next", "move", "work"}
      BY <1>1, <1>4 DEF LockKeys, Tx
    <2>. QED
      BY <1>2, <1>4, <2>1, SameHolders
  <1>6. PICK n \in Numbers : n = calls[c].number /\ InHand(n)
    BY <1>1, <1>4, HandsEmptied
  <1>7. \A m \in Numbers : InHand(m)' <=> InHand(m) /\ m # n
    BY <1>1, <1>4, <1>6, HandsEmptied
  <1>8. ~OnDocument(n)
    BY <1>6 DEF Whereabouts
  <1>9. Whereabouts'
    BY <1>1, <1>2, <1>6, <1>7, <1>8, NumberWritten DEF Whereabouts
  <1>10. ReceiptPerDocument'
    <2>1. \A k \in TxKeys, m \in Numbers : written'[k][m] = written[k][m]
      BY <1>1, <1>6, DocumentWritten DEF Tx
    <2>2. \A k \in TxKeys : DocumentsOf(k)' = DocumentsOf(k)
      BY <2>1 DEF DocumentsOf
    <2>. QED
      BY <1>2, <2>2 DEF ReceiptPerDocument, Receipts
  <1>11. LockNumber'
    BY <1>1, <1>2, <1>4 DEF LockNumber, In, Tx
  <1>12. InHands'
    BY <1>2, <1>4 DEF InHands, In, Tx
  <1>13. CallTypeOK'
    BY <1>1, <1>2, <1>3, <1>6, DocumentWritten DEF CallTypeOK, Becomes
  <1>. QED
    BY <1>5, <1>9, <1>10, <1>11, <1>12, <1>13 DEF Books

\* A plain call lets go of its key: what it leaves in the row is nobody's claim any more.
LEMMA PlainCallRests ==
    ASSUME CallInv, NEW c \in FnCalls, calls[c].step \in {"wrote", "failed"},
           calls' = [calls EXCEPT ![c] = AtRest],
           NEW row \in IdemRow \union {NoRow}, RowBecomes(Key(c), row),
           row = NoRow \/ row.state = "done" \/ row = rows[Key(c)],
           UNCHANGED <<nextNumber, keyLock, numberLock, written, dropped, swept, replays, aged>>
    PROVE  CallTypeOK' /\ Books'
  <1>. USE CallAtHand DEF CallInv
  <1>1. calls[c] \in CallState /\ Holds(c) /\ ~Tx(c) /\ Key(c) \in IdemKeys /\ ~In(c, "work")
    BY DEF Holds, LockKeys, In
  <1>2. Becomes(c, AtRest)
    BY CallBecomes
  <1>3. /\ ~Holds(c)'
        /\ \A d \in FnCalls : d # c => (Holds(d)' <=> Holds(d)) /\ Key(d)' = Key(d) /\ calls'[d] = calls[d]
        /\ \A d \in FnCalls, s \in {"move", "work"} : calls'[d].step = s <=> calls[d].step = s
        /\ \A d \in FnCalls, s \in {"move", "work"} : calls[d].step = s => calls'[d] = calls[d]
    BY <1>1, <1>2 DEF Becomes, Holds, Key
  <1>4. InHands'
    BY <1>3 DEF InHands, In, Tx, Key
  <1>5. \A n \in Numbers : InHand(n)' <=> InHand(n)
    BY <1>3 DEF InHand, Tx, Key
  <1>6. Whereabouts'
    BY <1>5 DEF Whereabouts, OnDocument
  <1>7. LockNumber'
    BY <1>3 DEF LockNumber, In, Tx, Key
  <1>8. LockKeys'
    BY <1>1, <1>3 DEF LockKeys, Tx
  <1>9. TxRows' /\ ReceiptPerDocument'
    BY <1>1, PlainRow DEF Tx
  <1>10. PlainClaims'
    <2>1. \A k \in IdemKeys : (rows[k] # NoRow /\ rows[k].state = "pending" /\ rows[k].stale => k \in aged)'
      BY <1>1 DEF PlainClaims, RowBecomes
    <2>2. \A d \in FnCalls : d # c /\ Holds(d) /\ ~Tx(d) /\ Key(d) \notin aged => Key(d) # Key(c)
      BY <1>1 DEF PlainClaims
    <2>3. \A d \in FnCalls : Holds(d) => Key(d) \in IdemKeys
      BY DEF Holds
    <2>. QED
      BY <1>3, <2>1, <2>2, <2>3 DEF PlainClaims, RowBecomes, Tx
  <1>11. CallTypeOK'
    BY <1>2 DEF CallTypeOK, Becomes, RowBecomes
  <1>. QED
    BY <1>4, <1>6, <1>7, <1>8, <1>9, <1>10, <1>11 DEF Books

LEMMA CompletesStep ==
    ASSUME CallInv, NEW c \in FnCalls, Completes(c)
    PROVE  CallTypeOK' /\ Books'
  <1>. USE CallAtHand DEF CallInv
  <1>1. /\ calls[c].step = "wrote" /\ calls' = [calls EXCEPT ![c] = AtRest]
        /\ UNCHANGED <<nextNumber, keyLock, numberLock, written, dropped, swept, replays, aged>>
    BY DEF Completes, In, Locks, History
  <1>2. calls[c] \in CallState /\ Key(c) \in IdemKeys /\ calls[c].digest \in Digests
    BY <1>1
  <1>3. CASE IdemRowAt(c) = NoRow
    <2>1. RowBecomes(Key(c), rows[Key(c)]) /\ rows[Key(c)] \in IdemRow \union {NoRow}
      BY <1>2, <1>3 DEF Completes, RowBecomes, CallTypeOK
    <2>. QED
      BY <1>1, <2>1, PlainCallRests
  <1>4. CASE IdemRowAt(c) # NoRow
    <2>1. PICK row \in IdemRow : row = rows[Key(c)]
      BY <1>2, <1>4 DEF IdemRowAt
    <2>2. PICK digest \in Digests : digest = calls[c].digest
      BY <1>2
    <2>. DEFINE done == [row EXCEPT !.state = "done", !.of = digest]
    <2>3. done \in IdemRow /\ done.state = "done"
      BY DEF IdemRow
    <2>4. rows' = [rows EXCEPT ![Key(c)] = done]
      BY <1>2, <1>4, <2>1, <2>2 DEF Completes, CallTypeOK
    <2>. HIDE DEF done
    <2>5. RowBecomes(Key(c), done)
      BY <1>2, <2>3, <2>4, RowSet
    <2>. QED
      BY <1>1, <2>3, <2>5, PlainCallRests
  <1>. QED
    BY <1>3, <1>4

LEMMA ReleaseClaimStep ==
    ASSUME CallInv, NEW c \in FnCalls, ReleaseClaim(c)
    PROVE  CallTypeOK' /\ Books'
  <1>. USE CallAtHand DEF CallInv
  <1>1. /\ calls[c].step = "failed" /\ calls' = [calls EXCEPT ![c] = AtRest]
        /\ UNCHANGED <<nextNumber, keyLock, numberLock, written, dropped, swept, replays, aged>>
    BY DEF ReleaseClaim, In, Locks, History
  <1>2. calls[c] \in CallState /\ Key(c) \in IdemKeys
    BY <1>1
  <1>3. CASE UNCHANGED rows
    <2>1. RowBecomes(Key(c), rows[Key(c)]) /\ rows[Key(c)] \in IdemRow \union {NoRow}
      BY <1>2, <1>3 DEF RowBecomes, CallTypeOK
    <2>. QED
      BY <1>1, <2>1, PlainCallRests
  <1>4. CASE rows' = [rows EXCEPT ![Key(c)] = NoRow]
    <2>1. RowBecomes(Key(c), NoRow)
      BY <1>2, <1>4, RowSet
    <2>. QED
      BY <1>1, <2>1, PlainCallRests
  <1>. QED
    BY <1>3, <1>4 DEF ReleaseClaim

\* A call that ends lets go of its locks.
LEMMA LocksGone ==
    ASSUME CallInv, NEW c \in FnCalls, Unlock(c), calls' = [calls EXCEPT ![c] = AtRest]
    PROVE  /\ keyLock' \in [IdemKeys -> FnCalls \union {NoCall}]
           /\ numberLock' \in FnCalls \union {NoCall}
           /\ \A k \in IdemKeys : keyLock[k] = NoCall => keyLock'[k] = NoCall
           /\ Becomes(c, AtRest)
           /\ ~Holds(c)' /\ calls'[c].step = "rest"
           /\ \A d \in FnCalls : d # c => (Holds(d)' <=> Holds(d)) /\ Key(d)' = Key(d) /\ calls'[d] = calls[d]
           /\ LockKeys' /\ LockNumber'
  <1>. USE CallAtHand DEF CallInv
  <1>1. /\ keyLock' \in [IdemKeys -> FnCalls \union {NoCall}]
        /\ numberLock' \in FnCalls \union {NoCall}
        /\ \A k \in IdemKeys : keyLock'[k] = IF keyLock[k] = c THEN NoCall ELSE keyLock[k]
        /\ numberLock' = IF numberLock = c THEN NoCall ELSE numberLock
    BY DEF Unlock, CallTypeOK
  <1>2. Becomes(c, AtRest)
    BY CallBecomes
  <1>3. /\ ~Holds(c)' /\ calls'[c].step = "rest"
        /\ \A d \in FnCalls : d # c => (Holds(d)' <=> Holds(d)) /\ Key(d)' = Key(d) /\ calls'[d] = calls[d]
    BY <1>2 DEF Becomes, Holds, Key
  <1>4. LockKeys'
    BY <1>1, <1>3 DEF LockKeys, Tx
  <1>5. LockNumber'
    BY <1>1, <1>3 DEF LockNumber, In, Tx
  <1>. QED
    BY <1>1, <1>2, <1>3, <1>4, <1>5

LEMMA EndsStep ==
    ASSUME CallInv, NEW c \in FnCalls, Ends(c)
    PROVE  CallTypeOK' /\ Books'
  <1>. USE CallAtHand DEF CallInv
  <1>1. /\ Unlock(c) /\ calls' = [calls EXCEPT ![c] = AtRest] /\ dropped' = DropsNumber(c)
        /\ UNCHANGED <<rows, nextNumber, written, swept, replays, aged>>
    BY DEF Ends
  <1>2. /\ keyLock' \in [IdemKeys -> FnCalls \union {NoCall}]
        /\ numberLock' \in FnCalls \union {NoCall}
        /\ \A k \in IdemKeys : keyLock[k] = NoCall => keyLock'[k] = NoCall
        /\ Becomes(c, AtRest)
        /\ ~Holds(c)' /\ calls'[c].step = "rest"
        /\ \A d \in FnCalls : d # c => (Holds(d)' <=> Holds(d)) /\ Key(d)' = Key(d) /\ calls'[d] = calls[d]
        /\ LockKeys' /\ LockNumber'
    BY <1>1, LocksGone
  <1>3. TxRows'
    BY <1>1, <1>2 DEF TxRows
  <1>4. PlainClaims'
    BY <1>1, <1>2 DEF PlainClaims, Tx
  <1>5. ReceiptPerDocument'
    BY <1>1 DEF ReceiptPerDocument, DocumentsOf, Receipts
  <1>6. InHands'
    BY <1>1, <1>2 DEF InHands, In, Tx
  <1>7. Whereabouts' /\ dropped' \subseteq Numbers
    <2>1. CASE In(c, "work") /\ ~Tx(c)
      <3>1. dropped' = dropped \union {calls[c].number}
        BY <1>1, <2>1 DEF DropsNumber
      <3>. QED
        BY <1>1, <1>2, <2>1, <3>1, NumberDropped
    <2>2. CASE ~(In(c, "work") /\ ~Tx(c))
      <3>1. dropped' = dropped
        BY <1>1, <2>2 DEF DropsNumber
      <3>2. \A n \in Numbers : InHand(n)' <=> InHand(n)
        BY <1>2, <2>2 DEF InHand, In, Tx
      <3>. QED
        BY <1>1, <3>1, <3>2 DEF Whereabouts, OnDocument, CallTypeOK
    <2>. QED
      BY <2>1, <2>2
  <1>8. CallTypeOK'
    BY <1>1, <1>2, <1>7 DEF CallTypeOK, Becomes
  <1>. QED
    BY <1>2, <1>3, <1>4, <1>5, <1>6, <1>7, <1>8 DEF Books

\* A finite set of numbers with one number more.
LEMMA OneDocumentMore ==
    ASSUME CallTypeOK, CallTypeOK', NEW k \in IdemKeys, NEW n \in Numbers,
           written[k][n] = 0, written'[k][n] = 1,
           \A m \in Numbers : m # n => written'[k][m] = written[k][m]
    PROVE  DocumentsOf(k) \in Nat /\ DocumentsOf(k)' = DocumentsOf(k) + 1
  <1>. DEFINE D == { m \in Numbers : written[k][m] > 0 }
  <1>1. IsFiniteSet(Numbers)
    BY FS_Interval, FnCallAssumption DEF Numbers
  <1>2. IsFiniteSet(D) /\ n \notin D
    BY <1>1, FS_Subset
  <1>3. { m \in Numbers : written'[k][m] > 0 } = D \union {n}
    OBVIOUS
  <1>4. Cardinality(D) \in Nat /\ Cardinality(D \union {n}) = Cardinality(D) + 1
    BY <1>2, FS_CardinalityType, FS_AddElement
  <1>. QED
    BY <1>3, <1>4 DEF DocumentsOf

LEMMA CommitCallStep ==
    ASSUME CallInv, NEW c \in FnCalls, CommitCall(c)
    PROVE  CallTypeOK' /\ Books'
  <1>. USE CallAtHand DEF CallInv
  <1>1. /\ calls[c] \in CallState /\ Holds(c) /\ Tx(c) /\ In(c, "work") /\ Key(c) \in IdemKeys
        /\ Unlock(c) /\ calls' = [calls EXCEPT ![c] = AtRest] /\ written' = Documents(c)
        /\ nextNumber' = calls[c].number + 1
        /\ UNCHANGED <<dropped, swept, replays, aged>>
    BY DEF CommitCall, Holds, In
  <1>2. /\ keyLock' \in [IdemKeys -> FnCalls \union {NoCall}]
        /\ numberLock' \in FnCalls \union {NoCall}
        /\ \A k \in IdemKeys : keyLock[k] = NoCall => keyLock'[k] = NoCall
        /\ Becomes(c, AtRest)
        /\ ~Holds(c)' /\ calls'[c].step = "rest"
        /\ \A d \in FnCalls : d # c => (Holds(d)' <=> Holds(d)) /\ Key(d)' = Key(d) /\ calls'[d] = calls[d]
        /\ LockKeys' /\ LockNumber'
    BY <1>1, LocksGone
  <1>3. PICK n \in Numbers : n = calls[c].number /\ n = nextNumber
    BY <1>1 DEF InHands, In
  <1>4. n \in Nat /\ nextNumber' = n + 1 /\ nextNumber' \in 1 .. LastNumber + 1
    BY <1>1, <1>3 DEF Numbers
  <1>5. ~OnDocument(n) /\ ~InHand(n) /\ n \notin dropped
    BY <1>3, <1>4 DEF Whereabouts
  <1>. DEFINE row == [ state |-> "done", digest |-> calls[c].digest,
                       of |-> calls[c].digest, stale |-> FALSE ]
  <1>6. row \in IdemRow /\ row.state = "done" /\ row.of = row.digest
    BY <1>1 DEF IdemRow
  <1>7. rows' = [rows EXCEPT ![Key(c)] = row]
    BY DEF CommitCall
  <1>. HIDE DEF row
  <1>8. RowBecomes(Key(c), row) /\ rows[Key(c)] = NoRow /\ row # NoRow
    <2>1. RowBecomes(Key(c), row)
      BY <1>1, <1>6, <1>7, RowSet
    <2>2. keyLock[Key(c)] = c
      BY <1>1 DEF LockKeys, Tx
    <2>3. rows[Key(c)] = NoRow
      BY <1>1, <2>2 DEF TxRows, Tx
    <2>. QED
      BY <1>6, <2>1, <2>3
  <1>9. CallTypeOK'
    BY <1>1, <1>2, <1>3, <1>4, <1>8, DocumentWritten DEF CallTypeOK, Becomes, RowBecomes
  <1>10. TxRows'
    <2>1. keyLock'[Key(c)] = NoCall
      BY <1>1 DEF Unlock, LockKeys, Tx
    <2>. QED
      BY <1>1, <1>2, <1>6, <1>8, <2>1 DEF TxRows, RowBecomes
  <1>11. PlainClaims'
    <2>1. \A k \in IdemKeys : (rows[k] # NoRow /\ rows[k].state = "pending" /\ rows[k].stale => k \in aged)'
      BY <1>1, <1>6, <1>8 DEF PlainClaims, RowBecomes
    <2>2. \A d \in FnCalls : Holds(d) => Key(d) \in IdemKeys
      BY DEF Holds
    <2>. QED
      BY <1>1, <1>2, <1>8, <2>1, <2>2 DEF PlainClaims, RowBecomes, Tx
  <1>12. ReceiptPerDocument'
    <2>1. PICK k \in TxKeys : k = Key(c)
      BY <1>1 DEF Tx
    <2>2. written'[k][n] = 1 /\ written[k][n] = 0
      BY <1>1, <1>3, <1>5, <2>1, NumberWritten
    <2>3. \A l \in IdemKeys, m \in Numbers : l # k \/ m # n => written'[l][m] = written[l][m]
      <3>1. calls[c].number = n /\ k \in IdemKeys
        BY <1>3
      <3>. QED
        BY ONLY <1>1, <2>1, <3>1, CallInv, DocumentWritten DEF CallInv
    <2>4. ASSUME NEW l \in TxKeys, l # k
          PROVE  DocumentsOf(l)' = Receipts(l)' + swept'[l]
      <3>1. l \in IdemKeys
        OBVIOUS
      <3>2. rows'[l] = rows[l] /\ \A m \in Numbers : written'[l][m] = written[l][m]
        BY <1>8, <2>1, <2>3, <2>4, <3>1 DEF RowBecomes
      <3>3. DocumentsOf(l)' = DocumentsOf(l) /\ Receipts(l)' = Receipts(l)
        BY <3>2 DEF DocumentsOf, Receipts
      <3>. QED
        BY <1>1, <3>3 DEF ReceiptPerDocument
    <2>5. DocumentsOf(k)' = Receipts(k)' + swept'[k]
      <3>1. DocumentsOf(k) \in Nat /\ DocumentsOf(k)' = DocumentsOf(k) + 1
        BY <1>9, <2>2, <2>3, OneDocumentMore
      <3>2. DocumentsOf(k) = 0 + swept[k]
        BY <1>8, <2>1 DEF ReceiptPerDocument, Receipts
      <3>3. Receipts(k)' = 1
        BY <1>6, <1>8, <2>1 DEF Receipts, RowBecomes
      <3>4. swept'[k] = swept[k] /\ swept[k] \in Nat
        BY <1>1 DEF CallTypeOK
      <3>. QED
        BY <3>1, <3>2, <3>3, <3>4
    <2>. QED
      BY <2>4, <2>5 DEF ReceiptPerDocument
  <1>13. \A d \in FnCalls : d # c /\ In(d, "work") => ~Tx(d)
    BY <1>1 DEF LockNumber
  <1>14. InHands'
    <2>1. \A d \in FnCalls : d # c /\ In(d, "work") =>
            calls[d].number \in Numbers /\ calls[d].number < n
      BY <1>3, <1>13 DEF InHands, In
    <2>2. \A d \in FnCalls : d # c /\ In(d, "work") => calls[d].number < n + 1
      BY <1>4, <2>1 DEF Numbers
    <2>3. \A d \in FnCalls : calls'[d].step \in {"move", "work"} => calls'[d].number \in Numbers
      BY <1>2 DEF InHands
    <2>4. \A d \in FnCalls : In(d, "work")' => d # c /\ In(d, "work") /\ calls'[d] = calls[d] /\ Tx(d)' = Tx(d)
      BY <1>2 DEF In, Tx
    <2>. QED
      BY <1>4, <1>13, <2>2, <2>3, <2>4 DEF InHands
  <1>15. \A m \in Numbers : InHand(m)' <=> InHand(m)
    BY <1>1, <1>2 DEF InHand, Tx
  <1>16. \A m \in Numbers : m < nextNumber' <=> m < nextNumber \/ m = n
    BY <1>3, <1>4 DEF Numbers
  <1>17. Whereabouts'
    <2>1. /\ \A m \in Numbers : OnDocument(m)' <=> OnDocument(m) \/ m = n
          /\ \A m \in Numbers, l \in IdemKeys : written'[l][m] \in {0, 1}
          /\ \A m \in Numbers, l, j \in IdemKeys : written'[l][m] = 1 /\ written'[j][m] = 1 => l = j
      BY <1>1, <1>3, <1>5, NumberWritten
    <2>. QED
      BY <1>1, <1>5, <1>15, <1>16, <2>1 DEF Whereabouts
  <1>. QED
    BY <1>2, <1>9, <1>10, <1>11, <1>12, <1>14, <1>17 DEF Books

LEMMA AgeStep ==
    ASSUME CallInv, NEW k \in IdemKeys, Age(k)
    PROVE  CallTypeOK' /\ Books'
  <1>. USE CallAtHand DEF CallInv
  <1>1. /\ UNCHANGED <<nextNumber, calls, keyLock, numberLock, written, dropped, swept, replays>>
        /\ rows[k] # NoRow /\ aged \subseteq aged' /\ aged' \subseteq aged \union {k}
        /\ rows[k].state = "pending" => k \in aged'
    BY DEF Age, Locks
  <1>2. PICK row \in IdemRow : row = rows[k]
    BY <1>1
  <1>. DEFINE old == [row EXCEPT !.stale = TRUE]
  <1>3. /\ old \in IdemRow /\ old.state = row.state /\ old.of = row.of
        /\ old.digest = row.digest /\ old.stale
    BY RowAged
  <1>4. rows' = [rows EXCEPT ![k] = old]
    BY <1>2 DEF Age, CallTypeOK
  <1>. HIDE DEF old
  <1>5. RowBecomes(k, old)
    BY <1>3, <1>4, RowSet
  <1>6. CallTypeOK'
    BY <1>1, <1>5 DEF CallTypeOK, RowBecomes
  <1>7. LockKeys' /\ LockNumber' /\ InHands'
    BY <1>1 DEF LockKeys, LockNumber, InHands, Holds, Key, In, Tx
  <1>8. Whereabouts'
    BY <1>1 DEF Whereabouts, OnDocument, InHand, Tx, Key
  <1>9. TxRows'
    BY <1>1, <1>2, <1>3, <1>5 DEF TxRows, RowBecomes
  <1>10. PlainClaims'
    <2>1. \A l \in IdemKeys : (rows[l] # NoRow /\ rows[l].state = "pending" /\ rows[l].stale => l \in aged)'
      BY <1>1, <1>2, <1>3, <1>5 DEF PlainClaims, RowBecomes
    <2>2. \A d \in FnCalls : (Holds(d)' <=> Holds(d)) /\ Key(d)' = Key(d) /\ Tx(d)' = Tx(d)
      BY <1>1 DEF Holds, Key, Tx
    <2>3. \A d \in FnCalls : Holds(d) => Key(d) \in IdemKeys
      BY DEF Holds
    <2>. QED
      BY <1>1, <1>2, <1>3, <1>5, <2>1, <2>2, <2>3 DEF PlainClaims, RowBecomes
  <1>11. ReceiptPerDocument'
    <2>1. \A l \in TxKeys : Receipts(l)' = Receipts(l)
      BY <1>1, <1>2, <1>3, <1>5 DEF Receipts, RowBecomes
    <2>. QED
      BY <1>1, <2>1 DEF ReceiptPerDocument, DocumentsOf
  <1>. QED
    BY <1>6, <1>7, <1>8, <1>9, <1>10, <1>11 DEF Books

LEMMA SweepReceiptStep ==
    ASSUME CallInv, NEW k \in IdemKeys, SweepReceipt(k)
    PROVE  CallTypeOK' /\ Books'
  <1>. USE CallAtHand DEF CallInv
  <1>1. /\ UNCHANGED <<nextNumber, calls, keyLock, numberLock, written, dropped, replays, aged>>
        /\ rows[k] # NoRow /\ rows[k] \in IdemRow /\ rows[k].stale
        /\ swept' = [swept EXCEPT ![k] = IF k \in TxKeys THEN swept[k] + 1 ELSE swept[k]]
        /\ rows' = [rows EXCEPT ![k] = NoRow]
    BY DEF SweepReceipt, Locks, CallTypeOK
  <1>2. RowBecomes(k, NoRow)
    BY <1>1, RowSet
  <1>3. /\ swept' \in [IdemKeys -> Nat]
        /\ swept'[k] = IF k \in TxKeys THEN swept[k] + 1 ELSE swept[k]
        /\ \A l \in IdemKeys : l # k => swept'[l] = swept[l]
    BY <1>1 DEF CallTypeOK
  <1>4. CallTypeOK'
    BY <1>1, <1>2, <1>3 DEF CallTypeOK, RowBecomes
  <1>5. LockKeys' /\ LockNumber' /\ InHands'
    BY <1>1 DEF LockKeys, LockNumber, InHands, Holds, Key, In, Tx
  <1>6. Whereabouts'
    BY <1>1 DEF Whereabouts, OnDocument, InHand, Tx, Key
  <1>7. TxRows'
    BY <1>1, <1>2 DEF TxRows, RowBecomes
  <1>8. PlainClaims'
    <2>1. \A l \in IdemKeys : (rows[l] # NoRow /\ rows[l].state = "pending" /\ rows[l].stale => l \in aged)'
      BY <1>1, <1>2 DEF PlainClaims, RowBecomes
    <2>2. \A d \in FnCalls : (Holds(d)' <=> Holds(d)) /\ Key(d)' = Key(d) /\ Tx(d)' = Tx(d)
      BY <1>1 DEF Holds, Key, Tx
    <2>3. \A d \in FnCalls : Holds(d) /\ ~Tx(d) /\ Key(d) \notin aged => Key(d) # k /\ Key(d) \in IdemKeys
      BY <1>1 DEF Holds, PlainClaims
    <2>. QED
      BY <1>1, <1>2, <2>1, <2>2, <2>3 DEF PlainClaims, RowBecomes
  <1>9. ReceiptPerDocument'
    <2>1. ASSUME NEW l \in TxKeys, l # k
          PROVE  Receipts(l)' + swept'[l] = Receipts(l) + swept[l]
      BY <1>2, <1>3, <2>1 DEF Receipts, RowBecomes
    <2>2. ASSUME k \in TxKeys
          PROVE  Receipts(k)' + swept'[k] = Receipts(k) + swept[k]
      <3>1. Receipts(k) = 1 /\ Receipts(k)' = 0
        BY <1>1, <1>2, <2>2 DEF Receipts, RowBecomes, TxRows
      <3>2. swept'[k] = swept[k] + 1 /\ swept[k] \in Nat
        BY <1>3, <2>2 DEF CallTypeOK
      <3>. QED
        BY <3>1, <3>2
    <2>3. \A l \in TxKeys : Receipts(l)' + swept'[l] = Receipts(l) + swept[l]
      BY <2>1, <2>2
    <2>. QED
      BY <1>1, <2>3 DEF ReceiptPerDocument, DocumentsOf
  <1>. QED
    BY <1>4, <1>5, <1>6, <1>7, <1>8, <1>9 DEF Books

-----------------------------------------------------------------------------
(* The invariant, and what it gives.                                       *)

LEMMA CallInvInit ==
    ASSUME CallInit
    PROVE  CallInv
  <1>. USE FnCallAssumption DEF CallInit
  <1>1. CallTypeOK
    BY DEF CallTypeOK, NoRow, AtRest, Numbers
  <1>2. \A c \in FnCalls : calls[c] = AtRest /\ calls[c].step = "rest" /\ ~Holds(c)
    BY DEF AtRest, Holds
  <1>3. LockKeys /\ LockNumber /\ TxRows /\ PlainClaims /\ ReceiptAnswersRequest /\ InHands
    BY <1>2 DEF LockKeys, LockNumber, TxRows, PlainClaims, ReceiptAnswersRequest, InHands, In
  <1>4. Whereabouts
    <2>1. \A n \in Numbers : ~(n < nextNumber) /\ ~OnDocument(n) /\ ~InHand(n)
      BY <1>2 DEF OnDocument, InHand, Numbers
    <2>. QED
      BY <2>1 DEF Whereabouts
  <1>5. ReceiptPerDocument
    <2>1. \A k \in IdemKeys : { n \in Numbers : written[k][n] > 0 } = {}
      OBVIOUS
    <2>2. \A k \in IdemKeys : DocumentsOf(k) = 0
      BY <2>1, FS_EmptySet DEF DocumentsOf
    <2>. QED
      BY <2>2 DEF ReceiptPerDocument, Receipts
  <1>. QED
    BY <1>1, <1>3, <1>4, <1>5 DEF CallInv

LEMMA CallInvStep ==
    ASSUME CallInv, CallNext
    PROVE  CallInv'
  <1>1. ASSUME CallTypeOK' /\ Books', ReceiptAnswersRequest'
        PROVE  CallInv'
    BY <1>1 DEF CallInv, Books
  <1>2. ASSUME replays' = replays
        PROVE  ReceiptAnswersRequest'
    BY <1>2 DEF CallInv, ReceiptAnswersRequest
  <1>3. ASSUME NEW c \in FnCalls, NEW k \in IdemKeys, NEW d \in Digests, StartCall(c, k, d)
        PROVE  CallInv'
    BY <1>1, <1>2, <1>3, StartCallStep DEF StartCall, History
  <1>4. ASSUME NEW c \in FnCalls, Claim(c)
        PROVE  CallInv'
    BY <1>1, <1>2, <1>4, ClaimStep DEF Claim, History
  <1>5. ASSUME NEW c \in FnCalls, Look(c)
        PROVE  CallInv'
    BY <1>1, <1>2, <1>5, LookStep DEF Look, History
  <1>6. ASSUME NEW c \in FnCalls, TakeOver(c)
        PROVE  CallInv'
    BY <1>1, <1>2, <1>6, TakeOverStep DEF TakeOver, History
  <1>7. ASSUME NEW c \in FnCalls, AnswerStored(c)
        PROVE  CallInv'
    BY <1>1, <1>7, AnswerStoredStep
  <1>8. ASSUME NEW c \in FnCalls, ReadNext(c)
        PROVE  CallInv'
    BY <1>1, <1>2, <1>8, ReadNextStep DEF ReadNext, History
  <1>9. ASSUME NEW c \in FnCalls, MoveNext(c)
        PROVE  CallInv'
    BY <1>1, <1>2, <1>9, MoveNextStep DEF MoveNext, History
  <1>10. ASSUME NEW c \in FnCalls, WriteDocument(c)
        PROVE  CallInv'
    BY <1>1, <1>2, <1>10, WriteDocumentStep DEF WriteDocument
  <1>11. ASSUME NEW c \in FnCalls, Throw(c)
        PROVE  CallInv'
    BY <1>1, <1>2, <1>11, ThrowStep DEF Throw
  <1>12. ASSUME NEW c \in FnCalls, Completes(c)
        PROVE  CallInv'
    BY <1>1, <1>2, <1>12, CompletesStep DEF Completes, History
  <1>13. ASSUME NEW c \in FnCalls, ReleaseClaim(c)
        PROVE  CallInv'
    BY <1>1, <1>2, <1>13, ReleaseClaimStep DEF ReleaseClaim, History
  <1>14. ASSUME NEW c \in FnCalls, CommitCall(c)
        PROVE  CallInv'
    BY <1>1, <1>2, <1>14, CommitCallStep DEF CommitCall
  <1>15. ASSUME NEW c \in FnCalls, Ends(c)
        PROVE  CallInv'
    BY <1>1, <1>2, <1>15, EndsStep DEF Ends
  <1>16. ASSUME NEW k \in IdemKeys, Age(k)
        PROVE  CallInv'
    BY <1>1, <1>2, <1>16, AgeStep DEF Age
  <1>17. ASSUME NEW k \in SweptKeys, SweepReceipt(k)
        PROVE  CallInv'
    BY <1>1, <1>2, <1>17, SweepReceiptStep, FnCallAssumption DEF SweepReceipt
  <1>. QED
    BY <1>3, <1>4, <1>5, <1>6, <1>7, <1>8, <1>9, <1>10, <1>11, <1>12, <1>13, <1>14, <1>15,
       <1>16, <1>17 DEF CallNext

\* The invariant holds of every behaviour of the calls (fn.ts, idem.ts, sequence.ts).
THEOREM CallInvariance == CallSpec => []CallInv
  <1>1. CallInit => CallInv
    BY CallInvInit
  <1>2. CallInv /\ [CallNext]_callVars => CallInv'
    <2>1. ASSUME CallInv, UNCHANGED callVars
          PROVE  CallInv'
      BY <2>1 DEF callVars, CallInv, CallTypeOK, LockKeys, LockNumber, TxRows, PlainClaims,
           ReceiptAnswersRequest, InHands, Whereabouts, ReceiptPerDocument, Holds, Key, Tx, In,
           OnDocument, InHand, DocumentsOf, Receipts
    <2>. QED
      BY <2>1, CallInvStep
  <1>. QED
    BY <1>1, <1>2, PTL DEF CallSpec

\* The records of calls, rows, locks and documents keep their types.
THEOREM CallTypeCorrect == CallSpec => []CallTypeOK
  <1>1. CallInv => CallTypeOK
    BY DEF CallInv
  <1>. QED
    BY <1>1, CallInvariance, PTL

\* Who holds a key: the lock of its row tells for a transaction, the pending row for others.
LEMMA KeyHasOneHolder ==
    ASSUME CallInv
    PROVE  OneHolder
  <1>1. SUFFICES ASSUME NEW c \in FnCalls, NEW d \in FnCalls, Holds(c), Holds(d), Key(c) = Key(d),
                        Key(c) \in TxKeys \/ Key(c) \notin aged
                 PROVE  c = d
    BY DEF OneHolder
  <1>2. Key(c) \in IdemKeys
    BY <1>1, CallAtHand DEF CallInv, Holds
  <1>3. CASE Key(c) \in TxKeys
    BY <1>1, <1>2, <1>3 DEF CallInv, LockKeys
  <1>4. CASE Key(c) \notin TxKeys
    BY <1>1, <1>4 DEF CallInv, PlainClaims, Tx
  <1>. QED
    BY <1>3, <1>4

\* Where a number can be, counted.
LEMMA NumbersCounted ==
    ASSUME CallInv
    PROVE  NumbersAccounted
  <1>. DEFINE on(n) == { k \in IdemKeys : written[k][n] > 0 }
  <1>1. SUFFICES ASSUME NEW n \in Numbers
                 PROVE  /\ \A k \in on(n) : written[k][n] = 1
                        /\ Cardinality(on(n)) + (IF InHand(n) THEN 1 ELSE 0) + (IF n \in dropped THEN 1 ELSE 0)
                             = (IF n < nextNumber THEN 1 ELSE 0)
    BY DEF NumbersAccounted
  <1>2. \A k \in on(n) : written[k][n] = 1
    BY DEF CallInv, Whereabouts
  <1>3. CASE OnDocument(n)
    <2>1. PICK k \in IdemKeys : written[k][n] = 1
      BY <1>3 DEF OnDocument
    <2>2. on(n) = {k}
      BY <2>1 DEF CallInv, Whereabouts
    <2>3. Cardinality(on(n)) = 1
      BY <2>2, FS_Singleton
    <2>4. ~InHand(n) /\ n \notin dropped /\ n < nextNumber
      BY <1>3 DEF CallInv, Whereabouts
    <2>. QED
      BY <1>2, <2>3, <2>4
  <1>4. CASE ~OnDocument(n)
    <2>1. on(n) = {}
      BY <1>2, <1>4 DEF OnDocument
    <2>2. Cardinality(on(n)) = 0
      BY <2>1, FS_EmptySet
    <2>3. ~(InHand(n) /\ n \in dropped) /\ (n < nextNumber <=> InHand(n) \/ n \in dropped)
      BY <1>4 DEF CallInv, Whereabouts
    <2>4. Cardinality(on(n)) + (IF InHand(n) THEN 1 ELSE 0) + (IF n \in dropped THEN 1 ELSE 0)
            = (IF n < nextNumber THEN 1 ELSE 0)
      BY <2>2, <2>3
    <2>. QED
      BY <1>2, <2>4
  <1>. QED
    BY <1>3, <1>4

\* What an idempotency key and a document number promise, for any number of concurrent
\* calls, retries, crashes and sweeps (callFn, the claim of idem.ts, nextSequenceNumber).
THEOREM CallsKeepTheirWord == CallSpec => []CallsKept
  <1>1. CallInv => CallsKept
    BY KeyHasOneHolder, NumbersCounted DEF CallInv, CallsKept, ReceiptsKept
  <1>. QED
    BY <1>1, CallInvariance, PTL

-----------------------------------------------------------------------------
(* Rate limits.                                                            *)

-----------------------------------------------------------------------------
(* The inductive invariant.                                                *)

\* A window has begun when a slot was granted in it.
Begun(w) == \E t \in RtTimes : rtGranted[w][t] > 0

\* No window begins after that of the row, and none at all since the row was pruned; the next
\* one is a later one.
WindowsBefore ==
    IF rtRow = NoRate THEN \A w \in RtTimes : Begun(w) => w + RateAge < rtClock
    ELSE rtRow.start <= rtClock /\ Begun(rtRow.start) /\ \A w \in RtTimes : Begun(w) => w <= rtRow.start

\* A slot is granted to a call before the end of the window, or a little ahead of it.
GrantsNear ==
    \A w, t \in RtTimes : rtGranted[w][t] > 0 => t < w + RateWindow /\ w <= t + RateLag

\* Windows are a window's length apart, if the rows that hold them are kept long enough.
KeptLongEnough == RateWindow + RateLag <= RateAge + 1
WindowsApart ==
    KeptLongEnough =>
        \A v, w \in RtTimes : Begun(v) /\ Begun(w) /\ v < w => v + RateWindow <= w

\* A call is not behind by more than the lag, and what it is to move was not spent for it.
CallKept(c) == rtCalls[c] # NoRate =>
    /\ rtCalls[c].at <= rtClock /\ rtClock <= rtCalls[c].at + RateLag
    /\ rtCalls[c].step = "write" /\ rtCalls[c].held # NoRate => ~RtSpent(rtCalls[c].held, rtCalls[c].at)

SlotsFew == \A w, t \in RtTimes : rtGranted[w][t] <= RateLimitOf

RateInv ==
    /\ RtTypeOK
    /\ SlotsFew
    /\ RateWithinLimit
    /\ WindowsBefore
    /\ GrantsNear
    /\ WindowsApart
    /\ \A c \in RateCallers : CallKept(c)

-----------------------------------------------------------------------------
(* Counting slots.                                                         *)

SlotBound == RateLimitOf * Cardinality(RateCallers) + 1

LEMMA RateNumbers ==
    /\ RateLimitOf \in Nat /\ RateLimitOf >= 1 /\ RateWindow \in Nat /\ RateWindow >= 1 /\ RateAge \in Nat
    /\ RateLag \in Nat /\ RateAttempts \in Nat /\ RateAttempts >= 1 /\ RateInstants \in Nat
    /\ RtTimes \subseteq Nat /\ IsFiniteSet(RtTimes) /\ 0 \in RtTimes
    /\ SlotBound \in Nat /\ (RateCallers # {} => RateLimitOf < SlotBound)
  <1>1. Cardinality(RateCallers) \in Nat /\ (RateCallers # {} => Cardinality(RateCallers) # 0)
    BY RateAssumption, FS_CardinalityType, FS_EmptySet
  <1>2. RateLimitOf \in Nat /\ RateLimitOf >= 1 /\ RateInstants \in Nat
    BY RateAssumption
  <1>3. IsFiniteSet(RtTimes)
    BY <1>2, FS_Interval DEF RtTimes
  <1>4. \A l, n \in Nat : n # 0 => l <= l * n
    <2>1. SUFFICES ASSUME NEW l \in Nat, NEW n \in Nat, n # 0 PROVE l <= l * n
      OBVIOUS
    <2>2. n - 1 \in Nat /\ l * (n - 1) \in Nat /\ l * n = l * (n - 1) + l
      BY <2>1
    <2>. QED
      BY <2>2
  <1>5. SlotBound \in Nat
    BY <1>1, <1>2 DEF SlotBound
  <1>6. RateCallers # {} => RateLimitOf < SlotBound
    <2>. DEFINE n == Cardinality(RateCallers)
                l == RateLimitOf * n
    <2>1. SUFFICES ASSUME RateCallers # {} PROVE RateLimitOf < l + 1
      BY DEF SlotBound
    <2>2. RateLimitOf <= l /\ l \in Nat
      BY <1>1, <1>2, <1>4, <2>1
    <2>. HIDE DEF l
    <2>. QED
      BY <1>2, <2>2
  <1>. QED
    BY <1>3, <1>5, <1>6, RateAssumption DEF RtTimes

LEMMA RateSlotsFinite ==
    ASSUME NEW ws \in SUBSET RtTimes, NEW ts \in SUBSET RtTimes
    PROVE  IsFiniteSet(RtSlots(ws, ts)) /\ RtTotal(ws, ts) \in Nat
  <1>. DEFINE S == RtSlots(ws, ts)
              N == 1 .. SlotBound
              T == (RtTimes \X RtTimes) \X N
              f == [g \in S |-> << <<g[1], g[2]>>, g[3]>>]
  <1>1. IsFiniteSet(N)
    BY RateNumbers, FS_Interval
  <1>2. IsFiniteSet(RtTimes \X RtTimes)
    BY RateNumbers, FS_Product
  <1>3. IsFiniteSet(T)
    <2>. HIDE DEF N
    <2>. QED
      BY <1>1, <1>2, FS_Product
  <1>4. \A g \in S : /\ g = <<g[1], g[2], g[3]>>
                     /\ g[1] \in RtTimes /\ g[2] \in RtTimes /\ g[3] \in N
    BY DEF RtSlots, SlotBound
  <1>5. f \in Injection(S, T)
    <2>. HIDE DEF S, N
    <2>1. f \in [S -> T]
      BY <1>4
    <2>2. ASSUME NEW g \in S, NEW h \in S, f[g] = f[h] PROVE g = h
      BY <1>4, <2>2
    <2>. HIDE DEF f, T
    <2>. QED
      BY <2>1, <2>2 DEF Injection, IsInjective
  <1>. HIDE DEF S, T, f
  <1>6. IsFiniteSet(S)
    BY <1>3, <1>5, FS_Injection
  <1>. QED
    BY <1>6, FS_CardinalityType DEF S, RtTotal

GrantedOneMore(w, t) == rtGranted' = [rtGranted EXCEPT ![w][t] = @ + 1]

\* What a grant adds to a total.
LEMMA RateOneMore ==
    ASSUME RtTypeOK, NEW w \in RtTimes, NEW t \in RtTimes, rtGranted[w][t] < SlotBound,
           GrantedOneMore(w, t),
           NEW ws \in SUBSET RtTimes, NEW ts \in SUBSET RtTimes
    PROVE  RtTotal(ws, ts)' = IF w \in ws /\ t \in ts THEN RtTotal(ws, ts) + 1 ELSE RtTotal(ws, ts)
  <1>. DEFINE n == rtGranted[w][t]
              new == <<w, t, n + 1>>
  <1>1. n \in Nat /\ n + 1 \in 1 .. SlotBound
    BY RateNumbers DEF RtTypeOK
  <1>2. /\ rtGranted'[w][t] = n + 1
        /\ \A v, s \in RtTimes : ~(v = w /\ s = t) => rtGranted'[v][s] = rtGranted[v][s]
    BY DEF RtTypeOK, GrantedOneMore
  <1>3. \A v, s \in RtTimes : rtGranted[v][s] \in Nat
    BY DEF RtTypeOK
  <1>. HIDE DEF n
  <1>4. \A g : g \in RtSlots(ws, ts)' <=> /\ g \in ws \X ts \X (1 .. SlotBound)
                                          /\ g[3] <= rtGranted'[g[1]][g[2]]
    BY DEF RtSlots, SlotBound
  <1>5. \A g : g \in RtSlots(ws, ts) <=> /\ g \in ws \X ts \X (1 .. SlotBound)
                                         /\ g[3] <= rtGranted[g[1]][g[2]]
    BY DEF RtSlots, SlotBound
  <1>6. \A g \in ws \X ts \X (1 .. SlotBound) :
           /\ g = <<g[1], g[2], g[3]>> /\ g[1] \in RtTimes /\ g[2] \in RtTimes
           /\ g[1] \in ws /\ g[2] \in ts /\ g[3] \in Nat
    <2>. DEFINE N == 1 .. SlotBound
    <2>1. N \subseteq Nat
      BY RateNumbers
    <2>. HIDE DEF N
    <2>. QED
      BY <2>1
  <1>7. n = rtGranted[w][t]
    BY DEF n
  <1>8. \A g \in ws \X ts \X (1 .. SlotBound) :
           g[3] <= rtGranted'[g[1]][g[2]] <=> g[3] <= rtGranted[g[1]][g[2]] \/ g = new
    <2>1. SUFFICES ASSUME NEW g \in ws \X ts \X (1 .. SlotBound)
                   PROVE  g[3] <= rtGranted'[g[1]][g[2]] <=> g[3] <= rtGranted[g[1]][g[2]] \/ g = new
      OBVIOUS
    <2>2. CASE g[1] = w /\ g[2] = t
      <3>1. g = new <=> g[3] = n + 1
        BY <2>2, <1>6
      <3>. QED
        BY <3>1, <2>2, <1>1, <1>2, <1>6, <1>7
    <2>3. CASE ~(g[1] = w /\ g[2] = t)
      BY <2>3, <1>2, <1>6
    <2>. QED
      BY <2>2, <2>3
  <1>9. CASE w \in ws /\ t \in ts
    <2>1. new \in ws \X ts \X (1 .. SlotBound)
      BY <1>1, <1>9
    <2>2. RtSlots(ws, ts)' = RtSlots(ws, ts) \union {new}
      BY <2>1, <1>4, <1>5, <1>8
    <2>3. new \notin RtSlots(ws, ts)
      <3>1. new[1] = w /\ new[2] = t /\ new[3] = n + 1
        OBVIOUS
      <3>. QED
        BY <3>1, <1>1, <1>5, <1>7
    <2>4. Cardinality(RtSlots(ws, ts) \union {new}) = Cardinality(RtSlots(ws, ts)) + 1
      BY <2>3, RateSlotsFinite, FS_AddElement
    <2>. QED
      BY <1>9, <2>2, <2>4 DEF RtTotal
  <1>10. CASE ~(w \in ws /\ t \in ts)
    <2>1. new \notin ws \X ts \X (1 .. SlotBound)
      BY <1>10
    <2>2. RtSlots(ws, ts)' = RtSlots(ws, ts)
      BY <2>1, <1>4, <1>5, <1>8
    <2>. QED
      BY <1>10, <2>2 DEF RtTotal
  <1>. QED
    BY <1>9, <1>10

\* Its slots to the calls of one instant are among those of a window.
LEMMA RateEach ==
    ASSUME RtTypeOK, NEW w \in RtTimes, NEW t \in RtTimes, rtGranted[w][t] <= SlotBound
    PROVE  rtGranted[w][t] <= RtTotal({w}, RtTimes)
  <1>. DEFINE n == rtGranted[w][t]
              S == 1 .. n
              T == RtSlots({w}, RtTimes)
              f == [i \in S |-> <<w, t, i>>]
  <1>1. n \in Nat
    BY DEF RtTypeOK
  <1>2. \A i \in S : <<w, t, i>> \in T
    <2>1. \A i \in S : i \in 1 .. SlotBound /\ i <= n
      BY <1>1, RateNumbers
    <2>. QED
      BY <2>1 DEF RtSlots, SlotBound
  <1>3. IsFiniteSet(T)
    BY RateSlotsFinite
  <1>4. Cardinality(S) = n
    BY <1>1, FS_Interval
  <1>5. f \in Injection(S, T)
    <2>. HIDE DEF S, T
    <2>1. f \in [S -> T]
      BY <1>2
    <2>2. \A i, j \in S : f[i] = f[j] => i = j
      OBVIOUS
    <2>. HIDE DEF f
    <2>. QED
      BY <2>1, <2>2 DEF Injection, IsInjective
  <1>. HIDE DEF S, T, f
  <1>6. Cardinality(S) <= Cardinality(T)
    BY <1>3, <1>5, FS_Injection
  <1>. QED
    BY <1>4, <1>6 DEF T, RtTotal

LEMMA RateUnbegun ==
    ASSUME RtTypeOK, NEW w \in RtTimes, ~Begun(w)
    PROVE  RtTotal({w}, RtTimes) = 0
  <1>1. \A t \in RtTimes : rtGranted[w][t] \in Nat /\ ~(rtGranted[w][t] > 0)
    BY DEF RtTypeOK, Begun
  <1>2. \A g \in RtSlots({w}, RtTimes) : FALSE
    <2>1. ASSUME NEW g \in RtSlots({w}, RtTimes) PROVE FALSE
      <3>1. g[1] = w /\ g[2] \in RtTimes /\ g[3] \in 1 .. SlotBound /\ g[3] <= rtGranted[g[1]][g[2]]
        BY DEF RtSlots, SlotBound
      <3>2. g[3] \in Nat /\ g[3] >= 1 /\ g[3] <= rtGranted[w][g[2]]
        BY <3>1, RateNumbers
      <3>. QED
        BY <3>1, <3>2, <1>1
    <2>. QED
      BY <2>1
  <1>3. RtSlots({w}, RtTimes) = {}
    BY <1>2
  <1>. QED
    BY <1>3, FS_EmptySet DEF RtTotal

LEMMA RateCovered ==
    ASSUME RtTypeOK, NEW vs \in SUBSET RtTimes, NEW us \in SUBSET RtTimes, NEW ws \in SUBSET RtTimes,
           NEW ts \in SUBSET RtTimes,
           \A v \in vs, t \in ts : rtGranted[v][t] > 0 => v \in us \/ v \in ws
    PROVE  RtTotal(vs, ts) <= RtTotal(us, ts) + RtTotal(ws, ts)
  <1>. DEFINE V == RtSlots(vs, ts)
              U == RtSlots(us, ts)
              W == RtSlots(ws, ts)
  <1>1. IsFiniteSet(V) /\ IsFiniteSet(U) /\ IsFiniteSet(W)
    BY RateSlotsFinite
  <1>2. V \subseteq U \union W
    <2>1. SUFFICES ASSUME NEW g \in V PROVE g \in U \/ g \in W
      OBVIOUS
    <2>2. /\ g \in vs \X ts \X (1 .. SlotBound) /\ g[1] \in vs /\ g[2] \in ts /\ g[3] \in 1 .. SlotBound
          /\ g = <<g[1], g[2], g[3]>> /\ g[3] <= rtGranted[g[1]][g[2]]
      BY DEF RtSlots, SlotBound
    <2>8. g[1] \in RtTimes /\ g[2] \in RtTimes
      BY <2>2
    <2>3. g[3] \in Nat /\ g[3] >= 1 /\ g[1] \in RtTimes /\ g[2] \in RtTimes
      <3>1. \A n \in 1 .. SlotBound : n \in Nat /\ n >= 1
        BY RateNumbers
      <3>. QED
        BY <2>2, <2>8, <3>1
    <2>7. rtGranted[g[1]][g[2]] \in Nat
      BY <2>3 DEF RtTypeOK
    <2>4. rtGranted[g[1]][g[2]] > 0
      BY <2>2, <2>3, <2>7
    <2>5. g[1] \in us \/ g[1] \in ws
      BY <2>2, <2>4
    <2>6. /\ g[1] \in us => g \in us \X ts \X (1 .. SlotBound)
          /\ g[1] \in ws => g \in ws \X ts \X (1 .. SlotBound)
      BY <2>2
    <2>. QED
      BY <2>2, <2>5, <2>6 DEF RtSlots, SlotBound
  <1>. HIDE DEF V, U, W
  <1>3. Cardinality(V) <= Cardinality(U \union W) /\ IsFiniteSet(U \union W)
    BY <1>1, <1>2, FS_Union, FS_Subset
  <1>4. IsFiniteSet(U \intersect W)
    BY <1>1, FS_Intersection
  <1>5. Cardinality(U \union W) = Cardinality(U) + Cardinality(W) - Cardinality(U \intersect W)
    BY <1>1, FS_Union
  <1>6. /\ Cardinality(V) \in Nat /\ Cardinality(U) \in Nat /\ Cardinality(W) \in Nat
        /\ Cardinality(U \intersect W) \in Nat /\ Cardinality(U \union W) \in Nat
    BY <1>1, <1>3, <1>4, FS_CardinalityType
  <1>. QED
    BY <1>3, <1>5, <1>6 DEF V, U, W, RtTotal

LEMMA RateWindowTotal ==
    ASSUME RtTypeOK, RateWithinLimit, NEW w \in RtTimes, NEW ts \in SUBSET RtTimes
    PROVE  RtTotal({w}, ts) <= RateLimitOf
  <1>1. RtSlots({w}, ts) \subseteq RtSlots({w}, RtTimes)
    BY DEF RtSlots
  <1>2. RtTotal({w}, ts) <= RtTotal({w}, RtTimes)
    BY <1>1, RateSlotsFinite, FS_Subset DEF RtTotal
  <1>3. RtTotal({w}, ts) \in Nat /\ RtTotal({w}, RtTimes) \in Nat
    BY RateSlotsFinite
  <1>. QED
    BY <1>2, <1>3, RateNumbers DEF RateWithinLimit

-----------------------------------------------------------------------------
(* The steps.                                                              *)

\* A step that grants nothing.
LEMMA RateNoGrant ==
    ASSUME RateInv, UNCHANGED <<rtClock, rtRow, rtGranted>>,
           rtCalls' \in [RateCallers -> RtCall \union {NoRate}],
           \A c \in RateCallers : CallKept(c)'
    PROVE  RateInv'
  <1>1. RtTypeOK' /\ SlotsFew' /\ RateWithinLimit'
    BY DEF RateInv, RtTypeOK, SlotsFew, RateWithinLimit, RtTotal, RtSlots
  <1>2. WindowsBefore' /\ GrantsNear' /\ WindowsApart'
    BY DEF RateInv, WindowsBefore, GrantsNear, WindowsApart, Begun
  <1>. QED
    BY <1>1, <1>2 DEF RateInv

\* A call that is as it was, while the clock stands still.
LEMMA RateSameCall ==
    ASSUME RateInv, UNCHANGED rtClock, NEW c \in RateCallers, rtCalls'[c] \in {rtCalls[c], NoRate}
    PROVE  CallKept(c)'
  <1>1. CallKept(c)
    BY DEF RateInv
  <1>. QED
    BY <1>1 DEF CallKept, RtSpent, RtInWindow

\* A call that ends, or begins again.
LEMMA RateCallEnds ==
    ASSUME RateInv, UNCHANGED rtClock, NEW c \in RateCallers, rtCalls[c] # NoRate, RtEnds(c) \/ RtAgain(c)
    PROVE  /\ rtCalls' \in [RateCallers -> RtCall \union {NoRate}]
           /\ \A d \in RateCallers : CallKept(d)'
  <1>. DEFINE x == rtCalls[c]
              y == [x EXCEPT !.attempt = x.attempt + 1, !.step = "select", !.held = NoRate]
  <1>1. x \in RtCall /\ rtCalls \in [RateCallers -> RtCall \union {NoRate}]
    BY DEF RateInv, RtTypeOK
  <1>2. CASE RtEnds(c)
    <2>1. \A d \in RateCallers : rtCalls'[d] \in {rtCalls[d], NoRate}
      BY <1>1, <1>2 DEF RtEnds
    <2>. QED
      BY <1>1, <1>2, <2>1, RateSameCall DEF RtEnds
  <1>3. CASE ~RtEnds(c)
    <2>1. x.attempt # RateAttempts /\ rtCalls' = [rtCalls EXCEPT ![c] = y]
      BY <1>1, <1>3 DEF RtAgain
    <2>2. x.attempt + 1 \in 1 .. RateAttempts
      BY <1>1, <2>1, RateNumbers DEF RtCall
    <2>3. y \in RtCall /\ y.at = x.at /\ y.step = "select"
      BY <1>1, <2>2 DEF RtCall
    <2>. HIDE DEF y
    <2>4. rtCalls'[c] = y /\ \A d \in RateCallers : d # c => rtCalls'[d] = rtCalls[d]
      BY <1>1, <2>1
    <2>5. CallKept(c)'
      BY <2>3, <2>4 DEF RateInv, CallKept
    <2>6. \A d \in RateCallers : d # c => CallKept(d)'
      BY <2>4, RateSameCall
    <2>. QED
      BY <1>1, <2>1, <2>3, <2>5, <2>6
  <1>. QED
    BY <1>2, <1>3

LEMMA RateAskStep ==
    ASSUME RateInv, NEW c \in RateCallers, NEW at \in RtTimes, RtAsk(c, at)
    PROVE  RateInv'
  <1>. DEFINE y == [at |-> at, held |-> NoRate, step |-> "select", attempt |-> 1]
  <1>1. /\ at <= rtClock /\ rtClock <= at + RateLag /\ rtCalls' = [rtCalls EXCEPT ![c] = y]
        /\ UNCHANGED <<rtClock, rtRow, rtGranted>>
    BY DEF RtAsk
  <1>2. y \in RtCall /\ y.at = at /\ y.step = "select"
    BY RateNumbers DEF RtCall
  <1>. HIDE DEF y
  <1>3. rtCalls \in [RateCallers -> RtCall \union {NoRate}]
    BY DEF RateInv, RtTypeOK
  <1>4. /\ rtCalls' \in [RateCallers -> RtCall \union {NoRate}] /\ rtCalls'[c] = y
        /\ \A d \in RateCallers : d # c => rtCalls'[d] = rtCalls[d]
    BY <1>1, <1>2, <1>3
  <1>5. CallKept(c)'
    BY <1>1, <1>2, <1>4 DEF CallKept
  <1>6. \A d \in RateCallers : d # c => CallKept(d)'
    BY <1>1, <1>4, RateSameCall
  <1>. QED
    BY <1>1, <1>4, <1>5, <1>6, RateNoGrant

LEMMA RateSelectStep ==
    ASSUME RateInv, NEW c \in RateCallers, RtSelect(c)
    PROVE  RateInv'
  <1>. DEFINE x == rtCalls[c]
              y == [x EXCEPT !.held = rtRow, !.step = "write"]
  <1>1. x # NoRate /\ UNCHANGED <<rtClock, rtRow, rtGranted>>
    BY DEF RtSelect, RtCalling
  <1>2. CASE rtRow # NoRate /\ RtSpent(rtRow, x.at)
    <2>1. RtEnds(c)
      BY <1>2 DEF RtSelect
    <2>. QED
      BY <1>1, <2>1, RateCallEnds, RateNoGrant
  <1>3. CASE ~(rtRow # NoRate /\ RtSpent(rtRow, x.at))
    <2>1. rtCalls' = [rtCalls EXCEPT ![c].held = rtRow, ![c].step = "write"]
      BY <1>3 DEF RtSelect
    <2>2. /\ x \in RtCall /\ rtCalls \in [RateCallers -> RtCall \union {NoRate}]
          /\ rtRow \in RtRow \union {NoRate}
      BY <1>1 DEF RateInv, RtTypeOK
    <2>3. rtCalls' = [rtCalls EXCEPT ![c] = y]
      BY <2>1, <2>2
    <2>4. y \in RtCall /\ y.at = x.at /\ y.step = "write" /\ y.held = rtRow
      BY <2>2 DEF RtCall
    <2>. HIDE DEF y
    <2>5. /\ rtCalls' \in [RateCallers -> RtCall \union {NoRate}] /\ rtCalls'[c] = y
          /\ \A d \in RateCallers : d # c => rtCalls'[d] = rtCalls[d]
      BY <2>2, <2>3, <2>4
    <2>6. CallKept(c)'
      <3>1. x.at <= rtClock /\ rtClock <= x.at + RateLag
        BY <1>1 DEF RateInv, CallKept
      <3>2. rtRow # NoRate => ~RtSpent(rtRow, x.at)
        BY <1>3
      <3>. QED
        BY <1>1, <2>4, <2>5, <3>1, <3>2 DEF CallKept, RtSpent, RtInWindow
    <2>7. \A d \in RateCallers : d # c => CallKept(d)'
      BY <1>1, <2>5, RateSameCall
    <2>. QED
      BY <1>1, <2>5, <2>6, <2>7, RateNoGrant
  <1>. QED
    BY <1>2, <1>3

\* A slot is granted in the latest window, which the row is of from now on.
LEMMA RateGrant ==
    ASSUME RateInv, NEW c \in RateCallers, rtCalls[c] # NoRate, NEW start \in RtTimes,
           RtGrants(c, start), UNCHANGED rtClock, rtRow' \in RtRow, rtRow'.start = start,
           rtRow'.count = RtTotal({start}, RtTimes) + 1, RtTotal({start}, RtTimes) < RateLimitOf,
           start <= rtClock, rtCalls[c].at < start + RateWindow, start <= rtCalls[c].at + RateLag,
           \A w \in RtTimes : Begun(w) => w <= start,
           KeptLongEnough => \A w \in RtTimes : Begun(w) /\ w # start => w + RateWindow <= start
    PROVE  RateInv'
  <1>. USE RateNumbers
  <1>1. PICK at \in RtTimes : at = rtCalls[c].at
    BY DEF RateInv, RtTypeOK, RtCall
  <1>2. GrantedOneMore(start, at) /\ RtEnds(c)
    BY <1>1 DEF RtGrants, GrantedOneMore
  <1>3. RtTypeOK /\ SlotsFew /\ RateWithinLimit
    BY DEF RateInv
  <1>4. \A w, t \in RtTimes : rtGranted[w][t] \in Nat /\ rtGranted[w][t] <= SlotBound
    BY <1>3 DEF RtTypeOK, SlotsFew
  <1>5. /\ rtGranted' \in [RtTimes -> [RtTimes -> Nat]]
        /\ rtGranted'[start][at] = rtGranted[start][at] + 1
        /\ \A w, t \in RtTimes : ~(w = start /\ t = at) => rtGranted'[w][t] = rtGranted[w][t]
    BY <1>2, <1>3 DEF RtTypeOK, GrantedOneMore
  <1>6. RtTotal({start}, RtTimes) \in Nat
    BY RateSlotsFinite
  <1>7. rtGranted[start][at] < RateLimitOf
    <2>1. rtGranted[start][at] <= RtTotal({start}, RtTimes)
      BY <1>3, <1>4, RateEach
    <2>. DEFINE n == rtGranted[start][at]
                total == RtTotal({start}, RtTimes)
    <2>2. n \in Nat /\ total \in Nat /\ n <= total /\ total < RateLimitOf
      BY <2>1, <1>4, <1>6
    <2>3. n < RateLimitOf
      <3>. HIDE DEF n, total
      <3>. QED
        BY <2>2
    <2>. QED
      BY <2>3
  <1>8. rtGranted[start][at] < SlotBound
    BY <1>4, <1>7
  <1>9. \A w \in RtTimes : RtTotal({w}, RtTimes)' = IF w = start THEN RtTotal({w}, RtTimes) + 1
                                                   ELSE RtTotal({w}, RtTimes)
    <2>1. SUFFICES ASSUME NEW w \in RtTimes
                   PROVE  RtTotal({w}, RtTimes)' = IF w = start THEN RtTotal({w}, RtTimes) + 1
                                                   ELSE RtTotal({w}, RtTimes)
      OBVIOUS
    <2>2. RtTotal({w}, RtTimes)' = IF start \in {w} /\ at \in RtTimes THEN RtTotal({w}, RtTimes) + 1
                                   ELSE RtTotal({w}, RtTimes)
      <3>1. {w} \in SUBSET RtTimes /\ RtTimes \in SUBSET RtTimes
        OBVIOUS
      <3>2. ASSUME NEW ws \in SUBSET RtTimes, NEW ts \in SUBSET RtTimes
            PROVE  RtTotal(ws, ts)' = IF start \in ws /\ at \in ts THEN RtTotal(ws, ts) + 1
                                      ELSE RtTotal(ws, ts)
        BY <1>2, <1>3, <1>8, RateOneMore
      <3>. QED
        BY <3>1, <3>2, Zenon
    <2>. QED
      BY <2>2
  <1>10. /\ rtCalls' \in [RateCallers -> RtCall \union {NoRate}]
         /\ \A d \in RateCallers : CallKept(d)'
    BY <1>2, RateCallEnds
  <1>11. RtTypeOK'
    BY <1>3, <1>5, <1>10 DEF RtTypeOK
  <1>12. SlotsFew'
    BY <1>3, <1>4, <1>5, <1>7 DEF SlotsFew
  <1>13. \A w \in RtTimes : RtTotal({w}, RtTimes)' <= RateLimitOf
    <2>1. \A w \in RtTimes : RtTotal({w}, RtTimes) <= RateLimitOf
      BY <1>3 DEF RateWithinLimit
    <2>2. \A n \in Nat : n < RateLimitOf => n + 1 <= RateLimitOf
      OBVIOUS
    <2>3. RtTotal({start}, RtTimes) + 1 <= RateLimitOf
      BY <2>2, <1>6
    <2>. QED
      BY <2>1, <2>3, <1>9, Zenon
  <1>14. rtRow' # NoRate /\ rtRow'.count = RtTotal({start}, RtTimes)'
    BY <1>9, RateNulls
  <1>15. RateWithinLimit'
    <2>1. RtTotal({start}, RtTimes)' = RtTotal({rtRow.start}, RtTimes)'
      OBVIOUS
    <2>. QED
      BY <1>13, <1>14, <2>1 DEF RateWithinLimit
  <1>16. \A w \in RtTimes : Begun(w)' => Begun(w) \/ w = start
    BY <1>5 DEF Begun
  <1>17. WindowsBefore'
    <2>1. Begun(start)'
      BY <1>4, <1>5 DEF Begun
    <2>2. Begun(start)' = Begun(rtRow.start)'
      OBVIOUS
    <2>3. \A w \in RtTimes : Begun(w)' => w <= start
      BY <1>16
    <2>. QED
      BY <1>14, <2>1, <2>2, <2>3 DEF WindowsBefore
  <1>18. GrantsNear'
    BY <1>1, <1>5 DEF RateInv, GrantsNear
  <1>19. WindowsApart'
    <2>1. SUFFICES ASSUME KeptLongEnough, NEW v \in RtTimes, NEW w \in RtTimes, Begun(v)', Begun(w)', v < w
                   PROVE  v + RateWindow <= w
      BY DEF WindowsApart
    <2>2. CASE w = start
      <3>1. v # start
        BY <2>1, <2>2
      <3>. QED
        BY <2>1, <2>2, <3>1, <1>16
    <2>3. CASE w # start
      <3>1. Begun(w) /\ w <= start
        BY <2>1, <2>3, <1>16
      <3>2. v # start
        BY <2>1, <3>1
      <3>. QED
        BY <2>1, <3>1, <3>2, <1>16 DEF RateInv, WindowsApart
    <2>. QED
      BY <2>2, <2>3
  <1>. QED
    BY <1>10, <1>11, <1>12, <1>15, <1>17, <1>18, <1>19 DEF RateInv

LEMMA RateInsertStep ==
    ASSUME RateInv, NEW c \in RateCallers, RtInsert(c)
    PROVE  RateInv'
  <1>. USE RateNumbers
  <1>1. rtCalls[c] # NoRate /\ UNCHANGED rtClock
    BY DEF RtInsert, RtCalling
  <1>2. CASE rtRow # NoRate
    <2>1. RtAgain(c) /\ UNCHANGED <<rtRow, rtGranted>>
      BY <1>2 DEF RtInsert
    <2>. QED
      BY <1>1, <2>1, RateCallEnds, RateNoGrant
  <1>3. CASE rtRow = NoRate
    <2>1. PICK at \in RtTimes : at = rtCalls[c].at
      BY <1>1 DEF RateInv, RtTypeOK, RtCall
    <2>2. rtRow' = [start |-> at, count |-> 1] /\ RtGrants(c, at)
      BY <1>3, <2>1 DEF RtInsert
    <2>3. at <= rtClock /\ rtClock <= at + RateLag /\ rtClock \in Nat /\ at \in Nat
      BY <1>1, <2>1 DEF RateInv, CallKept, RtTypeOK
    <2>4. RateLag <= RateAge
      BY RateAssumption
    <2>5. \A w \in RtTimes : Begun(w) => w + RateAge < rtClock
      BY <1>3 DEF RateInv, WindowsBefore
    <2>6. \A w \in RtTimes : Begun(w) => w < at /\ (KeptLongEnough => w + RateWindow <= at)
      BY <2>3, <2>4, <2>5 DEF KeptLongEnough
    <2>7. RtTotal({at}, RtTimes) = 0
      BY <2>3, <2>6, RateUnbegun DEF RateInv
    <2>8. rtRow' \in RtRow /\ rtRow'.start = at /\ rtRow'.count = RtTotal({at}, RtTimes) + 1
      BY <2>2, <2>7 DEF RtRow
    <2>9. /\ RtTotal({at}, RtTimes) < RateLimitOf /\ rtCalls[c].at < at + RateWindow
          /\ at <= rtCalls[c].at + RateLag
      BY <2>1, <2>3, <2>7
    <2>10. \A w \in RtTimes : Begun(w) => w <= at
      BY <2>3, <2>6
    <2>11. KeptLongEnough => \A w \in RtTimes : Begun(w) /\ w # at => w + RateWindow <= at
      BY <2>6
    <2>. QED
      BY <1>1, <2>2, <2>3, <2>8, <2>9, <2>10, <2>11, RateGrant
  <1>. QED
    BY <1>2, <1>3

LEMMA RateMoveStep ==
    ASSUME RateInv, NEW c \in RateCallers, RtMove(c)
    PROVE  RateInv'
  <1>. USE RateNumbers
  <1>. DEFINE held == rtCalls[c].held
  <1>1. rtCalls[c] # NoRate /\ rtCalls[c].step = "write" /\ held # NoRate /\ UNCHANGED rtClock
    BY DEF RtMove, RtCalling
  <1>2. CASE ~RtUnmoved(held)
    <2>1. RtAgain(c) /\ UNCHANGED <<rtRow, rtGranted>>
      BY <1>2 DEF RtMove
    <2>. QED
      BY <1>1, <2>1, RateCallEnds, RateNoGrant
  <1>3. CASE RtUnmoved(held)
    <2>1. PICK at \in RtTimes : at = rtCalls[c].at
      BY <1>1 DEF RateInv, RtTypeOK, RtCall
    <2>2. /\ rtRow' = RtNextRow(held, at) /\ RtGrants(c, RtNextRow(held, at).start) /\ rtRow = held
      BY <1>3, <2>1 DEF RtMove, RtUnmoved
    <2>3. rtRow \in RtRow /\ rtRow # NoRate
      BY <1>1, <2>2 DEF RateInv, RtTypeOK
    <2>4. PICK start \in RtTimes, count \in Nat : rtRow = [start |-> start, count |-> count]
      BY <2>3 DEF RtRow
    <2>5. rtRow.start = start /\ rtRow.count = count
      BY <2>4
    <2>6. at <= rtClock /\ rtClock <= at + RateLag /\ rtClock \in Nat /\ at \in Nat /\ start \in Nat
      BY <1>1, <2>1 DEF RateInv, CallKept, RtTypeOK
    <2>7. start <= rtClock /\ \A w \in RtTimes : Begun(w) => w <= start
      BY <2>3, <2>5 DEF RateInv, WindowsBefore
    <2>8. count = RtTotal({start}, RtTimes)
      BY <2>3, <2>5 DEF RateInv, RateWithinLimit
    <2>9. ~RtSpent(rtRow, at)
      BY <1>1, <2>1, <2>2 DEF RateInv, CallKept
    <2>10. CASE at < start + RateWindow
      <3>1. RtNextRow(held, at) = [start |-> start, count |-> count + 1]
        BY <2>2, <2>4, <2>5, <2>10 DEF RtNextRow, RtInWindow
      <3>2. rtRow' \in RtRow /\ rtRow'.start = start /\ rtRow'.count = count + 1 /\ RtGrants(c, start)
        BY <2>2, <3>1 DEF RtRow
      <3>3. count < RateLimitOf
        BY <2>5, <2>9, <2>10 DEF RtSpent, RtInWindow
      <3>4. /\ rtCalls[c].at < start + RateWindow /\ start <= rtCalls[c].at + RateLag
        BY <2>1, <2>6, <2>7, <2>10
      <3>5. KeptLongEnough => \A w \in RtTimes : Begun(w) /\ w # start => w + RateWindow <= start
        <4>1. Begun(start) /\ \A w \in RtTimes : Begun(w) /\ w # start => w < start
          BY <2>3, <2>5, <2>6, <2>7 DEF RateInv, WindowsBefore
        <4>. QED
          BY <4>1 DEF RateInv, WindowsApart
      <3>. QED
        BY <1>1, <2>7, <2>8, <3>2, <3>3, <3>4, <3>5, RateGrant
    <2>11. CASE ~(at < start + RateWindow)
      <3>1. RtNextRow(held, at) = [start |-> at, count |-> 1]
        BY <2>2, <2>5, <2>11 DEF RtNextRow, RtInWindow
      <3>2. start + RateWindow <= at
        BY <2>6, <2>11
      <3>3. ~Begun(at)
        BY <3>2, <2>6, <2>7
      <3>4. RtTotal({at}, RtTimes) = 0
        BY <3>3, RateUnbegun DEF RateInv
      <3>5. /\ rtRow' \in RtRow /\ rtRow'.start = at /\ rtRow'.count = RtTotal({at}, RtTimes) + 1
            /\ RtGrants(c, at)
        BY <2>2, <3>1, <3>4 DEF RtRow
      <3>6. /\ RtTotal({at}, RtTimes) < RateLimitOf /\ rtCalls[c].at < at + RateWindow
            /\ at <= rtCalls[c].at + RateLag
        BY <2>1, <2>6, <3>4
      <3>7. \A w \in RtTimes : Begun(w) => w <= at /\ w + RateWindow <= at
        BY <2>6, <2>7, <3>2
      <3>. QED
        BY <1>1, <2>6, <3>5, <3>6, <3>7, RateGrant
    <2>. QED
      BY <2>10, <2>11
  <1>. QED
    BY <1>2, <1>3

LEMMA RatePruneStep ==
    ASSUME RateInv, RtPrune
    PROVE  RateInv'
  <1>. USE RateNumbers
  <1>1. /\ rtRow # NoRate /\ rtRow.start + RateAge < rtClock /\ rtRow' = NoRate
        /\ UNCHANGED <<rtClock, rtCalls, rtGranted>>
    BY DEF RtPrune
  <1>2. rtClock \in Nat /\ rtRow.start \in RtTimes /\ rtRow.start \in Nat
    BY <1>1 DEF RateInv, RtTypeOK, RtRow
  <1>3. RtTypeOK' /\ SlotsFew' /\ RateWithinLimit'
    BY <1>1 DEF RateInv, RtTypeOK, SlotsFew, RateWithinLimit, RtTotal, RtSlots
  <1>4. WindowsBefore'
    <2>1. \A w \in RtTimes : Begun(w) => w + RateAge < rtClock
      BY <1>1, <1>2 DEF RateInv, WindowsBefore
    <2>. QED
      BY <1>1, <2>1 DEF WindowsBefore, Begun
  <1>5. GrantsNear' /\ WindowsApart'
    BY <1>1 DEF RateInv, GrantsNear, WindowsApart, Begun
  <1>6. \A c \in RateCallers : CallKept(c)'
    BY <1>1, RateSameCall
  <1>. QED
    BY <1>3, <1>4, <1>5, <1>6 DEF RateInv

LEMMA RateElapseStep ==
    ASSUME RateInv, RtElapse
    PROVE  RateInv'
  <1>. USE RateNumbers
  <1>1. /\ rtClock < RateInstants /\ rtClock' = rtClock + 1 /\ UNCHANGED <<rtRow, rtCalls, rtGranted>>
        /\ \A c \in RateCallers : rtCalls[c] # NoRate => rtClock < rtCalls[c].at + RateLag
    BY DEF RtElapse
  <1>2. rtClock \in Nat /\ rtClock' \in RtTimes
    BY <1>1 DEF RateInv, RtTypeOK, RtTimes
  <1>3. RtTypeOK' /\ SlotsFew' /\ RateWithinLimit'
    BY <1>1, <1>2 DEF RateInv, RtTypeOK, SlotsFew, RateWithinLimit, RtTotal, RtSlots
  <1>4. WindowsBefore'
    <2>1. CASE rtRow = NoRate
      BY <1>1, <1>2, <2>1 DEF RateInv, WindowsBefore, Begun
    <2>2. CASE rtRow # NoRate
      <3>1. rtRow.start \in Nat
        BY <2>2 DEF RateInv, RtTypeOK, RtRow
      <3>. QED
        BY <1>1, <1>2, <2>2, <3>1 DEF RateInv, WindowsBefore, Begun
    <2>. QED
      BY <2>1, <2>2
  <1>5. GrantsNear' /\ WindowsApart'
    BY <1>1 DEF RateInv, GrantsNear, WindowsApart, Begun
  <1>6. ASSUME NEW c \in RateCallers PROVE CallKept(c)'
    <2>1. CallKept(c)
      BY DEF RateInv
    <2>2. rtCalls[c] # NoRate => rtCalls[c].at \in Nat
      BY DEF RateInv, RtTypeOK, RtCall
    <2>. QED
      BY <1>1, <1>2, <2>1, <2>2 DEF CallKept, RtSpent, RtInWindow
  <1>. QED
    BY <1>3, <1>4, <1>5, <1>6 DEF RateInv

LEMMA RateFailStep ==
    ASSUME RateInv, NEW c \in RateCallers, RtFails(c)
    PROVE  RateInv'
  BY RateCallEnds, RateNoGrant DEF RtFails

LEMMA RateInitStep ==
    ASSUME RtInit
    PROVE  RateInv
  <1>. USE RateNumbers
  <1>1. /\ rtClock = 0 /\ rtRow = NoRate /\ \A c \in RateCallers : rtCalls[c] = NoRate
        /\ \A w, t \in RtTimes : rtGranted[w][t] = 0
    BY DEF RtInit
  <1>2. RtTypeOK
    BY DEF RtInit, RtTypeOK
  <1>3. \A w \in RtTimes : ~Begun(w)
    <2>1. SUFFICES ASSUME NEW w \in RtTimes PROVE ~Begun(w)
      OBVIOUS
    <2>2. \A t \in RtTimes : ~(rtGranted[w][t] > 0)
      BY ONLY <1>1, <2>1
    <2>. QED
      BY ONLY <2>2 DEF Begun
  <1>4. RateWithinLimit
    BY <1>1, <1>2, <1>3, RateUnbegun DEF RateWithinLimit
  <1>5. SlotsFew /\ WindowsBefore /\ GrantsNear /\ WindowsApart
    BY <1>1, <1>3 DEF SlotsFew, WindowsBefore, GrantsNear, WindowsApart
  <1>. QED
    BY <1>1, <1>2, <1>4, <1>5 DEF RateInv, CallKept

LEMMA RateStep ==
    ASSUME RateInv, [RtNext]_rtVars
    PROVE  RateInv'
  <1>1. CASE \E c \in RateCallers : \/ \E at \in RtTimes : RtAsk(c, at)
                                    \/ RtSelect(c) \/ RtInsert(c) \/ RtMove(c) \/ RtFails(c)
    BY <1>1, RateAskStep, RateSelectStep, RateInsertStep, RateMoveStep, RateFailStep
  <1>2. CASE RtPrune \/ RtElapse
    BY <1>2, RatePruneStep, RateElapseStep
  <1>3. CASE UNCHANGED rtVars
    <2>1. \A c \in RateCallers : CallKept(c)'
      BY <1>3, RateSameCall DEF rtVars
    <2>2. rtCalls' \in [RateCallers -> RtCall \union {NoRate}]
      BY <1>3 DEF rtVars, RateInv, RtTypeOK
    <2>. QED
      BY <1>3, <2>1, <2>2, RateNoGrant DEF rtVars
  <1>. QED
    BY <1>1, <1>2, <1>3 DEF RtNext

-----------------------------------------------------------------------------
(* The theorems.                                                           *)

\* Windows that grant to calls of one window's length are few: two of them when a call is
\* no more than an instant behind, three when it is no more than a window's length behind.
LEMMA RateFewWindows ==
    ASSUME RateInv, KeptLongEnough, NEW t \in RtTimes
    PROVE  LET ts == { s \in RtTimes : t <= s /\ s < t + RateWindow }
               grants(w) == \E s \in ts : rtGranted[w][s] > 0
           IN  /\ RateLag <= 1 =>
                    \A u, v, w \in RtTimes : ~(u < v /\ v < w /\ grants(u) /\ grants(v) /\ grants(w))
               /\ RateLag <= RateWindow + 1 =>
                    \A u, v, w, x \in RtTimes :
                        ~(u < v /\ v < w /\ w < x /\ grants(u) /\ grants(v) /\ grants(w) /\ grants(x))
  <1>. DEFINE ts == { s \in RtTimes : t <= s /\ s < t + RateWindow }
              grants(w) == \E s \in ts : rtGranted[w][s] > 0
  <1>. USE RateNumbers
  <1>1. \A w \in RtTimes : grants(w) => Begun(w) /\ w < t + RateWindow + RateLag /\ t < w + RateWindow
    <2>1. SUFFICES ASSUME NEW w \in RtTimes, NEW s \in ts, rtGranted[w][s] > 0
                   PROVE  Begun(w) /\ w < t + RateWindow + RateLag /\ t < w + RateWindow
      OBVIOUS
    <2>2. s \in RtTimes /\ t <= s /\ s < t + RateWindow
      OBVIOUS
    <2>3. s < w + RateWindow /\ w <= s + RateLag
      BY <2>1, <2>2 DEF RateInv, GrantsNear
    <2>4. s \in Nat /\ t \in Nat /\ w \in Nat
      BY <2>2
    <2>. QED
      BY <2>1, <2>2, <2>3, <2>4 DEF Begun
  <1>2. \A v, w \in RtTimes : grants(v) /\ grants(w) /\ v < w => v + RateWindow <= w
    BY <1>1 DEF RateInv, WindowsApart
  <1>3. \A w \in RtTimes : w \in Nat
    OBVIOUS
  <1>4. t \in Nat
    OBVIOUS
  <1>. HIDE DEF grants
  <1>5. ASSUME RateLag <= 1, NEW u \in RtTimes, NEW v \in RtTimes, NEW w \in RtTimes,
               u < v, v < w, grants(u), grants(v), grants(w)
        PROVE  FALSE
    <2>1. /\ u + RateWindow <= v /\ v + RateWindow <= w /\ w < t + RateWindow + RateLag
          /\ t < u + RateWindow /\ u \in Nat /\ v \in Nat /\ w \in Nat
      BY <1>1, <1>2, <1>3, <1>5
    <2>. QED
      BY <2>1, <1>4, <1>5
  <1>6. ASSUME RateLag <= RateWindow + 1,
               NEW u \in RtTimes, NEW v \in RtTimes, NEW w \in RtTimes, NEW x \in RtTimes,
               u < v, v < w, w < x, grants(u), grants(v), grants(w), grants(x)
        PROVE  FALSE
    <2>1. /\ u + RateWindow <= v /\ v + RateWindow <= w /\ w + RateWindow <= x
          /\ x < t + RateWindow + RateLag /\ t < u + RateWindow
          /\ u \in Nat /\ v \in Nat /\ w \in Nat /\ x \in Nat
      BY <1>1, <1>2, <1>3, <1>6
    <2>. QED
      BY <2>1, <1>4, <1>6
  <1>. QED
    BY <1>5, <1>6 DEF grants

\* What the windows that grant to some calls grant to them in all.
LEMMA RateTwoWindows ==
    ASSUME RateInv, NEW ts \in SUBSET RtTimes,
           \A u, v, w \in RtTimes :
              ~(u < v /\ v < w /\ (\E s \in ts : rtGranted[u][s] > 0) /\ (\E s \in ts : rtGranted[v][s] > 0)
                               /\ (\E s \in ts : rtGranted[w][s] > 0))
    PROVE  RtTotal(RtTimes, ts) <= 2 * RateLimitOf
  <1>. DEFINE grants(w) == \E s \in ts : rtGranted[w][s] > 0
  <1>1. RtTypeOK /\ RateWithinLimit /\ \A w \in RtTimes : w \in Nat
    BY RateNumbers DEF RateInv
  <1>2. \A u, v, w \in RtTimes : ~(u < v /\ v < w /\ grants(u) /\ grants(v) /\ grants(w))
    OBVIOUS
  <1>. HIDE DEF grants
  <1>3. \E u, v \in RtTimes : \A w \in RtTimes : grants(w) => w = u \/ w = v
    <2>1. CASE \E u, v \in RtTimes : grants(u) /\ grants(v) /\ u < v
      <3>1. PICK u \in RtTimes, v \in RtTimes : grants(u) /\ grants(v) /\ u < v
        BY <2>1
      <3>2. ASSUME NEW w \in RtTimes, grants(w), w # u, w # v PROVE FALSE
        <4>1. w < u \/ (u < w /\ w < v) \/ v < w
          BY <3>1, <3>2, <1>1
        <4>. QED
          BY <3>1, <3>2, <4>1, <1>2
      <3>. QED
        BY <3>2
    <2>2. CASE ~\E u, v \in RtTimes : grants(u) /\ grants(v) /\ u < v
      <3>1. \A u, v \in RtTimes : grants(u) /\ grants(v) => u = v
        BY <1>1, <2>2
      <3>. QED
        BY <3>1, RateNumbers
    <2>. QED
      BY <2>1, <2>2
  <1>4. PICK u \in RtTimes, v \in RtTimes : \A w \in RtTimes : grants(w) => w = u \/ w = v
    BY <1>3
  <1>5. \A w \in RtTimes, s \in ts : rtGranted[w][s] > 0 => w \in {u} \/ w \in {v}
    BY <1>4 DEF grants
  <1>6. {u} \in SUBSET RtTimes /\ {v} \in SUBSET RtTimes /\ RtTimes \in SUBSET RtTimes
    OBVIOUS
  <1>7. RtTotal(RtTimes, ts) <= RtTotal({u}, ts) + RtTotal({v}, ts)
    BY <1>1, <1>5, <1>6, RateCovered
  <1>8. RtTotal({u}, ts) <= RateLimitOf /\ RtTotal({v}, ts) <= RateLimitOf
    BY <1>1, RateWindowTotal
  <1>9. /\ RtTotal(RtTimes, ts) \in Nat /\ RtTotal({u}, ts) \in Nat /\ RtTotal({v}, ts) \in Nat
    BY <1>6, RateSlotsFinite
  <1>. DEFINE a == RtTotal(RtTimes, ts)
              b == RtTotal({u}, ts)
              c == RtTotal({v}, ts)
  <1>10. a \in Nat /\ b \in Nat /\ c \in Nat /\ a <= b + c /\ b <= RateLimitOf /\ c <= RateLimitOf
    BY <1>7, <1>8, <1>9
  <1>11. a <= 2 * RateLimitOf
    <2>. HIDE DEF a, b, c
    <2>. QED
      BY <1>10, RateNumbers
  <1>. QED
    BY <1>11

LEMMA RateThreeWindows ==
    ASSUME RateInv, NEW ts \in SUBSET RtTimes,
           \A u, v, w, x \in RtTimes :
              ~(u < v /\ v < w /\ w < x
                /\ (\E s \in ts : rtGranted[u][s] > 0) /\ (\E s \in ts : rtGranted[v][s] > 0)
                /\ (\E s \in ts : rtGranted[w][s] > 0) /\ (\E s \in ts : rtGranted[x][s] > 0))
    PROVE  RtTotal(RtTimes, ts) <= 3 * RateLimitOf
  <1>. DEFINE grants(w) == \E s \in ts : rtGranted[w][s] > 0
  <1>1. RtTypeOK /\ RateWithinLimit /\ \A w \in RtTimes : w \in Nat
    BY RateNumbers DEF RateInv
  <1>2. \A u, v, w, x \in RtTimes :
           ~(u < v /\ v < w /\ w < x /\ grants(u) /\ grants(v) /\ grants(w) /\ grants(x))
    OBVIOUS
  <1>. HIDE DEF grants
  <1>3. CASE \E u, v, w \in RtTimes : grants(u) /\ grants(v) /\ grants(w) /\ u < v /\ v < w
    <2>1. PICK u \in RtTimes, v \in RtTimes, w \in RtTimes :
            grants(u) /\ grants(v) /\ grants(w) /\ u < v /\ v < w
      BY <1>3
    <2>2. \A x \in RtTimes : grants(x) => x = u \/ x = v \/ x = w
      <3>1. SUFFICES ASSUME NEW x \in RtTimes, grants(x), x # u, x # v, x # w PROVE FALSE
        OBVIOUS
      <3>2. x < u \/ (u < x /\ x < v) \/ (v < x /\ x < w) \/ w < x
        BY <3>1, <2>1, <1>1
      <3>. QED
        BY <3>1, <3>2, <2>1, <1>2
    <2>3. \A x \in RtTimes, s \in ts : rtGranted[x][s] > 0 => x \in {u} \/ x \in {v, w}
      BY <2>2 DEF grants
    <2>4. \A x \in {v, w}, s \in ts : rtGranted[x][s] > 0 => x \in {v} \/ x \in {w}
      OBVIOUS
    <2>5. /\ {u} \in SUBSET RtTimes /\ {v} \in SUBSET RtTimes /\ {w} \in SUBSET RtTimes
          /\ {v, w} \in SUBSET RtTimes /\ RtTimes \in SUBSET RtTimes
      OBVIOUS
    <2>. DEFINE a == RtTotal(RtTimes, ts)
                b == RtTotal({u}, ts)
                c == RtTotal({v, w}, ts)
                d == RtTotal({v}, ts)
                e == RtTotal({w}, ts)
    <2>6. a <= b + c
      BY <1>1, <2>3, <2>5, RateCovered
    <2>7. c <= d + e
      BY <1>1, <2>4, <2>5, RateCovered
    <2>8. b <= RateLimitOf /\ d <= RateLimitOf /\ e <= RateLimitOf
      BY <1>1, RateWindowTotal
    <2>9. a \in Nat /\ b \in Nat /\ c \in Nat /\ d \in Nat /\ e \in Nat
      BY <2>5, RateSlotsFinite
    <2>10. a <= 3 * RateLimitOf
      <3>. HIDE DEF a, b, c, d, e
      <3>. QED
        BY <2>6, <2>7, <2>8, <2>9, RateNumbers
    <2>. QED
      BY <2>10
  <1>4. CASE ~\E u, v, w \in RtTimes : grants(u) /\ grants(v) /\ grants(w) /\ u < v /\ v < w
    <2>1. RtTotal(RtTimes, ts) <= 2 * RateLimitOf
      BY <1>4, RateTwoWindows DEF grants
    <2>2. RtTotal(RtTimes, ts) \in Nat
      BY RateSlotsFinite
    <2>. DEFINE a == RtTotal(RtTimes, ts)
    <2>3. a <= 2 * RateLimitOf /\ a \in Nat
      BY <2>1, <2>2
    <2>4. a <= 3 * RateLimitOf
      <3>. HIDE DEF a
      <3>. QED
        BY <2>3, RateNumbers
    <2>. QED
      BY <2>4
  <1>. QED
    BY <1>3, <1>4

\* The row counts the slots of its window, which grants no more than the limit; windows begin
\* one after the other, and a call counts in one that it is within, or a little behind:
\* claimRateSlot and pruneRateSlots in ratelimit.ts.
THEOREM RateInvariance == RtSpec => []RateInv
  <1>1. RtInit => RateInv
    BY RateInitStep
  <1>2. RateInv /\ [RtNext]_rtVars => RateInv'
    BY RateStep
  <1>. QED
    BY <1>1, <1>2, PTL DEF RtSpec

\* Every variable stays in its type.
THEOREM RateTypeCorrect == RtSpec => []RtTypeOK
  <1>1. RateInv => RtTypeOK
    BY DEF RateInv
  <1>. QED
    BY <1>1, RateInvariance, PTL

\* No window grants more than the limit, whatever calls interleave and whenever counters are
\* pruned; calls that are at most an instant behind get at most twice that across a boundary.
THEOREM RatesAreKept == RtSpec => []RateKept
  <1>1. RateInv => RateTwiceAtMost
    <2>1. SUFFICES ASSUME RateInv, RateWindow <= RateAge, RateLag <= 1, NEW t \in RtTimes
                   PROVE  RtTotal(RtTimes, { s \in RtTimes : t <= s /\ s < t + RateWindow }) <= 2 * RateLimitOf
      BY DEF RateTwiceAtMost, RateTwice
    <2>2. KeptLongEnough
      BY <2>1, RateNumbers DEF KeptLongEnough
    <2>. DEFINE ts == { s \in RtTimes : t <= s /\ s < t + RateWindow }
                grants(w) == \E s \in ts : rtGranted[w][s] > 0
    <2>3. \A u, v, w \in RtTimes : ~(u < v /\ v < w /\ grants(u) /\ grants(v) /\ grants(w))
      BY <2>1, <2>2, RateFewWindows
    <2>4. ts \in SUBSET RtTimes
      OBVIOUS
    <2>. HIDE DEF ts
    <2>5. RtTotal(RtTimes, ts) <= 2 * RateLimitOf
      BY <2>1, <2>3, <2>4, RateTwoWindows
    <2>. QED
      BY <2>5 DEF ts
  <1>2. RateInv => RateKept
    BY <1>1 DEF RateKept, RateInv
  <1>. QED
    BY <1>2, RateInvariance, PTL

\* The real ceiling: three times the limit.
RateThriceAtMost ==
    KeptLongEnough /\ RateLag <= RateWindow + 1 =>
      \A t \in RtTimes :
        RtTotal(RtTimes, { s \in RtTimes : t <= s /\ s < t + RateWindow }) <= 3 * RateLimitOf

\* Whatever calls are behind the clock, up to a window's length, they get at most three times
\* the limit in one window's length: what claimRateSlot promises where twice is too little.
THEOREM RateThreeTimes == RtSpec => []RateThriceAtMost
  <1>1. RateInv => RateThriceAtMost
    <2>1. SUFFICES ASSUME RateInv, KeptLongEnough, RateLag <= RateWindow + 1, NEW t \in RtTimes
                   PROVE  RtTotal(RtTimes, { s \in RtTimes : t <= s /\ s < t + RateWindow }) <= 3 * RateLimitOf
      BY DEF RateThriceAtMost
    <2>. DEFINE ts == { s \in RtTimes : t <= s /\ s < t + RateWindow }
                grants(w) == \E s \in ts : rtGranted[w][s] > 0
    <2>2. \A u, v, w, x \in RtTimes :
             ~(u < v /\ v < w /\ w < x /\ grants(u) /\ grants(v) /\ grants(w) /\ grants(x))
      BY <2>1, RateFewWindows
    <2>3. ts \in SUBSET RtTimes
      OBVIOUS
    <2>. HIDE DEF ts
    <2>4. RtTotal(RtTimes, ts) <= 3 * RateLimitOf
      BY <2>1, <2>2, <2>3, RateThreeWindows
    <2>. QED
      BY <2>4 DEF ts
  <1>. QED
    BY <1>1, RateInvariance, PTL

-----------------------------------------------------------------------------
(* Streams.                                                                *)

-----------------------------------------------------------------------------
(* The inductive invariant.                                                *)

Writer == [ step : WriterSteps, seq : Seqs, wrote : 0 .. LastChunk, buffer : 0 .. FlushEvery - 1,
            chain : Seq(Batch), broken : BOOLEAN ]
Reader == [ step : ReaderSteps, cursor : Seqs, hand : SUBSET Ids, done : BOOLEAN, last : Ids,
            got : SUBSET Ids, left : 0 .. Reconnections ]

StreamShape ==
    /\ log \in [Seqs -> Row \union {Free}]
    /\ writers \in [Writers -> Writer]
    /\ readers \in [Readers -> Reader]

\* The rows are the first numbers there are, and the last batch among them is known.
RowsUpTo(h) == \A s \in Seqs : Taken(s) <=> s < h
LastBatch(b) == BatchRow(b) /\ \A s \in Seqs : BatchRow(s) => s <= b
LogHasTop ==
    /\ \E h \in Seqs : RowsUpTo(h)
    /\ (\E s \in Seqs : BatchRow(s)) => \E b \in Seqs : LastBatch(b)

\* A chunk f of writer w, when it is not the first, is preceded by a batch that ends at f - 1.
PrecededBy(r, w, f) == BatchRow(r) /\ log[r].by = w /\ log[r].first + log[r].size = f

RowsInOrder ==
    /\ \A s \in Seqs : BatchRow(s) => log[s].size >= 1
    /\ \A r, s \in Seqs : Taken(r) /\ Taken(s) /\ r < s /\ log[r].by = log[s].by =>
          log[r].first < log[s].first
    /\ \A s \in Seqs : Taken(s) /\ log[s].first > 1 =>
          \E r \in Seqs : r < s /\ PrecededBy(r, log[s].by, log[s].first)

\* What a writer appends next, and the first chunk in it.
Front(w) == writers[w].seq - Len(writers[w].chain)
UpTo(w) == writers[w].wrote - writers[w].buffer + 1
NextFirst(w) == IF writers[w].chain = <<>> THEN UpTo(w) ELSE writers[w].chain[1].first

\* The numbers the other writers can have taken, before it opened the stream.
OthersRoom == (Cardinality(Writers) - 1) * (LastChunk + 1)

\* The chain of a writer is what it flushed and has not appended yet, in order, with
\* consecutive numbers.
ChainInOrder(w) ==
    /\ Len(writers[w].chain) <= writers[w].seq
    /\ \A i \in DOMAIN writers[w].chain :
         /\ writers[w].chain[i].at = Front(w) + i - 1
         /\ writers[w].chain[i].first + writers[w].chain[i].size =
              IF i = Len(writers[w].chain) THEN UpTo(w) ELSE writers[w].chain[i + 1].first

\* Its rows are there up to the front, and all of them before it.
Appended(w) ==
    /\ \A s \in Seqs : s < Front(w) => Taken(s)
    /\ \A s \in Seqs : Taken(s) /\ log[s].by = w =>
          s < Front(w) /\ ~log[s].ended /\ log[s].first + log[s].size <= NextFirst(w)
    /\ NextFirst(w) > 1 => \E r \in Seqs : r < Front(w) /\ PrecededBy(r, w, NextFirst(w))

Active(w) == writers[w].step \in {"open", "ending"}

WriterKept(w) ==
    /\ writers[w].buffer <= writers[w].wrote
    /\ Active(w) \/ writers[w].chain = <<>>
    /\ writers[w].broken => writers[w].chain = <<>>
    /\ writers[w].step = "ending" => writers[w].buffer = 0
    /\ writers[w].step = "none" => writers[w] = Unopened /\ \A s \in Seqs : Taken(s) => log[s].by # w
    /\ Active(w) => writers[w].seq <= OthersRoom + writers[w].wrote - writers[w].buffer
    /\ Active(w) /\ ~writers[w].broken => ChainInOrder(w) /\ Appended(w)

\* Every chunk there is of the rows before a number has come to a reader, or is about to.
Has(c) == readers[c].got \union readers[c].hand
HasAllBefore(c, n) == \A id \in Stored : id[1] < n => id \in Has(c)

ReaderKept(c) ==
    /\ Has(c) \subseteq Stored
    /\ \A id \in readers[c].got : \A ahead \in Stored : Before(ahead, id) => ahead \in readers[c].got
    /\ readers[c].got # {} => readers[c].last \in readers[c].got
    /\ readers[c].step # "yielding" => readers[c].hand = {}
    /\ \A s \in Seqs : s < readers[c].cursor => Taken(s)
    /\ Following(c) => HasAllBefore(c, readers[c].cursor)
    /\ \A id \in readers[c].hand : id[1] < readers[c].cursor
    /\ (readers[c].step = "yielding" /\ readers[c].done) \/ readers[c].step = "told" =>
          \E s \in Seqs : EndRow(s) /\ HasAllBefore(c, s)

StreamInv ==
    /\ StreamShape
    /\ LogHasTop
    /\ RowsInOrder
    /\ \A w \in Writers : WriterKept(w)
    /\ \A c \in Readers : ReaderKept(c)

-----------------------------------------------------------------------------
(* Numbers and rows.                                                       *)

\* Every writer has room for its batches and its end.
LEMMA StreamNumbers ==
    /\ Cardinality(Writers) \in Nat /\ Seqs \subseteq Nat /\ 0 \in Seqs
    /\ \A s \in Seqs : \A r \in Nat : r <= s => r \in Seqs
    /\ Writers # {} =>
         /\ OthersRoom \in Nat
         /\ Seqs = 0 .. OthersRoom + LastChunk + 1
  <1>1. /\ IsFiniteSet(Writers) /\ LastChunk \in Nat /\ Cardinality(Writers) \in Nat
    BY StreamAssumption, FS_CardinalityType
  <1>. DEFINE n == Cardinality(Writers)
              k == LastChunk + 1
  <1>2. n \in Nat /\ k \in Nat /\ k = LastChunk + 1
    BY <1>1
  <1>3. Seqs = 0 .. n * k
    BY DEF Seqs
  <1>4. n * k \in Nat
    BY <1>2
  <1>5. ASSUME Writers # {}
        PROVE  (n - 1) * k \in Nat /\ n * k = (n - 1) * k + k
    <2>1. n # 0
      BY <1>1, <1>5, FS_EmptySet
    <2>2. n - 1 \in Nat
      BY <1>2, <2>1
    <2>. HIDE DEF n, k
    <2>. QED
      BY <1>2, <2>2
  <1>6. OthersRoom = (n - 1) * k
    BY DEF OthersRoom
  <1>7. n * k \in Nat /\ (Writers # {} => (n - 1) * k \in Nat /\ n * k = (n - 1) * k + LastChunk + 1)
    <2>. HIDE DEF n, k
    <2>. QED
      BY <1>1, <1>2, <1>4, <1>5
  <1>8. Cardinality(Writers) \in Nat
    BY <1>1
  <1>. HIDE DEF n, k
  <1>. QED
    BY <1>3, <1>6, <1>7, <1>8, <1>1

\* What a number that is taken holds.
LEMMA StreamRowIs ==
    ASSUME StreamShape, NEW s \in Seqs, Taken(s)
    PROVE  /\ log[s] \in Row /\ log[s].by \in Writers /\ log[s].ended \in BOOLEAN
           /\ log[s].first \in 1 .. LastChunk + 1 /\ log[s].first \in Nat
           /\ log[s].size \in 0 .. FlushEvery /\ log[s].size \in Nat
  <1>1. log[s] \in Row
    BY DEF StreamShape, Taken
  <1>. QED
    BY <1>1, StreamAssumption DEF Row

LEMMA StreamRowTaken == \A row \in Row : row # Free
  BY StreamAssumption DEF Row, Free

\* Rows come one writer's after the other's, and in the order of what they hold: so
\* there are no more of them than the writers who have one leave room for.
LEMMA StreamCount ==
    ASSUME StreamShape, RowsInOrder, NEW h \in Seqs, RowsUpTo(h), NEW w \in Writers,
           \A s \in Seqs : Taken(s) => log[s].by # w
    PROVE  h <= OthersRoom
  <1>. DEFINE S == 0 .. h - 1
              W == Writers \ {w}
              N == 1 .. LastChunk + 1
              T == W \X N
              f == [s \in S |-> <<log[s].by, log[s].first>>]
  <1>1. h \in Nat /\ S \subseteq Seqs /\ S \subseteq Nat
    BY StreamNumbers
  <1>2. \A s \in S : Taken(s)
    BY <1>1 DEF RowsUpTo
  <1>3. \A s \in S : log[s].by \in W /\ log[s].first \in N
    BY <1>1, <1>2, StreamRowIs
  <1>4. f \in [S -> T]
    BY <1>3
  <1>5. ASSUME NEW r \in S, NEW s \in S, f[r] = f[s]
        PROVE  r = s
    <2>1. log[r].by = log[s].by /\ log[r].first = log[s].first
      BY <1>5
    <2>2. log[r].first \in Nat /\ r \in Nat /\ s \in Nat
      BY <1>1, <1>2, StreamRowIs
    <2>3. ~(r < s) /\ ~(s < r)
      BY <2>1, <2>2, <1>1, <1>2 DEF RowsInOrder
    <2>. QED
      BY <2>2, <2>3
  <1>6. /\ IsFiniteSet(W) /\ Cardinality(W) = Cardinality(Writers) - 1
    BY StreamAssumption, FS_RemoveElement
  <1>7. IsFiniteSet(N) /\ Cardinality(N) = LastChunk + 1
    <2>. DEFINE k == LastChunk + 1
    <2>1. k \in Int /\ k >= 1
      BY StreamAssumption
    <2>. HIDE DEF k
    <2>2. IsFiniteSet(1 .. k) /\ Cardinality(1 .. k) = k
      BY <2>1, FS_Interval
    <2>. QED
      BY <2>2 DEF k
  <1>8. Cardinality(S) = h
    BY <1>1, FS_Interval
  <1>9. f \in Injection(S, T)
    <2>. HIDE DEF S, T, f
    <2>. QED
      BY <1>4, <1>5 DEF Injection, IsInjective
  <1>. HIDE DEF S, W, N, f
  <1>10. IsFiniteSet(T) /\ Cardinality(T) = Cardinality(W) * Cardinality(N)
    BY <1>6, <1>7, FS_Product
  <1>11. Cardinality(S) <= Cardinality(T)
    BY <1>9, <1>10, FS_Injection
  <1>. QED
    BY <1>6, <1>7, <1>8, <1>10, <1>11 DEF OthersRoom

-----------------------------------------------------------------------------
(* A row more.                                                             *)

LEMMA StreamInsertion ==
    ASSUME StreamInv, NEW w \in Writers, NEW at \in Seqs, at + 1 \in Seqs, NEW row \in Row,
           Insert(at, row), row.by = w, row.ended \/ row.size >= 1,
           \A s \in Seqs : s < at => Taken(s),
           \A r \in Seqs : Taken(r) /\ log[r].by = w => log[r].first < row.first,
           row.first > 1 => \E r \in Seqs : r < at /\ PrecededBy(r, w, row.first)
    PROVE  /\ log' \in [Seqs -> Row \union {Free}] /\ log'[at] = row
           /\ \A s \in Seqs : s # at => log'[s] = log[s]
           /\ \A s \in Seqs : Taken(s)' <=> Taken(s) \/ s = at
           /\ LogHasTop' /\ RowsInOrder'
           /\ Stored \subseteq Stored'
           /\ \A id \in Stored : id[1] \in Seqs /\ id[1] < at
           /\ \A id \in Stored' : id \in Stored \/ id[1] = at
  <1>. USE StreamNumbers
  <1>1. /\ log' \in [Seqs -> Row \union {Free}] /\ log'[at] = row
        /\ \A s \in Seqs : s # at => log'[s] = log[s]
        /\ ~Taken(at) /\ row # Free
    BY StreamRowTaken DEF Insert, StreamInv, StreamShape
  <1>2. \A s \in Seqs : Taken(s)' <=> Taken(s) \/ s = at
    BY <1>1 DEF Taken
  <1>3. \A s \in Seqs : Taken(s) <=> s < at
    BY <1>1 DEF StreamInv, LogHasTop, RowsUpTo
  <1>4. /\ \A s \in Seqs : s # at => (BatchRow(s)' <=> BatchRow(s))
        /\ BatchRow(at)' <=> ~row.ended
    BY <1>1, <1>2 DEF BatchRow
  <1>5. LogHasTop'
    <2>1. \E h \in Seqs : RowsUpTo(h)'
      <3>1. \A s \in Seqs : Taken(s)' <=> s < at + 1
        BY <1>2, <1>3
      <3>. QED
        BY <3>1 DEF RowsUpTo
    <2>2. ASSUME \E s \in Seqs : BatchRow(s)'
          PROVE  \E b \in Seqs : LastBatch(b)'
      <3>1. CASE ~row.ended
        <4>1. \A s \in Seqs : BatchRow(s)' => s <= at
          BY <1>2, <1>3 DEF BatchRow
        <4>. QED
          BY <3>1, <4>1, <1>4 DEF LastBatch
      <3>2. CASE row.ended
        <4>1. \A s \in Seqs : BatchRow(s)' <=> BatchRow(s)
          BY <3>2, <1>1, <1>4 DEF BatchRow
        <4>2. PICK b \in Seqs : LastBatch(b)
          BY <2>2, <4>1 DEF StreamInv, LogHasTop
        <4>. QED
          BY <4>1, <4>2 DEF LastBatch
      <3>. QED
        BY <3>1, <3>2
    <2>. QED
      BY <2>1, <2>2 DEF LogHasTop
  <1>6. RowsInOrder'
    <2>1. ASSUME NEW s \in Seqs, BatchRow(s)' PROVE log'[s].size >= 1
      BY <2>1, <1>1, <1>4 DEF StreamInv, RowsInOrder
    <2>2. ASSUME NEW r \in Seqs, NEW s \in Seqs, Taken(r)', Taken(s)', r < s, log'[r].by = log'[s].by
          PROVE  log'[r].first < log'[s].first
      <3>1. Taken(r) /\ r # at
        BY <2>2, <1>2, <1>3
      <3>2. CASE s = at
        BY <3>1, <3>2, <2>2, <1>1
      <3>3. CASE s # at
        BY <3>1, <3>3, <2>2, <1>1, <1>2 DEF StreamInv, RowsInOrder
      <3>. QED
        BY <3>2, <3>3
    <2>3. ASSUME NEW s \in Seqs, Taken(s)', log'[s].first > 1
          PROVE  \E r \in Seqs : r < s /\ PrecededBy(r, log[s].by, log[s].first)'
      <3>1. CASE s = at
        <4>1. PICK r \in Seqs : r < at /\ PrecededBy(r, w, row.first)
          BY <3>1, <2>3, <1>1
        <4>. QED
          BY <3>1, <4>1, <1>1, <1>4 DEF PrecededBy
      <3>2. CASE s # at
        <4>1. Taken(s) /\ log'[s] = log[s]
          BY <3>2, <2>3, <1>1, <1>2
        <4>2. PICK r \in Seqs : r < s /\ PrecededBy(r, log[s].by, log[s].first)
          BY <4>1, <2>3 DEF StreamInv, RowsInOrder
        <4>3. r # at
          BY <4>1, <4>2, <1>3
        <4>. QED
          BY <4>1, <4>2, <4>3, <1>1, <1>4 DEF PrecededBy
      <3>. QED
        BY <3>1, <3>2
    <2>. QED
      BY <2>1, <2>2, <2>3 DEF RowsInOrder
  <1>7. ASSUME NEW id \in Stored
        PROVE  id[1] \in Seqs /\ id[1] < at /\ id \in Stored'
    <2>1. id \in Ids /\ id[1] \in Seqs /\ BatchRow(id[1]) /\ id[2] <= log[id[1]].size
      BY DEF Stored, Ids
    <2>2. id[1] < at
      BY <2>1, <1>3 DEF BatchRow
    <2>. QED
      BY <2>1, <2>2, <1>1, <1>4 DEF Stored
  <1>8. ASSUME NEW id \in Stored', id[1] # at
        PROVE  id \in Stored
    <2>1. id \in Ids /\ id[1] \in Seqs /\ BatchRow(id[1])' /\ id[2] <= log'[id[1]].size
      BY DEF Stored, Ids
    <2>. QED
      BY <2>1, <1>8, <1>1, <1>4 DEF Stored
  <1>. QED
    BY <1>1, <1>2, <1>5, <1>6, <1>7, <1>8

\* What a reader has still is what there is before where it reads.
LEMMA StreamReaderSees ==
    ASSUME StreamInv, NEW at \in Seqs, NEW c \in Readers,
           log' \in [Seqs -> Row \union {Free}],
           \A s \in Seqs : s # at => log'[s] = log[s],
           \A s \in Seqs : Taken(s)' <=> Taken(s) \/ s = at, ~Taken(at),
           Stored \subseteq Stored',
           \A id \in Stored : id[1] \in Seqs /\ id[1] < at,
           \A id \in Stored' : id \in Stored \/ id[1] = at,
           readers'[c].got = readers[c].got, readers'[c].hand = readers[c].hand,
           readers'[c].last = readers[c].last, readers'[c].cursor = readers[c].cursor,
           readers'[c].done = readers[c].done,
           \/ readers'[c].step = readers[c].step
           \/ readers[c].step = "waiting" /\ readers'[c].step = "reading"
    PROVE  ReaderKept(c)'
  <1>0. Seqs \subseteq Nat
    BY StreamNumbers
  <1>1. /\ ReaderKept(c) /\ at \in Nat /\ Has(c)' = Has(c) /\ Has(c) \subseteq Stored
        /\ readers[c].cursor \in Seqs /\ readers[c].cursor \in Nat
    BY <1>0 DEF StreamInv, StreamShape, Reader, ReaderKept, Has
  <1>2. \A s \in Seqs : Taken(s) => s < at
    <2>1. PICK h \in Seqs : \A s \in Seqs : Taken(s) <=> s < h
      BY DEF StreamInv, LogHasTop, RowsUpTo
    <2>2. ~(at < h)
      BY <2>1
    <2>. QED
      BY <2>1, <2>2, <1>0
  <1>3. ASSUME NEW n \in Seqs, n <= at, HasAllBefore(c, n)
        PROVE  HasAllBefore(c, n)'
    BY <1>0, <1>1, <1>3 DEF HasAllBefore
  <1>4. readers[c].cursor <= at
    <2>1. \A s \in Seqs : s < readers[c].cursor => Taken(s)
      BY <1>1 DEF ReaderKept
    <2>2. ~(at < readers[c].cursor)
      BY <2>1
    <2>. QED
      BY <2>2, <1>0, <1>1
  <1>5. ASSUME NEW id \in readers[c].got, NEW ahead \in Stored', Before(ahead, id)
        PROVE  ahead \in readers[c].got
    <2>1. id \in Stored /\ id[1] \in Nat /\ id[1] < at
      BY <1>0, <1>1 DEF Has
    <2>2. ahead[1] # at
      BY <2>1, <1>1, <1>5 DEF Before
    <2>. QED
      BY <2>2, <1>1, <1>5 DEF ReaderKept
  <1>6. ASSUME (readers'[c].step = "yielding" /\ readers'[c].done) \/ readers'[c].step = "told"
        PROVE  \E s \in Seqs : EndRow(s)' /\ HasAllBefore(c, s)'
    <2>1. PICK s \in Seqs : EndRow(s) /\ HasAllBefore(c, s)
      BY <1>1, <1>6 DEF ReaderKept
    <2>2. s < at /\ s \in Nat
      BY <2>1, <1>0, <1>2 DEF EndRow
    <2>3. s <= at /\ EndRow(s)'
      BY <2>1, <2>2, <1>1 DEF EndRow
    <2>. QED
      BY <2>1, <2>3, <1>3
  <1>7. ASSUME Following(c)', NEW id \in Stored', id[1] < readers[c].cursor
        PROVE  id \in Has(c)
    <2>1. HasAllBefore(c, readers[c].cursor)
      BY <1>1, <1>7 DEF Following, ReaderKept
    <2>2. id[1] # at
      BY <1>1, <1>4, <1>7
    <2>. QED
      BY <2>1, <2>2, <1>7 DEF HasAllBefore
  <1>8. Following(c)' => HasAllBefore(c, readers[c].cursor)'
    BY <1>1, <1>7 DEF HasAllBefore
  <1>10. \A id \in readers'[c].got : \A ahead \in Stored' : Before(ahead, id) => ahead \in readers'[c].got
    BY <1>5
  <1>11. /\ Has(c)' \subseteq Stored'
         /\ readers'[c].got # {} => readers'[c].last \in readers'[c].got
         /\ readers'[c].step # "yielding" => readers'[c].hand = {}
         /\ \A s \in Seqs : s < readers'[c].cursor => Taken(s)'
         /\ \A id \in readers'[c].hand : id[1] < readers'[c].cursor
    BY <1>1 DEF ReaderKept
  <1>. QED
    BY <1>6, <1>8, <1>10, <1>11 DEF ReaderKept

\* A writer that is not the one to insert keeps its place.
LEMMA StreamOtherWriter ==
    ASSUME StreamInv, NEW w \in Writers, NEW at \in Seqs, NEW row \in Row, row.by = w,
           log' \in [Seqs -> Row \union {Free}], log'[at] = row, ~Taken(at),
           \A s \in Seqs : s # at => log'[s] = log[s],
           \A s \in Seqs : Taken(s)' <=> Taken(s) \/ s = at,
           NEW v \in Writers, v # w, writers'[v] = writers[v]
    PROVE  WriterKept(v)'
  <1>1. WriterKept(v)
    BY DEF StreamInv
  <1>2. /\ Front(v)' = Front(v) /\ UpTo(v)' = UpTo(v) /\ NextFirst(v)' = NextFirst(v)
        /\ Active(v)' = Active(v)
    BY DEF Front, UpTo, NextFirst, Active
  <1>3. \A s \in Seqs : Taken(s)' /\ log'[s].by = v => Taken(s) /\ log'[s] = log[s] /\ log[s].by = v
    OBVIOUS
  <1>4. \A s \in Seqs : Taken(s) => log'[s] = log[s]
    OBVIOUS
  <1>5. writers'[v].step = "none" => writers'[v] = Unopened /\ \A s \in Seqs : Taken(s)' => log'[s].by # v
    BY <1>1, <1>3 DEF WriterKept
  <1>6. ChainInOrder(v) => ChainInOrder(v)'
    BY <1>2 DEF ChainInOrder
  <1>7. ASSUME Appended(v)
        PROVE  Appended(v)'
    <2>1. \A s \in Seqs : s < Front(v) => Taken(s)'
      BY <1>7 DEF Appended
    <2>2. \A s \in Seqs : Taken(s)' /\ log'[s].by = v =>
            s < Front(v) /\ ~log'[s].ended /\ log'[s].first + log'[s].size <= NextFirst(v)
      BY <1>3, <1>7 DEF Appended
    <2>3. ASSUME NextFirst(v) > 1
          PROVE  \E r \in Seqs : r < Front(v) /\ PrecededBy(r, v, NextFirst(v))'
      <3>1. PICK r \in Seqs : r < Front(v) /\ PrecededBy(r, v, NextFirst(v))
        BY <1>7, <2>3 DEF Appended
      <3>2. Taken(r)' /\ log'[r] = log[r]
        BY <3>1, <1>4 DEF PrecededBy, BatchRow
      <3>. QED
        BY <3>1, <3>2, <1>2 DEF PrecededBy, BatchRow
    <2>. QED
      BY <2>1, <2>2, <2>3, <1>2 DEF Appended
  <1>. QED
    BY <1>1, <1>2, <1>5, <1>6, <1>7 DEF WriterKept

-----------------------------------------------------------------------------
(* The writer.                                                             *)

LEMMA StreamWriterMoves ==
    ASSUME StreamInv, UNCHANGED <<log, readers>>, NEW w \in Writers, NEW z \in Writer,
           writers' = [writers EXCEPT ![w] = z], WriterKept(w)'
    PROVE  StreamInv'
  <1>1. StreamShape' /\ LogHasTop' /\ RowsInOrder'
    BY DEF StreamInv, StreamShape, LogHasTop, RowsInOrder, RowsUpTo, LastBatch, BatchRow, Taken, PrecededBy
  <1>2. ASSUME NEW v \in Writers PROVE WriterKept(v)'
    <2>1. CASE v # w
      <3>1. writers'[v] = writers[v] /\ WriterKept(v)
        BY <2>1 DEF StreamInv, StreamShape
      <3>. QED
        BY <3>1 DEF WriterKept, Active, ChainInOrder, Appended, Front, UpTo, NextFirst, Taken,
                    PrecededBy, BatchRow
    <2>. QED
      BY <2>1
  <1>3. ASSUME NEW c \in Readers PROVE ReaderKept(c)'
    <2>1. ReaderKept(c)
      BY DEF StreamInv
    <2>. QED
      BY <2>1 DEF ReaderKept, Has, HasAllBefore, Following, Stored, BatchRow, EndRow, Taken
  <1>. QED
    BY <1>1, <1>2, <1>3 DEF StreamInv

\* A writer that flushes nothing, and has not more to flush before its end.
LEMMA StreamWriterStays ==
    ASSUME StreamInv, UNCHANGED <<log, readers>>, NEW w \in Writers, Active(w), NEW z \in Writer,
           writers' = [writers EXCEPT ![w] = z],
           z.seq = writers[w].seq, z.chain = writers[w].chain, z.broken = writers[w].broken,
           z.wrote - z.buffer = writers[w].wrote - writers[w].buffer, z.buffer <= z.wrote,
           z.step = "open" \/ (z.step = "ending" /\ z.buffer = 0)
    PROVE  StreamInv'
  <1>1. WriterKept(w) /\ writers'[w] = z
    BY DEF StreamInv, StreamShape
  <1>2. writers[w] \in Writer /\ OthersRoom \in Nat
    BY StreamNumbers DEF StreamInv, StreamShape
  <1>3. /\ Front(w)' = Front(w) /\ UpTo(w)' = UpTo(w) /\ NextFirst(w)' = NextFirst(w)
    BY <1>1 DEF Front, UpTo, NextFirst
  <1>4. ChainInOrder(w) => ChainInOrder(w)'
    BY <1>1, <1>3 DEF ChainInOrder
  <1>5. Appended(w) => Appended(w)'
    BY <1>3 DEF Appended, Taken, PrecededBy, BatchRow
  <1>6. z.seq <= OthersRoom + z.wrote - z.buffer
    BY <1>1, <1>2 DEF WriterKept, Writer, Active
  <1>7. WriterKept(w)'
    BY <1>1, <1>4, <1>5, <1>6 DEF WriterKept, Active
  <1>. QED
    BY <1>7, StreamWriterMoves

\* What a writer flushes goes to the end of its chain: n chunks, with the number that
\* is next.
FlushOf(x, n) == [ at |-> x.seq, first |-> x.wrote - x.buffer + 1, size |-> n ]
FlushedTo(x, n, step) ==
    [ step |-> step, seq |-> x.seq + 1, wrote |-> x.wrote - x.buffer + n, buffer |-> 0,
      chain |-> IF x.broken THEN << >> ELSE Append(x.chain, FlushOf(x, n)),
      broken |-> x.broken ]

LEMMA StreamAppend ==
    ASSUME NEW S, NEW s \in Seq(S), NEW e \in S
    PROVE  /\ Append(s, e) \in Seq(S) /\ Append(s, e) # << >>
           /\ Len(s) \in Nat /\ Len(Append(s, e)) = Len(s) + 1
           /\ DOMAIN s = 1 .. Len(s) /\ DOMAIN Append(s, e) = 1 .. Len(s) + 1
           /\ \A i \in 1 .. Len(s) : Append(s, e)[i] = s[i]
           /\ Append(s, e)[Len(s) + 1] = e
  OBVIOUS

LEMMA StreamWriterFlushes ==
    ASSUME StreamInv, UNCHANGED <<log, readers>>, NEW w \in Writers, Active(w),
           NEW n \in 1 .. FlushEvery, writers[w].wrote - writers[w].buffer + n <= LastChunk,
           NEW step \in {"open", "ending"},
           writers' = [writers EXCEPT ![w] = FlushedTo(writers[w], n, step)]
    PROVE  StreamInv'
  <1>. DEFINE x == writers[w]
              b == FlushOf(x, n)
              z == FlushedTo(x, n, step)
  <1>1. /\ WriterKept(w) /\ x \in Writer /\ writers'[w] = z /\ writers' = [writers EXCEPT ![w] = z]
    BY DEF StreamInv, StreamShape
  <1>2. /\ x.seq \in Nat /\ x.wrote \in Nat /\ x.buffer \in Nat /\ x.buffer <= x.wrote
        /\ OthersRoom \in Nat /\ LastChunk \in Nat /\ FlushEvery \in Nat \ {0}
        /\ x.chain \in Seq(Batch) /\ x.broken \in BOOLEAN
    BY <1>1, StreamNumbers, StreamAssumption, SMTT(30) DEF WriterKept, Writer
  <1>3. x.seq <= OthersRoom + x.wrote - x.buffer
    BY <1>1 DEF WriterKept
  <1>30. /\ z.seq = x.seq + 1 /\ z.wrote = x.wrote - x.buffer + n /\ z.buffer = 0 /\ z.broken = x.broken
         /\ z.chain = IF x.broken THEN << >> ELSE Append(x.chain, b)
         /\ z = [ step |-> step, seq |-> z.seq, wrote |-> z.wrote, buffer |-> z.buffer,
                  chain |-> z.chain, broken |-> z.broken ]
         /\ z.step = step
    BY DEF FlushedTo
  <1>31. b.at = x.seq /\ b.first = x.wrote - x.buffer + 1 /\ b.size = n
         /\ b = [ at |-> b.at, first |-> b.first, size |-> b.size ]
    BY DEF FlushOf
  <1>. HIDE DEF x, b, z
  <1>32. n \in Nat /\ n >= 1 /\ n <= FlushEvery /\ x.wrote - x.buffer + n <= LastChunk
    BY <1>2 DEF x
  <1>4. x.wrote - x.buffer + 1 \in 1 .. LastChunk /\ x.seq \in Seqs /\ x.seq + 1 \in Seqs
    <2>1. Seqs = 0 .. OthersRoom + LastChunk + 1
      BY StreamNumbers
    <2>2. x.seq + 1 <= OthersRoom + LastChunk + 1 /\ x.wrote - x.buffer + 1 <= LastChunk
      BY <1>2, <1>3, <1>32
    <2>. QED
      BY <1>2, <2>1, <2>2
  <1>5. b \in Batch
    BY <1>4, <1>31 DEF Batch
  <1>6. z \in Writer
    <2>1. z.chain \in Seq(Batch)
      BY <1>2, <1>30, <1>5
    <2>2. z.step \in WriterSteps /\ z.seq \in Seqs /\ z.wrote \in 0 .. LastChunk
          /\ z.buffer \in 0 .. FlushEvery - 1 /\ z.broken \in BOOLEAN
      BY <1>2, <1>30, <1>32, <1>4, SMTT(30) DEF WriterSteps
    <2>. QED
      BY <1>30, <2>1, <2>2 DEF Writer
  <1>7. z.seq <= OthersRoom + z.wrote - z.buffer
    BY <1>2, <1>3, <1>30, <1>32
  <1>8. UpTo(w)' = UpTo(w) + n /\ UpTo(w) = x.wrote - x.buffer + 1
    BY <1>1, <1>2, <1>30, <1>32 DEF UpTo, x
  <1>9. ASSUME ~x.broken
        PROVE  ChainInOrder(w)' /\ Appended(w)'
    <2>1. /\ z.chain = Append(x.chain, b) /\ Len(z.chain) = Len(x.chain) + 1 /\ Len(x.chain) \in Nat
          /\ z.chain # << >>
          /\ \A i \in 1 .. Len(x.chain) : z.chain[i] = x.chain[i]
          /\ z.chain[Len(x.chain) + 1] = b
          /\ DOMAIN z.chain = 1 .. Len(x.chain) + 1 /\ DOMAIN x.chain = 1 .. Len(x.chain)
      <3>1. z.chain = Append(x.chain, b)
        BY <1>30, <1>9
      <3>. QED
        BY <3>1, <1>2, <1>5, StreamAppend, SMTT(30)
    <2>2. ChainInOrder(w) /\ Appended(w)
      BY <1>1, <1>9 DEF WriterKept, x
    <2>3. Front(w)' = Front(w) /\ Front(w) = x.seq - Len(x.chain)
      <3>1. Front(w)' = z.seq - Len(z.chain) /\ Front(w) = x.seq - Len(x.chain)
        BY <1>1 DEF Front, x
      <3>2. /\ z.seq = x.seq + 1 /\ x.seq \in Nat
            /\ Len(z.chain) = Len(x.chain) + 1 /\ Len(x.chain) \in Nat
        BY <1>2, <1>30, <2>1
      <3>. QED
        BY <3>1, <3>2
    <2>4. NextFirst(w)' = NextFirst(w)
      <3>1. CASE x.chain = << >>
        <4>1. z.chain[1] = b
          BY <3>1, <2>1
        <4>. QED
          BY <3>1, <4>1, <1>1, <1>8, <1>31, <2>1 DEF NextFirst, x
      <3>2. CASE x.chain # << >>
        <4>1. z.chain[1] = x.chain[1]
          BY <3>2, <2>1, <1>2
        <4>. QED
          BY <3>2, <4>1, <1>1, <2>1 DEF NextFirst, x
      <3>. QED
        BY <3>1, <3>2
    <2>5. ASSUME NEW i \in DOMAIN z.chain
          PROVE  /\ z.chain[i].at = Front(w) + i - 1
                 /\ z.chain[i].first + z.chain[i].size =
                      IF i = Len(z.chain) THEN UpTo(w)' ELSE z.chain[i + 1].first
      <3>1. CASE i = Len(x.chain) + 1
        <4>1. z.chain[i].at = x.seq /\ z.chain[i].first = UpTo(w) /\ z.chain[i].size = n
          BY <3>1, <1>8, <1>31, <2>1
        <4>. QED
          BY <4>1, <3>1, <1>2, <1>8, <2>1, <2>3
      <3>2. CASE i \in 1 .. Len(x.chain)
        <4>1. /\ x.chain[i].at = Front(w) + i - 1
              /\ x.chain[i].first + x.chain[i].size =
                   IF i = Len(x.chain) THEN UpTo(w) ELSE x.chain[i + 1].first
          BY <3>2, <2>1, <2>2 DEF ChainInOrder, x
        <4>2. CASE i = Len(x.chain)
          BY <4>1, <4>2, <3>2, <1>8, <1>31, <2>1
        <4>3. CASE i # Len(x.chain)
          <5>1. i + 1 \in 1 .. Len(x.chain)
            BY <4>3, <3>2, <2>1
          <5>. QED
            BY <4>1, <4>3, <5>1, <3>2, <2>1
        <4>. QED
          BY <4>2, <4>3
      <3>. QED
        BY <3>1, <3>2, <2>1
    <2>6. Len(z.chain) <= z.seq
      BY <1>2, <1>30, <2>1, <2>2 DEF ChainInOrder, x
    <2>7. ChainInOrder(w)'
      BY <1>1, <2>3, <2>5, <2>6, SMTT(30) DEF ChainInOrder
    <2>8. Appended(w)'
      BY <2>2, <2>3, <2>4 DEF Appended, Taken, PrecededBy, BatchRow
    <2>. QED
      BY <2>7, <2>8
  <1>10. WriterKept(w)'
    BY <1>1, <1>2, <1>30, <1>7, <1>9 DEF WriterKept, Active
  <1>. QED
    BY <1>1, <1>6, <1>10, StreamWriterMoves

\* The first batch of a chain, which is the one that may be sent.
LEMMA StreamSendable ==
    ASSUME StreamInv, NEW w \in Writers, NEW i \in Sendable(w)
    PROVE  /\ i = 1 /\ Active(w) /\ ~writers[w].broken /\ ChainInOrder(w) /\ Appended(w)
           /\ writers[w].chain # << >> /\ Len(writers[w].chain) >= 1
           /\ writers[w].chain[1] \in Batch
           /\ writers[w].chain[1].at = Front(w) /\ writers[w].chain[1].first = NextFirst(w)
           /\ Front(w) \in Seqs /\ Front(w) + 1 \in Seqs
  <1>1. /\ WriterKept(w) /\ writers[w] \in Writer
        /\ i = 1 /\ i \in DOMAIN writers[w].chain
    BY DEF StreamInv, StreamShape, Sendable
  <1>2. /\ writers[w].chain \in Seq(Batch) /\ Len(writers[w].chain) \in Nat
        /\ Len(writers[w].chain) >= 1 /\ writers[w].chain # << >>
        /\ 1 \in DOMAIN writers[w].chain
        /\ writers[w].chain[1] \in Batch
    BY <1>1 DEF Writer
  <1>3. Active(w) /\ ~writers[w].broken /\ ChainInOrder(w) /\ Appended(w)
    BY <1>1, <1>2 DEF WriterKept
  <1>4. /\ Front(w) = writers[w].seq - Len(writers[w].chain)
        /\ writers[w].seq \in Nat /\ writers[w].seq \in Seqs
        /\ Len(writers[w].chain) <= writers[w].seq
        /\ writers[w].chain[1].at = Front(w) + 1 - 1
    BY <1>1, <1>2, <1>3, StreamNumbers DEF Front, Writer, ChainInOrder
  <1>5. /\ Front(w) \in Nat /\ Front(w) + 1 \in Nat
        /\ Front(w) <= writers[w].seq /\ Front(w) + 1 <= writers[w].seq
    BY <1>2, <1>4
  <1>6. Front(w) \in Seqs /\ Front(w) + 1 \in Seqs
    BY <1>4, <1>5, StreamNumbers
  <1>7. writers[w].chain[1].first = NextFirst(w)
    BY <1>2 DEF NextFirst
  <1>. QED
    BY <1>1, <1>2, <1>3, <1>4, <1>5, <1>6, <1>7

\* What comes of a writer's batch that is inserted, whether or not the answer gets through.
LEMMA StreamBatchInserted ==
    ASSUME StreamInv, NEW w \in Writers, NEW i \in Sendable(w),
           Insert(writers[w].chain[i].at, BatchOf(w, writers[w].chain[i]))
    PROVE  /\ Front(w) \in Seqs /\ ~Taken(Front(w))
           /\ BatchOf(w, writers[w].chain[1]) \in Row
           /\ log' \in [Seqs -> Row \union {Free}] /\ log'[Front(w)] = BatchOf(w, writers[w].chain[1])
           /\ \A s \in Seqs : s # Front(w) => log'[s] = log[s]
           /\ \A s \in Seqs : Taken(s)' <=> Taken(s) \/ s = Front(w)
           /\ LogHasTop' /\ RowsInOrder'
           /\ Stored \subseteq Stored'
           /\ \A id \in Stored : id[1] \in Seqs /\ id[1] < Front(w)
           /\ \A id \in Stored' : id \in Stored \/ id[1] = Front(w)
  <1>. DEFINE b == writers[w].chain[1]
              row == BatchOf(w, b)
              at == Front(w)
  <1>1. /\ i = 1 /\ Appended(w) /\ b \in Batch /\ b.at = at /\ b.first = NextFirst(w)
        /\ at \in Seqs /\ at + 1 \in Seqs
    BY StreamSendable
  <1>2. Insert(at, row)
    BY <1>1
  <1>3. /\ b.first \in 1 .. LastChunk /\ b.size \in 1 .. FlushEvery
    BY <1>1 DEF Batch
  <1>4. /\ row \in Row /\ row.by = w /\ ~row.ended /\ row.size >= 1 /\ row.first = b.first
    <2>1. /\ b.first \in 1 .. LastChunk + 1 /\ b.size \in 0 .. FlushEvery /\ b.size >= 1
      BY <1>3, StreamAssumption
    <2>. HIDE DEF b
    <2>. QED
      BY <2>1 DEF BatchOf, Row
  <1>. HIDE DEF b, row, at
  <1>5. \A s \in Seqs : s < at => Taken(s)
    BY <1>1 DEF Appended, at
  <1>6. ASSUME NEW r \in Seqs, Taken(r), log[r].by = w
        PROVE  log[r].first < row.first
    <2>1. log[r].first + log[r].size <= row.first /\ ~log[r].ended
      BY <1>1, <1>4, <1>6 DEF Appended
    <2>2. log[r].size >= 1 /\ log[r].size \in Nat /\ log[r].first \in Nat
      BY <1>6, <2>1, StreamRowIs DEF StreamInv, RowsInOrder, BatchRow
    <2>3. row.first \in Nat
      BY <1>3, <1>4, StreamAssumption
    <2>. QED
      BY <2>1, <2>2, <2>3
  <1>7. row.first > 1 => \E r \in Seqs : r < at /\ PrecededBy(r, w, row.first)
    BY <1>1, <1>4 DEF Appended, at
  <1>8. ~Taken(at)
    BY <1>2 DEF Insert
  <1>9. /\ log' \in [Seqs -> Row \union {Free}] /\ log'[at] = row
        /\ \A s \in Seqs : s # at => log'[s] = log[s]
        /\ \A s \in Seqs : Taken(s)' <=> Taken(s) \/ s = at
        /\ LogHasTop' /\ RowsInOrder'
        /\ Stored \subseteq Stored'
        /\ \A id \in Stored : id[1] \in Seqs /\ id[1] < at
        /\ \A id \in Stored' : id \in Stored \/ id[1] = at
    BY <1>1, <1>2, <1>4, <1>5, <1>6, <1>7, StreamInsertion
  <1>. QED
    BY <1>1, <1>4, <1>8, <1>9 DEF at, row, b

\* Readers as they are, but for those that wake.
ReadersOnlyWake ==
    /\ readers' \in [Readers -> Reader]
    /\ \A c \in Readers :
         /\ readers'[c].got = readers[c].got /\ readers'[c].hand = readers[c].hand
         /\ readers'[c].last = readers[c].last /\ readers'[c].cursor = readers[c].cursor
         /\ readers'[c].done = readers[c].done
         /\ \/ readers'[c].step = readers[c].step
            \/ readers[c].step = "waiting" /\ readers'[c].step = "reading"

LEMMA StreamWakes ==
    ASSUME StreamInv, Announce \/ UNCHANGED readers
    PROVE  ReadersOnlyWake
  <1>1. readers \in [Readers -> Reader]
    BY DEF StreamInv, StreamShape
  <1>2. CASE Announce
    <2>1. PICK heard \in SUBSET {c \in Readers : readers[c].step = "waiting"} :
            readers' = [c \in Readers |-> IF c \in heard THEN [readers[c] EXCEPT !.step = "reading"]
                                                          ELSE readers[c]]
      BY <1>2 DEF Announce
    <2>2. ASSUME NEW c \in Readers
          PROVE  /\ readers'[c] \in Reader
                 /\ readers'[c].got = readers[c].got /\ readers'[c].hand = readers[c].hand
                 /\ readers'[c].last = readers[c].last /\ readers'[c].cursor = readers[c].cursor
                 /\ readers'[c].done = readers[c].done
                 /\ \/ readers'[c].step = readers[c].step
                    \/ readers[c].step = "waiting" /\ readers'[c].step = "reading"
      <3>1. readers[c] \in Reader
        BY <1>1
      <3>2. CASE c \in heard
        <4>. DEFINE r == [readers[c] EXCEPT !.step = "reading"]
        <4>1. readers'[c] = r /\ readers[c].step = "waiting"
          BY <2>1, <3>2
        <4>2. /\ r \in Reader /\ r.got = readers[c].got /\ r.hand = readers[c].hand
              /\ r.last = readers[c].last /\ r.cursor = readers[c].cursor
              /\ r.done = readers[c].done /\ r.step = "reading"
          BY <3>1 DEF Reader, ReaderSteps
        <4>. HIDE DEF r
        <4>. QED
          BY <4>1, <4>2
      <3>3. CASE c \notin heard
        BY <2>1, <3>1, <3>3
      <3>. QED
        BY <3>2, <3>3
    <2>3. readers' \in [Readers -> Reader]
      BY <2>1, <2>2
    <2>. QED
      BY <2>2, <2>3 DEF ReadersOnlyWake
  <1>3. CASE UNCHANGED readers
    BY <1>1, <1>3 DEF ReadersOnlyWake
  <1>. QED
    BY <1>2, <1>3

\* A row more, the writer it is of, and whoever it wakes.
LEMMA StreamGrows ==
    ASSUME StreamInv, NEW w \in Writers, NEW at \in Seqs, NEW row \in Row, row.by = w, ~Taken(at),
           log' \in [Seqs -> Row \union {Free}], log'[at] = row,
           \A s \in Seqs : s # at => log'[s] = log[s],
           \A s \in Seqs : Taken(s)' <=> Taken(s) \/ s = at,
           LogHasTop', RowsInOrder',
           Stored \subseteq Stored',
           \A id \in Stored : id[1] \in Seqs /\ id[1] < at,
           \A id \in Stored' : id \in Stored \/ id[1] = at,
           ReadersOnlyWake, NEW z \in Writer, writers' = [writers EXCEPT ![w] = z], WriterKept(w)'
    PROVE  StreamInv'
  <1>1. StreamShape'
    BY DEF StreamInv, StreamShape, ReadersOnlyWake
  <1>2. ASSUME NEW c \in Readers PROVE ReaderKept(c)'
    BY StreamReaderSees DEF ReadersOnlyWake
  <1>3. ASSUME NEW v \in Writers PROVE WriterKept(v)'
    <2>1. CASE v # w
      <3>1. writers'[v] = writers[v]
        BY <2>1 DEF StreamInv, StreamShape
      <3>. QED
        BY <2>1, <3>1, StreamOtherWriter
    <2>. QED
      BY <2>1
  <1>. QED
    BY <1>1, <1>2, <1>3 DEF StreamInv

LEMMA StreamWithoutFirst ==
    ASSUME NEW S, NEW s \in Seq(S), Len(s) >= 1
    PROVE  /\ WithoutBatch(s, 1) \in Seq(S) /\ Len(WithoutBatch(s, 1)) = Len(s) - 1
           /\ \A k \in 1 .. Len(s) - 1 : WithoutBatch(s, 1)[k] = s[k + 1]
  <1>1. SubSeq(s, 1, 1 - 1) = << >>
    OBVIOUS
  <1>2. /\ SubSeq(s, 1 + 1, Len(s)) \in Seq(S) /\ Len(SubSeq(s, 1 + 1, Len(s))) = Len(s) - 1
        /\ \A k \in 1 .. Len(s) - 1 : SubSeq(s, 1 + 1, Len(s))[k] = s[k + 1]
    <2>. DEFINE t == SubSeq(s, 1 + 1, Len(s))
    <2>1. Len(s) \in Nat /\ Len(s) \in Int /\ 1 + 1 \in Int /\ \A i \in (1 + 1) .. Len(s) : s[i] \in S
      OBVIOUS
    <2>20. /\ t \in Seq(S) /\ Len(t) = IF 1 + 1 <= Len(s) THEN Len(s) - (1 + 1) + 1 ELSE 0
           /\ \A k \in 1 .. Len(s) - (1 + 1) + 1 : t[k] = s[(1 + 1) + k - 1]
      BY <2>1, SubSeqProperties
    <2>2. /\ t \in Seq(S) /\ Len(t) = Len(s) - (1 + 1) + 1
          /\ \A k \in 1 .. Len(s) - (1 + 1) + 1 : t[k] = s[(1 + 1) + k - 1]
      <3>. HIDE DEF t
      <3>0. \A n \in Nat : n >= 1 => (IF 1 + 1 <= n THEN n - (1 + 1) + 1 ELSE 0) = n - (1 + 1) + 1
        OBVIOUS
      <3>1. (IF 1 + 1 <= Len(s) THEN Len(s) - (1 + 1) + 1 ELSE 0) = Len(s) - (1 + 1) + 1
        BY <2>1, <3>0, Zenon
      <3>. QED
        BY <2>20, <3>1
    <2>. HIDE DEF t
    <2>3. Len(s) - (1 + 1) + 1 = Len(s) - 1 /\ \A k \in 1 .. Len(s) - 1 : (1 + 1) + k - 1 = k + 1
      BY <2>1
    <2>4. \A k \in 1 .. Len(s) - 1 : t[k] = s[k + 1]
      BY <2>2, <2>3
    <2>. QED
      BY <2>2, <2>3, <2>4 DEF t
  <1>3. << >> \o SubSeq(s, 1 + 1, Len(s)) = SubSeq(s, 1 + 1, Len(s))
    BY <1>2
  <1>. QED
    BY <1>1, <1>2, <1>3 DEF WithoutBatch

LEMMA StreamAppendStep ==
    ASSUME StreamInv, NEW w \in Writers, AppendBatch(w)
    PROVE  StreamInv'
  <1>1. PICK i \in Sendable(w) :
          /\ Insert(writers[w].chain[i].at, BatchOf(w, writers[w].chain[i]))
          /\ writers' = [writers EXCEPT ![w].chain = WithoutBatch(writers[w].chain, i)]
          /\ Announce
    BY DEF AppendBatch
  <1>. DEFINE x == writers[w]
              b == x.chain[1]
              row == BatchOf(w, b)
              at == Front(w)
              ch == WithoutBatch(x.chain, 1)
              z == [x EXCEPT !.chain = ch]
  <1>2. /\ i = 1 /\ Active(w) /\ ~x.broken /\ ChainInOrder(w) /\ Appended(w)
        /\ Len(x.chain) >= 1 /\ b \in Batch /\ b.first = NextFirst(w) /\ at \in Seqs /\ at + 1 \in Seqs
    BY StreamSendable
  <1>3. /\ ~Taken(at) /\ row \in Row
        /\ log' \in [Seqs -> Row \union {Free}] /\ log'[at] = row
        /\ \A s \in Seqs : s # at => log'[s] = log[s]
        /\ \A s \in Seqs : Taken(s)' <=> Taken(s) \/ s = at
        /\ LogHasTop' /\ RowsInOrder'
        /\ Stored \subseteq Stored'
        /\ \A id \in Stored : id[1] \in Seqs /\ id[1] < at
        /\ \A id \in Stored' : id \in Stored \/ id[1] = at
    BY <1>1, StreamBatchInserted
  <1>4. /\ x \in Writer /\ WriterKept(w) /\ x.chain \in Seq(Batch) /\ x.seq \in Nat /\ Len(x.chain) \in Nat
        /\ DOMAIN x.chain = 1 .. Len(x.chain)
    <2>1. x \in Writer /\ WriterKept(w)
      BY DEF StreamInv, StreamShape
    <2>2. x.chain \in Seq(Batch) /\ x.seq \in Nat
      BY <2>1, StreamNumbers DEF Writer
    <2>. QED
      BY <2>1, <2>2
  <1>5. /\ ch \in Seq(Batch) /\ Len(ch) = Len(x.chain) - 1
        /\ \A k \in 1 .. Len(x.chain) - 1 : ch[k] = x.chain[k + 1]
        /\ DOMAIN ch = 1 .. Len(x.chain) - 1
    BY <1>2, <1>4, StreamWithoutFirst
  <1>. HIDE DEF ch
  <1>6. /\ z \in Writer /\ z.step = x.step /\ z.seq = x.seq /\ z.wrote = x.wrote /\ z.buffer = x.buffer
        /\ z.broken = x.broken /\ z.chain = ch
    BY <1>4, <1>5 DEF Writer
  <1>7. writers' = [writers EXCEPT ![w] = z] /\ writers'[w] = z
    BY <1>1, <1>2, <1>4 DEF ch, StreamInv, StreamShape
  <1>8. row.by = w /\ row.first = b.first /\ row.size = b.size /\ ~row.ended
    BY DEF BatchOf
  <1>9. /\ at \in Nat /\ at = x.seq - Len(x.chain)
        /\ b.first \in Nat /\ b.size \in Nat /\ b.size >= 1
    <2>1. at \in Nat /\ at = x.seq - Len(x.chain)
      BY <1>2, StreamNumbers DEF Front
    <2>2. b.first \in 1 .. LastChunk /\ b.size \in 1 .. FlushEvery
      BY <1>2 DEF Batch
    <2>. QED
      BY <2>1, <2>2, StreamAssumption
  <1>. HIDE DEF z, row, at, b
  <1>10. Front(w)' = z.seq - Len(z.chain) /\ UpTo(w)' = UpTo(w)
    BY <1>6, <1>7 DEF Front, UpTo
  <1>11. Front(w)' = at + 1
    <2>1. Len(z.chain) = Len(x.chain) - 1 /\ z.seq = x.seq
      BY <1>5, <1>6
    <2>. HIDE DEF x
    <2>. QED
      BY <2>1, <1>4, <1>9, <1>10
  <1>12. \A k \in 1 .. Len(x.chain) :
           /\ x.chain[k].at = at + k - 1
           /\ x.chain[k].first + x.chain[k].size =
                IF k = Len(x.chain) THEN UpTo(w) ELSE x.chain[k + 1].first
    BY <1>2, <1>4 DEF ChainInOrder, at
  <1>13. NextFirst(w)' = b.first + b.size
    <2>1. b.first + b.size = IF 1 = Len(x.chain) THEN UpTo(w) ELSE x.chain[1 + 1].first
      <3>1. 1 \in 1 .. Len(x.chain)
        BY <1>2, <1>4
      <3>. QED
        BY <3>1, <1>12 DEF b
    <2>2. CASE Len(x.chain) = 1
      <3>1. z.chain = << >>
        BY <2>2, <1>5, <1>6
      <3>. QED
        BY <3>1, <2>1, <2>2, <1>7, <1>10 DEF NextFirst
    <2>3. CASE Len(x.chain) # 1
      <3>1. z.chain # << >> /\ z.chain[1] = x.chain[2]
        <4>0. \A n \in Nat : n >= 1 /\ n # 1 => 1 \in 1 .. n - 1 /\ 1 + 1 = 2
          OBVIOUS
        <4>1. 1 \in 1 .. Len(x.chain) - 1 /\ 1 + 1 = 2
          BY <4>0, <2>3, <1>2, <1>4, Zenon
        <4>. QED
          BY <4>1, <1>5, <1>6
      <3>. QED
        BY <3>1, <2>1, <2>3, <1>7 DEF NextFirst
    <2>. QED
      BY <2>2, <2>3
  <1>14. ChainInOrder(w)'
    <2>1. Len(z.chain) <= z.seq
      BY <1>2, <1>4, <1>5, <1>6 DEF ChainInOrder
    <2>2. ASSUME NEW k \in 1 .. Len(x.chain) - 1
          PROVE  /\ ch[k].at = at + 1 + k - 1
                 /\ ch[k].first + ch[k].size =
                      IF k = Len(x.chain) - 1 THEN UpTo(w) ELSE ch[k + 1].first
      <3>1. k + 1 \in 1 .. Len(x.chain) /\ k \in Nat /\ ch[k] = x.chain[k + 1]
        BY <1>4, <1>5
      <3>2. /\ ch[k].at = at + (k + 1) - 1
            /\ ch[k].first + ch[k].size =
                 IF k + 1 = Len(x.chain) THEN UpTo(w) ELSE x.chain[(k + 1) + 1].first
        BY <3>1, <1>12
      <3>3. k # Len(x.chain) - 1 => ch[k + 1] = x.chain[(k + 1) + 1]
        BY <3>1, <1>4, <1>5
      <3>4. at + (k + 1) - 1 = at + 1 + k - 1 /\ (k + 1 = Len(x.chain) <=> k = Len(x.chain) - 1)
        BY <3>1, <1>4, <1>9
      <3>. QED
        BY <3>2, <3>3, <3>4
    <2>3. /\ z.chain = ch /\ DOMAIN z.chain = 1 .. Len(x.chain) - 1
          /\ Len(z.chain) = Len(x.chain) - 1
      BY <1>5, <1>6
    <2>4. \A k \in DOMAIN z.chain :
            /\ z.chain[k].at = Front(w)' + k - 1
            /\ z.chain[k].first + z.chain[k].size =
                 IF k = Len(z.chain) THEN UpTo(w)' ELSE z.chain[k + 1].first
      BY <2>2, <2>3, <1>10, <1>11
    <2>. QED
      BY <2>1, <2>4, <1>7 DEF ChainInOrder
  <1>15. Appended(w)'
    <2>1. ASSUME NEW s \in Seqs, s < at + 1
          PROVE  Taken(s)'
      <3>1. s \in Nat
        BY StreamNumbers
      <3>2. s < at \/ s = at
        BY <2>1, <3>1, <1>9
      <3>. QED
        BY <3>2, <1>2, <1>3 DEF Appended, at
    <2>2. ASSUME NEW s \in Seqs, Taken(s)', log'[s].by = w
          PROVE  s < at + 1 /\ ~log'[s].ended /\ log'[s].first + log'[s].size <= b.first + b.size
      <3>1. CASE s = at
        BY <3>1, <1>3, <1>8, <1>9
      <3>2. CASE s # at
        <4>1. Taken(s) /\ log'[s] = log[s]
          BY <3>2, <2>2, <1>3
        <4>2. s < at /\ ~log[s].ended /\ log[s].first + log[s].size <= b.first
          BY <4>1, <2>2, <1>2 DEF Appended, at
        <4>3. s \in Nat /\ log[s].first \in Nat /\ log[s].size \in Nat
          BY <4>1, StreamNumbers, StreamRowIs DEF StreamInv
        <4>. QED
          BY <4>1, <4>2, <4>3, <1>9
      <3>. QED
        BY <3>1, <3>2
    <2>3. \E r \in Seqs : /\ r < at + 1 /\ Taken(r)' /\ ~log'[r].ended /\ log'[r].by = w
                           /\ log'[r].first + log'[r].size = b.first + b.size
      BY <1>2, <1>3, <1>8, <1>9
    <2>4. /\ \A s \in Seqs : s < Front(w)' => Taken(s)'
          /\ \A s \in Seqs : Taken(s)' /\ log'[s].by = w =>
                s < Front(w)' /\ ~log'[s].ended /\ log'[s].first + log'[s].size <= NextFirst(w)'
      BY <2>1, <2>2, <1>11, <1>13
    <2>5. \E r \in Seqs : /\ r < Front(w)' /\ Taken(r)' /\ ~log'[r].ended /\ log'[r].by = w
                           /\ log'[r].first + log'[r].size = NextFirst(w)'
      BY <2>3, <1>11, <1>13
    <2>. QED
      BY <2>4, <2>5 DEF Appended, PrecededBy, BatchRow
  <1>16. WriterKept(w)'
    BY <1>2, <1>4, <1>6, <1>7, <1>14, <1>15 DEF WriterKept, Active
  <1>17. ReadersOnlyWake
    BY <1>1, StreamWakes
  <1>. QED
    BY <1>2, <1>3, <1>6, <1>7, <1>8, <1>16, <1>17, StreamGrows

\* A writer that gives up, whether its append was refused or its answer was lost.
LEMMA StreamAppendThrowsStep ==
    ASSUME StreamInv, NEW w \in Writers, AppendThrows(w)
    PROVE  StreamInv'
  <1>1. PICK i \in Sendable(w) :
          /\ \/ UNCHANGED log
             \/ Insert(writers[w].chain[i].at, BatchOf(w, writers[w].chain[i]))
          /\ writers' = [writers EXCEPT ![w].chain = <<>>, ![w].broken = TRUE]
          /\ UNCHANGED readers
    BY DEF AppendThrows
  <1>. DEFINE x == writers[w]
              z == [x EXCEPT !.chain = <<>>, !.broken = TRUE]
              row == BatchOf(w, x.chain[1])
              at == Front(w)
  <1>2. /\ x \in Writer /\ WriterKept(w) /\ writers \in [Writers -> Writer]
    BY DEF StreamInv, StreamShape
  <1>3. /\ z \in Writer /\ z.step = x.step /\ z.seq = x.seq /\ z.wrote = x.wrote /\ z.buffer = x.buffer
        /\ z.chain = <<>> /\ z.broken
    <2>1. <<>> \in Seq(Batch) /\ TRUE \in BOOLEAN
      OBVIOUS
    <2>2. z.step = x.step /\ z.seq = x.seq /\ z.wrote = x.wrote /\ z.buffer = x.buffer
      BY <1>2 DEF Writer
    <2>3. z.chain = <<>> /\ z.broken
      BY <1>2 DEF Writer
    <2>4. z \in Writer
      BY <1>2, <2>1 DEF Writer
    <2>. QED
      BY <2>2, <2>3, <2>4
  <1>4. writers' = [writers EXCEPT ![w] = z] /\ writers'[w] = z
    BY <1>1, <1>2
  <1>5. Active(w) /\ at \in Seqs
    BY StreamSendable
  <1>. HIDE DEF z
  <1>6. WriterKept(w)'
    BY <1>2, <1>3, <1>4, <1>5 DEF WriterKept, Active
  <1>7. CASE UNCHANGED log
    BY <1>1, <1>3, <1>4, <1>6, <1>7, StreamWriterMoves
  <1>8. CASE Insert(writers[w].chain[i].at, BatchOf(w, writers[w].chain[i]))
    <2>1. /\ ~Taken(at) /\ row \in Row
          /\ log' \in [Seqs -> Row \union {Free}] /\ log'[at] = row
          /\ \A s \in Seqs : s # at => log'[s] = log[s]
          /\ \A s \in Seqs : Taken(s)' <=> Taken(s) \/ s = at
          /\ LogHasTop' /\ RowsInOrder'
          /\ Stored \subseteq Stored'
          /\ \A id \in Stored : id[1] \in Seqs /\ id[1] < at
          /\ \A id \in Stored' : id \in Stored \/ id[1] = at
      BY <1>8, StreamBatchInserted
    <2>2. row.by = w
      BY DEF BatchOf
    <2>3. ReadersOnlyWake
      BY <1>1, StreamWakes
    <2>. HIDE DEF row, at
    <2>. QED
      BY <1>3, <1>4, <1>5, <1>6, <2>1, <2>2, <2>3, StreamGrows
  <1>. QED
    BY <1>1, <1>7, <1>8

\* What comes of an end that is inserted.
LEMMA StreamEndInserted ==
    ASSUME StreamInv, NEW w \in Writers, writers[w].step = "ending", ChainSettled(w),
           Insert(writers[w].seq, EndOf(w))
    PROVE  /\ writers[w].seq \in Seqs /\ writers[w].seq + 1 \in Seqs /\ ~Taken(writers[w].seq)
           /\ EndOf(w) \in Row /\ EndOf(w).by = w
           /\ log' \in [Seqs -> Row \union {Free}] /\ log'[writers[w].seq] = EndOf(w)
           /\ \A s \in Seqs : s # writers[w].seq => log'[s] = log[s]
           /\ \A s \in Seqs : Taken(s)' <=> Taken(s) \/ s = writers[w].seq
           /\ LogHasTop' /\ RowsInOrder'
           /\ Stored \subseteq Stored'
           /\ \A id \in Stored : id[1] \in Seqs /\ id[1] < writers[w].seq
           /\ \A id \in Stored' : id \in Stored \/ id[1] = writers[w].seq
  <1>. DEFINE row == EndOf(w)
              at == writers[w].seq
  <1>1. /\ writers[w] \in Writer /\ WriterKept(w) /\ writers[w].chain = <<>> /\ ~writers[w].broken
    BY DEF StreamInv, StreamShape, ChainSettled
  <1>2. /\ Appended(w) /\ writers[w].buffer = 0 /\ at <= OthersRoom + writers[w].wrote - writers[w].buffer
        /\ writers[w].wrote \in 0 .. LastChunk /\ at \in Seqs
    BY <1>1 DEF WriterKept, Active, Writer
  <1>3. /\ Front(w) = at /\ NextFirst(w) = writers[w].wrote + 1
    <2>1. Len(writers[w].chain) = 0 /\ at \in Nat /\ writers[w].wrote \in Nat
      BY <1>1, <1>2, StreamNumbers, StreamAssumption
    <2>. QED
      BY <2>1, <1>1, <1>2 DEF Front, NextFirst, UpTo
  <1>4. /\ row \in Row /\ row.by = w /\ row.ended /\ row.first = NextFirst(w)
    <2>1. writers[w].wrote + 1 \in 1 .. LastChunk + 1 /\ 0 \in 0 .. FlushEvery
      BY <1>2, StreamAssumption
    <2>. QED
      BY <2>1, <1>3 DEF EndOf, Row
  <1>5. at + 1 \in Seqs
    <2>1. Seqs = 0 .. OthersRoom + LastChunk + 1 /\ OthersRoom \in Nat /\ LastChunk \in Nat
      BY StreamNumbers, StreamAssumption
    <2>. QED
      BY <2>1, <1>2
  <1>6. Insert(at, row)
    OBVIOUS
  <1>. HIDE DEF row, at
  <1>7. \A s \in Seqs : s < at => Taken(s)
    BY <1>2, <1>3 DEF Appended
  <1>8. ASSUME NEW r \in Seqs, Taken(r), log[r].by = w
        PROVE  log[r].first < row.first
    <2>1. log[r].first + log[r].size <= row.first /\ ~log[r].ended
      BY <1>2, <1>4, <1>8 DEF Appended
    <2>2. log[r].size >= 1 /\ log[r].size \in Nat /\ log[r].first \in Nat
      BY <1>8, <2>1, StreamRowIs DEF StreamInv, RowsInOrder, BatchRow
    <2>3. row.first \in Nat
      BY <1>2, <1>3, <1>4, StreamAssumption
    <2>. QED
      BY <2>1, <2>2, <2>3
  <1>9. row.first > 1 => \E r \in Seqs : r < at /\ PrecededBy(r, w, row.first)
    BY <1>2, <1>3, <1>4 DEF Appended
  <1>10. ~Taken(at)
    BY <1>6 DEF Insert
  <1>11. /\ log' \in [Seqs -> Row \union {Free}] /\ log'[at] = row
         /\ \A s \in Seqs : s # at => log'[s] = log[s]
         /\ \A s \in Seqs : Taken(s)' <=> Taken(s) \/ s = at
         /\ LogHasTop' /\ RowsInOrder'
         /\ Stored \subseteq Stored'
         /\ \A id \in Stored : id[1] \in Seqs /\ id[1] < at
         /\ \A id \in Stored' : id \in Stored \/ id[1] = at
    BY <1>2, <1>4, <1>5, <1>6, <1>7, <1>8, <1>9, StreamInsertion
  <1>. QED
    BY <1>2, <1>4, <1>5, <1>10, <1>11 DEF at, row

\* A writer that is no longer active promises nothing.
LEMMA StreamWriterOver ==
    ASSUME StreamInv, NEW w \in Writers, NEW z \in Writer, writers' = [writers EXCEPT ![w] = z],
           z.buffer <= z.wrote, z.chain = <<>>, z.step \in {"ended", "failed", "gone"}
    PROVE  WriterKept(w)'
  <1>1. writers'[w] = z
    BY DEF StreamInv, StreamShape
  <1>. QED
    BY <1>1 DEF WriterKept, Active

LEMMA StreamMarkEndStep ==
    ASSUME StreamInv, NEW w \in Writers, MarkEnd(w)
    PROVE  StreamInv'
  <1>. DEFINE x == writers[w]
              z == [x EXCEPT !.step = "ended", !.seq = x.seq + 1]
  <1>1. /\ x.step = "ending" /\ ChainSettled(w) /\ Insert(x.seq, EndOf(w)) /\ Announce
        /\ writers' = [writers EXCEPT ![w].step = "ended", ![w].seq = x.seq + 1]
    BY DEF MarkEnd
  <1>2. x \in Writer /\ WriterKept(w) /\ writers \in [Writers -> Writer] /\ x.chain = <<>>
    BY <1>1 DEF StreamInv, StreamShape, ChainSettled
  <1>3. /\ x.seq \in Seqs /\ x.seq + 1 \in Seqs /\ ~Taken(x.seq)
        /\ EndOf(w) \in Row /\ EndOf(w).by = w
        /\ log' \in [Seqs -> Row \union {Free}] /\ log'[x.seq] = EndOf(w)
        /\ \A s \in Seqs : s # x.seq => log'[s] = log[s]
        /\ \A s \in Seqs : Taken(s)' <=> Taken(s) \/ s = x.seq
        /\ LogHasTop' /\ RowsInOrder'
        /\ Stored \subseteq Stored'
        /\ \A id \in Stored : id[1] \in Seqs /\ id[1] < x.seq
        /\ \A id \in Stored' : id \in Stored \/ id[1] = x.seq
    BY <1>1, StreamEndInserted
  <1>4. /\ z \in Writer /\ z.step = "ended" /\ z.chain = <<>> /\ z.buffer <= z.wrote
    BY <1>2, <1>3 DEF Writer, WriterSteps, WriterKept
  <1>5. writers' = [writers EXCEPT ![w] = z]
    BY <1>1, <1>2
  <1>. HIDE DEF z
  <1>6. WriterKept(w)'
    BY <1>4, <1>5, StreamWriterOver
  <1>7. ReadersOnlyWake
    BY <1>1, StreamWakes
  <1>. QED
    BY <1>3, <1>4, <1>5, <1>6, <1>7, StreamGrows

LEMMA StreamEndThrowsStep ==
    ASSUME StreamInv, NEW w \in Writers, EndThrows(w)
    PROVE  StreamInv'
  <1>. DEFINE x == writers[w]
              z == [x EXCEPT !.step = "failed"]
  <1>1. /\ x.step = "ending" /\ x.chain = <<>> /\ UNCHANGED readers
        /\ writers' = [writers EXCEPT ![w].step = "failed"]
    BY DEF EndThrows
  <1>2. x \in Writer /\ WriterKept(w) /\ writers \in [Writers -> Writer]
    BY DEF StreamInv, StreamShape
  <1>3. /\ z \in Writer /\ z.step = "failed" /\ z.chain = <<>> /\ z.buffer <= z.wrote
    BY <1>1, <1>2 DEF Writer, WriterSteps, WriterKept
  <1>4. writers' = [writers EXCEPT ![w] = z]
    BY <1>1, <1>2
  <1>. HIDE DEF z
  <1>5. WriterKept(w)'
    BY <1>3, <1>4, StreamWriterOver
  <1>6. CASE UNCHANGED log
    BY <1>1, <1>3, <1>4, <1>5, <1>6, StreamWriterMoves
  <1>7. CASE ChainSettled(w) /\ Insert(x.seq, EndOf(w))
    <2>1. /\ x.seq \in Seqs /\ ~Taken(x.seq)
          /\ EndOf(w) \in Row /\ EndOf(w).by = w
          /\ log' \in [Seqs -> Row \union {Free}] /\ log'[x.seq] = EndOf(w)
          /\ \A s \in Seqs : s # x.seq => log'[s] = log[s]
          /\ \A s \in Seqs : Taken(s)' <=> Taken(s) \/ s = x.seq
          /\ LogHasTop' /\ RowsInOrder'
          /\ Stored \subseteq Stored'
          /\ \A id \in Stored : id[1] \in Seqs /\ id[1] < x.seq
          /\ \A id \in Stored' : id \in Stored \/ id[1] = x.seq
      BY <1>1, <1>7, StreamEndInserted
    <2>2. ReadersOnlyWake
      BY <1>1, StreamWakes
    <2>. QED
      BY <1>3, <1>4, <1>5, <2>1, <2>2, StreamGrows
  <1>. QED
    BY <1>6, <1>7 DEF EndThrows

LEMMA StreamHead ==
    ASSUME StreamInv
    PROVE  HeadSeq \in Seqs /\ RowsUpTo(HeadSeq)
  <1>1. PICK h \in Seqs : RowsUpTo(h)
    BY DEF StreamInv, LogHasTop
  <1>2. h \in Nat /\ Seqs \subseteq Nat
    BY StreamNumbers
  <1>3. CASE h = 0
    <2>1. ~ \E s \in Seqs : Taken(s)
      BY <1>1, <1>2, <1>3 DEF RowsUpTo
    <2>. QED
      BY <2>1, <1>1, <1>3 DEF HeadSeq
  <1>4. CASE h # 0
    <2>1. h - 1 \in Seqs /\ h - 1 < h
      BY <1>2, <1>4, StreamNumbers
    <2>2. Taken(h - 1) /\ \A r \in Seqs : Taken(r) => r <= h - 1
      BY <1>1, <1>2, <2>1 DEF RowsUpTo
    <2>. DEFINE top == CHOOSE s \in Seqs : Taken(s) /\ \A r \in Seqs : Taken(r) => r <= s
    <2>3. top \in Seqs /\ Taken(top) /\ \A r \in Seqs : Taken(r) => r <= top
      BY <2>1, <2>2
    <2>4. HeadSeq = 1 + top
      BY <2>1, <2>2 DEF HeadSeq
    <2>. HIDE DEF top
    <2>5. h - 1 <= top /\ top <= h - 1
      BY <2>1, <2>2, <2>3
    <2>6. HeadSeq = h
      BY <2>3, <2>4, <2>5, <1>2
    <2>. QED
      BY <2>6, <1>1
  <1>. QED
    BY <1>3, <1>4

LEMMA StreamOpenStep ==
    ASSUME StreamInv, NEW w \in Writers, OpenStream(w)
    PROVE  StreamInv'
  <1>. DEFINE x == writers[w]
              z == [x EXCEPT !.step = "open", !.seq = HeadSeq]
  <1>1. /\ x.step = "none" /\ UNCHANGED <<log, readers>>
        /\ writers' = [writers EXCEPT ![w].step = "open", ![w].seq = HeadSeq]
    BY DEF OpenStream
  <1>2. /\ x \in Writer /\ WriterKept(w) /\ writers \in [Writers -> Writer]
        /\ StreamShape /\ RowsInOrder
    BY DEF StreamInv, StreamShape
  <1>3. /\ x = Unopened /\ \A s \in Seqs : Taken(s) => log[s].by # w
    BY <1>1, <1>2 DEF WriterKept
  <1>4. HeadSeq \in Seqs /\ RowsUpTo(HeadSeq) /\ HeadSeq \in Nat
    BY StreamHead, StreamNumbers
  <1>5. HeadSeq <= OthersRoom
    BY <1>2, <1>3, <1>4, StreamCount
  <1>6. /\ z.step = "open" /\ z.seq = HeadSeq /\ z.wrote = 0 /\ z.buffer = 0 /\ z.chain = <<>> /\ ~z.broken
    BY <1>3 DEF Unopened
  <1>7. z \in Writer
    BY <1>2, <1>4 DEF Writer, WriterSteps
  <1>8. writers' = [writers EXCEPT ![w] = z] /\ writers'[w] = z
    BY <1>1, <1>2
  <1>. HIDE DEF z
  <1>9. /\ Front(w)' = z.seq /\ UpTo(w)' = 1 /\ NextFirst(w)' = 1
    <2>1. Len(z.chain) = 0
      BY <1>6
    <2>. QED
      BY <2>1, <1>4, <1>6, <1>8 DEF Front, UpTo, NextFirst
  <1>10. ChainInOrder(w)'
    <2>1. Len(z.chain) = 0 /\ DOMAIN z.chain = {}
      BY <1>6
    <2>. QED
      BY <2>1, <1>4, <1>6, <1>8 DEF ChainInOrder
  <1>11. Appended(w)'
    <2>1. \A s \in Seqs : Taken(s)' <=> Taken(s)
      BY <1>1 DEF Taken
    <2>2. \A s \in Seqs : s < Front(w)' => Taken(s)'
      BY <2>1, <1>4, <1>6, <1>9 DEF RowsUpTo
    <2>3. \A s \in Seqs : Taken(s)' => log'[s].by # w
      BY <2>1, <1>1, <1>3
    <2>. QED
      BY <2>2, <2>3, <1>9 DEF Appended
  <1>12. z.seq <= OthersRoom + z.wrote - z.buffer
    BY <1>2, <1>4, <1>5, <1>6, StreamNumbers
  <1>13. WriterKept(w)'
    BY <1>6, <1>8, <1>10, <1>11, <1>12 DEF WriterKept, Active
  <1>. QED
    BY <1>1, <1>7, <1>8, <1>13, StreamWriterMoves

LEMMA StreamWriteStep ==
    ASSUME StreamInv, NEW w \in Writers, Write(w)
    PROVE  StreamInv'
  <1>. DEFINE x == writers[w]
              y == [x EXCEPT !.wrote = x.wrote + 1, !.buffer = x.buffer + 1]
  <1>1. /\ x.step = "open" /\ x.wrote < LastChunk /\ UNCHANGED <<log, readers>> /\ Active(w)
        /\ writers' = [writers EXCEPT ![w] = IF y.buffer >= FlushEvery THEN Flushed(y) ELSE y]
    BY DEF Write, Active
  <1>2. /\ x \in Writer /\ x.buffer <= x.wrote
    BY DEF StreamInv, StreamShape, WriterKept
  <1>3. /\ x.wrote \in Nat /\ x.buffer \in Nat /\ x.buffer + 1 <= FlushEvery /\ x.wrote + 1 <= LastChunk
        /\ LastChunk \in Nat /\ FlushEvery \in Nat /\ FlushEvery >= 1 /\ x.broken \in BOOLEAN
    BY <1>1, <1>2, StreamAssumption DEF Writer
  <1>4. /\ y.step = "open" /\ y.seq = x.seq /\ y.wrote = x.wrote + 1 /\ y.buffer = x.buffer + 1
        /\ y.chain = x.chain /\ y.broken = x.broken
        /\ y = [ step |-> y.step, seq |-> y.seq, wrote |-> y.wrote, buffer |-> y.buffer,
                 chain |-> y.chain, broken |-> y.broken ]
    <2>1. y.step = "open" /\ y.seq = x.seq /\ y.chain = x.chain
      BY <1>1, <1>2 DEF Writer
    <2>2. y.wrote = x.wrote + 1 /\ y.buffer = x.buffer + 1
      BY <1>2 DEF Writer
    <2>3. y.broken = x.broken
      BY <1>2 DEF Writer
    <2>4. y \in [ step : WriterSteps, seq : Seqs, wrote : Nat, buffer : Nat, chain : Seq(Batch), broken : BOOLEAN ]
      <3>. DEFINE a == x.wrote + 1
                  b == x.buffer + 1
      <3>1. a \in Nat /\ b \in Nat
        BY <1>3
      <3>2. 0 .. LastChunk \subseteq Nat /\ 0 .. FlushEvery - 1 \subseteq Nat
        BY <1>3
      <3>. HIDE DEF a, b
      <3>3. [x EXCEPT !.wrote = a, !.buffer = b] \in
              [ step : WriterSteps, seq : Seqs, wrote : Nat, buffer : Nat, chain : Seq(Batch), broken : BOOLEAN ]
        BY <1>2, <3>1, <3>2 DEF Writer
      <3>. QED
        BY <3>3 DEF a, b
    <2>. HIDE DEF y
    <2>5. y = [ step |-> y.step, seq |-> y.seq, wrote |-> y.wrote, buffer |-> y.buffer,
                chain |-> y.chain, broken |-> y.broken ]
      BY <2>4
    <2>. QED
      BY <2>1, <2>2, <2>3, <2>5
  <1>5. CASE y.buffer >= FlushEvery
    <2>. DEFINE n == x.buffer + 1
    <2>1. n \in 1 .. FlushEvery /\ x.wrote - x.buffer + n = x.wrote + 1 /\ n # 0
          /\ x.wrote + 1 - n + 1 = x.wrote - x.buffer + 1
      BY <1>3
    <2>2. Flushed(y) = FlushedTo(x, n, "open")
      <3>. HIDE DEF y
      <3>1. Flushed(y) = [y EXCEPT !.seq = y.seq + 1, !.buffer = 0,
                            !.chain = IF y.broken THEN <<>>
                                      ELSE Append(y.chain, [ at |-> y.seq,
                                                             first |-> y.wrote - y.buffer + 1,
                                                             size |-> y.buffer ])]
        BY <2>1, <1>4 DEF Flushed
      <3>2. Flushed(y) = [ step |-> y.step, seq |-> y.seq + 1, wrote |-> y.wrote, buffer |-> 0,
                           chain |-> IF y.broken THEN <<>>
                                     ELSE Append(y.chain, [ at |-> y.seq,
                                                            first |-> y.wrote - y.buffer + 1,
                                                            size |-> y.buffer ]),
                           broken |-> y.broken ]
        BY <3>1, <1>4, Zenon
      <3>3. /\ y.step = "open" /\ y.seq = x.seq /\ y.wrote = x.wrote - x.buffer + n /\ y.buffer = n
            /\ y.wrote - y.buffer + 1 = x.wrote - x.buffer + 1 /\ y.chain = x.chain /\ y.broken = x.broken
        <4>1. y.wrote = x.wrote - x.buffer + n /\ y.wrote - y.buffer + 1 = x.wrote - x.buffer + 1
          BY <2>1, <1>3, <1>4
        <4>. QED
          BY <4>1, <1>4
      <3>. HIDE DEF n
      <3>4. [ at |-> y.seq, first |-> y.wrote - y.buffer + 1, size |-> y.buffer ] = FlushOf(x, n)
        BY <3>3, Zenon DEF FlushOf
      <3>. QED
        BY <3>2, <3>3, <3>4, Zenon DEF FlushedTo
    <2>3. writers' = [writers EXCEPT ![w] = FlushedTo(x, n, "open")]
      BY <1>1, <1>5, <2>2
    <2>4. x.wrote - x.buffer + n <= LastChunk
      BY <2>1, <1>3
    <2>. HIDE DEF n
    <2>. QED
      BY <2>1, <2>3, <2>4, <1>1, StreamWriterFlushes
  <1>6. CASE ~(y.buffer >= FlushEvery)
    <2>1. y \in Writer
      BY <1>2, <1>3, <1>4, <1>6 DEF Writer, WriterSteps
    <2>2. writers' = [writers EXCEPT ![w] = y]
      BY <1>1, <1>6
    <2>3. y.wrote - y.buffer = x.wrote - x.buffer /\ y.buffer <= y.wrote
      BY <1>2, <1>3, <1>4
    <2>. HIDE DEF y
    <2>. QED
      BY <2>1, <2>2, <2>3, <1>1, <1>4, StreamWriterStays
  <1>. QED
    BY <1>5, <1>6

LEMMA StreamFlushedIs ==
    ASSUME NEW x \in Writer, x.buffer # 0
    PROVE  Flushed(x) = FlushedTo(x, x.buffer, x.step) /\ x.wrote - x.buffer + x.buffer = x.wrote
  <1>1. /\ x = [ step |-> x.step, seq |-> x.seq, wrote |-> x.wrote, buffer |-> x.buffer,
                 chain |-> x.chain, broken |-> x.broken ]
    BY DEF Writer
  <1>2. x.wrote \in Nat /\ x.buffer \in Nat
    BY StreamAssumption DEF Writer
  <1>3. x.wrote - x.buffer + x.buffer = x.wrote
    BY <1>2
  <1>4. Flushed(x) = [x EXCEPT !.seq = x.seq + 1, !.buffer = 0,
                        !.chain = IF x.broken THEN <<>> ELSE Append(x.chain, FlushOf(x, x.buffer))]
    BY DEF Flushed, FlushOf
  <1>5. Flushed(x) = [ step |-> x.step, seq |-> x.seq + 1, wrote |-> x.wrote, buffer |-> 0,
                       chain |-> IF x.broken THEN <<>> ELSE Append(x.chain, FlushOf(x, x.buffer)),
                       broken |-> x.broken ]
    BY <1>1, <1>4, Zenon
  <1>. QED
    BY <1>3, <1>5, Zenon DEF FlushedTo

LEMMA StreamFlushStep ==
    ASSUME StreamInv, NEW w \in Writers, Flush(w)
    PROVE  StreamInv'
  <1>. DEFINE x == writers[w]
  <1>1. /\ x.step = "open" /\ x.buffer > 0 /\ UNCHANGED <<log, readers>> /\ Active(w)
        /\ writers' = [writers EXCEPT ![w] = Flushed(x)]
    BY DEF Flush, Active
  <1>2. x \in Writer
    BY DEF StreamInv, StreamShape
  <1>3. /\ x.buffer \in 1 .. FlushEvery /\ x.wrote <= LastChunk /\ x.buffer # 0
    BY <1>1, <1>2, StreamAssumption DEF Writer
  <1>4. Flushed(x) = FlushedTo(x, x.buffer, x.step) /\ x.wrote - x.buffer + x.buffer = x.wrote
    BY <1>2, <1>3, StreamFlushedIs
  <1>5. writers' = [writers EXCEPT ![w] = FlushedTo(x, x.buffer, "open")]
    BY <1>1, <1>4
  <1>. DEFINE n == x.buffer
  <1>6. /\ n \in 1 .. FlushEvery /\ x.wrote - x.buffer + n <= LastChunk
        /\ writers' = [writers EXCEPT ![w] = FlushedTo(x, n, "open")]
    BY <1>3, <1>4, <1>5
  <1>. HIDE DEF n
  <1>. QED
    BY <1>1, <1>6, StreamWriterFlushes

LEMMA StreamEndStep ==
    ASSUME StreamInv, NEW w \in Writers, End(w)
    PROVE  StreamInv'
  <1>. DEFINE x == writers[w]
  <1>1. /\ x.step = "open" /\ UNCHANGED <<log, readers>> /\ Active(w)
        /\ writers' = [writers EXCEPT ![w] = [Flushed(x) EXCEPT !.step = "ending"]]
    BY DEF End, Active
  <1>2. x \in Writer /\ x.buffer <= x.wrote
    BY DEF StreamInv, StreamShape, WriterKept
  <1>3. CASE x.buffer = 0
    <2>. DEFINE z == [x EXCEPT !.step = "ending"]
    <2>1. /\ z \in Writer /\ z.step = "ending" /\ z.seq = x.seq /\ z.wrote = x.wrote /\ z.buffer = x.buffer
          /\ z.chain = x.chain
      BY <1>2 DEF Writer, WriterSteps
    <2>2. z.broken = x.broken
      BY <1>2 DEF Writer
    <2>3. writers' = [writers EXCEPT ![w] = z]
      BY <1>1, <1>3 DEF Flushed
    <2>4. z.wrote - z.buffer = x.wrote - x.buffer /\ z.buffer <= z.wrote /\ z.buffer = 0
      BY <2>1, <1>2, <1>3
    <2>. HIDE DEF z
    <2>. QED
      BY <2>1, <2>2, <2>3, <2>4, <1>1, StreamWriterStays
  <1>4. CASE x.buffer # 0
    <2>. DEFINE n == x.buffer
    <2>1. /\ n \in 1 .. FlushEvery /\ x.wrote <= LastChunk
      BY <1>2, <1>4, StreamAssumption DEF Writer
    <2>2. Flushed(x) = FlushedTo(x, n, x.step) /\ x.wrote - x.buffer + n = x.wrote
      BY <1>2, <1>4, StreamFlushedIs
    <2>3. [Flushed(x) EXCEPT !.step = "ending"] = FlushedTo(x, n, "ending")
      <3>. DEFINE sq == x.seq + 1
                  wr == x.wrote - x.buffer + n
                  ch == IF x.broken THEN << >> ELSE Append(x.chain, FlushOf(x, n))
                  br == x.broken
      <3>1. Flushed(x) = [ step |-> x.step, seq |-> sq, wrote |-> wr, buffer |-> 0, chain |-> ch, broken |-> br ]
        BY <2>2, Zenon DEF FlushedTo
      <3>2. FlushedTo(x, n, "ending") =
              [ step |-> "ending", seq |-> sq, wrote |-> wr, buffer |-> 0, chain |-> ch, broken |-> br ]
        BY Zenon DEF FlushedTo
      <3>. HIDE DEF sq, wr, ch, br
      <3>3. [Flushed(x) EXCEPT !.step = "ending"] =
              [ step |-> "ending", seq |-> sq, wrote |-> wr, buffer |-> 0, chain |-> ch, broken |-> br ]
        BY <3>1, SMT
      <3>. QED
        BY <3>2, <3>3
    <2>4. /\ writers' = [writers EXCEPT ![w] = FlushedTo(x, n, "ending")]
          /\ x.wrote - x.buffer + n <= LastChunk
      BY <2>1, <2>2, <2>3, <1>1
    <2>. HIDE DEF n
    <2>. QED
      BY <2>1, <2>4, <1>1, StreamWriterFlushes
  <1>. QED
    BY <1>3, <1>4

LEMMA StreamCrashStep ==
    ASSUME StreamInv, NEW w \in Writers, WriterCrash(w)
    PROVE  StreamInv'
  <1>. DEFINE z == [Unopened EXCEPT !.step = "gone"]
  <1>1. /\ writers' = [writers EXCEPT ![w] = z] /\ UNCHANGED <<log, readers>>
    BY DEF WriterCrash
  <1>2. z = [ step |-> "gone", seq |-> 0, wrote |-> 0, buffer |-> 0, chain |-> <<>>, broken |-> FALSE ]
    <2>. DEFINE f == FALSE
                e == <<>>
    <2>1. Unopened = [ step |-> "none", seq |-> 0, wrote |-> 0, buffer |-> 0, chain |-> e, broken |-> f ]
      BY DEF Unopened
    <2>. HIDE DEF e, f
    <2>2. [Unopened EXCEPT !.step = "gone"] =
            [ step |-> "gone", seq |-> 0, wrote |-> 0, buffer |-> 0, chain |-> e, broken |-> f ]
      BY <2>1, SMT
    <2>. QED
      BY <2>2 DEF e, f
  <1>. HIDE DEF z
  <1>3. z \in Writer /\ z.buffer <= z.wrote /\ z.chain = <<>> /\ z.step = "gone"
    <2>1. 0 \in Seqs /\ 0 \in 0 .. LastChunk /\ 0 \in 0 .. FlushEvery - 1 /\ <<>> \in Seq(Batch)
      BY StreamNumbers, StreamAssumption
    <2>. QED
      BY <1>2, <2>1 DEF Writer, WriterSteps
  <1>4. WriterKept(w)'
    BY <1>1, <1>3, StreamWriterOver
  <1>. QED
    BY <1>1, <1>3, <1>4, StreamWriterMoves

-----------------------------------------------------------------------------
(* The reader.                                                             *)

LEMMA StreamReaderMoves ==
    ASSUME StreamInv, UNCHANGED <<log, writers>>, NEW c \in Readers, NEW r \in Reader,
           readers' = [readers EXCEPT ![c] = r], ReaderKept(c)'
    PROVE  StreamInv'
  <1>1. StreamShape' /\ LogHasTop' /\ RowsInOrder'
    BY DEF StreamInv, StreamShape, LogHasTop, RowsInOrder, RowsUpTo, LastBatch, BatchRow, Taken, PrecededBy
  <1>2. ASSUME NEW v \in Writers PROVE WriterKept(v)'
    <2>1. WriterKept(v)
      BY DEF StreamInv
    <2>. QED
      BY <2>1 DEF WriterKept, Active, ChainInOrder, Appended, Front, UpTo, NextFirst, Taken,
                  PrecededBy, BatchRow
  <1>3. ASSUME NEW d \in Readers PROVE ReaderKept(d)'
    <2>1. CASE d # c
      <3>1. readers'[d] = readers[d] /\ ReaderKept(d)
        BY <2>1 DEF StreamInv, StreamShape
      <3>. QED
        BY <3>1 DEF ReaderKept, Has, HasAllBefore, Following, Stored, BatchRow, EndRow, Taken
    <2>. QED
      BY <2>1
  <1>. QED
    BY <1>1, <1>2, <1>3 DEF StreamInv

\* What there is stays what there is, and what a writer wrote, when only readers move.
LEMMA StreamSameStore ==
    ASSUME UNCHANGED log
    PROVE  /\ Stored' = Stored /\ \A s \in Seqs : (Taken(s)' <=> Taken(s)) /\ (EndRow(s)' <=> EndRow(s))
  BY DEF Stored, BatchRow, EndRow, Taken

LEMMA StreamConnectStep ==
    ASSUME StreamInv, NEW c \in Readers, Connect(c)
    PROVE  StreamInv'
  <1>. DEFINE x == readers[c]
              n == IF x.got = {} THEN 0 ELSE Floor(x.last)
              r == [x EXCEPT !.step = "reading", !.left = x.left - 1, !.cursor = n]
  <1>1. /\ x.step = "away" /\ x.left > 0 /\ UNCHANGED <<log, writers>>
        /\ readers' = [readers EXCEPT ![c].step = "reading", ![c].left = x.left - 1, ![c].cursor = n]
    BY DEF Connect
  <1>2. /\ x \in Reader /\ ReaderKept(c) /\ readers \in [Readers -> Reader]
    BY DEF StreamInv, StreamShape
  <1>3. /\ x.last \in Ids /\ x.last[1] \in Seqs /\ n \in Seqs
    BY <1>2, StreamNumbers DEF Reader, Ids, Floor
  <1>4. x.left - 1 \in 0 .. Reconnections
    BY <1>1, <1>2, StreamAssumption DEF Reader
  <1>. HIDE DEF n
  <1>5. /\ r \in Reader /\ r.step = "reading" /\ r.cursor = n /\ r.hand = x.hand /\ r.got = x.got
        /\ r.last = x.last
    BY <1>2, <1>3, <1>4 DEF Reader, ReaderSteps
  <1>6. readers' = [readers EXCEPT ![c] = r] /\ readers'[c] = r
    BY <1>1, <1>2
  <1>. HIDE DEF r
  <1>7. x.hand = {} /\ Has(c)' = Has(c) /\ Has(c) = x.got /\ x.got \subseteq Stored
    BY <1>1, <1>2, <1>5, <1>6 DEF ReaderKept, Has
  <1>8. \A s \in Seqs : s < n => Taken(s)
    <2>1. CASE x.got = {}
      BY <2>1, StreamNumbers DEF n
    <2>2. CASE x.got # {}
      <3>1. x.last \in Stored
        BY <2>2, <1>2, <1>7 DEF ReaderKept
      <3>2. Taken(x.last[1])
        BY <3>1 DEF Stored, BatchRow
      <3>3. PICK h \in Seqs : RowsUpTo(h)
        BY DEF StreamInv, LogHasTop
      <3>4. h \in Nat /\ x.last[1] \in Nat /\ n = x.last[1] /\ \A s \in Seqs : s \in Nat
        BY <2>2, <1>3, StreamNumbers DEF n, Floor
      <3>5. n < h
        BY <3>2, <3>3, <3>4, <1>3 DEF RowsUpTo
      <3>. QED
        BY <3>3, <3>4, <3>5 DEF RowsUpTo
    <2>. QED
      BY <2>1, <2>2
  <1>9. \A id \in Stored : id[1] < n => id \in x.got
    <2>1. CASE x.got = {}
      <3>1. \A id \in Stored : id[1] \in Nat
        BY StreamNumbers DEF Stored, Ids
      <3>. QED
        BY <2>1, <3>1 DEF n
    <2>2. CASE x.got # {}
      <3>1. x.last \in x.got /\ n = x.last[1]
        BY <2>2, <1>2 DEF ReaderKept, n, Floor
      <3>. QED
        BY <3>1, <1>2 DEF ReaderKept, Before
    <2>. QED
      BY <2>1, <2>2
  <1>10. /\ Stored' = Stored /\ \A s \in Seqs : (Taken(s)' <=> Taken(s)) /\ (EndRow(s)' <=> EndRow(s))
    BY <1>1, StreamSameStore
  <1>11. HasAllBefore(c, readers[c].cursor)'
    BY <1>5, <1>6, <1>7, <1>9, <1>10 DEF HasAllBefore
  <1>12. ReaderKept(c)'
    BY <1>2, <1>5, <1>6, <1>7, <1>8, <1>10, <1>11 DEF ReaderKept
  <1>. QED
    BY <1>1, <1>5, <1>6, <1>12, StreamReaderMoves

LEMMA StreamReadStep ==
    ASSUME StreamInv, NEW c \in Readers, Read(c)
    PROVE  StreamInv'
  <1>. DEFINE x == readers[c]
              from == x.cursor
              ids == Unread(from)
              n == Past(ids, from)
              d == Done(from)
              r == [x EXCEPT !.step = "yielding", !.hand = ids, !.done = d, !.cursor = n]
  <1>1. /\ x.step = "reading" /\ UNCHANGED <<log, writers>>
        /\ readers' = [readers EXCEPT ![c].step = "yielding", ![c].hand = ids, ![c].done = d, ![c].cursor = n]
    BY DEF Read
  <1>2. /\ x \in Reader /\ ReaderKept(c) /\ readers \in [Readers -> Reader] /\ from \in Seqs /\ from \in Nat
    BY StreamNumbers DEF StreamInv, StreamShape, Reader
  <1>3. /\ ids \subseteq Stored /\ Stored \subseteq Ids /\ \A id \in Stored : id[1] \in Seqs /\ id[1] \in Nat
        /\ \A id \in Stored : id \in ids <=> id[1] >= from
    BY StreamNumbers DEF Unread, Stored, Ids
  <1>4. d \in BOOLEAN /\ (d => \E s \in Seqs : EndRow(s))
    BY DEF Done
  <1>5. PICK h \in Seqs : RowsUpTo(h)
    BY DEF StreamInv, LogHasTop
  <1>6. h \in Nat /\ \A s \in Seqs : s \in Nat
    BY StreamNumbers
  <1>7. /\ n \in Seqs /\ from <= n /\ n \in Nat
        /\ \A s \in Seqs : s < n => Taken(s)
        /\ \A id \in ids : id[1] < n
    <2>1. CASE ids = {}
      <3>1. n = from
        BY <2>1 DEF Past
      <3>. QED
        BY <2>1, <3>1, <1>2 DEF ReaderKept
    <2>2. CASE ids # {}
      <3>1. \A id \in ids : BatchRow(id[1])
        BY <1>3 DEF Stored
      <3>2. PICK b \in Seqs : LastBatch(b)
        BY <2>2, <3>1, <1>3 DEF StreamInv, LogHasTop
      <3>3. /\ BatchRow(b) /\ \A id \in ids : id[1] <= b
        BY <3>1, <3>2, <1>3 DEF LastBatch
      <3>4. <<b, 1>> \in Stored
        <4>1. log[b].size >= 1 /\ 1 \in 1 .. FlushEvery
          BY <3>3, StreamAssumption DEF StreamInv, RowsInOrder
        <4>. QED
          BY <3>3, <4>1 DEF Stored, Ids
      <3>5. <<b, 1>> \in ids /\ b >= from
        <4>1. PICK id \in ids : TRUE
          BY <2>2
        <4>2. id[1] >= from /\ id[1] <= b /\ id[1] \in Nat /\ b \in Nat
          BY <4>1, <3>3, <1>3, <1>6
        <4>3. b >= from
          BY <4>2, <1>2
        <4>4. <<b, 1>>[1] = b
          OBVIOUS
        <4>. QED
          BY <4>3, <4>4, <3>4, <1>3
      <3>. DEFINE top == CHOOSE s \in Seqs : (\E id \in ids : id[1] = s) /\ \A id \in ids : id[1] <= s
      <3>6. (\E id \in ids : id[1] = b) /\ \A id \in ids : id[1] <= b
        <4>1. <<b, 1>>[1] = b
          OBVIOUS
        <4>. QED
          BY <4>1, <3>3, <3>5
      <3>. HIDE DEF ids, n
      <3>7. top \in Seqs /\ (\E id \in ids : id[1] = top) /\ \A id \in ids : id[1] <= top
        BY <3>6
      <3>8. n = 1 + top
        BY <2>2, <3>6 DEF Past, n
      <3>. HIDE DEF top
      <3>9. top = b
        <4>1. top <= b /\ b <= top
          BY <3>6, <3>7
        <4>. QED
          BY <4>1, <3>7, <1>6
      <3>10. b < h
        BY <3>3, <1>5 DEF RowsUpTo, BatchRow
      <3>11. n \in Nat /\ n <= h /\ n = b + 1 /\ from <= n
        BY <3>5, <3>8, <3>9, <3>10, <1>2, <1>6
      <3>12. n \in Seqs
        BY <3>11, <1>5, StreamNumbers
      <3>13. \A s \in Seqs : s < n => Taken(s)
        <4>1. ASSUME NEW s \in Seqs, s < n PROVE s < h
          <5>1. s \in Nat
            BY <1>6
          <5>. QED
            BY <5>1, <4>1, <3>11, <1>5
        <4>. QED
          BY <4>1, <1>5 DEF RowsUpTo
      <3>14. \A id \in ids : id[1] < n
        BY <3>6, <3>11, <1>3, <1>6
      <3>. QED
        BY <3>11, <3>12, <3>13, <3>14
    <2>. QED
      BY <2>1, <2>2
  <1>. HIDE DEF ids, n, d
  <1>8. /\ r \in Reader /\ r.step = "yielding" /\ r.cursor = n /\ r.hand = ids /\ r.got = x.got
        /\ r.last = x.last
    BY <1>2, <1>3, <1>4, <1>7 DEF Reader, ReaderSteps
  <1>9. r.done = d
    BY <1>2 DEF Reader
  <1>10. readers' = [readers EXCEPT ![c] = r] /\ readers'[c] = r
    BY <1>1, <1>2
  <1>. HIDE DEF r
  <1>11. /\ Stored' = Stored /\ \A s \in Seqs : (Taken(s)' <=> Taken(s)) /\ (EndRow(s)' <=> EndRow(s))
    BY <1>1, StreamSameStore
  <1>12. Has(c)' = x.got \union ids /\ x.got \subseteq Stored
    BY <1>2, <1>8, <1>10 DEF Has, ReaderKept
  <1>13. \A id \in Stored : id \in x.got \union ids
    <2>1. \A id \in Stored : id[1] < from => id \in x.got
      BY <1>1, <1>2 DEF ReaderKept, Following, HasAllBefore, Has
    <2>. QED
      BY <2>1, <1>2, <1>3
  <1>14. HasAllBefore(c, readers[c].cursor)'
    BY <1>11, <1>12, <1>13 DEF HasAllBefore
  <1>15. d => \E s \in Seqs : EndRow(s)' /\ HasAllBefore(c, s)'
    BY <1>4, <1>11, <1>12, <1>13 DEF HasAllBefore
  <1>16. ReaderKept(c)'
    BY <1>2, <1>3, <1>7, <1>8, <1>9, <1>10, <1>11, <1>12, <1>14, <1>15 DEF ReaderKept
  <1>. QED
    BY <1>1, <1>8, <1>10, <1>16, StreamReaderMoves

LEMMA StreamYieldStep ==
    ASSUME StreamInv, NEW c \in Readers, Yield(c)
    PROVE  StreamInv'
  <1>. DEFINE x == readers[c]
  <1>1. PICK id \in x.hand :
          /\ x.step = "yielding" /\ UNCHANGED <<log, writers>>
          /\ \A other \in x.hand : ~Before(other, id)
          /\ readers' = [readers EXCEPT ![c].hand = x.hand \ {id}, ![c].last = id,
                                        ![c].got = x.got \union {id}]
    BY DEF Yield
  <1>. DEFINE r == [x EXCEPT !.hand = x.hand \ {id}, !.last = id, !.got = x.got \union {id}]
  <1>2. /\ x \in Reader /\ ReaderKept(c) /\ readers \in [Readers -> Reader]
        /\ x.cursor \in Nat /\ x.hand \subseteq Ids /\ x.got \subseteq Ids /\ id \in Ids
    BY StreamNumbers DEF StreamInv, StreamShape, Reader
  <1>3. /\ Has(c) = x.got \union x.hand /\ Has(c) \subseteq Stored
        /\ \A i \in Stored : i[1] < x.cursor => i \in x.got \union x.hand
        /\ \A i \in x.hand : i[1] < x.cursor
    BY <1>1, <1>2 DEF ReaderKept, Following, HasAllBefore, Has
  <1>4. /\ r \in Reader /\ r.step = x.step /\ r.cursor = x.cursor /\ r.got = x.got \union {id}
        /\ r.hand = x.hand \ {id} /\ r.last = id
    BY <1>2 DEF Reader
  <1>5. r.done = x.done
    BY <1>2 DEF Reader
  <1>6. readers' = [readers EXCEPT ![c] = r] /\ readers'[c] = r
    BY <1>1, <1>2
  <1>. HIDE DEF r
  <1>7. /\ Stored' = Stored /\ \A s \in Seqs : (Taken(s)' <=> Taken(s)) /\ (EndRow(s)' <=> EndRow(s))
    BY <1>1, StreamSameStore
  <1>8. Has(c)' = x.got \union x.hand
    BY <1>4, <1>6 DEF Has
  <1>9. \A ahead \in Stored : Before(ahead, id) => ahead \in x.got
    <2>1. SUFFICES ASSUME NEW ahead \in Stored, Before(ahead, id) PROVE ahead \in x.got
      OBVIOUS
    <2>2. ahead[1] \in Nat /\ id[1] \in Nat
      BY <1>2, StreamNumbers DEF Stored, Ids
    <2>3. ahead[1] < x.cursor
      BY <2>1, <2>2, <1>2, <1>3 DEF Before
    <2>4. ahead \in x.got \union x.hand
      BY <2>3, <1>3
    <2>. QED
      BY <2>1, <2>4, <1>1
  <1>10. \A i \in r.got : \A ahead \in Stored : Before(ahead, i) => ahead \in r.got
    BY <1>2, <1>4, <1>9 DEF ReaderKept
  <1>11. HasAllBefore(c, readers[c].cursor)'
    BY <1>3, <1>4, <1>6, <1>7, <1>8 DEF HasAllBefore
  <1>12. x.done => \E s \in Seqs : EndRow(s)' /\ HasAllBefore(c, s)'
    BY <1>1, <1>2, <1>3, <1>7, <1>8 DEF ReaderKept, HasAllBefore
  <1>13. ReaderKept(c)'
    <2>1. Before(id, id)' <=> Before(id, id)
      OBVIOUS
    <2>2. (\A i \in readers[c].got : \A ahead \in Stored : Before(ahead, i) => ahead \in readers[c].got)'
      BY <1>6, <1>7, <1>10 DEF Before
    <2>3. \A s \in Seqs : s < readers'[c].cursor => Taken(s)'
      BY <1>2, <1>4, <1>6, <1>7 DEF ReaderKept
    <2>. QED
      BY <1>1, <1>3, <1>4, <1>5, <1>6, <1>7, <1>8, <1>11, <1>12, <2>2, <2>3 DEF ReaderKept
  <1>. QED
    BY <1>1, <1>4, <1>6, <1>13, StreamReaderMoves

\* A reader that moves on with nothing in hand.
LEMMA StreamReaderGoesOn ==
    ASSUME StreamInv, NEW c \in Readers, NEW step \in ReaderSteps,
           readers[c].hand = {}, Following(c), UNCHANGED <<log, writers>>, ReaderGoes(c, step),
           step # "yielding",
           step = "told" => \E s \in Seqs : EndRow(s) /\ HasAllBefore(c, s)
    PROVE  StreamInv'
  <1>. DEFINE x == readers[c]
              r == [x EXCEPT !.step = step]
  <1>1. x \in Reader /\ ReaderKept(c) /\ readers \in [Readers -> Reader]
    BY DEF StreamInv, StreamShape
  <1>2. /\ r \in Reader /\ r.step = step /\ r.cursor = x.cursor /\ r.got = x.got
        /\ r.hand = x.hand /\ r.last = x.last
    BY <1>1 DEF Reader
  <1>3. readers' = [readers EXCEPT ![c] = r] /\ readers'[c] = r
    BY <1>1 DEF ReaderGoes
  <1>. HIDE DEF r
  <1>4. /\ Stored' = Stored /\ \A s \in Seqs : (Taken(s)' <=> Taken(s)) /\ (EndRow(s)' <=> EndRow(s))
    BY StreamSameStore
  <1>5. Has(c)' = Has(c) /\ Has(c) = x.got
    BY <1>2, <1>3 DEF Has
  <1>6. HasAllBefore(c, x.cursor)
    BY <1>1 DEF ReaderKept
  <1>7. HasAllBefore(c, readers[c].cursor)'
    BY <1>2, <1>3, <1>4, <1>5, <1>6 DEF HasAllBefore
  <1>8. step = "told" => \E s \in Seqs : EndRow(s)' /\ HasAllBefore(c, s)'
    BY <1>4, <1>5 DEF HasAllBefore
  <1>9. (\A i \in readers[c].got : \A ahead \in Stored : Before(ahead, i) => ahead \in readers[c].got)'
    BY <1>1, <1>2, <1>3, <1>4 DEF ReaderKept, Before
  <1>10. \A s \in Seqs : s < readers'[c].cursor => Taken(s)'
    BY <1>1, <1>2, <1>3, <1>4 DEF ReaderKept
  <1>11. ReaderKept(c)'
    BY <1>1, <1>2, <1>3, <1>4, <1>5, <1>7, <1>8, <1>9, <1>10 DEF ReaderKept
  <1>. QED
    BY <1>2, <1>3, <1>11, StreamReaderMoves

LEMMA StreamSleepStep ==
    ASSUME StreamInv, NEW c \in Readers, Sleep(c)
    PROVE  StreamInv'
  <1>. DEFINE step == IF readers[c].done THEN "told" ELSE "waiting"
  <1>1. /\ readers[c].step = "yielding" /\ readers[c].hand = {} /\ UNCHANGED <<log, writers>>
        /\ ReaderGoes(c, step)
    BY DEF Sleep
  <1>2. step \in ReaderSteps /\ step # "yielding" /\ Following(c)
    BY <1>1 DEF ReaderSteps, Following
  <1>3. step = "told" => \E s \in Seqs : EndRow(s) /\ HasAllBefore(c, s)
    BY <1>1 DEF StreamInv, ReaderKept
  <1>. HIDE DEF step
  <1>. QED
    BY <1>1, <1>2, <1>3, StreamReaderGoesOn

LEMMA StreamPollStep ==
    ASSUME StreamInv, NEW c \in Readers, Poll(c)
    PROVE  StreamInv'
  <1>1. /\ readers[c].step = "waiting" /\ UNCHANGED <<log, writers>> /\ ReaderGoes(c, "reading")
    BY DEF Poll
  <1>2. readers[c].hand = {} /\ Following(c) /\ "reading" \in ReaderSteps
    BY <1>1 DEF StreamInv, ReaderKept, Following, ReaderSteps
  <1>. QED
    BY <1>1, <1>2, StreamReaderGoesOn

LEMMA StreamDropStep ==
    ASSUME StreamInv, NEW c \in Readers, Drop(c)
    PROVE  StreamInv'
  <1>. DEFINE x == readers[c]
              r == [x EXCEPT !.step = "away", !.cursor = 0, !.hand = {}, !.done = FALSE]
  <1>1. /\ UNCHANGED <<log, writers>>
        /\ readers' = [readers EXCEPT ![c].step = "away", ![c].cursor = 0, ![c].hand = {}, ![c].done = FALSE]
    BY DEF Drop
  <1>2. x \in Reader /\ ReaderKept(c) /\ readers \in [Readers -> Reader] /\ 0 \in Seqs
    BY StreamNumbers DEF StreamInv, StreamShape
  <1>3. /\ r \in Reader /\ r.step = "away" /\ r.cursor = 0 /\ r.got = x.got
        /\ r.hand = {} /\ r.last = x.last
    BY <1>2 DEF Reader, ReaderSteps
  <1>4. readers' = [readers EXCEPT ![c] = r] /\ readers'[c] = r
    BY <1>1, <1>2
  <1>. HIDE DEF r
  <1>5. /\ Stored' = Stored /\ \A s \in Seqs : (Taken(s)' <=> Taken(s)) /\ (EndRow(s)' <=> EndRow(s))
    BY <1>1, StreamSameStore
  <1>6. Has(c)' = x.got /\ x.got \subseteq Stored
    BY <1>2, <1>3, <1>4 DEF Has, ReaderKept
  <1>7. (\A i \in readers[c].got : \A ahead \in Stored : Before(ahead, i) => ahead \in readers[c].got)'
    BY <1>2, <1>3, <1>4, <1>5 DEF ReaderKept, Before
  <1>8. \A s \in Seqs : ~(s < 0)
    BY StreamNumbers
  <1>9. ~Following(c)'
    BY <1>3, <1>4 DEF Following
  <1>10. ReaderKept(c)'
    BY <1>2, <1>3, <1>4, <1>5, <1>6, <1>7, <1>8, <1>9 DEF ReaderKept
  <1>. QED
    BY <1>1, <1>3, <1>4, <1>10, StreamReaderMoves

-----------------------------------------------------------------------------
(* The theorems.                                                           *)

LEMMA StreamInitStep ==
    ASSUME StreamInit
    PROVE  StreamInv
  <1>. USE StreamNumbers
  <1>1. \A s \in Seqs : ~Taken(s)
    BY DEF StreamInit, Taken
  <1>2. Stored = {} /\ \A s \in Seqs : ~BatchRow(s)
    BY <1>1 DEF Stored, BatchRow, Ids
  <1>3. \A w \in Writers : writers[w] = Unopened
    BY DEF StreamInit
  <1>4. Unopened \in Writer
    <2>1. << >> \in Seq(Batch) /\ 0 \in 0 .. LastChunk /\ 0 \in 0 .. FlushEvery - 1
      BY StreamAssumption
    <2>. QED
      BY <2>1 DEF Unopened, Writer, WriterSteps
  <1>5. <<0, 1>> \in Ids
    BY StreamAssumption DEF Ids
  <1>. DEFINE r == [ step |-> "away", cursor |-> 0, hand |-> {}, done |-> FALSE, last |-> <<0, 1>>,
                     got |-> {}, left |-> Reconnections ]
  <1>6. r \in Reader
    BY <1>5, StreamAssumption DEF Reader, ReaderSteps
  <1>7. StreamShape
    BY <1>4, <1>6 DEF StreamInit, StreamShape
  <1>8. LogHasTop /\ RowsInOrder
    <2>1. RowsUpTo(0)
      BY <1>1 DEF RowsUpTo
    <2>. QED
      BY <2>1, <1>1, <1>2 DEF LogHasTop, RowsInOrder, BatchRow
  <1>9. ASSUME NEW w \in Writers PROVE WriterKept(w)
    <2>1. /\ writers[w].step = "none" /\ writers[w].chain = <<>> /\ writers[w].buffer = 0
          /\ writers[w].wrote = 0
      BY <1>3 DEF Unopened
    <2>2. writers[w].broken = FALSE
      BY <1>3 DEF Unopened
    <2>3. ~Active(w)
      BY <2>1 DEF Active
    <2>. QED
      BY <2>1, <2>2, <2>3, <1>1, <1>3 DEF WriterKept
  <1>10. ASSUME NEW c \in Readers PROVE ReaderKept(c)
    <2>1. readers[c] = r
      BY DEF StreamInit
    <2>2. ~Following(c) /\ Has(c) = {}
      BY <2>1 DEF Following, Has
    <2>. QED
      BY <2>1, <2>2 DEF ReaderKept
  <1>. QED
    BY <1>7, <1>8, <1>9, <1>10 DEF StreamInv

LEMMA StreamStep ==
    ASSUME StreamInv, [StreamNext]_streamVars
    PROVE  StreamInv'
  <1>1. CASE WriterNext
    <2>1. PICK w \in Writers :
            \/ OpenStream(w) \/ Write(w) \/ Flush(w) \/ AppendBatch(w) \/ AppendThrows(w)
            \/ End(w) \/ MarkEnd(w) \/ EndThrows(w) \/ WriterCrash(w)
      BY <1>1 DEF WriterNext
    <2>. QED
      BY <2>1, StreamOpenStep, StreamWriteStep, StreamFlushStep, StreamAppendStep,
         StreamAppendThrowsStep, StreamEndStep, StreamMarkEndStep, StreamEndThrowsStep, StreamCrashStep
  <1>2. CASE ReaderNext
    <2>1. PICK c \in Readers : Connect(c) \/ Read(c) \/ Yield(c) \/ Sleep(c) \/ Poll(c) \/ Drop(c)
      BY <1>2 DEF ReaderNext
    <2>. QED
      BY <2>1, StreamConnectStep, StreamReadStep, StreamYieldStep, StreamSleepStep, StreamPollStep,
         StreamDropStep
  <1>3. CASE UNCHANGED streamVars
    BY <1>3 DEF streamVars, StreamInv, StreamShape, LogHasTop, RowsInOrder, RowsUpTo, LastBatch,
                PrecededBy, BatchRow, EndRow, Taken, WriterKept, Active, ChainInOrder, Appended,
                Front, UpTo, NextFirst, ReaderKept, Has, HasAllBefore, Following, Stored
  <1>. QED
    BY <1>1, <1>2, <1>3 DEF StreamNext

\* The rows of the log are its first numbers, a writer's in the order written, its
\* chain what it has still to append; a reader has, or holds, all that is stored before
\* its cursor: streamWriter and tailStream in stream.ts.
THEOREM StreamInvariance == StreamSpec => []StreamInv
  <1>1. StreamInit => StreamInv
    BY StreamInitStep
  <1>2. StreamInv /\ [StreamNext]_streamVars => StreamInv'
    BY StreamStep
  <1>. QED
    BY <1>1, <1>2, PTL DEF StreamSpec

\* Every variable stays in its type; a writer never runs out of the sequence numbers
\* that Seqs allows for.
THEOREM StreamTypeCorrect == StreamSpec => []StreamTypeOK
  <1>1. StreamInv => StreamTypeOK
    <2>1. SUFFICES ASSUME StreamInv PROVE StreamTypeOK
      OBVIOUS
    <2>2. ASSUME NEW w \in Writers
          PROVE  /\ writers[w].step \in WriterSteps
                 /\ writers[w].seq \in 0 .. Cardinality(Writers) * (LastChunk + 1)
                 /\ writers[w].wrote \in 0 .. LastChunk
                 /\ writers[w].buffer \in 0 .. FlushEvery - 1
                 /\ writers[w].broken \in BOOLEAN
                 /\ writers[w].chain \in Seq(Batch)
      <3>1. writers[w] \in Writer
        BY <2>1 DEF StreamInv, StreamShape
      <3>2. writers[w].seq \in Seqs
        BY <3>1 DEF Writer
      <3>. QED
        BY <3>1, <3>2 DEF Writer, Seqs
    <2>3. ASSUME NEW c \in Readers
          PROVE  /\ readers[c].step \in ReaderSteps
                 /\ readers[c].cursor \in Seqs
                 /\ readers[c].hand \subseteq Ids
                 /\ readers[c].done \in BOOLEAN
                 /\ readers[c].last \in Ids
                 /\ readers[c].got \subseteq Ids
                 /\ readers[c].left \in 0 .. Reconnections
      BY <2>1 DEF StreamInv, StreamShape, Reader
    <2>. QED
      BY <2>1, <2>2, <2>3 DEF StreamTypeOK, StreamInv, StreamShape
  <1>. QED
    BY <1>1, StreamInvariance, PTL

\* What is durable has no holes and holds each writer's chunks once, in order and up to
\* its end, and no reader ever has a gap, on its way or when it is told of the end.
THEOREM StreamsAreKept == StreamSpec => []StreamKept
  <1>1. StreamInv => LogIsWhole
    <2>1. SUFFICES ASSUME StreamInv PROVE LogIsWhole
      OBVIOUS
    <2>2. PICK h \in Seqs : RowsUpTo(h)
      BY <2>1 DEF StreamInv, LogHasTop
    <2>3. ASSUME NEW s \in Seqs, Taken(s)
          PROVE  /\ s > 0 => Taken(s - 1)
                 /\ \A r \in Seqs : BatchRow(r) /\ r < s /\ log[r].by = log[s].by
                                      => log[r].first < log[s].first
                 /\ log[s].first > 1 =>
                      \E r \in Seqs : /\ r < s /\ BatchRow(r) /\ log[r].by = log[s].by
                                      /\ log[r].first + log[r].size = log[s].first
      <3>1. s > 0 => Taken(s - 1)
        <4>1. SUFFICES ASSUME s > 0 PROVE Taken(s - 1)
          OBVIOUS
        <4>2. s \in Nat /\ h \in Nat /\ s < h
          BY <2>2, <2>3, StreamNumbers DEF RowsUpTo
        <4>3. s - 1 \in Nat /\ s - 1 <= s /\ s - 1 < h
          BY <4>1, <4>2
        <4>4. s - 1 \in Seqs
          BY <4>3, StreamNumbers
        <4>. QED
          BY <4>3, <4>4, <2>2 DEF RowsUpTo
      <3>2. RowsInOrder
        BY <2>1 DEF StreamInv
      <3>3. \A r \in Seqs : BatchRow(r) /\ r < s /\ log[r].by = log[s].by => log[r].first < log[s].first
        BY <3>2, <2>3 DEF RowsInOrder, BatchRow
      <3>4. log[s].first > 1 => \E r \in Seqs : r < s /\ PrecededBy(r, log[s].by, log[s].first)
        BY <3>2, <2>3 DEF RowsInOrder
      <3>. QED
        BY <3>1, <3>3, <3>4 DEF PrecededBy
    <2>4. LogInOrder
      BY <2>3 DEF LogInOrder
    <2>5. EndedIsComplete
      BY <2>3 DEF EndedIsComplete, EndRow
    <2>. QED
      BY <2>4, <2>5 DEF LogIsWhole
  <1>2. StreamInv => ReaderMissesNothing
    <2>1. SUFFICES ASSUME StreamInv PROVE ReaderMissesNothing
      OBVIOUS
    <2>2. NeverAGap
      BY <2>1 DEF NeverAGap, StreamInv, ReaderKept
    <2>3. ToldMeansAll
      <3>1. SUFFICES ASSUME NEW c \in Readers, readers[c].step = "told"
                     PROVE  \E s \in Seqs : EndRow(s) /\ \A id \in Stored : id[1] < s => id \in readers[c].got
        BY DEF ToldMeansAll
      <3>2. readers[c].hand = {} /\ \E s \in Seqs : EndRow(s) /\ HasAllBefore(c, s)
        BY <3>1, <2>1 DEF StreamInv, ReaderKept
      <3>. QED
        BY <3>2 DEF HasAllBefore, Has
    <2>. QED
      BY <2>2, <2>3 DEF ReaderMissesNothing
  <1>3. StreamInv => StreamKept
    BY <1>1, <1>2 DEF StreamKept
  <1>. QED
    BY <1>3, StreamInvariance, PTL
=============================================================================
