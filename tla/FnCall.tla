-------------------------------- MODULE FnCall --------------------------------
(***************************************************************************)
(* Calls of a server function under an idempotency key, as callFn makes    *)
(* them (packages/ketjs/src/server/fn.ts) over the ket_idem table of       *)
(* idem.ts, and the document number their handler takes from sequence.ts.  *)
(*                                                                         *)
(* A plain function claims its key, runs and records its result in         *)
(* statements that commit one by one; a transactional function does all of *)
(* it in one transaction.  What a transaction has not committed is held in *)
(* the call: a row it inserted or updated is locked until it ends.         *)
(*                                                                         *)
(* A handler takes one number and writes one document with it.             *)
(***************************************************************************)
EXTENDS Naturals, FiniteSets

CONSTANTS
    IdemKeys,   \* idempotency keys, isolated by function, actor and scope
    TxKeys,     \* the keys of transactional functions
    SweptKeys,  \* the keys whose old records are swept
    Digests,    \* fingerprints of requests
    FnCalls,    \* callers; each makes one call at a time
    NoCall,     \* nobody
    LastNumber  \* bound: the numbers of the sequence that are taken

ASSUME FnCallAssumption ==
    /\ TxKeys \subseteq IdemKeys /\ SweptKeys \subseteq IdemKeys
    /\ NoCall \notin FnCalls
    /\ LastNumber \in Nat

VARIABLES
    rows,       \* the committed ket_idem table
    nextNumber, \* ket_sequence.next, 1 while there is no row
    calls,      \* each call: its step, its request, what it read, its number
    keyLock,    \* the transaction that has inserted the row of a key
    numberLock, \* the transaction that has moved the sequence
    written,    \* the documents: key, number, and how often it was written
    dropped,    \* numbers taken outside a transaction and not used
    swept,      \* how many receipts of each key were swept
    replays,    \* answers given from the record: the request, and whose result
    aged        \* the keys a claim of which was ever old enough to be abandoned

callVars == <<rows, nextNumber, calls, keyLock, numberLock, written, dropped, swept, replays, aged>>

Numbers == 1 .. LastNumber

\* of is the request the stored result answers; it means something once state is done.
NoRow == [state |-> "none"]
IdemRow == [state : {"pending", "done"}, digest : Digests, of : Digests, stale : BOOLEAN]

AtRest == [step |-> "rest"]
CallSteps == {"insert", "look", "take", "read", "next", "move", "work", "wrote", "failed"}
CallState == [step : CallSteps, key : IdemKeys, digest : Digests, number : 0 .. LastNumber + 1]

CallInit ==
    /\ rows = [k \in IdemKeys |-> NoRow]
    /\ nextNumber = 1
    /\ calls = [c \in FnCalls |-> AtRest]
    /\ keyLock = [k \in IdemKeys |-> NoCall]
    /\ numberLock = NoCall
    /\ written = [k \in IdemKeys |-> [n \in Numbers |-> 0]]
    /\ dropped = {}
    /\ swept = [k \in IdemKeys |-> 0]
    /\ replays = {}
    /\ aged = {}

In(c, step) == calls[c].step = step
Key(c) == calls[c].key
IdemRowAt(c) == rows[Key(c)]
Tx(c) == Key(c) \in TxKeys
CallGoes(c, step) == calls' = [calls EXCEPT ![c].step = step]

History == <<written, dropped, swept, replays, aged>>
Locks == <<keyLock, numberLock>>

-----------------------------------------------------------------------------
(* claim *)

StartCall(c, k, d) ==
    /\ calls[c] = AtRest
    /\ calls' = [calls EXCEPT ![c] = [step |-> "insert", key |-> k, digest |-> d, number |-> 0]]
    /\ UNCHANGED <<rows, nextNumber, Locks, History>>

\* INSERT .. ON CONFLICT DO NOTHING waits for a transaction that has inserted the key.
Claim(c) ==
    /\ In(c, "insert") /\ keyLock[Key(c)] = NoCall
    /\ IF IdemRowAt(c) # NoRow
       THEN CallGoes(c, "look") /\ UNCHANGED <<rows, keyLock>>
       ELSE /\ CallGoes(c, "next")
            /\ IF Tx(c)
               THEN keyLock' = [keyLock EXCEPT ![Key(c)] = c] /\ UNCHANGED rows
               ELSE /\ rows' = [rows EXCEPT ![Key(c)] =
                          [ state |-> "pending", digest |-> calls[c].digest,
                            of |-> calls[c].digest, stale |-> FALSE ]]
                    /\ UNCHANGED keyLock
    /\ UNCHANGED <<nextNumber, numberLock, History>>

\* SELECT digest: the key may belong to another request.
Look(c) ==
    /\ In(c, "look")
    /\ CallGoes(c, IF IdemRowAt(c) # NoRow /\ IdemRowAt(c).digest # calls[c].digest THEN "read" ELSE "take")
    /\ UNCHANGED <<rows, nextNumber, Locks, History>>

\* Mutant: a finished record is taken over as well.
AbandonedDone(row) == row # NoRow /\ row.stale

AbandonedRow(row) == row # NoRow /\ row.state = "pending" /\ row.stale

\* UPDATE .. WHERE state = 'pending' AND created_at < cutoff: an old claim is taken over.
TakeOver(c) ==
    /\ In(c, "take")
    /\ IF AbandonedRow(IdemRowAt(c))
       THEN /\ rows' = [rows EXCEPT ![Key(c)].digest = calls[c].digest,
                                    ![Key(c)].stale = FALSE]
            /\ CallGoes(c, "next")
       ELSE UNCHANGED rows /\ CallGoes(c, "read")
    /\ UNCHANGED <<nextNumber, Locks, History>>

Replays(c) == IdemRowAt(c) # NoRow /\ IdemRowAt(c).digest = calls[c].digest /\ IdemRowAt(c).state = "done"

\* The claim is somebody else's: the answer is its record, or an error.
AnswerStored(c) ==
    /\ In(c, "read")
    /\ replays' =
         IF Replays(c)
         THEN replays \union {[key |-> Key(c), asked |-> calls[c].digest, of |-> IdemRowAt(c).of]}
         ELSE replays
    /\ calls' = [calls EXCEPT ![c] = AtRest]
    /\ UNCHANGED <<rows, nextNumber, Locks, written, dropped, swept, aged>>

-----------------------------------------------------------------------------
(* The handler: nextSequenceNumber, then the document *)

ReadNext(c) ==
    /\ In(c, "next") /\ nextNumber <= LastNumber
    /\ calls' = [calls EXCEPT ![c].step = "move", ![c].number = nextNumber]
    /\ UNCHANGED <<rows, nextNumber, Locks, History>>

\* INSERT start + 1, or UPDATE .. WHERE next = what was read; it waits for a
\* transaction that has moved the row, and starts again when the row has moved.
MovesNumber(c) == nextNumber = calls[c].number

MoveNext(c) ==
    /\ In(c, "move") /\ numberLock = NoCall
    /\ IF ~MovesNumber(c)
       THEN CallGoes(c, "next") /\ UNCHANGED <<nextNumber, numberLock>>
       ELSE /\ CallGoes(c, "work")
            /\ IF Tx(c)
               THEN numberLock' = c /\ UNCHANGED nextNumber
               ELSE nextNumber' = calls[c].number + 1 /\ UNCHANGED numberLock
    /\ UNCHANGED <<rows, keyLock, History>>

Documents(c) == [written EXCEPT ![Key(c)][calls[c].number] = @ + 1]

\* A plain handler's write commits by itself.
WriteDocument(c) ==
    /\ In(c, "work") /\ ~Tx(c)
    /\ written' = Documents(c)
    /\ CallGoes(c, "wrote")
    /\ UNCHANGED <<rows, nextNumber, Locks, dropped, swept, replays, aged>>

DropsNumber(c) == IF In(c, "work") /\ ~Tx(c) THEN dropped \union {calls[c].number} ELSE dropped

Throw(c) ==
    /\ calls[c].step \in {"next", "move", "work", "wrote"} /\ ~Tx(c)
    /\ dropped' = DropsNumber(c)
    /\ CallGoes(c, "failed")
    /\ UNCHANGED <<rows, nextNumber, Locks, written, swept, replays, aged>>

-----------------------------------------------------------------------------
(* The end of a call *)

\* complete: UPDATE .. WHERE key = ..., whoever's claim the row is by now.
Completes(c) ==
    /\ In(c, "wrote")
    /\ rows' = IF IdemRowAt(c) = NoRow THEN rows
               ELSE [rows EXCEPT ![Key(c)].state = "done", ![Key(c)].of = calls[c].digest]
    /\ calls' = [calls EXCEPT ![c] = AtRest]
    /\ UNCHANGED <<nextNumber, Locks, History>>

\* release: DELETE .. WHERE key = .. AND state = 'pending'.
ReleaseClaim(c) ==
    /\ In(c, "failed")
    /\ rows' = IF IdemRowAt(c) # NoRow /\ IdemRowAt(c).state = "pending"
               THEN [rows EXCEPT ![Key(c)] = NoRow] ELSE rows
    /\ calls' = [calls EXCEPT ![c] = AtRest]
    /\ UNCHANGED <<nextNumber, Locks, History>>

Unlock(c) ==
    /\ keyLock' = [k \in IdemKeys |-> IF keyLock[k] = c THEN NoCall ELSE keyLock[k]]
    /\ numberLock' = IF numberLock = c THEN NoCall ELSE numberLock

\* The document, the receipt and the number are committed together.
CommitCall(c) ==
    /\ In(c, "work") /\ Tx(c)
    /\ written' = Documents(c)
    /\ nextNumber' = calls[c].number + 1
    /\ rows' = [rows EXCEPT ![Key(c)] =
         [ state |-> "done", digest |-> calls[c].digest, of |-> calls[c].digest, stale |-> FALSE ]]
    /\ Unlock(c)
    /\ calls' = [calls EXCEPT ![c] = AtRest]
    /\ UNCHANGED <<dropped, swept, replays, aged>>

\* The handler of a transaction throws or refuses, or the process of any call dies.
Ends(c) ==
    /\ calls[c] # AtRest
    /\ Unlock(c)
    /\ dropped' = DropsNumber(c)
    /\ calls' = [calls EXCEPT ![c] = AtRest]
    /\ UNCHANGED <<rows, nextNumber, written, swept, replays, aged>>

-----------------------------------------------------------------------------
\* created_at falls behind now() - staleMs.
Age(k) ==
    /\ rows[k] # NoRow /\ ~rows[k].stale
    /\ rows' = [rows EXCEPT ![k].stale = TRUE]
    /\ aged' = IF rows[k].state = "pending" THEN aged \union {k} ELSE aged
    /\ UNCHANGED <<nextNumber, calls, Locks, written, dropped, swept, replays>>

\* DELETE .. WHERE created_at < cutoff; some of the old rows are old enough.
SweepReceipt(k) ==
    /\ rows[k] # NoRow /\ rows[k].stale
    /\ rows' = [rows EXCEPT ![k] = NoRow]
    /\ swept' = [swept EXCEPT ![k] = IF k \in TxKeys THEN @ + 1 ELSE @]
    /\ UNCHANGED <<nextNumber, calls, Locks, written, dropped, replays, aged>>

CallNext ==
    \/ \E c \in FnCalls :
         \/ \E k \in IdemKeys, d \in Digests : StartCall(c, k, d)
         \/ Claim(c) \/ Look(c) \/ TakeOver(c) \/ AnswerStored(c)
         \/ ReadNext(c) \/ MoveNext(c) \/ WriteDocument(c) \/ Throw(c)
         \/ Completes(c) \/ ReleaseClaim(c) \/ CommitCall(c) \/ Ends(c)
    \/ \E k \in IdemKeys : Age(k)
    \/ \E k \in SweptKeys : SweepReceipt(k)

CallSpec == CallInit /\ [][CallNext]_callVars

-----------------------------------------------------------------------------
(* Properties *)

CallTypeOK ==
    /\ rows \in [IdemKeys -> IdemRow \union {NoRow}]
    /\ nextNumber \in 1 .. LastNumber + 1
    /\ calls \in [FnCalls -> CallState \union {AtRest}]
    /\ keyLock \in [IdemKeys -> FnCalls \union {NoCall}]
    /\ numberLock \in FnCalls \union {NoCall}
    /\ written \in [IdemKeys -> [Numbers -> Nat]]
    /\ dropped \subseteq Numbers
    /\ swept \in [IdemKeys -> Nat]
    /\ replays \subseteq [key : IdemKeys, asked : Digests, of : Digests]
    /\ aged \subseteq IdemKeys

Holds(c) == calls[c].step \in {"next", "move", "work", "wrote", "failed"}

\* A concurrent call does not run the work twice: until a claim of the key is old
\* enough to be abandoned, one call at a time is between its claim and its end, and
\* for a transactional function this holds whatever its age.
OneHolder ==
    \A c, d \in FnCalls :
      Holds(c) /\ Holds(d) /\ Key(c) = Key(d) /\ (Key(c) \in TxKeys \/ Key(c) \notin aged)
        => c = d

DocumentsOf(k) == Cardinality({ n \in Numbers : written[k][n] > 0 })
Receipts(k) == IF rows[k] # NoRow /\ rows[k].state = "done" THEN 1 ELSE 0

\* The handler and the receipt of a transactional function are one: each document
\* has its receipt, still there or swept, and no receipt stands without a document,
\* through crashes, refusals, retries and calls that wait for each other.
ReceiptPerDocument ==
    \A k \in TxKeys : DocumentsOf(k) = Receipts(k) + swept[k]

\* The document numbers are unique and gapless: below next each is on one document,
\* or was taken outside a transaction and is in a call's hands or was dropped by it.
InHand(n) == \E c \in FnCalls : calls[c].step = "work" /\ calls[c].number = n /\ ~Tx(c)

NumbersAccounted ==
    \A n \in Numbers :
      LET on == { k \in IdemKeys : written[k][n] > 0 }
      IN /\ \A k \in on : written[k][n] = 1
         /\ Cardinality(on) + (IF InHand(n) THEN 1 ELSE 0) + (IF n \in dropped THEN 1 ELSE 0)
              = (IF n < nextNumber THEN 1 ELSE 0)

\* A receipt replays the result of the request that asks for it (transactional).
ReceiptAnswersRequest ==
    \A r \in replays : r.key \in TxKeys => r.asked = r.of

\* What an idempotency key promises: one holder, a receipt for each document, and to each
\* request its own.
ReceiptsKept == OneHolder /\ ReceiptPerDocument /\ ReceiptAnswersRequest

\* What calls under keys leave behind: receipts and document numbers that agree.
CallsKept == ReceiptsKept /\ NumbersAccounted

\* docs/functions.md: "reusing a key with different arguments receives
\* E_IDEMPOTENCY_CONFLICT instead of replaying an unrelated result".
NeverAnUnrelatedResult ==
    \A r \in replays : r.asked = r.of
=============================================================================
