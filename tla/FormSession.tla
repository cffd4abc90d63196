---------------------------- MODULE FormSession ----------------------------
(***************************************************************************)
(* One editor's form over one record: createFormSession and the native     *)
(* controls attached to it (ketjs-view form-session.ts, form-dom.ts), the  *)
(* transport it posts through, and the idempotent, transactional form      *)
(* action that answers (server/form-action.ts).  Others edit the record.   *)
(*                                                                         *)
(* Any request may be late or lost, and any answer lost.  The application's*)
(* handler compares the revision it was given with the record's, may       *)
(* refuse what it likes, and otherwise writes the values.                  *)
(***************************************************************************)
EXTENDS FormContract, TLC

CONSTANTS
    FormRule,      \* the contract: an object rule
    Entries,       \* field -> what a user may enter
    FirstValues,   \* the values the record starts with
    OtherValues,   \* values another editor may give it
    MaxIntents, MaxRequests, MaxVersions

VARIABLES
    fsDraft, fsBase, fsRev,   \* values, baseline and revision
    fsStatus,
    fsAttempts,    \* every submission made: [values, expected, edited]; its number is its mutationId
    fsAttempt,     \* the unresolved one, 0 when there is none
    fsPending,     \* the number of the request awaited, 0 when none is
    fsRequests,    \* how many were made
    fsEdited,      \* the fields the user changed since the baseline was taken
    fsDisposed,
    fsWire,        \* requests the server may still get: <<number, attempt>>
    fsAnswer,      \* what the server answers to the request awaited
    fsRecord,      \* the record's versions: [values, by]
    fsReceipts,    \* attempt -> the answer kept with its commit
    fsRefused      \* attempts told there is a conflict

sessionVars == <<fsDraft, fsBase, fsRev, fsStatus, fsAttempt, fsPending, fsEdited, fsDisposed>>
sentVars == <<fsAttempts, fsRequests>>
serverVars == <<fsRecord, fsReceipts>>
fsVars == <<sessionVars, sentVars, fsWire, fsAnswer, serverVars, fsRefused>>

FormFields == DOMAIN FormRule.fields
Current == Len(fsRecord)
NoAnswer == [status |-> "none"]
Refusal(status) == [status |-> status]
Committed(values, revision) == [status |-> "committed", values |-> values, revision |-> revision]

Normal(draft) == Field(FormRule, Record(draft))
Same(draft) == IF Normal(draft).ok THEN Normal(draft).value ELSE Record(draft)
Dirty == Same(fsDraft) # Same(fsBase)
Locked == fsStatus \in {"submitting", "unknown"}
CanEdit == ~fsDisposed /\ ~Locked

-----------------------------------------------------------------------------
(* The editor.                                                             *)

\* What the native controls hold: nothing reads as the empty text.
Shown(draft) == [f \in FormFields |-> IF draft[f] = Null THEN EmptyText ELSE draft[f]]

\* A change of one control is read with all the others.
FsInput(f, raw) ==
    LET draft == [Shown(fsDraft) EXCEPT ![f] = raw] IN
    /\ CanEdit /\ draft # fsDraft
    /\ fsDraft' = draft
    /\ fsStatus' = "idle" /\ fsEdited' = fsEdited \union {f}
    /\ UNCHANGED <<fsBase, fsRev, fsAttempt, fsPending, fsDisposed, sentVars, fsWire, fsAnswer, serverVars, fsRefused>>

Take(values, revision) ==
    /\ fsBase' = values /\ fsDraft' = values /\ fsRev' = revision
    /\ fsEdited' = {}

Reset(values, revision) ==
    /\ CanEdit
    /\ Take(values, revision)
    /\ fsStatus' = "idle" /\ fsAttempt' = 0
    /\ UNCHANGED <<fsPending, fsDisposed, sentVars, fsWire, fsAnswer, serverVars, fsRefused>>

FsReset == Reset(fsBase, fsRev)
\* The application loads a version, perhaps not the last: over the draft, or when there is none.
FsRenew(k) == fsStatus = "conflict" /\ Reset(fsRecord[k].values, k)
FsReceive(k) == ~Dirty /\ Reset(fsRecord[k].values, k)

Send(attempt) ==
    /\ fsRequests < MaxRequests
    /\ fsRequests' = fsRequests + 1
    /\ fsPending' = fsRequests + 1 /\ fsStatus' = "submitting"
    /\ fsWire' = fsWire \union {<<fsRequests + 1, attempt>>}

Attempt(values) == [values |-> values, expected |-> fsRev, edited |-> fsEdited]

\* An unresolved attempt is sent again as it is.
FsSubmit ==
    LET draft == IF Locked THEN fsDraft ELSE Shown(fsDraft)
        checked == Normal(draft)
    IN
    /\ fsPending = 0 /\ ~fsDisposed
    /\ fsDraft' = draft
    /\ \/ /\ fsAttempt # 0 /\ Send(fsAttempt)
          /\ UNCHANGED <<fsAttempts, fsAttempt>>
       \/ /\ fsAttempt = 0 /\ checked.ok /\ Len(fsAttempts) < MaxIntents
          /\ fsAttempts' = Append(fsAttempts, Attempt(checked.value.fields))
          /\ fsAttempt' = Len(fsAttempts) + 1
          /\ Send(fsAttempt')
       \/ /\ fsAttempt = 0 /\ ~checked.ok
          /\ fsStatus' = "invalid"
          /\ UNCHANGED <<fsAttempt, fsPending, fsWire, sentVars>>
    /\ UNCHANGED <<fsBase, fsRev, fsEdited, fsDisposed, fsAnswer, serverVars, fsRefused>>

\* The answer to the request awaited.
FsSettle ==
    /\ fsPending # 0 /\ fsAnswer # NoAnswer /\ ~fsDisposed
    /\ fsPending' = 0 /\ fsAnswer' = NoAnswer
    /\ fsStatus' = fsAnswer.status
    /\ fsAttempt' = 0
    /\ IF fsAnswer.status = "committed" THEN Take(fsAnswer.values, fsAnswer.revision)
       ELSE UNCHANGED <<fsDraft, fsBase, fsRev, fsEdited>>
    /\ fsRefused' = IF fsAnswer.status = "conflict" THEN fsRefused \union {fsAttempt} ELSE fsRefused
    /\ UNCHANGED <<fsDisposed, sentVars, fsWire, serverVars>>

\* A request or its answer is lost, refused by something in between, or malformed: the
\* write may have committed, and the intent is kept.
FsFail ==
    /\ fsPending # 0 /\ ~fsDisposed
    /\ fsPending' = 0 /\ fsAnswer' = NoAnswer /\ fsStatus' = "unknown"
    /\ UNCHANGED <<fsDraft, fsBase, fsRev, fsAttempt, fsEdited, fsDisposed, sentVars, fsWire, serverVars, fsRefused>>

FsDispose ==
    /\ ~fsDisposed /\ fsDisposed' = TRUE
    /\ fsPending' = 0 /\ fsAnswer' = NoAnswer
    /\ UNCHANGED <<fsDraft, fsBase, fsRev, fsStatus, fsAttempt, fsEdited, sentVars, fsWire, serverVars, fsRefused>>

-----------------------------------------------------------------------------
(* The server: the action's transaction, its receipt with it.              *)

\* Mutant: a receipt is not looked for.
KeptNever(attempt) == FALSE
Kept(attempt) == attempt \in DOMAIN fsReceipts

Write(values, by) == fsRecord' = Append(fsRecord, [values |-> values, by |-> by])

FsServe(number, attempt) ==
    LET asked == fsAttempts[attempt]
        checked == Normal(asked.values)
        Reply(answer) == fsAnswer' = IF number = fsPending THEN answer ELSE fsAnswer
    IN
    /\ <<number, attempt>> \in fsWire
    /\ fsWire' = fsWire \ {<<number, attempt>>}
    /\ \/ /\ Kept(attempt) /\ Reply(fsReceipts[attempt])
          /\ UNCHANGED serverVars
       \/ /\ ~Kept(attempt) /\ Reply(Refusal("invalid"))   \* the contract's or the domain's
          /\ UNCHANGED serverVars
       \/ /\ ~Kept(attempt) /\ checked.ok /\ asked.expected # Current /\ Reply(Refusal("conflict"))
          /\ UNCHANGED serverVars
       \/ /\ ~Kept(attempt) /\ checked.ok /\ asked.expected = Current /\ Current < MaxVersions
          /\ LET answer == Committed(checked.value.fields, Current + 1) IN
             /\ Write(checked.value.fields, attempt)
             /\ fsReceipts' = fsReceipts @@ (attempt :> answer)
             /\ Reply(answer)
    /\ UNCHANGED <<sessionVars, sentVars, fsRefused>>

FsOther(values) ==
    /\ Current < MaxVersions
    /\ Write(values, 0)
    /\ UNCHANGED <<sessionVars, sentVars, fsWire, fsAnswer, fsReceipts, fsRefused>>
-----------------------------------------------------------------------------
FsInit ==
    /\ fsRecord = <<[values |-> FirstValues, by |-> 0]>>
    /\ fsBase = FirstValues /\ fsDraft = FirstValues /\ fsRev = 1
    /\ fsStatus = "idle" /\ fsAttempt = 0 /\ fsPending = 0
    /\ fsEdited = {} /\ fsDisposed = FALSE
    /\ fsAttempts = <<>> /\ fsRequests = 0
    /\ fsWire = {} /\ fsAnswer = NoAnswer
    /\ fsReceipts = <<>> /\ fsRefused = {}

FsNext ==
    \/ \E f \in FormFields : \E raw \in Entries[f] : FsInput(f, raw)
    \/ FsReset
    \/ \E k \in DOMAIN fsRecord : FsRenew(k) \/ FsReceive(k)
    \/ FsSubmit \/ FsSettle \/ FsFail \/ FsDispose
    \/ \E sent \in fsWire : FsServe(sent[1], sent[2])
    \/ \E values \in OtherValues : FsOther(values)

FsSpec == FsInit /\ [][FsNext]_fsVars

-----------------------------------------------------------------------------
FsTypeOK ==
    /\ fsStatus \in {"idle", "submitting", "invalid", "conflict", "unknown", "committed"}
    /\ fsAttempt \in 0..Len(fsAttempts) /\ fsPending \in 0..fsRequests
    /\ fsEdited \subseteq FormFields /\ DOMAIN fsReceipts \subseteq DOMAIN fsAttempts

\* An attempt reaches the record at most once, over the version it was made from and no
\* other, and what was told as a conflict never does.
AppliedOnce ==
    /\ \A k, l \in DOMAIN fsRecord : fsRecord[k].by = fsRecord[l].by /\ fsRecord[k].by # 0 => k = l
    /\ \A k \in DOMAIN fsRecord : LET by == fsRecord[k].by IN
         by # 0 => fsAttempts[by].expected = k - 1 /\ fsAttempts[by].values = fsRecord[k].values /\ by \notin fsRefused

\* While an attempt is unresolved the draft is what it says and cannot be changed; and the
\* baseline is a version the record had.
IntentIsHeld ==
    /\ Locked <=> fsAttempt # 0
    /\ fsAttempt # 0 => /\ Normal(fsDraft) = Ok(Record(fsAttempts[fsAttempt].values))
                        /\ fsAttempts[fsAttempt].expected = fsRev
    /\ fsRecord[fsRev].values = fsBase
    /\ fsStatus = "committed" => ~Dirty /\ fsRecord[fsRev].by # 0

\* What is submitted says of a field the user never touched what the version it was made
\* from says.
UntouchedIsKept ==
    \A i \in DOMAIN fsAttempts : LET sent == fsAttempts[i] IN
        \A f \in FormFields \ sent.edited : sent.values[f] = fsRecord[sent.expected].values[f]

FormKept == AppliedOnce /\ IntentIsHeld /\ UntouchedIsKept
=============================================================================
